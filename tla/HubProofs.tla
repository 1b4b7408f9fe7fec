----------------------------- MODULE HubProofs -----------------------------
(***************************************************************************)
(* Proofs about the Hub module, for any number of clients, every channel   *)
(* capacity and updates of every size.                                     *)
(***************************************************************************)
EXTENDS Hub, SequenceTheorems, TLAPS

USE BufCapAssumption, HubBoundsAssumption

-----------------------------------------------------------------------------
(* Queues.                                                                 *)

\* Queueing a payload puts it at the end of what the client was handed.
LEMMA QueueAppends ==
    ASSUME NEW H, NEW r \in Seq(H), NEW s \in Seq(H), NEW p \in H
    PROVE  r \o Append(s, p) = Append(r \o s, p)
<1> DEFINE q == r \o Append(s, p)
           t == Append(r \o s, p)
<1>1. q \in Seq(H) /\ t \in Seq(H)
  OBVIOUS
<1>2. Len(q) = Len(r) + Len(s) + 1 /\ Len(t) = Len(r) + Len(s) + 1 /\ Len(r) \in Nat /\ Len(s) \in Nat
  OBVIOUS
<1>3. ASSUME NEW i \in 1..Len(q) PROVE q[i] = t[i]
  OBVIOUS
<1> QED BY <1>1, <1>2, <1>3, SeqEqual

\* Moving a payload from the channel to the connection changes nothing of it.
LEMMA WriteKeepsOrder ==
    ASSUME NEW H, NEW r \in Seq(H), NEW s \in Seq(H), s # <<>>
    PROVE  Append(r, Head(s)) \o Tail(s) = r \o s
<1> DEFINE q == Append(r, Head(s)) \o Tail(s)
           t == r \o s
<1>1. Head(s) \in H /\ Tail(s) \in Seq(H) /\ Len(s) \in Nat \ {0} /\ Len(r) \in Nat
  OBVIOUS
<1>2. Append(r, Head(s)) \in Seq(H) /\ Len(Append(r, Head(s))) = Len(r) + 1 /\ Len(Tail(s)) = Len(s) - 1
  BY <1>1
<1>3. q \in Seq(H) /\ t \in Seq(H) /\ Len(q) = Len(r) + Len(s) /\ Len(t) = Len(r) + Len(s)
  BY <1>1, <1>2
<1>4. ASSUME NEW i \in 1..Len(q) PROVE q[i] = t[i]
  <2>1. CASE i <= Len(r)
    BY <1>1, <1>2, <1>3, <2>1
  <2>2. CASE i = Len(r) + 1
    BY <1>1, <1>2, <1>3, <2>2
  <2>3. CASE i > Len(r) + 1
    <3>1. q[i] = Tail(s)[i - (Len(r) + 1)]
      BY <1>1, <1>2, <1>3, <2>3
    <3>2. Tail(s)[i - (Len(r) + 1)] = s[i - Len(r)]
      BY <1>1, <1>2, <1>3, <2>3
    <3>3. t[i] = s[i - Len(r)]
      BY <1>1, <1>3, <2>3
    <3> QED BY <3>1, <3>2, <3>3
  <2> QED BY <1>1, <1>3, <2>1, <2>2, <2>3
<1> QED BY <1>3, <1>4, SeqEqual

\* A payload above all earlier ones keeps the order.
LEMMA AppendAscends ==
    ASSUME NEW q \in Seq(Nat), Ascending(q), NEW p \in Nat, \A x \in ToSet(q) : x < p
    PROVE  Ascending(Append(q, p)) /\ ToSet(Append(q, p)) = ToSet(q) \cup {p}
<1> DEFINE t == Append(q, p)
<1>1. /\ Len(q) \in Nat /\ DOMAIN q = 1..Len(q) /\ DOMAIN t = 1..(Len(q) + 1)
      /\ \A i \in 1..Len(q) : t[i] = q[i] /\ q[i] \in Nat
      /\ t[Len(q) + 1] = p
  OBVIOUS
<1>2. ToSet(t) = ToSet(q) \cup {p}
  <2>1. DOMAIN t = DOMAIN q \cup {Len(q) + 1}
    BY <1>1
  <2> QED BY <1>1, <2>1 DEF ToSet
<1>3. ASSUME NEW i \in DOMAIN t, NEW j \in DOMAIN t, i < j
      PROVE  t[i] < t[j]
  <2>1. i \in DOMAIN q /\ t[i] = q[i] /\ q[i] \in ToSet(q)
    BY <1>1, <1>3 DEF ToSet
  <2>2. CASE j \in DOMAIN q
    BY <1>1, <1>3, <2>1, <2>2 DEF Ascending
  <2>3. CASE j = Len(q) + 1
    BY <1>1, <2>1, <2>3
  <2> QED BY <1>1, <2>2, <2>3
<1> QED BY <1>2, <1>3 DEF Ascending

-----------------------------------------------------------------------------
\* The invariant holds when the hub starts.
LEMMA HubInit == Init => HubInv
<1> SUFFICES ASSUME Init PROVE HubInv
  OBVIOUS
<1>1. <<>> \in Seq(1..MaxHeight) /\ Len(<<>>) = 0
  OBVIOUS
<1>2. HubTypeOK
  BY <1>1 DEF Init, HubTypeOK
<1> QED BY <1>2 DEF Init, HubInv, BroadcastInv, FreshInv, OwedInv, Broadcasting

\* Steps of a client's goroutines that hand over nothing.
LEMMA QuietStep ==
    ASSUME HubInv,
           UNCHANGED <<height, payload, waiting, send, received, updates, dropped>>,
           HubTypeOK',
           waiting \subseteq clients',
           \A c \in Client : conn'[c] = "new" => reader'[c] = "none",
           \A c \in Client : reader'[c] \in {"none", "add"} =>
               reader[c] \in {"none", "add"} /\ (c \in clients' => c \in clients),
           \A c \in clients' : writer'[c] = "run" =>
               \/ c \in clients /\ writer[c] = "run"
               \/ reader[c] \in {"none", "add"} /\ c \notin waiting
    PROVE  HubInv'
<1>1. BroadcastInv'
  BY DEF HubInv, BroadcastInv, Broadcasting
<1>2. FreshInv'
  BY DEF HubInv, FreshInv, HubTypeOK
<1>3. OwedInv'
  <2> SUFFICES ASSUME NEW c \in clients' \ dropped', writer'[c] = "run"
               PROVE  /\ Ascending(Handed(c)')
                      /\ ToSet(Handed(c)') = Owed(c)' \ (IF c \in waiting' THEN {payload'} ELSE {})
                      /\ c \in waiting' => payload' \in Owed(c)'
    BY DEF OwedInv
  <2>1. Handed(c)' = Handed(c) /\ Owed(c)' = Owed(c)
    BY DEF Handed, Owed
  <2>2. CASE c \in clients /\ writer[c] = "run"
    BY <2>1, <2>2 DEF HubInv, OwedInv
  <2>3. CASE reader[c] \in {"none", "add"} /\ c \notin waiting
    <3>1. c \in Client
      BY DEF HubTypeOK
    <3>2. send[c] = <<>> /\ received[c] = <<>> /\ updates[c] = {}
      BY <2>3, <3>1 DEF HubInv, FreshInv
    <3>3. Handed(c) = <<>> /\ Owed(c) = {}
      BY <3>2 DEF Handed, Owed
    <3>4. DOMAIN <<>> = {}
      OBVIOUS
    <3>5. Ascending(Handed(c)) /\ ToSet(Handed(c)) = {}
      BY <3>3, <3>4 DEF Ascending, ToSet
    <3> QED BY <2>1, <2>3, <3>3, <3>5
  <2> QED BY <2>2, <2>3
<1> QED BY <1>1, <1>2, <1>3 DEF HubInv

\* A commit whose events could be read back: every client is owed one more.
LEMMA UpdateKeepsInv ==
    ASSUME HubInv, NEW n \in 1..MaxApply, OnUpdate(n)
    PROVE  HubInv'
<1>1. /\ height \in 0..MaxHeight /\ n \in Nat \ {0} /\ height + n \in 1..MaxHeight
      /\ height + 1 \in 1..MaxHeight /\ height' = height + n /\ payload' = height + n
      /\ payload = 0 /\ waiting = {} /\ waiting' = clients
      /\ UNCHANGED <<clients, dropped, conn, reader, writer, send, received>>
  BY DEF HubInv, HubTypeOK, BroadcastInv, OnUpdate, Broadcasting, peers
<1>2. /\ updates' \in [Client -> SUBSET ((1..MaxHeight) \X (1..MaxHeight))]
      /\ \A c \in Client : updates'[c] = IF c \in clients
                                         THEN updates[c] \cup {<<height + 1, height + n>>}
                                         ELSE updates[c]
  <2>1. <<height + 1, height + n>> \in (1..MaxHeight) \X (1..MaxHeight)
    BY <1>1
  <2>2. updates \in [Client -> SUBSET ((1..MaxHeight) \X (1..MaxHeight))]
    BY DEF HubInv, HubTypeOK
  <2> HIDE DEF HubInv
  <2> QED BY <2>1, <2>2 DEF OnUpdate
<1>3. HubTypeOK'
  BY <1>1, <1>2 DEF HubInv, HubTypeOK
<1>4. BroadcastInv'
  BY <1>1 DEF BroadcastInv, Broadcasting
<1>5. FreshInv'
  <2> SUFFICES ASSUME NEW c \in Client
               PROVE  /\ conn'[c] = "new" => reader'[c] = "none"
                      /\ reader'[c] \in {"none", "add"} =>
                             /\ c \notin clients' \cup dropped'
                             /\ send'[c] = <<>> /\ received'[c] = <<>> /\ updates'[c] = {}
                      /\ \A u \in updates'[c] : u[2] <= height'
    BY DEF FreshInv
  <2>1. reader'[c] \in {"none", "add"} =>
            /\ c \notin clients' \cup dropped'
            /\ send'[c] = <<>> /\ received'[c] = <<>> /\ updates'[c] = {}
    BY <1>1, <1>2 DEF HubInv, FreshInv
  <2>2. ASSUME NEW u \in updates'[c] PROVE u[2] <= height'
    <3>1. CASE u \in updates[c]
      <4>1. u[2] <= height /\ u[2] \in 1..MaxHeight
        BY <3>1 DEF HubInv, FreshInv, HubTypeOK
      <4> QED BY <1>1, <4>1
    <3>2. CASE u = <<height + 1, height + n>>
      BY <1>1, <3>2
    <3> QED BY <1>2, <3>1, <3>2
  <2>3. conn'[c] = "new" => reader'[c] = "none"
    BY <1>1 DEF HubInv, FreshInv
  <2> QED BY <2>1, <2>2, <2>3
<1>6. OwedInv'
  <2> SUFFICES ASSUME NEW c \in clients \ dropped, writer[c] = "run"
               PROVE  /\ Ascending(Handed(c)')
                      /\ ToSet(Handed(c)') = Owed(c)' \ {payload'}
                      /\ payload' \in Owed(c)'
    BY <1>1 DEF OwedInv
  <2>1. c \in Client /\ Handed(c)' = Handed(c)
    BY <1>1 DEF Handed, HubInv, HubTypeOK
  <2>2. Ascending(Handed(c)) /\ ToSet(Handed(c)) = Owed(c)
    BY <1>1 DEF HubInv, OwedInv
  <2>3. Owed(c)' = Owed(c) \cup {payload'}
    <3>1. updates'[c] = updates[c] \cup {<<height + 1, height + n>>}
      BY <1>2, <2>1
    <3>2. <<height + 1, height + n>>[2] = payload'
      BY <1>1
    <3> QED BY <3>1, <3>2 DEF Owed
  <2>4. payload' \notin Owed(c)
    <3>1. \A u \in updates[c] : u[2] <= height /\ u[2] \in 1..MaxHeight
      BY <2>1 DEF HubInv, FreshInv, HubTypeOK
    <3> QED BY <1>1, <3>1 DEF Owed
  <2> QED BY <2>1, <2>2, <2>3, <2>4
<1> QED BY <1>3, <1>4, <1>5, <1>6 DEF HubInv

\* A commit that is not broadcast.
LEMMA FailedUpdateKeepsInv ==
    ASSUME HubInv, NEW n \in 1..MaxApply, OnUpdateFails(n)
    PROVE  HubInv'
<1>1. /\ height \in 0..MaxHeight /\ height' \in 0..MaxHeight /\ height < height'
      /\ payload = 0
      /\ UNCHANGED <<payload, waiting, clients, dropped, conn, reader, writer, send, received, updates>>
  BY DEF HubInv, HubTypeOK, OnUpdateFails, Broadcasting, peers
<1>2. HubTypeOK' /\ BroadcastInv'
  BY <1>1 DEF HubInv, HubTypeOK, BroadcastInv, Broadcasting
<1>3. FreshInv'
  <2>1. ASSUME NEW c \in Client, NEW u \in updates[c]
        PROVE  u[2] <= height'
    <3>1. u[2] <= height /\ u[2] \in 1..MaxHeight
      BY DEF HubInv, FreshInv, HubTypeOK
    <3> QED BY <1>1, <3>1
  <2> QED BY <1>1, <2>1 DEF HubInv, FreshInv
<1>4. OwedInv'
  BY <1>1 DEF HubInv, OwedInv, Handed, Owed
<1> QED BY <1>2, <1>3, <1>4 DEF HubInv

\* One iteration of Broadcast: the client gets the payload or is marked.
LEMMA SendKeepsInv ==
    ASSUME HubInv, NEW c \in Client, SendOrSkip(c)
    PROVE  HubInv'
<1>1. /\ c \in waiting /\ c \in clients /\ waiting' = waiting \ {c}
      /\ payload \in 1..MaxHeight /\ payload = height /\ height \in Nat
      /\ UNCHANGED <<height, payload, clients, conn, reader, writer, received, updates>>
  BY DEF HubInv, HubTypeOK, BroadcastInv, SendOrSkip, Broadcasting
<1>2. /\ send \in [Client -> Seq(1..MaxHeight)] /\ received \in [Client -> Seq(1..MaxHeight)]
      /\ reader[c] \notin {"none", "add"}
  BY <1>1 DEF HubInv, HubTypeOK, FreshInv
<1>3. CASE Len(send[c]) < BufCap
  <2>1. send' = [send EXCEPT ![c] = Append(@, payload)] /\ dropped' = dropped
    BY <1>3 DEF SendOrSkip
  <2>2. send'[c] = Append(send[c], payload) /\ \A d \in Client \ {c} : send'[d] = send[d]
    BY <1>2, <2>1
  <2>3. Append(send[c], payload) \in Seq(1..MaxHeight) /\ Len(send'[c]) <= BufCap
    <3>1. Len(Append(send[c], payload)) = Len(send[c]) + 1 /\ Len(send[c]) \in Nat
      BY <1>1, <1>2
    <3> QED BY <1>1, <1>2, <1>3, <2>2, <3>1
  <2>4. HubTypeOK'
    <3>1. send' \in [Client -> Seq(1..MaxHeight)]
      BY <1>2, <2>1, <2>3
    <3>2. \A d \in Client : Len(send'[d]) <= BufCap
      BY <2>2, <2>3 DEF HubInv, HubTypeOK
    <3> QED BY <1>1, <2>1, <3>1, <3>2 DEF HubInv, HubTypeOK
  <2>5. BroadcastInv' /\ FreshInv'
    BY <1>1, <1>2, <2>1, <2>2 DEF HubInv, BroadcastInv, FreshInv, Broadcasting
  <2>6. ASSUME NEW d \in clients \ dropped, writer[d] = "run"
        PROVE  /\ Ascending(Handed(d)')
               /\ ToSet(Handed(d)') = Owed(d)' \ (IF d \in waiting' THEN {payload'} ELSE {})
               /\ d \in waiting' => payload' \in Owed(d)'
    <3>1. Owed(d)' = Owed(d) /\ d \in Client
      BY <1>1 DEF Owed, HubInv, HubTypeOK
    <3>2. CASE d # c
      <4>1. Handed(d)' = Handed(d) /\ (d \in waiting' <=> d \in waiting)
        BY <1>1, <2>2, <3>1, <3>2 DEF Handed
      <4> QED BY <1>1, <2>6, <3>1, <4>1 DEF HubInv, OwedInv
    <3>3. CASE d = c
      <4>1. Handed(c)' = Append(Handed(c), payload)
        BY <1>1, <1>2, <2>2, QueueAppends, SMTT(30) DEF Handed
      <4>2. Ascending(Handed(c)) /\ ToSet(Handed(c)) = Owed(c) \ {payload} /\ payload \in Owed(c)
        BY <1>1, <2>6, <3>3 DEF HubInv, OwedInv
      <4>3. Handed(c) \in Seq(Nat)
        BY <1>2 DEF Handed
      <4>4. \A x \in Owed(c) \ {payload} : x < payload
        <5>1. \A u \in updates[c] : u[2] <= height /\ u[2] \in 1..MaxHeight
          BY DEF HubInv, FreshInv, HubTypeOK
        <5> QED BY <1>1, <5>1 DEF Owed
      <4>5. Ascending(Append(Handed(c), payload))
            /\ ToSet(Append(Handed(c), payload)) = ToSet(Handed(c)) \cup {payload}
        BY <1>1, <4>2, <4>3, <4>4, AppendAscends
      <4> QED BY <1>1, <3>1, <3>3, <4>1, <4>2, <4>5
    <3> QED BY <3>2, <3>3
  <2> QED BY <1>1, <2>1, <2>4, <2>5, <2>6 DEF HubInv, OwedInv
<1>4. CASE ~(Len(send[c]) < BufCap)
  <2>1. dropped' = dropped \cup {c} /\ send' = send
    BY <1>4 DEF SendOrSkip
  <2>2. HubTypeOK'
    BY <1>1, <2>1 DEF HubInv, HubTypeOK
  <2>3. BroadcastInv' /\ FreshInv'
    BY <1>1, <1>2, <2>1 DEF HubInv, BroadcastInv, FreshInv, Broadcasting
  <2>4. OwedInv'
    BY <1>1, <2>1 DEF HubInv, OwedInv, Handed, Owed
  <2> QED BY <2>2, <2>3, <2>4 DEF HubInv
<1> QED BY <1>3, <1>4

\* writePump passes on what it takes, or ends.
LEMMA WriteKeepsInv ==
    ASSUME HubInv, NEW c \in Client, WriteMessage(c) \/ WriteFails(c)
    PROVE  HubInv'
<1>1. /\ send[c] # <<>> /\ send' = [send EXCEPT ![c] = Tail(@)]
      /\ UNCHANGED <<height, payload, waiting, clients, reader, updates, dropped>>
  BY DEF WriteMessage, WriteFails
<1>2. /\ send \in [Client -> Seq(1..MaxHeight)] /\ received \in [Client -> Seq(1..MaxHeight)]
      /\ Len(send[c]) <= BufCap /\ reader[c] \notin {"none", "add"}
  BY <1>1 DEF HubInv, HubTypeOK, FreshInv
<1>3. /\ send'[c] = Tail(send[c]) /\ Tail(send[c]) \in Seq(1..MaxHeight) /\ Len(send'[c]) <= BufCap
      /\ Head(send[c]) \in 1..MaxHeight
      /\ \A d \in Client \ {c} : send'[d] = send[d]
  <2>1. Len(Tail(send[c])) = Len(send[c]) - 1 /\ Len(send[c]) \in Nat /\ Tail(send[c]) \in Seq(1..MaxHeight)
        /\ Head(send[c]) \in 1..MaxHeight
    BY <1>1, <1>2
  <2> QED BY <1>1, <1>2, <2>1
<1>4. send' \in [Client -> Seq(1..MaxHeight)] /\ \A d \in Client : Len(send'[d]) <= BufCap
  BY <1>1, <1>2, <1>3 DEF HubInv, HubTypeOK
<1>5. CASE WriteMessage(c)
  <2>1. /\ received' = [received EXCEPT ![c] = Append(@, Head(send[c]))]
        /\ UNCHANGED <<conn, writer>>
    BY <1>5 DEF WriteMessage
  <2>2. received' \in [Client -> Seq(1..MaxHeight)] /\ received'[c] = Append(received[c], Head(send[c]))
        /\ \A d \in Client \ {c} : received'[d] = received[d]
    BY <1>2, <1>3, <2>1
  <2>3. HubTypeOK'
    BY <1>1, <1>4, <2>1, <2>2 DEF HubInv, HubTypeOK
  <2>4. BroadcastInv' /\ FreshInv'
    <3>1. BroadcastInv'
      BY <1>1 DEF HubInv, BroadcastInv, Broadcasting
    <3>2. FreshInv'
      BY <1>1, <1>2, <1>3, <2>1, <2>2 DEF HubInv, FreshInv
    <3> QED BY <3>1, <3>2
  <2>5. \A d \in Client : Handed(d)' = Handed(d) /\ Owed(d)' = Owed(d)
    <3>1. Handed(c)' = Handed(c)
      <4>1. received[c] \in Seq(1..MaxHeight) /\ send[c] \in Seq(1..MaxHeight)
        BY <1>2
      <4>2. Append(received[c], Head(send[c])) \o Tail(send[c]) = received[c] \o send[c]
        BY <1>1, <4>1, WriteKeepsOrder
      <4> QED BY <1>3, <2>2, <4>2 DEF Handed
    <3> QED BY <1>1, <1>3, <2>2, <3>1 DEF Handed, Owed
  <2>6. OwedInv'
    BY <1>1, <2>1, <2>5 DEF HubInv, OwedInv, HubTypeOK
  <2> QED BY <2>3, <2>4, <2>6 DEF HubInv
<1>6. CASE WriteFails(c)
  <2>1. /\ writer \in [Client -> {"none", "run", "done"}]
        /\ conn \in [Client -> {"new", "open", "closed"}]
        /\ writer' = [writer EXCEPT ![c] = "done"] /\ conn' = [conn EXCEPT ![c] = "closed"]
        /\ received' = received
    BY <1>6 DEF WriteFails, HubInv, HubTypeOK
  <2>2. HubTypeOK'
    BY <1>1, <1>4, <2>1 DEF HubInv, HubTypeOK
  <2>3. BroadcastInv' /\ FreshInv'
    BY <1>1, <1>2, <1>3, <2>1 DEF HubInv, BroadcastInv, FreshInv, Broadcasting
  <2>4. OwedInv'
    <3>1. ASSUME NEW d \in clients \ dropped, writer'[d] = "run"
          PROVE  d # c /\ writer[d] = "run" /\ Handed(d)' = Handed(d) /\ Owed(d)' = Owed(d)
      BY <1>1, <1>3, <2>1, <3>1 DEF Handed, Owed, HubInv, HubTypeOK
    <3> QED BY <1>1, <3>1 DEF HubInv, OwedInv
  <2> QED BY <2>2, <2>3, <2>4 DEF HubInv
<1> QED BY <1>5, <1>6

\* Every step keeps the invariant.
LEMMA HubNext == HubInv /\ [Next]_hubvars => HubInv'
<1> SUFFICES ASSUME HubInv, [Next]_hubvars PROVE HubInv'
  OBVIOUS
<1>1. ASSUME NEW n \in 1..MaxApply, OnUpdate(n) \/ OnUpdateFails(n)
      PROVE  HubInv'
  BY <1>1, UpdateKeepsInv, FailedUpdateKeepsInv
<1>2. CASE BroadcastReturns
  <2>1. payload' = 0 /\ waiting = {}
        /\ UNCHANGED <<height, waiting, clients, dropped, conn, reader, writer, send, received, updates>>
    BY <1>2 DEF BroadcastReturns, peers
  <2>2. HubTypeOK' /\ BroadcastInv' /\ FreshInv'
    BY <2>1 DEF HubInv, HubTypeOK, BroadcastInv, FreshInv, Broadcasting
  <2>3. OwedInv'
    BY <2>1 DEF HubInv, OwedInv, Handed, Owed
  <2> QED BY <2>2, <2>3 DEF HubInv
<1>3. ASSUME NEW c \in Client, SendOrSkip(c) \/ WriteMessage(c) \/ WriteFails(c)
      PROVE  HubInv'
  BY <1>3, SendKeepsInv, WriteKeepsInv
<1>4. ASSUME NEW c \in Client, Upgrade(c) \/ Disconnect(c) \/ ReadFails(c) \/ PingFails(c)
      PROVE  HubInv'
  <2>1. UNCHANGED <<height, payload, waiting, clients, send, received, updates, dropped>>
    BY <1>4 DEF Upgrade, Disconnect, ReadFails, PingFails
  <2>2. HubTypeOK'
    BY <1>4, <2>1 DEF Upgrade, Disconnect, ReadFails, PingFails, HubInv, HubTypeOK
  <2>3. \A d \in Client : reader'[d] \in {"none", "add"} => reader[d] \in {"none", "add"}
    <3>1. CASE Upgrade(c)
      BY <3>1 DEF Upgrade, HubInv, HubTypeOK, FreshInv
    <3>2. CASE Disconnect(c) \/ ReadFails(c) \/ PingFails(c)
      BY <3>2 DEF Disconnect, ReadFails, PingFails, HubInv, HubTypeOK
    <3> QED BY <1>4, <3>1, <3>2
  <2>4. \A d \in clients : writer'[d] = "run" => writer[d] = "run"
    BY <1>4 DEF Upgrade, Disconnect, ReadFails, PingFails, HubInv, HubTypeOK
  <2>5. waiting \subseteq clients'
    BY <2>1 DEF HubInv, BroadcastInv
  <2>6. \A d \in Client : conn'[d] = "new" => reader'[d] = "none"
    BY <1>4 DEF Upgrade, Disconnect, ReadFails, PingFails, HubInv, HubTypeOK, FreshInv
  <2> QED BY <2>1, <2>2, <2>3, <2>4, <2>5, <2>6, QuietStep
<1>5. ASSUME NEW c \in Client, HubAdd(c) \/ HubRemove(c)
      PROVE  HubInv'
  <2>1. /\ UNCHANGED <<height, payload, waiting, conn, send, received, updates, dropped>>
        /\ ~Broadcasting
        /\ clients' \subseteq Client
        /\ reader \in [Client -> {"none", "add", "read", "remove", "done"}]
        /\ writer \in [Client -> {"none", "run", "done"}]
    BY <1>5 DEF HubAdd, HubRemove, HubInv, HubTypeOK
  <2>2. waiting = {}
    BY <2>1 DEF HubInv, BroadcastInv
  <2>3. CASE HubAdd(c)
    <3>1. /\ reader[c] = "add" /\ clients' = clients \cup {c}
          /\ reader' = [reader EXCEPT ![c] = "read"] /\ writer' = [writer EXCEPT ![c] = "run"]
      BY <2>3 DEF HubAdd
    <3>2. HubTypeOK'
      BY <2>1, <3>1 DEF HubInv, HubTypeOK
    <3>3. \A d \in Client : reader'[d] \in {"none", "add"} =>
              reader[d] \in {"none", "add"} /\ (d \in clients' => d \in clients)
      BY <2>1, <3>1
    <3>4. \A d \in Client : conn'[d] = "new" => reader'[d] = "none"
      BY <2>1, <3>1 DEF HubInv, FreshInv
    <3>5. \A d \in clients' : writer'[d] = "run" =>
              \/ d \in clients /\ writer[d] = "run"
              \/ reader[d] \in {"none", "add"} /\ d \notin waiting
      BY <2>1, <2>2, <3>1
    <3> QED BY <2>1, <2>2, <3>2, <3>3, <3>4, <3>5, QuietStep
  <2>4. CASE HubRemove(c)
    <3>1. /\ reader[c] = "remove" /\ clients' = clients \ {c}
          /\ reader' = [reader EXCEPT ![c] = "done"] /\ writer' = writer
      BY <2>4 DEF HubRemove
    <3>2. HubTypeOK'
      BY <2>1, <3>1 DEF HubInv, HubTypeOK
    <3>3. \A d \in Client : reader'[d] \in {"none", "add"} =>
              reader[d] \in {"none", "add"} /\ (d \in clients' => d \in clients)
      BY <2>1, <3>1
    <3>4. \A d \in Client : conn'[d] = "new" => reader'[d] = "none"
      BY <2>1, <3>1 DEF HubInv, FreshInv
    <3> QED BY <2>1, <2>2, <3>1, <3>2, <3>3, <3>4, QuietStep
  <2> QED BY <1>5, <2>3, <2>4
<1>6. CASE UNCHANGED hubvars
  BY <1>6 DEF hubvars, HubInv, HubTypeOK, BroadcastInv, FreshInv, OwedInv, Handed, Owed, Broadcasting
<1> QED BY <1>1, <1>2, <1>3, <1>4, <1>5, <1>6 DEF Next

-----------------------------------------------------------------------------
(* Theorems.                                                               *)

\* HubInv holds between any two steps of Broadcast, hub.add, hub.remove and
\* the pumps.
THEOREM HubInductive == Spec => []HubInv
BY HubInit, HubNext, PTL DEF Spec

\* Every variable keeps its type; no channel holds more than its capacity.
THEOREM HubTypeCorrect == Spec => []HubTypeOK
<1>1. HubInv => HubTypeOK
  BY DEF HubInv
<1> QED BY <1>1, HubInductive, PTL

\* Whatever the number of clients and the size of their channels, a client
\* that lost nothing to a full channel has been handed the last block of each
\* update broadcast since hub.add, once each and in the order of the commits.
THEOREM Delivery == Spec => []DeliveredExactly
<1>1. HubInv => DeliveredExactly
  <2> SUFFICES ASSUME HubInv, NEW c \in Client, c \in clients \ dropped, ~Broadcasting,
                      writer[c] = "run"
               PROVE  ToSet(Handed(c)) = Owed(c) /\ Ascending(Handed(c))
    BY DEF DeliveredExactly
  <2>1. c \notin waiting
    BY DEF HubInv, BroadcastInv
  <2> QED BY <2>1 DEF HubInv, OwedInv
<1> QED BY <1>1, HubInductive, PTL

=============================================================================
