--------------------------------- MODULE Hub ---------------------------------
(***************************************************************************)
(* The WebSocket fan-out (internal/api/ws.go, Server.Broadcast in          *)
(* internal/api/server.go) and the OnUpdate callback that feeds it         *)
(* (cmd/qi-index/main.go).                                                 *)
(*                                                                         *)
(* The indexer's goroutine calls OnUpdate after every commit.  Each client *)
(* has a reader and a writer goroutine; the hub's map of clients is        *)
(* guarded by an RWMutex that Broadcast holds for reading over its loop.   *)
(* The network is external: a connection may break at any time.            *)
(***************************************************************************)
EXTENDS Integers, Sequences, SequencesExt, FiniteSets

CONSTANTS
    Client,      \* connections, each made once
    BufCap,      \* capacity of wsClient.send (64)
    MaxHeight,   \* bound: height of the last block
    MaxApply     \* bound: blocks in one update

ASSUME BufCapAssumption == BufCap \in Nat \ {0}

ASSUME HubBoundsAssumption == MaxHeight \in Nat /\ MaxApply \in Nat \ {0}

VARIABLES
    height,      \* height of the last committed block
    payload,     \* what the running Broadcast sends, 0 when none runs
    waiting,     \* clients the running Broadcast has not reached yet
    clients,     \* Hub.clients
    conn,        \* Client -> "new", "open" or "closed"
    reader,      \* Client -> where ServeHTTP and readPump are
    writer,      \* Client -> "none", "run" or "done" (writePump)
    send,        \* Client -> wsClient.send
    received,    \* Client -> payloads written to the connection
    updates,     \* Client -> <<first, last>> height of each update broadcast
                 \* since it was registered (history)
    dropped      \* clients some payload was not queued for (history)

hubvars == <<height, payload, waiting, clients, conn, reader, writer, send, received,
             updates, dropped>>
peers == <<conn, reader, writer, send, received>>

HubTypeOK ==
    /\ height \in 0..MaxHeight /\ payload \in 0..MaxHeight
    /\ waiting \subseteq Client /\ clients \subseteq Client /\ dropped \subseteq Client
    /\ conn \in [Client -> {"new", "open", "closed"}]
    /\ reader \in [Client -> {"none", "add", "read", "remove", "done"}]
    /\ writer \in [Client -> {"none", "run", "done"}]
    /\ send \in [Client -> Seq(1..MaxHeight)] /\ \A c \in Client : Len(send[c]) <= BufCap
    /\ received \in [Client -> Seq(1..MaxHeight)]
    /\ updates \in [Client -> SUBSET ((1..MaxHeight) \X (1..MaxHeight))]

Init ==
    /\ height = 0 /\ payload = 0
    /\ waiting = {} /\ clients = {} /\ dropped = {}
    /\ conn = [c \in Client |-> "new"]
    /\ reader = [c \in Client |-> "none"]
    /\ writer = [c \in Client |-> "none"]
    /\ send = [c \in Client |-> <<>>]
    /\ received = [c \in Client |-> <<>>]
    /\ updates = [c \in Client |-> {}]

-----------------------------------------------------------------------------
(* The indexer's goroutine.                                                *)

Broadcasting == payload # 0

\* Mutant: the events of the update's first block are pushed.
OnUpdateFirst(n) ==
    /\ ~Broadcasting
    /\ height + n <= MaxHeight
    /\ height' = height + n
    /\ payload' = height + 1
    /\ waiting' = clients
    /\ updates' = [c \in Client |->
                      IF c \in clients THEN updates[c] \cup {<<height + 1, height + n>>}
                      ELSE updates[c]]
    /\ UNCHANGED <<clients, dropped, peers>>

\* An update of n blocks has committed; OnUpdate reads the events of its last
\* block and Broadcast takes the read lock.
OnUpdate(n) ==
    /\ ~Broadcasting
    /\ height + n <= MaxHeight
    /\ height' = height + n
    /\ payload' = height + n
    /\ waiting' = clients
    /\ updates' = [c \in Client |->
                      IF c \in clients THEN updates[c] \cup {<<height + 1, height + n>>}
                      ELSE updates[c]]
    /\ UNCHANGED <<clients, dropped, peers>>

\* The events of the update's last block cannot be read back: nothing is sent.
OnUpdateFails(n) ==
    /\ ~Broadcasting
    /\ height + n <= MaxHeight
    /\ height' = height + n
    /\ UNCHANGED <<payload, waiting, clients, peers, updates, dropped>>

\* Mutant: the send has no default case and waits for room.
SendBlocking(c) ==
    /\ c \in waiting
    /\ Len(send[c]) < BufCap
    /\ waiting' = waiting \ {c}
    /\ send' = [send EXCEPT ![c] = Append(@, payload)]
    /\ UNCHANGED <<height, payload, clients, conn, reader, writer, received, updates, dropped>>

\* One iteration of Broadcast's loop: the send never blocks.
SendOrSkip(c) ==
    /\ c \in waiting
    /\ waiting' = waiting \ {c}
    /\ IF Len(send[c]) < BufCap
       THEN /\ send' = [send EXCEPT ![c] = Append(@, payload)]
            /\ UNCHANGED dropped
       ELSE /\ dropped' = dropped \cup {c}
            /\ UNCHANGED send
    /\ UNCHANGED <<height, payload, clients, conn, reader, writer, received, updates>>

BroadcastReturns ==
    /\ Broadcasting /\ waiting = {}
    /\ payload' = 0
    /\ UNCHANGED <<height, waiting, clients, peers, updates, dropped>>

-----------------------------------------------------------------------------
(* A client: ServeHTTP, readPump and writePump.                            *)

Upgrade(c) ==
    /\ conn[c] = "new"
    /\ conn' = [conn EXCEPT ![c] = "open"]
    /\ reader' = [reader EXCEPT ![c] = "add"]
    /\ UNCHANGED <<height, payload, waiting, clients, writer, send, received, updates, dropped>>

\* hub.add waits for the write lock; then both pumps start.
HubAdd(c) ==
    /\ reader[c] = "add"
    /\ ~Broadcasting
    /\ clients' = clients \cup {c}
    /\ reader' = [reader EXCEPT ![c] = "read"]
    /\ writer' = [writer EXCEPT ![c] = "run"]
    /\ UNCHANGED <<height, payload, waiting, conn, send, received, updates, dropped>>

\* The peer goes away, or answers no ping within pongWait.
Disconnect(c) ==
    /\ conn[c] = "open"
    /\ conn' = [conn EXCEPT ![c] = "closed"]
    /\ UNCHANGED <<height, payload, waiting, clients, reader, writer, send, received,
                   updates, dropped>>

\* ReadMessage fails; readPump's deferred function runs.
ReadFails(c) ==
    /\ reader[c] = "read" /\ conn[c] = "closed"
    /\ reader' = [reader EXCEPT ![c] = "remove"]
    /\ UNCHANGED <<height, payload, waiting, clients, conn, writer, send, received,
                   updates, dropped>>

\* Mutant: the client is deleted without the write lock.
HubRemoveUnlocked(c) ==
    /\ reader[c] = "remove"
    /\ clients' = clients \ {c}
    /\ reader' = [reader EXCEPT ![c] = "done"]
    /\ UNCHANGED <<height, payload, waiting, conn, writer, send, received, updates, dropped>>

\* hub.remove waits for the write lock; then the connection is closed.
HubRemove(c) ==
    /\ reader[c] = "remove"
    /\ ~Broadcasting
    /\ clients' = clients \ {c}
    /\ reader' = [reader EXCEPT ![c] = "done"]
    /\ UNCHANGED <<height, payload, waiting, conn, writer, send, received, updates, dropped>>

\* writePump takes a payload from send and writes it.  Until readPump closes
\* it, the socket of a peer that is gone may still take a write.
WriteMessage(c) ==
    /\ writer[c] = "run" /\ reader[c] # "done"
    /\ send[c] # <<>>
    /\ send' = [send EXCEPT ![c] = Tail(@)]
    /\ received' = [received EXCEPT ![c] = Append(@, Head(send[c]))]
    /\ UNCHANGED <<height, payload, waiting, clients, conn, reader, writer, updates, dropped>>

\* A write misses its deadline: writePump returns and closes the connection.
\* What it took from send is lost.
WriteFails(c) ==
    /\ writer[c] = "run"
    /\ send[c] # <<>>
    /\ send' = [send EXCEPT ![c] = Tail(@)]
    /\ writer' = [writer EXCEPT ![c] = "done"]
    /\ conn' = [conn EXCEPT ![c] = "closed"]
    /\ UNCHANGED <<height, payload, waiting, clients, reader, received, updates, dropped>>

\* Mutant: a failed ping does not end writePump.
PingIgnored(c) ==
    /\ writer[c] = "run" /\ conn[c] = "closed"
    /\ UNCHANGED hubvars

\* The ping ticker fires on a closed connection (on an open one, nothing to
\* see happens).
PingFails(c) ==
    /\ writer[c] = "run" /\ conn[c] = "closed"
    /\ writer' = [writer EXCEPT ![c] = "done"]
    /\ UNCHANGED <<height, payload, waiting, clients, conn, reader, send, received,
                   updates, dropped>>

-----------------------------------------------------------------------------
Next ==
    \/ \E n \in 1..MaxApply : OnUpdate(n) \/ OnUpdateFails(n)
    \/ BroadcastReturns
    \/ \E c \in Client : \/ SendOrSkip(c) \/ Upgrade(c) \/ HubAdd(c) \/ Disconnect(c)
                         \/ ReadFails(c) \/ HubRemove(c)
                         \/ WriteMessage(c) \/ WriteFails(c) \/ PingFails(c)

Spec == Init /\ [][Next]_hubvars

(***************************************************************************)
(* Goroutines are scheduled, the ping ticker fires and an open connection  *)
(* takes writes until it breaks.  A lock that is free again and again is   *)
(* granted: Go's RWMutex does not starve a writer.  Whether and when a     *)
(* connection breaks is left open.                                         *)
(***************************************************************************)
FairSpec ==
    /\ Spec
    /\ WF_hubvars(BroadcastReturns)
    /\ \A c \in Client : /\ WF_hubvars(SendOrSkip(c))
                         /\ SF_hubvars(HubAdd(c))
                         /\ WF_hubvars(ReadFails(c))
                         /\ SF_hubvars(HubRemove(c))
                         /\ WF_hubvars(WriteMessage(c))
                         /\ WF_hubvars(PingFails(c))

-----------------------------------------------------------------------------
(* The inductive invariant.                                                *)

\* What a client was handed so far: written to it, or queued for it.
Handed(c) == received[c] \o send[c]

Ascending(q) == \A i, j \in DOMAIN q : i < j => q[i] < q[j]

\* The heights the client is owed: the last block of each of its updates.
Owed(c) == {u[2] : u \in updates[c]}

BroadcastInv ==
    /\ waiting \subseteq clients
    /\ waiting # {} => Broadcasting
    /\ Broadcasting => payload = height

\* A connection that is not registered yet has no history.
FreshInv ==
    \A c \in Client :
        /\ conn[c] = "new" => reader[c] = "none"
        /\ reader[c] \in {"none", "add"} =>
               /\ c \notin clients \cup dropped
               /\ send[c] = <<>> /\ received[c] = <<>> /\ updates[c] = {}
        /\ \A u \in updates[c] : u[2] <= height

\* Between the steps of a Broadcast, a client it has not reached yet is owed
\* the payload under way and nothing else.
OwedInv ==
    \A c \in clients \ dropped :
        writer[c] = "run" =>
            /\ Ascending(Handed(c))
            /\ ToSet(Handed(c)) = Owed(c) \ (IF c \in waiting THEN {payload} ELSE {})
            /\ c \in waiting => payload \in Owed(c)

\* Broadcast only ever has registered clients left to reach, so it sends to
\* none that hub.remove has deleted; and at every point in it each client has
\* been handed what it is owed but for the payload it still waits for.
HubInv == HubTypeOK /\ BroadcastInv /\ FreshInv /\ OwedInv

-----------------------------------------------------------------------------
(* Properties.                                                             *)

\* A client that lost nothing to a full channel, and whose writer is alive,
\* has been handed exactly the last block of every update broadcast since it
\* was registered, each once and in the order of the commits, however
\* registration, Broadcast and the pumps interleave.
DeliveredExactly ==
    \A c \in Client :
        c \in clients \ dropped /\ ~Broadcasting /\ writer[c] = "run"
        => ToSet(Handed(c)) = Owed(c) /\ Ascending(Handed(c))

\* Broadcast returns: no client, however slow, holds up the indexer.
BroadcastEnds == Broadcasting ~> ~Broadcasting

\* A broken connection is unregistered and both its goroutines end, even
\* while broadcasts go on; writePump ends though nobody closes its channel.
BrokenClientsLeave ==
    \A c \in Client :
        conn[c] = "closed" ~> c \notin clients /\ reader[c] = "done" /\ writer[c] = "done"

\* "pushes ... after each block is indexed": a client that lost nothing is
\* sent the events of every block of the updates broadcast since it was
\* registered.
EveryBlockPushed ==
    \A c \in Client :
        c \in clients \ dropped /\ ~Broadcasting /\ writer[c] = "run"
        => \A u \in updates[c] : u[1]..u[2] \subseteq ToSet(Handed(c))

=============================================================================
