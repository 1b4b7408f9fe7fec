-------------------------------- MODULE Reads --------------------------------
(***************************************************************************)
(* The read API over the tables of Ledger: the queries of                  *)
(* internal/store/read.go behind the handlers of internal/api/handlers.go, *)
(* and the read that OnUpdate makes before it broadcasts                   *)
(* (cmd/qi-index/main.go).                                                 *)
(*                                                                         *)
(* An answer that needs several queries runs them one by one on the pool,  *)
(* outside any transaction: each sees what is committed when it runs.  A   *)
(* reader never sees an open transaction, so its steps are taken while     *)
(* none is open.                                                           *)
(***************************************************************************)
EXTENDS Ledger

CONSTANTS
    Owner,       \* the address each outpoint pays to
    Asked,       \* the requests clients make: kind and argument
    MaxCommits   \* bound: updates committed while one request is answered

ASSUME OwnerAssumption ==
    \A b \in Block : \A r \in Creates(b) : r.op \in DOMAIN Owner

ASSUME AskedAssumption ==
    \A q \in Asked : q.kind \in {"balance", "block", "tx", "stats", "utxo", "outpoints"}

ASSUME MaxCommitsAssumption == MaxCommits \in Nat

VARIABLES
    http,   \* the HTTP request being answered
    push    \* OnUpdate's GetBlockUTXOEvents

rvars == <<lvars, http, push>>

\* A request, the results it has collected, and everything that was committed
\* at some moment since it came (history).
Request(kind, arg) == [kind |-> kind, arg |-> arg, parts |-> <<>>, seen |-> {db}]
NoRequest == [kind |-> "none", arg |-> {}, parts |-> <<>>, seen |-> {}]

-----------------------------------------------------------------------------
(* The queries.  Each operator lists what the queries of one read return   *)
(* from database d, in the order the code runs them.                       *)

\* UTXO.State
State(r) ==
    IF r.trimmed # Null THEN "trimmed" ELSE IF r.spent # Null THEN "spent" ELSE "unspent"

RowsOf(d, A) == {r \in d.utxos : Owner[r.op] \in A}

\* Tip: the height the balance and the statistics use, 0 when there is none.
Tip(d) == IF d.tip = NoBlock THEN 0 ELSE Height[d.tip]

AddressBalance(d, a) ==
    <<{r \in RowsOf(d, {a}) : Live(r)}, {r \in RowsOf(d, {a}) : r.trimmed # Null}>>

\* handleAddressBalance reads the tip first.
TipAndBalance(d, a) ==
    LET balance == AddressBalance(d, a) IN <<Tip(d), balance[1], balance[2]>>

\* Mutant: the lock is compared the other way round at its own height.
SpendableStrict(balance) == {r \in balance[2] : r.lock = 0 \/ r.lock < balance[1]}

\* How GetAddressBalance divides the unspent rows.
Spendable(balance) == {r \in balance[2] : r.lock = 0 \/ r.lock <= balance[1]}

BlockUTXOEvents(d, h) ==
    <<{r \in d.utxos : r.created = h}, {r \in d.utxos : r.spent = h},
      {r \in d.utxos : r.trimmed = h}>>

\* GetTx answers "not found" when both parts are empty.
TxUTXOs(d, t) == <<{r \in d.utxos : r.op[1] = t}, {r \in d.utxos : r.spentTx = t}>>

\* The columns of GetStats' first query, its TotalValue (as the rows that are
\* added up), and Tip.  Row sets stand for their counts.
Stats(d) ==
    <<[total |-> d.utxos, unspent |-> {r \in d.utxos : Live(r)},
       spent |-> {r \in d.utxos : r.spent # Null},
       trimmed |-> {r \in d.utxos : r.trimmed # Null}],
      {r \in d.utxos : Live(r)}, Tip(d)>>

\* GetUTXO answers with the first of these rows.
OutpointRows(d, op) == <<{r \in d.utxos : r.op = op}>>

\* GetAddressUTXOs, and GetOutpointsByAddresses for several addresses.
Outpoints(d, A) == <<{r \in RowsOf(d, A) : Live(r)}>>

Queries(d, q) ==
    CASE q.kind = "balance"   -> TipAndBalance(d, q.arg)
      [] q.kind = "block"     -> BlockUTXOEvents(d, q.arg)
      [] q.kind = "tx"        -> TxUTXOs(d, q.arg)
      [] q.kind = "stats"     -> Stats(d)
      [] q.kind = "utxo"      -> OutpointRows(d, q.arg)
      [] q.kind = "outpoints" -> Outpoints(d, q.arg)

Answered(q) == q.kind # "none" /\ Len(q.parts) = Len(Queries(db, q))

\* The next query, on what is committed now.
RunQuery(q) == [q EXCEPT !.parts = Append(@, Queries(db, q)[Len(@) + 1])]

-----------------------------------------------------------------------------
(* The steps.                                                              *)

Ask ==
    /\ ~open /\ http = NoRequest
    /\ \E q \in Asked : http' = Request(q.kind, q.arg)
    /\ UNCHANGED <<lvars, push>>

Query ==
    /\ ~open /\ http # NoRequest /\ ~Answered(http)
    /\ http' = RunQuery(http)
    /\ UNCHANGED <<lvars, push>>

\* The answer is sent, or a query failed and the client gets an error.
Respond ==
    /\ ~open /\ http # NoRequest
    /\ http' = NoRequest
    /\ UNCHANGED <<lvars, push>>

\* OnUpdate runs on the indexer's goroutine, inside Ingest: the next update
\* begins after it.
PushQuery ==
    /\ push # NoRequest /\ ~Answered(push)
    /\ push' = RunQuery(push)
    /\ UNCHANGED <<lvars, http>>

\* The events are broadcast, or a query failed and the update is not pushed.
PushEnds ==
    /\ push # NoRequest
    /\ push' = NoRequest
    /\ UNCHANGED <<lvars, http>>

\* Mutant: OnUpdate runs on a goroutine of its own.
MayBeginAtOnce == Cardinality(http.seen) <= MaxCommits

MayBegin == push = NoRequest /\ Cardinality(http.seen) <= MaxCommits

\* The follower calls OnUpdate only when ApplyUpdate answered; the answer of
\* a commit may be lost.
CommitAndNotify ==
    /\ Commit
    /\ http' = IF http = NoRequest THEN http ELSE [http EXCEPT !.seen = @ \cup {work}]
    /\ push' \in {push,
                  [Request("block", Height[work.tip]) EXCEPT !.seen = {work}]}

ReadsInit == Init /\ http = NoRequest /\ push = NoRequest

ReadsNext ==
    \/ MayBegin /\ (\E s \in Branches : BeginBranch(s)) /\ UNCHANGED <<http, push>>
    \/ (Run \/ Abort) /\ UNCHANGED <<http, push>>
    \/ CommitAndNotify
    \/ Ask \/ Query \/ Respond \/ PushQuery \/ PushEnds

ReadsSpec == ReadsInit /\ [][ReadsNext]_rvars

-----------------------------------------------------------------------------
(* The inductive invariant.                                                *)

\* Blocks that stayed stored while the request was answered.
Stayed(q) == {b \in Block : \A d \in q.seen : b \in d.blocks}

\* What was committed since the request came, up to now: the tables of chains
\* that agree below every block they all have.
SeenInv(q, now) ==
    /\ now \in q.seen /\ IsFiniteSet(q.seen)
    /\ \A d \in q.seen :
           /\ IsDb(d) /\ IsChain(d.blocks, d.tip) /\ Holds(d, ChainStatements(d.blocks))
           /\ \A b \in Stayed(q) : UpTo(d.blocks, b) = UpTo(now.blocks, b)

\* Each part of the answer is what its query returned from one of these.
PartsInv(q) ==
    /\ Len(q.parts) \in Nat /\ q.parts = [i \in 1..Len(q.parts) |-> q.parts[i]]
    /\ \A i \in 1..Len(q.parts) : \E d \in q.seen : q.parts[i] = Queries(d, q)[i]

RequestInv(q, now) ==
    q # NoRequest =>
        /\ q = [kind |-> q.kind, arg |-> q.arg, parts |-> q.parts, seen |-> q.seen]
        /\ q.kind \in {"balance", "block", "tx", "stats", "utxo", "outpoints"}
        /\ SeenInv(q, now) /\ PartsInv(q)

\* Everything a request collects is from a chain that was committed while it
\* was answered, and OnUpdate's read from the one that was just committed:
\* no transaction is open until OnUpdate has returned.
ReadsInv ==
    /\ LedgerInv
    /\ RequestInv(http, db) /\ RequestInv(push, db)
    /\ push # NoRequest => ~open /\ push.kind = "block" /\ push.seen = {db}

-----------------------------------------------------------------------------
(* Properties.                                                             *)

Ops(R) == {r.op : r \in R}

Done(kind) == http.kind = kind /\ Answered(http)

\* What block b of chain C did, from the bodies of C's blocks alone.
EventsOf(b, C) ==
    LET made == UNION {Creates(c) : c \in UpTo(C, b)}
        spent == {r.op : r \in {s \in made : Spends(b, s.op)}}
        gone == {r.op : r \in {s \in made : \E c \in UpTo(C, b) : Spends(c, s.op)}}
        due == {r \in made : r.lock = 0 /\ r.deadline = Height[b]}
    IN <<Ops(Creates(b)), spent, Ops(due) \ gone>>

Exact(q, b) ==
    [i \in 1..3 |-> Ops(q.parts[i])] = EventsOf(b, OneOf(q.seen).blocks)

\* What is broadcast after an update is what its last block did: the
\* three queries of GetBlockUTXOEvents never mix two blocks of one height,
\* because nothing is committed until OnUpdate has returned.
PushedEventsExact ==
    push # NoRequest /\ Answered(push) =>
        \A b \in Stayed(push) : Height[b] = push.arg => Exact(push, b)

\* The same of GET /block/{height}/utxos, which does not hold updates up: its
\* answer is exact whenever the block of that height stays stored, and blocks
\* that come and go above it do not show.
BlockAnswerExact ==
    Done("block") => \A b \in Stayed(http) : Height[b] = http.arg => Exact(http, b)

\* GET /tx/{hash}: while the block that holds the transaction stays stored,
\* the answer has all its outputs and all its inputs of the Qi ledger.
TxAnswerComplete ==
    Done("tx") =>
        \A b \in Stayed(http) : \A t \in ToSet(Body[b]) :
            t.hash = http.arg =>
                LET made == UNION {Creates(c) : c \in Stayed(http)}
                IN /\ Ops(http.parts[1]) = {op \in Ops(Creates(b)) : op[1] = t.hash}
                   /\ Ops(http.parts[2]) =
                          IF t.kind = "qi" THEN Ops(made) \cap ToSet(t.ins) ELSE {}

\* GET /utxo/{hash}/{index} has one row to answer with, although the key of
\* the partitioned table is the outpoint and the height: a transaction that a
\* reorganisation moves to another height leaves no row behind.
OutpointUnique == Done("utxo") => Cardinality(http.parts[1]) <= 1

\* Every row is unspent, spent or trimmed and no two of them, so that the
\* buckets of a balance and of the statistics add up whenever no update was
\* committed between their queries; and a balance calls spendable what no
\* lock holds at the tip.
AccountsAddUp ==
    Cardinality(http.seen) = 1 =>
        /\ Done("balance") =>
               LET rows == RowsOf(db, {http.arg})
                   spent == {r \in rows : State(r) = "spent"}
               IN /\ rows \ (http.parts[2] \cup http.parts[3]) = spent
                  /\ \A r \in http.parts[2] :
                         r \in Spendable(http.parts) <=> \E b \in db.blocks : Height[b] >= r.lock
        /\ Done("stats") =>
               LET s == http.parts[1]
               IN /\ Cardinality(s.total) =
                         Cardinality(s.unspent) + Cardinality(s.spent) + Cardinality(s.trimmed)
                  /\ s.unspent = http.parts[2]
                  /\ \A r \in s.total : r.created <= http.parts[3]

=============================================================================
