------------------------------ MODULE History ------------------------------
(***************************************************************************)
(* Paging through an address's history: handleAddressHistory               *)
(* (internal/api/handlers.go) over Postgres.GetAddressHistory              *)
(* (internal/store/read.go).                                               *)
(*                                                                         *)
(* A page is one query, so it reads one committed state of the table; but  *)
(* the indexer commits updates and reorganisations between the pages a     *)
(* client asks for.  Only the rows of one address matter here, and of a    *)
(* row only its sort key (created_block, tx_hash, tx_index).               *)
(***************************************************************************)
EXTENDS Integers, Sequences, SequencesExt

CONSTANTS
    Rows,          \* rows [block, tx, index] some branch of the chain creates
    MaxHeight,     \* bound: height of the highest block
    Limits,        \* the values of the query parameter limit to try
    MaxLimit,      \* 200
    DefaultLimit   \* 50

ASSUME RowsAssumption ==
    /\ MaxHeight \in Nat
    /\ Rows \subseteq [block : 0..MaxHeight, tx : Nat, index : Nat]

ASSUME LimitsAssumption ==
    Limits \subseteq Int /\ MaxLimit \in Nat \ {0} /\ DefaultLimit \in 1..MaxLimit

VARIABLES
    table,     \* the address's rows of utxos
    tipHeight, \* height of the indexed tip
    session,   \* the client: "idle", "paging", "done", or "panic" (its request died)
    limit,     \* the limit it asks for
    before,    \* the cursor it sends, NoCursor on the first request
    got,       \* the rows of all its pages, in order
    stable     \* rows that were in the table all along (history)

hvars == <<table, tipHeight, session, limit, before, got, stable>>
client == <<session, limit, before, got>>

NoCursor == [block |-> -1, tx |-> -1, index |-> -1]

HistoryTypeOK ==
    /\ table \subseteq Rows /\ tipHeight \in 0..MaxHeight
    /\ session \in {"idle", "paging", "done", "panic"}
    /\ limit \in Limits
    /\ before \in Rows \cup {NoCursor}
    /\ got \in Seq(Rows) /\ stable \subseteq table

Init ==
    /\ table = {} /\ tipHeight = 0
    /\ session = "idle" /\ limit \in Limits
    /\ before = NoCursor /\ got = <<>> /\ stable = {}

\* The indexer commits an update: cut back to height k, then apply blocks up
\* to height n that create the rows new.
Update(k, n, new) ==
    /\ k <= tipHeight /\ n > k
    /\ table' = {r \in table : r.block <= k} \cup new
    /\ tipHeight' = n
    /\ stable' = {r \in stable : r.block <= k}
    /\ UNCHANGED client

-----------------------------------------------------------------------------
\* Mutant: two outputs of one transaction are not told apart.
PrecedesByTx(a, b) ==
    \/ a.block < b.block
    \/ a.block = b.block /\ a.tx < b.tx

\* Mutant: the cursor's own row is listed again.
PrecedesOrSame(a, b) ==
    \/ a.block < b.block
    \/ a.block = b.block /\ a.tx < b.tx
    \/ a.block = b.block /\ a.tx = b.tx /\ a.index <= b.index

\* The cursor condition of the query.
Precedes(a, b) ==
    \/ a.block < b.block
    \/ a.block = b.block /\ a.tx < b.tx
    \/ a.block = b.block /\ a.tx = b.tx /\ a.index < b.index

\* ORDER BY created_block DESC, tx_hash DESC, tx_index DESC
Newer(a, b) ==
    \/ a.block > b.block
    \/ a.block = b.block /\ a.tx > b.tx
    \/ a.block = b.block /\ a.tx = b.tx /\ a.index > b.index

\* GetAddressHistory replaces a limit it does not like.
QueryLimit == IF limit <= 0 \/ limit > MaxLimit THEN DefaultLimit ELSE limit

NewestFirst(page) == \A i, j \in DOMAIN page : i < j => Newer(page[i], page[j])

\* The answers of the query: matching rows, newest first, at most QueryLimit;
\* a matching row is left out only when LIMIT is reached and all of the page
\* is newer.  (There is exactly one: the sort key is the primary key.)
GetAddressHistory ==
    LET rows == {r \in table : before = NoCursor \/ Precedes(r, before)}
    IN {page \in SeqOf(rows, QueryLimit) :
           /\ NewestFirst(page)
           /\ \A r \in rows \ ToSet(page) :
                  Len(page) = QueryLimit /\ \A i \in DOMAIN page : Newer(page[i], r)}

\* The client's first request.
Open(l) ==
    /\ session # "paging"
    /\ session' = "paging"
    /\ limit' = l
    /\ before' = NoCursor
    /\ got' = <<>>
    /\ stable' = table
    /\ UNCHANGED <<table, tipHeight>>

\* The handler compares the page with the limit the client asked for.
HasNext(page) == Len(page) = limit

\* Mutant: every page comes with a cursor, an empty one with the cursor of
\* the request.
PageAlwaysCursor ==
    \E page \in GetAddressHistory :
        /\ session = "paging"
        /\ got' = got \o page
        /\ before' = IF page = <<>> THEN before ELSE page[Len(page)]
        /\ UNCHANGED <<session, table, tipHeight, limit, stable>>

\* One request: a full page comes with the cursor of its last row, any other
\* page ends the listing.
Page ==
    \E page \in GetAddressHistory :
        /\ session = "paging"
        /\ ~(HasNext(page) /\ page = <<>>)
        /\ got' = got \o page
        /\ IF HasNext(page)
           THEN before' = page[Len(page)] /\ UNCHANGED session
           ELSE session' = "done" /\ UNCHANGED before
        /\ UNCHANGED <<table, tipHeight, limit, stable>>

\* An empty page is "full" when limit is 0; the handler then indexes
\* utxos[-1] and net/http drops the request.
PagePanics ==
    \E page \in GetAddressHistory :
        /\ session = "paging"
        /\ HasNext(page) /\ page = <<>>
        /\ session' = "panic"
        /\ UNCHANGED <<table, tipHeight, limit, before, got, stable>>

Next ==
    \/ \E k \in 0..MaxHeight, n \in 1..MaxHeight :
          \E new \in SUBSET {r \in Rows : k < r.block /\ r.block <= n} : Update(k, n, new)
    \/ \E l \in Limits : Open(l)
    \/ Page
    \/ PagePanics

Spec == Init /\ [][Next]_hvars

\* The client keeps asking and the server answers.
FairSpec == Spec /\ WF_hvars(Page \/ PagePanics)

-----------------------------------------------------------------------------
(* The inductive invariant.                                                *)

\* The cursor is the last row listed.
CursorInv ==
    session = "paging" => before = IF got = <<>> THEN NoCursor ELSE got[Len(got)]

\* Of the rows that stay, those not listed yet are still ahead of the cursor.
AheadInv ==
    limit \in 1..MaxLimit =>
        /\ session = "paging" =>
               \A r \in stable \ ToSet(got) : got = <<>> \/ Precedes(r, before)
        /\ session = "done" => stable \subseteq ToSet(got)

\* Between any two pages of a listing, and whatever is committed or rolled
\* back there, the cursor of GetAddressHistory separates what was listed from
\* what is still to come.
HistoryInv == HistoryTypeOK /\ NewestFirst(got) /\ CursorInv /\ AheadInv

-----------------------------------------------------------------------------
(* Properties.                                                             *)

\* When the listing ends, every row that was in the table all along has been
\* listed (for a limit in the documented range), and the listing runs strictly
\* from newer to older, so no row comes twice, whatever was committed or
\* rolled back between two pages.
PagesCoverStableRows ==
    session = "done" =>
        /\ limit \in 1..MaxLimit => stable \subseteq ToSet(got)
        /\ NewestFirst(got)

\* The listing ends: each page moves the cursor down, so a chain that keeps
\* growing cannot keep a client paging for ever.
PagingEnds == session = "paging" ~> session # "paging"

\* "empty when no more results": a listing that ended has listed every row
\* that was in the table all along, for whatever limit the handler accepts.
EmptyCursorMeansEnd == session = "done" => stable \subseteq ToSet(got)

=============================================================================
