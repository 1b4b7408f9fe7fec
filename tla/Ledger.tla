------------------------------- MODULE Ledger -------------------------------
(***************************************************************************)
(* Postgres.ApplyUpdate (internal/store/postgres.go) by the one follower:  *)
(* a transaction that undoes the rolled back blocks, moves the spine,      *)
(* decodes the applied blocks and moves meta.tip.                          *)
(*                                                                         *)
(* The transaction works on its own view of the database, one statement at *)
(* a time.  Any statement may fail, and the process may die, between any   *)
(* two of them; then the view is dropped.  Everybody else reads db.        *)
(***************************************************************************)
EXTENDS Decoder

VARIABLES
    db,      \* what is committed: utxos, convs, blocks, tip
    work,    \* what the open transaction sees
    open,    \* a transaction is open
    update,  \* the update it applies: rollback and apply
    stage,   \* the stage, list and statement it runs next
    list,
    pos

lvars == <<db, work, open, update, stage, list, pos>>

NoUpdate == [rollback |-> <<>>, apply |-> <<>>]

Init ==
    /\ db = EmptyDb /\ work = EmptyDb /\ open = FALSE
    /\ update = NoUpdate /\ stage = 1 /\ list = 1 /\ pos = 1

\* The updates the follower sends: its first is a single block; a later one
\* stays within what is stored, keeps the block it forks from, and adds none
\* that is stored already.
FromFollower(rollback, apply) ==
    /\ apply \in Seq(Block)
    /\ rollback \in Seq(db.blocks)
    /\ ToSet(apply) \cap db.blocks = {}
    /\ IF db.tip = NoBlock THEN Len(apply) = 1 ELSE ParentHash[apply[1]] \in db.blocks

\* BeginFunc, the lock on meta.tip and the checks that the update connects.
Begin(rollback, apply) ==
    /\ FromFollower(rollback, apply)
    /\ Connects(db.tip, rollback, apply)
    /\ open' = TRUE
    /\ work' = db
    /\ update' = [rollback |-> rollback, apply |-> apply]
    /\ stage' = 1 /\ list' = 1 /\ pos' = 1
    /\ UNCHANGED db

\* The update the follower makes of a branch.
BeginBranch(apply) ==
    /\ ~open
    /\ db.tip # NoBlock => ParentHash[apply[1]] \in db.blocks
    /\ Begin(IF db.tip = NoBlock THEN <<>> ELSE RollbackTo(db.blocks, ParentHash[apply[1]]), apply)

Program == Stages(update.rollback, update.apply)

\* A statement runs; one that does not decode cannot.
RunStatement ==
    LET program == Program
    IN /\ open /\ stage \in DOMAIN program
       /\ list \in DOMAIN program[stage] /\ pos \in DOMAIN program[stage][list]
       /\ program[stage][list][pos].sql # "fail"
       /\ work' = Exec(work, program[stage][list][pos])
       /\ pos' = pos + 1
       /\ UNCHANGED <<db, open, update, stage, list>>

\* The loops: over the transactions of a block, and over the blocks.
NextList ==
    LET program == Program
    IN /\ open /\ stage \in DOMAIN program
       /\ list \in DOMAIN program[stage] /\ pos \notin DOMAIN program[stage][list]
       /\ list' = list + 1 /\ pos' = 1
       /\ UNCHANGED <<db, work, open, update, stage>>

NextStage ==
    LET program == Program
    IN /\ open /\ stage \in DOMAIN program /\ list \notin DOMAIN program[stage]
       /\ stage' = stage + 1 /\ list' = 1 /\ pos' = 1
       /\ UNCHANGED <<db, work, open, update>>

Run == RunStatement \/ NextList \/ NextStage

EndTransaction ==
    /\ work' = EmptyDb /\ open' = FALSE
    /\ update' = NoUpdate /\ stage' = 1 /\ list' = 1 /\ pos' = 1

Commit ==
    /\ open /\ stage \notin DOMAIN Program
    /\ db' = work
    /\ EndTransaction

\* A statement fails, a block does not decode, or the process dies.
Abort ==
    /\ open
    /\ EndTransaction
    /\ UNCHANGED db

Next == (\E s \in Branches : BeginBranch(s)) \/ Run \/ Commit \/ Abort

Spec == Init /\ [][Next]_lvars

-----------------------------------------------------------------------------
(* The inductive invariant: what the open transaction sees at each of its  *)
(* points, as a function of the statements it stands for.                  *)

\* The chain when stage i of the rollback begins, the part of it that stays,
\* and that part with the first n blocks of the branch.
RolledTo(i) ==
    IF i <= Len(update.rollback) THEN update.rollback[i] ELSE ParentHash[update.apply[1]]

Kept == IF db.tip = NoBlock THEN {} ELSE UpTo(db.blocks, ParentHash[update.apply[1]])

Grown(n) == Kept \cup {update.apply[i] : i \in 1..n}

GrownTip(n) ==
    IF n > 0 THEN update.apply[n] ELSE IF db.tip = NoBlock THEN NoBlock ELSE ParentHash[update.apply[1]]

\* That is a chain, and the branch lies above the block it hangs from.
Grows(n) ==
    /\ IsChain(Grown(n), GrownTip(n))
    /\ db.tip # NoBlock =>
           \A i \in 1..n : Height[update.apply[i]] > Height[ParentHash[update.apply[1]]]

\* The statements of a stage of one list that have run.
Ran(n) == IF list = 1 THEN pos - 1 ELSE n

UndoInv ==
    LET b == update.rollback[stage]
        D == ChainStatements(UpTo(db.blocks, b))
    IN /\ list \in 1..2 /\ pos \in 1..5
       /\ work.blocks = db.blocks /\ work.tip = db.tip
       /\ Decodable(D)
       /\ work.utxos = UtxosUndone(UtxosOf(D), Height[b], Ran(4))
       /\ work.convs = ConvsUndone(ConvsOf(D), Height[b], Ran(4))

SpineInv ==
    LET r == Len(update.rollback)
        a == Len(update.apply)
        n == Ran(r + a)
    IN /\ list \in 1..2 /\ pos \in 1..(r + a + 1)
       /\ work.tip = db.tip
       /\ Holds(work, ChainStatements(Kept))
       /\ work.blocks = IF n < r THEN UpTo(db.blocks, update.rollback[n + 1]) ELSE Grown(n - r)

DecodeInv ==
    LET n == stage - Len(update.rollback) - 1
        b == update.apply[n]
    IN /\ list \in 1..(Len(ApplyBlock(b)) + 1)
       /\ pos \in IF list \in DOMAIN ApplyBlock(b) THEN 1..(Len(ApplyBlock(b)[list]) + 1) ELSE {1}
       /\ work.tip = db.tip /\ work.blocks = Grown(Len(update.apply))
       /\ Grows(n - 1)
       /\ Holds(work, ChainStatements(Grown(n - 1)) \cup Executed(b, list, pos))

TipInv ==
    LET a == Len(update.apply)
    IN /\ list \in 1..2 /\ pos \in 1..2
       /\ work.tip = IF Ran(1) = 0 THEN db.tip ELSE update.apply[a]
       /\ work.blocks = Grown(a)
       /\ Grows(a)
       /\ Holds(work, ChainStatements(Grown(a)))

DoneInv ==
    LET a == Len(update.apply)
    IN /\ work.tip = update.apply[a]
       /\ work.blocks = Grown(a)
       /\ Grows(a)
       /\ Holds(work, ChainStatements(Grown(a)))

CommittedInv ==
    /\ IsDb(db)
    /\ IsChain(db.blocks, db.tip)
    /\ Holds(db, ChainStatements(db.blocks))

OpenInv ==
    LET r == Len(update.rollback)
        a == Len(update.apply)
    IN /\ IsDb(work)
       /\ FromFollower(update.rollback, update.apply)
       /\ Connects(db.tip, update.rollback, update.apply)
       /\ stage \in 1..(r + a + 3)
       /\ stage <= r => UndoInv
       /\ stage = r + 1 => SpineInv
       /\ r + 1 < stage /\ stage < r + a + 2 => DecodeInv
       /\ stage = r + a + 2 => TipInv
       /\ stage = r + a + 3 => DoneInv

\* What is committed is what the stored chain's statements lead to, and the
\* open transaction is on its way from there, by way of the part of the chain
\* that stays, to the chain it will commit.
LedgerInv ==
    /\ open \in BOOLEAN
    /\ update = [rollback |-> update.rollback, apply |-> update.apply]
    /\ CommittedInv
    /\ open => OpenInv

-----------------------------------------------------------------------------
(* Properties.                                                             *)

LedgerTypeOK ==
    /\ db.blocks \subseteq Block /\ db.tip \in Block \cup {NoBlock}
    /\ open \in BOOLEAN
    /\ \A r \in db.utxos : r.created \in Nat /\ r.spent \in Nat \cup {Null}
                           /\ r.trimmed \in Nat \cup {Null} /\ (r.spent = Null <=> r.spentTx = NoTx)

TipHeight == IF db.tip = NoBlock THEN Null ELSE Height[db.tip]

\* After any sequence of updates, reorganisations and aborted transactions
\* the committed utxos table is the one the stored chain alone determines:
\* rollbackBlock undoes exactly what applyBlock did, and no reader sees a
\* half-applied update.
UtxosMatchChain == db.utxos = ExpectedUtxos(db.blocks)

\* The same of conversion_outputs, whose key does not name the block.
ConvsMatchChain == db.convs = ExpectedConvs(db.blocks)

\* The sweep compares deadlines for equality, so a height it misses is never
\* swept again: no unspent, unlocked output is left past its deadline.
NoneOverdue ==
    \A r \in db.utxos :
        r.lock = 0 /\ r.deadline # Null /\ r.deadline <= TipHeight => ~Live(r)

\* A block the decoder refuses ends every update that applies it, wherever
\* in the update it stands: neither it nor a block above it is ever stored.
UndecodableNeverStored == \A b \in db.blocks : ~Undecodable(b)

\* A commit is one move of the abstract index.
Index == INSTANCE ChainIndex WITH chain <- db.blocks, tip <- db.tip
LedgerImplementsChainIndex == Index!Spec

=============================================================================
