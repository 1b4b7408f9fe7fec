------------------------------ MODULE UtxoTable ------------------------------
(***************************************************************************)
(* The tables the decoder maintains and the SQL statements it runs on them *)
(* (internal/decoder/decoder.go, migrations 0002 and 0005).  A table is a  *)
(* set of rows; a statement is an operator from tables to tables.          *)
(*                                                                         *)
(* Of a utxos row the model keeps the outpoint (tx_hash, tx_index), the    *)
(* lock_height, the created, spent and trimmed heights, the spending       *)
(* transaction and the trim deadline.  Address, source and public key only *)
(* travel along with the row.                                              *)
(***************************************************************************)
EXTENDS Integers

Null == -1      \* SQL NULL in a column of heights
NoTx == "none"  \* SQL NULL in spent_tx

\* WHERE ... spent_block IS NULL AND trimmed_block IS NULL
Live(r) == r.spent = Null /\ r.trimmed = Null

\* A freshly inserted utxos row.
NewRow(op, lock, h, deadline) ==
    [op |-> op, lock |-> lock, created |-> h, deadline |-> deadline,
     spent |-> Null, spentTx |-> NoTx, trimmed |-> Null]

\* Mutant: the conflict is looked for among unspent rows only.
InsertIfNotLive(T, row) ==
    IF \E r \in T : r.op = row.op /\ r.created = row.created /\ Live(r) THEN T ELSE T \cup {row}

\* INSERT ... ON CONFLICT (tx_hash, tx_index, created_block) DO NOTHING
Insert(T, row) ==
    IF \E r \in T : r.op = row.op /\ r.created = row.created THEN T ELSE T \cup {row}

\* UPDATE utxos SET spent_block, spent_tx WHERE outpoint = op AND live
MarkSpent(T, op, h, tx) ==
    {IF r.op = op /\ Live(r) THEN [r EXCEPT !.spent = h, !.spentTx = tx] ELSE r : r \in T}

\* Mutant: the sweep runs one block late.
SweepLate(T, h) ==
    {IF r.deadline = h - 1 /\ Live(r) /\ r.lock = 0 THEN [r EXCEPT !.trimmed = h] ELSE r : r \in T}

\* sweepTrims: the deadline is compared for equality.
SweepTrims(T, h) ==
    {IF r.deadline = h /\ Live(r) /\ r.lock = 0 THEN [r EXCEPT !.trimmed = h] ELSE r : r \in T}

\* Mutant: a trim is not undone.
UntrimNothing(T, h) == T

\* The first three statements of rollbackBlock.
Untrim(T, h) ==
    {IF r.trimmed = h THEN [r EXCEPT !.trimmed = Null] ELSE r : r \in T}

\* Mutant: the spending transaction is not cleared.
UnspendHeightOnly(T, h) ==
    {IF r.spent = h THEN [r EXCEPT !.spent = Null] ELSE r : r \in T}

Unspend(T, h) ==
    {IF r.spent = h THEN [r EXCEPT !.spent = Null, !.spentTx = NoTx] ELSE r : r \in T}

\* Mutant: the outputs of a rolled back block stay.
DeleteCreatedNothing(T, h) == T

DeleteCreated(T, h) == {r \in T : r.created # h}

\* conversion_outputs: INSERT ... ON CONFLICT DO NOTHING, and the last
\* statement of rollbackBlock.
InsertConv(C, op, h) ==
    IF \E c \in C : c.op = op THEN C ELSE C \cup {[op |-> op, height |-> h]}

\* Mutant: conversion outputs of a rolled back block stay.
DeleteConvNothing(C, h) == C

DeleteConv(C, h) == {c \in C : c.height # h}

=============================================================================
