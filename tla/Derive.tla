------------------------------- MODULE Derive -------------------------------
(***************************************************************************)
(* How an inbound ETX's value becomes outputs: derivedOutputsCapped and    *)
(* MaxConversionOutputs (internal/qidecode/qidecode.go).  The loop is a    *)
(* state machine, one iteration per step, over every value and gas limit   *)
(* of a bounded range.                                                     *)
(***************************************************************************)
EXTENDS Integers, Sequences, FiniteSetsExt, SequencesExt

CONSTANTS
    DenomValue,            \* types.Denominations: unit value of 0..MaxDenomination
    MaxDenomination,       \* types.MaxDenomination
    MaxOutputIndex,        \* types.MaxOutputIndex
    TxGas,                 \* params.TxGas
    CallValueTransferGas,  \* params.CallValueTransferGas
    Values, GasLimits      \* bounds: the inputs to try

Denom == 0..MaxDenomination

ASSUME DenomAssumption ==
    /\ MaxDenomination \in Nat
    /\ DenomValue \in [Denom -> Nat \ {0}]

ASSUME GasAssumption ==
    MaxOutputIndex \in Nat /\ TxGas \in Nat /\ CallValueTransferGas \in Nat \ {0}

ASSUME InputAssumption == Values \subseteq Nat /\ GasLimits \subseteq Nat

VARIABLES
    value, gasLimit,  \* the arguments
    d,                \* the loop variable, -1 when the loop has run out
    total,            \* outputs so far
    out,              \* the groups appended so far
    done

dvars == <<value, gasLimit, d, total, out, done>>

\* misc.FindMinDenominations: the largest denominations first; what is left
\* below a denomination goes to the smaller ones.
Remainder[v \in Values, i \in 0..(MaxDenomination + 1)] ==
    IF i = MaxDenomination + 1 THEN v ELSE Remainder[v, i + 1] % DenomValue[i]

FindMinDenominations(v) == [i \in Denom |-> Remainder[v, i + 1] \div DenomValue[i]]

MaxConversionOutputs(gas) ==
    IF gas < TxGas
    THEN 0
    ELSE Min({(gas - TxGas) \div CallValueTransferGas, MaxOutputIndex})

\* The local maxOutputs.
MaxOutputs ==
    IF gasLimit > 0
    THEN Min({MaxOutputIndex + 1, MaxConversionOutputs(gasLimit)})
    ELSE MaxOutputIndex + 1

Init ==
    /\ value \in Values /\ gasLimit \in GasLimits
    /\ d = MaxDenomination
    /\ total = 0 /\ out = <<>> /\ done = FALSE

\* Mutant: the smallest denomination is left out of the loop.
InLoopShort == ~done /\ d > 0

\* The loop condition.
InLoop == ~done /\ d >= 0

\* Mutant: the cap is ignored.
CountUncapped == FindMinDenominations(value)[d]

\* Mutant: a group that does not fit is dropped instead of cut.
CountDropsGroup == LET count == FindMinDenominations(value)[d]
                   IN IF total + count > MaxOutputs THEN 0 ELSE count

\* The count of denomination d after the cap; the subtraction is on uint64.
Count == LET count == FindMinDenominations(value)[d]
         IN IF total + count > MaxOutputs THEN MaxOutputs - total ELSE count

\* continue: the value has no unit of this denomination.
SkipDenomination ==
    /\ InLoop
    /\ FindMinDenominations(value)[d] = 0
    /\ d' = d - 1
    /\ UNCHANGED <<value, gasLimit, total, out, done>>

\* Append a group, and break if that used up the cap.
AppendGroup ==
    /\ InLoop
    /\ FindMinDenominations(value)[d] # 0
    /\ Count # 0
    /\ out' = Append(out, [denom |-> d, count |-> Count])
    /\ total' = total + Count
    /\ done' = (total + Count >= MaxOutputs)
    /\ d' = IF done' THEN d ELSE d - 1
    /\ UNCHANGED <<value, gasLimit>>

\* break: the cap leaves no room for any output.
NoRoom ==
    /\ InLoop
    /\ FindMinDenominations(value)[d] # 0
    /\ Count = 0
    /\ done' = TRUE
    /\ UNCHANGED <<value, gasLimit, d, total, out>>

LoopEnds ==
    /\ ~done /\ ~InLoop
    /\ done' = TRUE
    /\ UNCHANGED <<value, gasLimit, d, total, out>>

Next == SkipDenomination \/ AppendGroup \/ NoRoom \/ LoopEnds

Spec == Init /\ [][Next]_dvars

-----------------------------------------------------------------------------
(* Properties.                                                             *)

\* The units of an expansion, one denomination per output, in output order.
Units(groups) ==
    FlattenSeq([i \in DOMAIN groups |-> [j \in 1..groups[i].count |-> groups[i].denom]])

\* All units of the value, largest first.
AllUnits ==
    Units([i \in 1..(MaxDenomination + 1) |->
              [denom |-> MaxDenomination + 1 - i,
               count |-> FindMinDenominations(value)[MaxDenomination + 1 - i]]])

SumOf(units) == FoldSeq(LAMBDA x, acc : DenomValue[x] + acc, 0, units)

\* The result is the first MaxOutputs units of the value's expansion, largest
\* first: the cap cuts the expansion off, it never skips a unit, and a group
\* is cut rather than dropped.
CapIsPrefix ==
    done => Units(out) = SubSeq(AllUnits, 1, Min({Len(AllUnits), MaxOutputs}))

\* Without a cap that bites, the outputs are worth exactly the value.
ValuePreserved == done /\ total < MaxOutputs => SumOf(Units(out)) = value

\* maxOutputs - total never wraps around: total stays within the cap, and the
\* last index fits MaxOutputIndex.
NoWraparound == total <= MaxOutputs /\ MaxOutputs - 1 <= MaxOutputIndex

=============================================================================
