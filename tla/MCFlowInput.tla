----------------------------- MODULE MCFlowInput -----------------------------
(* Values for the constants of FlowInput that a .cfg cannot write down.    *)
EXTENDS FlowInput, TLC

CONSTANTS p1, p2, p3

OneSlot == [p \in Producers |-> 1]
\* p3 sends to the second slot, the others share the first.
TwoSlots == [p \in Producers |-> IF p = p3 THEN 2 ELSE 1]

MaxOne == [s \in Slots |-> 1]
\* The second slot has room for two, or for any number.
MaxOneTwo == [s \in Slots |-> IF s = 1 THEN 1 ELSE 2]
MaxOneAny == [s \in Slots |-> IF s = 1 THEN 1 ELSE 0]

Blocking == [s \in Slots |-> "BLOCKING"]
BlockingDropFront == [s \in Slots |-> IF s = 1 THEN "BLOCKING" ELSE "DROPFRONT"]
BlockingDropCurrent == [s \in Slots |-> IF s = 1 THEN "BLOCKING" ELSE "DROPCURRENT"]

AllFetchBlock == [s \in Slots |-> TRUE]
FirstFetchBlocks == [s \in Slots |-> s = 1]

\* p1 and p2 are interchangeable when they send to the same slot.
Symmetry == Permutations({p1, p2})
=============================================================================
