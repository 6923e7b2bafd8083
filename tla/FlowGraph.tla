----------------------------- MODULE FlowGraph -----------------------------
(***************************************************************************)
(* How flows are put together (flow.cc): a constructor turns its           *)
(* parameters into a SlotMap, InstallSlotMap makes inputs and outputs of   *)
(* it, and AddDownFlow and RemoveDownFlow connect an output to an input of *)
(* another flow. Slots are numbered from 0; a slot nobody installed is     *)
(* Unset.                                                                  *)
(***************************************************************************)
EXTENDS Integers, FiniteSets, SequencesExt

Models     == {"NONE", "SYNC", "ASYNCCOMMON", "ASYNCATOMIC"}
InputModes == {"NONE", "BLOCKING", "DROPFRONT", "DROPCURRENT"}
HoldModes  == {"NONE", "HOLD_INPUT", "INHERIT_FORM_INPUT"}

Unset  == [model |-> "NONE", mode |-> "NONE", cache |-> -1, block |-> FALSE]
Vacant == [hold |-> "NONE", queued |-> FALSE, valid |-> FALSE, flows |-> {}]

NoSlots == [i \in {} |-> Unset]
NewFlow == [v_input |-> NoSlots, downflowmap |-> NoSlots,
            input_slot_num |-> 0, out_slot_num |-> 0,
            runs |-> TRUE,     \* every coroutine could be started
            start |-> FALSE, down_flow_num |-> 0]  \* source_start_cond_mtx exists

(***************************************************************************)
(* Parameters: a text for the flow and one for each part, all in a row; of *)
(* a record p the fields are those the flow looks up.                      *)
(***************************************************************************)
ParseWrapFlowParams(p) == p.parts >= 1 /\ p.name # ""

GetModelByString(s)      == IF s \in Models THEN s ELSE "NONE"
GetInputModelByString(s) == IF s \in InputModes THEN s ELSE "NONE"

\* A given cache number is taken as it is: one that is not positive means no bound.
ParseParamToSlotMap(p, default) ==
  [in |-> <<>>, out |-> <<>>, fetch_block |-> <<>>, hold |-> <<>>,
   model |-> GetModelByString(p.model), mode |-> GetInputModelByString(p.mode),
   cache |-> <<IF p.cache = {} THEN default ELSE CHOOSE n \in p.cache : TRUE>>]

SourceMap ==
  [in |-> <<0>>, out |-> <<0>>, fetch_block |-> <<>>, hold |-> <<>>,
   model |-> "SYNC", mode |-> "DROPFRONT", cache |-> <<>>]

FilterMap(p) ==
  LET sm == ParseParamToSlotMap(p, 2)
  IN [sm EXCEPT !.model = IF @ # "NONE" THEN @ ELSE IF p.fps THEN "ASYNCATOMIC" ELSE "SYNC",
                !.mode = IF @ # "NONE" THEN @ ELSE "DROPCURRENT",
                !.in = [i \in 1..p.parts |-> i - 1],
                !.cache = [i \in 1..p.parts |-> sm.cache[1]],
                !.out = <<0>>,
                !.hold = IF p.hold = "" THEN <<>> ELSE <<p.hold>>]

(***************************************************************************)
(* InstallSlotMap.                                                         *)
(***************************************************************************)
check_slots(s) == IsInjective(s)

\* Where a slot comes when they have been sorted, and the one that comes last.
Place(s, i) == Cardinality({j \in ToSet(s) : j <= i})
TopSlot(s)  == CHOOSE i \in ToSet(s) : \A j \in ToSet(s) : j <= i

Taken(v, s, none) == \E i \in ToSet(s) : i \in DOMAIN v /\ v[i] # none

CanInstall(f, m) ==
  /\ Len(m.in) > 1 => m.model # "SYNC"
  /\ check_slots(m.in) /\ ~Taken(f.v_input, m.in, Unset)
  /\ check_slots(m.out) /\ ~Taken(f.downflowmap, m.out, Vacant)

\* Growing moves the slots that are there already, which a valid one refuses.
Grown(v, s, none) ==
  [i \in DOMAIN v \cup 0..TopSlot(s) |-> IF i \in DOMAIN v THEN v[i] ELSE none]
Moves(v, s, none) ==
  s # <<>> /\ TopSlot(s) \notin DOMAIN v /\ \E i \in DOMAIN v : v[i] # none
Aborts(f, m) == Moves(f.v_input, m.in, Unset) \/ Moves(f.downflowmap, m.out, Vacant)

\* The slots have been sorted by then, what goes with each of them has not.
Input(m, k) ==
  [model |-> m.model, mode |-> m.mode,
   cache |-> IF m.model = "ASYNCCOMMON" THEN m.cache[k] ELSE 0,
   block |-> IF m.model = "ASYNCCOMMON" /\ Len(m.fetch_block) >= k
             THEN m.fetch_block[k] ELSE TRUE]
Output(m, k) ==
  [hold |-> IF Len(m.hold) >= k THEN m.hold[k] ELSE "NONE",
   queued |-> m.model = "ASYNCCOMMON", valid |-> TRUE, flows |-> {}]

Filled(v, s, none, Make(_)) ==
  IF s = <<>> THEN v
  ELSE [i \in DOMAIN Grown(v, s, none) |->
          IF i \in ToSet(s) THEN Make(Place(s, i)) ELSE Grown(v, s, none)[i]]

\* Start refuses an unknown model; InstallSlotMap does not look at its answer.
Start(m) == m.model # "NONE"

Installed(f, m) ==
  [f EXCEPT !.v_input = Filled(@, m.in, Unset, LAMBDA k : Input(m, k)),
            !.downflowmap = Filled(@, m.out, Vacant, LAMBDA k : Output(m, k)),
            !.input_slot_num = @ + Len(m.in),
            !.out_slot_num = @ + Len(m.out),
            !.runs = @ /\ Start(m)]

SetAsSource(f) == Installed([f EXCEPT !.start = TRUE], SourceMap)

(***************************************************************************)
(* Connections. Every slot of a flow must be installed before its outputs  *)
(* can be used; the other end is not looked at.                            *)
(***************************************************************************)
Complete(f) == f.out_slot_num > 0 /\ \A i \in 0..(f.out_slot_num - 1) : i \in DOMAIN f.downflowmap
                                  /\ DOMAIN f.downflowmap = 0..(f.out_slot_num - 1)

CanAddDownFlow(f, slot) == Complete(f) /\ slot \in DOMAIN f.downflowmap

\* A flow is in the list of an output once: to add it again changes its slot.
AddDownFlow(f, down, slot, in_slot) ==
  [f EXCEPT !.downflowmap[slot].flows = {c \in @ : c.flow # down}
                                          \cup {[flow |-> down, slot |-> in_slot]},
            !.down_flow_num = IF f.start THEN @ + 1 ELSE @]

\* The count goes down for every output, whether or not the flow was there.
RemoveDownFlow(f, down) ==
  IF ~Complete(f) THEN f
  ELSE [f EXCEPT !.downflowmap = [i \in DOMAIN @ |->
                    [@[i] EXCEPT !.flows = {c \in @ : c.flow # down}]],
                 !.down_flow_num = IF f.start THEN @ - f.out_slot_num ELSE @]

\* Where a buffer that is sent to a slot ends up.
SendInputTo(f, slot) ==
  IF slot \notin 0..(f.input_slot_num - 1) THEN "ignored"
  ELSE IF slot \notin DOMAIN f.v_input \/ f.v_input[slot].model = "NONE" THEN "crash"
  ELSE f.v_input[slot].model
=============================================================================
