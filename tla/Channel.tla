------------------------------- MODULE Channel -------------------------------
(***************************************************************************)
(* What an asynchronous input of a flow promises, without threads, locks   *)
(* or condition variables: one FIFO per slot, filled by numbered buffers   *)
(* of a fixed set of producers and emptied by one consumer.  A FIFO never  *)
(* grows past its capacity, numbers of one producer are accepted in        *)
(* increasing order (without a gap when nothing may be lost), a buffer is  *)
(* only evicted from the head and only when the FIFO is full and eviction  *)
(* is allowed, and a closed channel hands out nothing any more.            *)
(*                                                                         *)
(* FlowInput implements this specification (see Implements there).         *)
(***************************************************************************)
EXTENDS Naturals, Sequences

CONSTANTS Producers,  \* the upstream threads
          Slots,      \* the input slots
          Numbers,    \* the numbers buffers carry, a subset of Nat
          Target,     \* [Producers -> Slots]
          Bounded,    \* the slots that have a capacity
          Capacity,   \* [Slots -> Nat]: meaningful for bounded slots
          Evicting,   \* the slots whose head may be dropped to make room
          Lossless    \* the slots that accept numbers without a gap

VARIABLES chan,       \* [Slots -> Seq(Producers \X Nat)]
          accepted,   \* [Producers -> Nat]: the highest number put so far
          open        \* the consumer may take buffers

vars == <<chan, accepted, open>>

Init == /\ chan = [s \in Slots |-> << >>]
        /\ accepted = [p \in Producers |-> 0]
        /\ open = TRUE

\* A number that producer p may put next.
Acceptable(p, n) == /\ n > accepted[p]
                    /\ Target[p] \in Lossless => n = accepted[p] + 1

Put(p, n) == LET s == Target[p] IN
    /\ Acceptable(p, n)
    /\ s \in Bounded => Len(chan[s]) < Capacity[s]
    /\ chan' = [chan EXCEPT ![s] = Append(@, <<p, n>>)]
    /\ accepted' = [accepted EXCEPT ![p] = n]
    /\ UNCHANGED open

Evict(p, n) == LET s == Target[p] IN
    /\ s \in Evicting \cap Bounded
    /\ Acceptable(p, n)
    /\ Len(chan[s]) = Capacity[s]
    /\ chan' = [chan EXCEPT ![s] = Append(Tail(@), <<p, n>>)]
    /\ accepted' = [accepted EXCEPT ![p] = n]
    /\ UNCHANGED open

Get(s) == /\ open
          /\ chan[s] # << >>
          /\ chan' = [chan EXCEPT ![s] = Tail(@)]
          /\ UNCHANGED <<accepted, open>>

Close == /\ open' = FALSE
         /\ UNCHANGED <<chan, accepted>>

Next == \/ \E p \in Producers, n \in Numbers : Put(p, n) \/ Evict(p, n)
        \/ \E s \in Slots : Get(s)
        \/ Close

Spec == Init /\ [][Next]_vars
==============================================================================
