----------------------------- MODULE AudioQueue -----------------------------
(***************************************************************************)
(* What audio_out promises its source: a queue of blocks.  Blocks handed   *)
(* over play once, in the order they were handed over; a change of rate    *)
(* drops all but the (at most two) oldest, which are already loaded.       *)
(* Whatever the interrupts do, silence is all that comes between blocks.   *)
(* A block is finished when the transfer of the channel aimed at it is:    *)
(* AudioOut's CutOnlyWhenLate says when that is short of its last word.    *)
(***************************************************************************)
EXTENDS Naturals, Sequences

CONSTANTS NumBuffers, NumBlocks

VARIABLES pending, fresh   \* the blocks not yet played; the next one's number

vars == <<pending, fresh>>

Init == pending = <<>> /\ fresh = 0

HandOver ==
  /\ Len(pending) < NumBuffers
  /\ pending' = Append(pending, fresh)
  /\ fresh' = (fresh + 1) % NumBlocks

Finish ==
  /\ pending # <<>>
  /\ pending' = Tail(pending)
  /\ UNCHANGED fresh

Drop ==
  /\ \E kept \in 0 .. 2 :
       /\ kept < Len(pending)
       /\ pending' = SubSeq(pending, 1, kept)
  /\ UNCHANGED fresh

Next == HandOver \/ Finish \/ Drop

Spec == Init /\ [][Next]_vars

\* A block that is not dropped is played in the end.
Fairness == WF_vars(Finish)
=============================================================================
