----------------------------- MODULE SoundCard -----------------------------
(***************************************************************************)
(* What the sound card promises the host.  The host changes format or rate *)
(* when it likes, one at a time; each change makes a new selection.  The   *)
(* box goes by one selection at a time, and takes the newest, format and   *)
(* rate together.  It plays a stream only while it goes by the selection   *)
(* the stream was begun for, at that selection's rate, from an empty       *)
(* queue; a frame sent for an earlier selection never gets into it.        *)
(* Frames are played in the order they came, each once.                    *)
(***************************************************************************)
EXTENDS Integers, Sequences

CONSTANTS Formats, Rates, PlayableRates, PacketFrames, BufferFrames,
          Capacity,       \* frames
          MaxSelections   \* bound: the selections the host makes

VARIABLES
  selections, made,  \* format and rate of each selection, and the newest
  taken,             \* the one the box goes by, or None between two
  stream,            \* the one a stream was begun for, or None
  out_rate,          \* what the output runs at
  queue              \* for which selection each frame in it was sent

vars == <<selections, made, taken, stream, out_rate, queue>>

None == -1
Idle == 0

Format(s) == selections[s][1]
Rate(s)   == selections[s][2]

Init ==
  \E r \in PlayableRates :
    /\ selections = [s \in 0 .. MaxSelections |-> <<Idle, r>>] /\ made = 0
    /\ taken = None /\ stream = None /\ out_rate = r /\ queue = <<>>

Select(format, r) ==
  /\ made < MaxSelections
  /\ format = Format(made) \/ r = Rate(made)
  /\ made' = made + 1
  /\ selections' = [selections EXCEPT ![made + 1] = <<format, r>>]
  /\ UNCHANGED <<taken, stream, out_rate, queue>>

Take ==
  /\ taken = None /\ taken' = made
  /\ UNCHANGED <<selections, made, stream, out_rate, queue>>

LetGo ==
  /\ taken # None /\ taken' = None
  /\ UNCHANGED <<selections, made, stream, out_rate, queue>>

\* Whatever the last stream left is dropped, and the output asked for the rate, which
\* it may refuse.
Prepare ==
  /\ taken # None /\ stream = None
  /\ queue' = <<>>
  /\ out_rate' \in {out_rate} \cup ({Rate(taken)} \cap PlayableRates)
  /\ UNCHANGED <<selections, made, taken, stream>>

Begin ==
  /\ taken # None /\ stream = None
  /\ Format(taken) # Idle /\ Rate(taken) = out_rate /\ queue = <<>>
  /\ stream' = taken
  /\ UNCHANGED <<selections, made, taken, out_rate, queue>>

\* A packet finds room for all of its frames or is dropped.  It may come late, but
\* never behind one that was sent for a later selection.
Receive(frames) ==
  /\ stream # None /\ Format(made) # Idle
  /\ Len(queue) + frames <= Capacity
  /\ \E sent \in stream .. made :
       /\ \A k \in DOMAIN queue : queue[k] <= sent
       /\ queue' = queue \o [k \in 1 .. frames |-> sent]
  /\ UNCHANGED <<selections, made, taken, stream, out_rate>>

\* A buffer is filled, with silence where the queue runs dry.
Play(frames) ==
  /\ taken # None /\ stream = taken
  /\ frames <= Len(queue)
  /\ queue' = SubSeq(queue, frames + 1, Len(queue))
  /\ UNCHANGED <<selections, made, taken, stream, out_rate>>

End ==
  /\ taken # None /\ stream # None
  /\ stream' = None
  /\ UNCHANGED <<selections, made, taken, out_rate, queue>>

Next ==
  \/ \E format \in Formats \cup {Idle}, r \in Rates : Select(format, r)
  \/ Take \/ LetGo \/ Prepare \/ Begin \/ End
  \/ \E frames \in PacketFrames : Receive(frames)
  \/ \E frames \in 1 .. BufferFrames : Play(frames)

Spec == Init /\ [][Next]_vars
=============================================================================
