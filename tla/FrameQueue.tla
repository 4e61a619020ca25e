----------------------------- MODULE FrameQueue -----------------------------
(* What a connection promises whoever writes to it, whatever becomes of the *)
(* socket: frames are given to it in the order in which they were written,  *)
(* each once, and none is passed by another; the end of the connection      *)
(* drops what is waiting.                                                   *)
EXTENDS Sequences

CONSTANT Frames

VARIABLES
  waiting,   \* the frames that were not given to the socket yet
  given      \* those that were

Init == waiting = <<>> /\ given = <<>>

Put(frame) == waiting' = Append(waiting, frame) /\ UNCHANGED given

Give ==
  /\ waiting # <<>>
  /\ given' = Append(given, Head(waiting))
  /\ waiting' = Tail(waiting)

\* A frame that nobody is before need not wait.
Pass(frame) ==
  /\ waiting = <<>>
  /\ given' = Append(given, frame)
  /\ UNCHANGED waiting

End == waiting' = <<>> /\ given' = <<>>

Next ==
  \/ \E frame \in Frames : Put(frame) \/ Pass(frame)
  \/ Give \/ End

Spec == Init /\ [][Next]_<<waiting, given>>
=============================================================================
