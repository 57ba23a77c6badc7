------------------------------ MODULE FramePost ------------------------------
(***************************************************************************)
(* What posting a frame promises: frames are posted one at a time; a post  *)
(* that succeeds returns only once its frame is on the screen, and a post  *)
(* that fails leaves the screen as it was.                                 *)
(***************************************************************************)
CONSTANTS Frames, NoFrame

VARIABLES
    screen,     \* the frame on the screen
    front,      \* the frame the last successful post reported
    posting     \* the frame of the post under way

postVars == <<screen, front, posting>>

Init ==
    /\ screen = NoFrame
    /\ front = NoFrame
    /\ posting = NoFrame

Begin ==
    /\ posting = NoFrame
    /\ posting' \in Frames
    /\ UNCHANGED <<screen, front>>

\* The frame appears while the caller still waits.
Appear ==
    /\ posting # NoFrame
    /\ screen' = posting
    /\ UNCHANGED <<front, posting>>

Succeed ==
    /\ posting # NoFrame
    /\ screen' = posting
    /\ front' = posting
    /\ posting' = NoFrame

Fail ==
    /\ posting # NoFrame
    /\ screen = front
    /\ posting' = NoFrame
    /\ UNCHANGED <<screen, front>>

Next == Begin \/ Appear \/ Succeed \/ Fail

Spec == Init /\ [][Next]_postVars
=============================================================================
