----------------------------- MODULE KmsPageFlip -----------------------------
(***************************************************************************)
(* hwc_context::bo_post and page_flip, the kernel's page flip queue of one *)
(* CRTC, and on_signal, the handler of SIGINT and SIGTERM.  One thread     *)
(* posts (bo_post is "not thread-safe"); the signal is taken either by     *)
(* that thread, between two of its statements, or by another one.          *)
(***************************************************************************)
EXTENDS Naturals

CONSTANTS
    Bos,               \* buffer objects that are posted
    NULL,
    InitialNextFronts, \* what next_front may hold after the constructor
    FlipErrors,        \* may drmModePageFlip and drmModeSetCrtc fail?
    SpuriousReturns,   \* may drmHandleEvent return without an event?
    SignalThreads,     \* threads that may take a signal: "poster", "other"
    MaxEvents          \* bound of the model: no post begins with so many unread events

ASSUME NullAssumption == NULL \notin Bos
ASSUME InitialAssumption == InitialNextFronts # {}
ASSUME BooleanAssumption == FlipErrors \in BOOLEAN /\ SpuriousReturns \in BOOLEAN
ASSUME SignalAssumption == SignalThreads \subseteq {"poster", "other"}
ASSUME EventAssumption == MaxEvents \in Nat \ {0}

VARIABLES
    pc,            \* where the posting thread is in bo_post and page_flip
    bo,            \* the argument of bo_post, NULL outside it
    first_post, current_front, next_front, waiting_flip,   \* members of hwc_context
    scanout,       \* kernel: the framebuffer the CRTC shows
    flip,          \* kernel: the flip that waits for the next vblank
    events,        \* kernel: flip events not read yet
    sig,           \* where on_signal is
    sigThread,     \* the thread that runs it
    unflipped,     \* kernel: a flip was pending when on_signal began to sleep
    gaveUp         \* ghost: drmHandleEvent has failed once

ctxVars == <<first_post, current_front, next_front, waiting_flip, gaveUp>>
kernelVars == <<scanout, flip, events>>
sigVars == <<sig, sigThread, unflipped>>
vars == <<pc, bo, ctxVars, kernelVars, sigVars>>

Pointers == Bos \cup {NULL} \cup InitialNextFronts
FlipWaits == {"waitOld", "waitNew"}

TypeOK ==
    /\ pc \in {"idle", "addFb", "setCrtc", "oldFlip", "pageFlip", "record", "newFlip"} \cup FlipWaits
    /\ bo \in Bos \cup {NULL}
    /\ first_post \in BOOLEAN
    /\ current_front \in Pointers
    /\ next_front \in Pointers
    /\ waiting_flip \in BOOLEAN
    /\ scanout \in Bos \cup {NULL}
    /\ flip \in Bos \cup {NULL}
    /\ events \in 0..(MaxEvents + 1)
    /\ sig \in {"none", "enter", "flipTest", "wait", "sleep", "exited"}
    /\ sigThread \in {"none", "poster", "other"}
    /\ unflipped \in BOOLEAN
    /\ gaveUp \in BOOLEAN

\* The constructor assigns neither next_front nor waiting_flip.
Init ==
    /\ pc = "idle"
    /\ bo = NULL
    /\ first_post = TRUE
    /\ current_front = NULL
    /\ next_front \in InitialNextFronts
    /\ waiting_flip \in IF next_front = NULL THEN {FALSE} ELSE BOOLEAN
    /\ scanout = NULL
    /\ flip = NULL
    /\ events = 0
    /\ sig = "none"
    /\ sigThread = "none"
    /\ unflipped = FALSE
    /\ gaveUp = FALSE

-----------------------------------------------------------------------------
(* The kernel.                                                             *)

\* The pending flip takes effect and its event is queued.
VBlank ==
    /\ flip # NULL
    /\ sig # "exited"
    /\ scanout' = flip
    /\ flip' = NULL
    /\ events' = events + 1
    /\ unflipped' = FALSE
    /\ UNCHANGED <<pc, bo, ctxVars, sig, sigThread>>

-----------------------------------------------------------------------------
(* Pieces shared by the posting thread and the signal handler.             *)

\* (mutant) The handler leaves the acknowledged flip scheduled.
AckOnlyCurrent(n) == current_front' = next_front /\ UNCHANGED next_front

\* page_flip_handler, called for each of n events.
Ack(n) ==
    /\ current_front' = IF n = 1 THEN next_front ELSE NULL
    /\ next_front' = NULL

\* drmHandleEvent reads every queued event, and page_flip goes on.
ReadEvents ==
    /\ events > 0
    /\ Ack(events)
    /\ events' = 0
    /\ waiting_flip' = FALSE
    /\ UNCHANGED <<first_post, gaveUp, scanout, flip>>

\* (mutant) The error is recorded, the front buffer is not.
ReturnKeepsFront ==
    /\ SpuriousReturns
    /\ next_front' = NULL
    /\ waiting_flip' = FALSE
    /\ gaveUp' = TRUE
    /\ UNCHANGED <<first_post, current_front, kernelVars>>

\* drmHandleEvent fails; page_flip records an error and goes on.
ReturnWithoutFlip ==
    /\ SpuriousReturns
    /\ current_front' = next_front
    /\ next_front' = NULL
    /\ waiting_flip' = FALSE
    /\ gaveUp' = TRUE
    /\ UNCHANGED <<first_post, kernelVars>>

-----------------------------------------------------------------------------
(* The posting thread.                                                     *)

\* The thread executes statements of its own: it is not inside the handler.
Running == sig # "exited" /\ (sig = "none" \/ sigThread # "poster")

Goto(point) == pc' = point /\ UNCHANGED bo
Done == pc' = "idle" /\ bo' = NULL

Post(b) ==
    /\ Running
    /\ pc = "idle"
    /\ events < MaxEvents              \* bound of the model
    /\ pc' = "addFb"
    /\ bo' = b
    /\ UNCHANGED <<ctxVars, kernelVars, sigVars>>

\* gralloc_drm_bo_add_fb: without a framebuffer the post is over.
AddFb ==
    /\ Running
    /\ pc = "addFb"
    /\ \/ Goto(IF first_post THEN "setCrtc" ELSE "oldFlip")
       \/ FlipErrors /\ Done
    /\ UNCHANGED <<ctxVars, kernelVars, sigVars>>

\* (mutant) The first post does not record its front buffer.
SetCrtcForgetsFront ==
    /\ Running
    /\ pc = "setCrtc"
    /\ flip = NULL
    /\ scanout' = bo
    /\ first_post' = FALSE
    /\ Done
    /\ UNCHANGED <<current_front, next_front, waiting_flip, gaveUp, flip, events, sigVars>>

\* drmModeSetCrtc waits for a pending flip.
SetCrtc ==
    /\ Running
    /\ pc = "setCrtc"
    /\ flip = NULL
    /\ scanout' = bo
    /\ first_post' = FALSE
    /\ current_front' = bo
    /\ next_front' = IF next_front = bo THEN NULL ELSE next_front
    /\ Done
    /\ UNCHANGED <<waiting_flip, gaveUp, flip, events, sigVars>>

SetCrtcFails ==
    /\ Running
    /\ pc = "setCrtc"
    /\ FlipErrors
    /\ Done
    /\ UNCHANGED <<ctxVars, kernelVars, sigVars>>

\* The head of page_flip(bo).
OldFlip ==
    /\ Running
    /\ pc = "oldFlip"
    /\ IF next_front = NULL
       THEN Goto("pageFlip") /\ UNCHANGED waiting_flip
       ELSE Goto("waitOld") /\ waiting_flip' = TRUE
    /\ UNCHANGED <<first_post, current_front, next_front, gaveUp, kernelVars, sigVars>>

WaitOldFlip ==
    /\ Running
    /\ pc = "waitOld"
    /\ ReadEvents \/ ReturnWithoutFlip
    /\ Goto("pageFlip")
    /\ UNCHANGED sigVars

\* drmModePageFlip succeeds: the kernel has the flip, next_front not yet.
PageFlip ==
    /\ Running
    /\ pc = "pageFlip"
    /\ flip = NULL
    /\ flip' = bo
    /\ Goto("record")
    /\ UNCHANGED <<ctxVars, scanout, events, sigVars>>

\* (mutant) The post goes back to the caller without waiting for its flip.
RecordAndReturn ==
    /\ Running
    /\ pc = "record"
    /\ next_front' = bo
    /\ Done
    /\ UNCHANGED <<first_post, current_front, waiting_flip, gaveUp, kernelVars, sigVars>>

\* next_front = bo.
Record ==
    /\ Running
    /\ pc = "record"
    /\ next_front' = bo
    /\ Goto("newFlip")
    /\ UNCHANGED <<first_post, current_front, waiting_flip, gaveUp, kernelVars, sigVars>>

\* EBUSY while a flip is pending; any other error sets the mode next time.
PageFlipFails ==
    /\ Running
    /\ pc = "pageFlip"
    /\ \/ flip # NULL /\ UNCHANGED first_post
       \/ FlipErrors /\ first_post' = TRUE
    /\ Done
    /\ UNCHANGED <<current_front, next_front, waiting_flip, gaveUp, kernelVars, sigVars>>

\* The call page_flip(NULL) that bo_post makes for its own flip.
NewFlip ==
    /\ Running
    /\ pc = "newFlip"
    /\ IF next_front = NULL
       THEN Done /\ UNCHANGED waiting_flip
       ELSE Goto("waitNew") /\ waiting_flip' = TRUE
    /\ UNCHANGED <<first_post, current_front, next_front, gaveUp, kernelVars, sigVars>>

WaitNewFlip ==
    /\ Running
    /\ pc = "waitNew"
    /\ ReadEvents \/ ReturnWithoutFlip
    /\ Done
    /\ UNCHANGED sigVars

-----------------------------------------------------------------------------
(* on_signal.                                                              *)

Handler(point) == sig' = point /\ UNCHANGED <<pc, bo, sigThread>>

Signal(thread) ==
    /\ sig = "none"
    /\ sig' = "enter"
    /\ sigThread' = thread
    /\ UNCHANGED <<pc, bo, ctxVars, kernelVars, unflipped>>

\* (mutant) The handler exits whether or not a flip is pending.
OnSignalExits ==
    /\ sig = "enter"
    /\ Handler("exited")
    /\ UNCHANGED <<ctxVars, kernelVars, unflipped>>

OnSignal ==
    /\ sig = "enter"
    /\ Handler(IF next_front = NULL THEN "exited"
               ELSE IF waiting_flip THEN "sleep" ELSE "flipTest")
    /\ unflipped' = (flip # NULL)
    /\ UNCHANGED <<ctxVars, kernelVars>>

\* page_flip(NULL) in the handler.
HandlerFlip ==
    /\ sig = "flipTest"
    /\ IF next_front = NULL
       THEN Handler("exited") /\ UNCHANGED waiting_flip
       ELSE Handler("wait") /\ waiting_flip' = TRUE
    /\ UNCHANGED <<first_post, current_front, next_front, gaveUp, kernelVars, unflipped>>

HandlerWait ==
    /\ sig = "wait"
    /\ ReadEvents \/ ReturnWithoutFlip
    /\ Handler("exited")
    /\ UNCHANGED unflipped

\* (mutant) The handler waits for the posting thread instead of sleeping.
HandlerSleepUntilAcked ==
    /\ sig = "sleep"
    /\ next_front = NULL
    /\ Handler("exited")
    /\ UNCHANGED <<ctxVars, kernelVars, unflipped>>

\* usleep(100 ms), longer than the time to the next vblank.
HandlerSleep ==
    /\ sig = "sleep"
    /\ ~unflipped
    /\ Handler("exited")
    /\ UNCHANGED <<ctxVars, kernelVars, unflipped>>

-----------------------------------------------------------------------------
PosterStep ==
    \/ AddFb
    \/ SetCrtc
    \/ SetCrtcFails
    \/ OldFlip
    \/ WaitOldFlip
    \/ PageFlip
    \/ Record
    \/ PageFlipFails
    \/ NewFlip
    \/ WaitNewFlip

HandlerStep ==
    \/ OnSignal
    \/ HandlerFlip
    \/ HandlerWait
    \/ HandlerSleep

Next ==
    \/ VBlank
    \/ \E b \in Bos : Post(b)
    \/ PosterStep
    \/ \E thread \in SignalThreads : Signal(thread)
    \/ HandlerStep

Spec == Init /\ [][Next]_vars

\* The display refreshes, and a thread that can run does run.  Nothing forces a
\* post or a signal.
FairSpec == Spec /\ WF_vars(VBlank) /\ WF_vars(PosterStep) /\ WF_vars(HandlerStep)

-----------------------------------------------------------------------------
(* Properties.                                                             *)

\* A thread that blocks in drmHandleEvent has an event to wait for, as the
\* comment of page_flip says ("there is another flip pending").
WaitsForPendingFlip == pc \in FlipWaits => flip # NULL \/ events > 0

\* Between posts nothing is left over: no flip pending, no event unread, no flip
\* recorded as scheduled, and the front buffer is the one on the screen.
QuietBetweenPosts ==
    pc = "idle" =>
        /\ flip = NULL
        /\ events = 0
        /\ next_front = NULL
        /\ current_front = scanout

\* The only flip the loop at the head of page_flip(bo) can ever wait for is the
\* uninitialised next_front: every post waits for its own flip.
OldFlipIsGarbage ==
    pc = "waitOld" /\ sig # "exited" => next_front \notin Bos \cup {NULL}

\* Even when events are missed the context never believes that an older frame is
\* in front: it is right, or one flip ahead of the kernel, or has lost track.
NeverBehind ==
    pc = "idle" /\ ~first_post => current_front \in {scanout, flip, NULL} \cup InitialNextFronts

\* The process does not end with a flip pending (the comment of init_features:
\* the GPU "tends to freeze").
NoFlipPendingAtExit == sig = "exited" => flip = NULL

\* What the handler does achieve: when it interrupts the posting thread, the
\* process ends with a flip pending only if the signal fell between
\* drmModePageFlip and the assignment of next_front, or if an earlier
\* drmHandleEvent failed and its flip was given up.
ExitRace ==
    sig = "exited" /\ sigThread = "poster" /\ flip # NULL => pc = "record" \/ gaveUp

\* A post returns.
PostCompletes == pc # "idle" ~> pc = "idle"

\* A signal taken by the posting thread ends the process, whatever was given up
\* before, unless next_front was never assigned.
SignalEndsProcess ==
    sig = "enter" /\ sigThread = "poster" /\ next_front \in Bos \cup {NULL} ~> sig = "exited"

Frames == INSTANCE FramePost WITH
    Frames <- Bos, NoFrame <- NULL,
    screen <- scanout, front <- current_front, posting <- bo

\* With an initialised context whose events all arrive, bo_post implements the
\* promise of FramePost.
FramePostSpec == Frames!Spec
=============================================================================
