------------------------- MODULE KmsPageFlip_proofs -------------------------
(***************************************************************************)
(* Proofs about KmsPageFlip for any set of buffer objects.                 *)
(***************************************************************************)
EXTENDS KmsPageFlip, TLAPS

-----------------------------------------------------------------------------
(* The case the code is written for: next_front starts out as NULL,        *)
(* drmHandleEvent does not fail and no signal arrives.  Flips and mode     *)
(* sets may fail.                                                          *)

Undisturbed ==
    /\ InitialNextFronts = {NULL}
    /\ SpuriousReturns = FALSE
    /\ SignalThreads = {}

\* No flip is known to the context or to the kernel.
NoFlip ==
    /\ flip = NULL
    /\ events = 0
    /\ next_front = NULL
    /\ current_front = scanout

\* The kernel has the flip of this post, or has done it and queued its event.
OwnFlip ==
    \/ flip = bo /\ events = 0 /\ current_front = scanout
    \/ flip = NULL /\ events = 1 /\ scanout = bo

\* Where the flip of the post is at each point of bo_post.
PostInv ==
    /\ sig = "none"
    /\ bo = NULL <=> pc = "idle"
    /\ pc \in {"idle", "addFb", "setCrtc", "oldFlip", "pageFlip"} => NoFlip
    /\ pc = "record" => OwnFlip /\ next_front = NULL
    /\ pc \in {"newFlip", "waitNew"} => OwnFlip /\ next_front = bo
    /\ pc # "waitOld"

PostTypeInv == TypeOK /\ PostInv

LEMMA EventRange == 0 \in 0..(MaxEvents + 1) /\ 1 \in 0..(MaxEvents + 1)
BY EventAssumption

LEMMA PostInit == ASSUME Undisturbed PROVE Init => PostTypeInv
<1>. SUFFICES ASSUME Init PROVE PostTypeInv
  OBVIOUS
<1>1. TypeOK
  BY EventRange DEF Undisturbed, Init, TypeOK, Pointers, FlipWaits
<1>2. PostInv
  BY DEF Undisturbed, Init, PostInv, NoFlip
<1>. QED BY <1>1, <1>2 DEF PostTypeInv

\* An event is queued only for a flip that had none.
LEMMA OneEvent ==
  ASSUME PostTypeInv, flip # NULL
  PROVE  events = 0
BY DEF PostTypeInv, TypeOK, PostInv, NoFlip, OwnFlip, FlipWaits

LEMMA PostTypes ==
  ASSUME Undisturbed, PostTypeInv, [Next]_vars
  PROVE  TypeOK'
<1>. USE EventRange
     DEF Undisturbed, PostTypeInv, TypeOK, PostInv, Pointers, FlipWaits, Goto, Done, ctxVars,
         kernelVars, sigVars, ReadEvents, ReturnWithoutFlip, Ack
<1>1. CASE VBlank
  <2>1. events' = 1
    BY <1>1, OneEvent DEF VBlank
  <2>2. UNCHANGED <<pc, bo, ctxVars, sig, sigThread>> /\ scanout' = flip /\ flip' = NULL
        /\ unflipped' = FALSE
    BY <1>1 DEF VBlank
  <2>3. scanout' \in Bos \cup {NULL} /\ flip' \in Bos \cup {NULL} /\ unflipped' \in BOOLEAN
    BY <2>2
  <2>4. events' \in 0..(MaxEvents + 1)
    BY <2>1
  <2>. QED BY <2>2, <2>3, <2>4
<1>2. ASSUME NEW b \in Bos, Post(b)
      PROVE  TypeOK'
  BY <1>2, NullAssumption DEF Post
<1>3. CASE AddFb
  BY <1>3 DEF AddFb
<1>4. CASE SetCrtc
  BY <1>4 DEF SetCrtc
<1>5. CASE SetCrtcFails
  BY <1>5 DEF SetCrtcFails
<1>6. CASE OldFlip
  BY <1>6 DEF OldFlip
<1>7. CASE WaitOldFlip
  BY <1>7 DEF WaitOldFlip
<1>8. CASE PageFlip
  BY <1>8 DEF PageFlip
<1>9. CASE Record
  BY <1>9 DEF Record
<1>10. CASE PageFlipFails
  BY <1>10 DEF PageFlipFails
<1>11. CASE NewFlip
  BY <1>11 DEF NewFlip
<1>12. CASE WaitNewFlip
  BY <1>12 DEF WaitNewFlip
<1>13. CASE UNCHANGED vars
  BY <1>13 DEF vars
<1>14. ~HandlerStep /\ ~\E thread \in SignalThreads : Signal(thread)
  BY DEF HandlerStep, OnSignal, HandlerFlip, HandlerWait, HandlerSleep
<1>. QED
  BY <1>1, <1>2, <1>3, <1>4, <1>5, <1>6, <1>7, <1>8, <1>9, <1>10, <1>11, <1>12, <1>13, <1>14
  DEF Next, PosterStep

LEMMA PostSteps ==
  ASSUME Undisturbed, PostTypeInv, [Next]_vars
  PROVE  PostInv'
<1>. USE NullAssumption
     DEF Undisturbed, PostTypeInv, TypeOK, PostInv, NoFlip, OwnFlip, Pointers, FlipWaits, Goto,
         Done, ctxVars, kernelVars, sigVars, ReadEvents, ReturnWithoutFlip, Ack
<1>1. CASE VBlank
  BY <1>1 DEF VBlank
<1>2. ASSUME NEW b \in Bos, Post(b)
      PROVE  PostInv'
  BY <1>2 DEF Post
<1>3. CASE AddFb
  BY <1>3 DEF AddFb
<1>4. CASE SetCrtc
  BY <1>4 DEF SetCrtc
<1>5. CASE SetCrtcFails
  BY <1>5 DEF SetCrtcFails
<1>6. CASE OldFlip
  BY <1>6 DEF OldFlip
<1>7. CASE WaitOldFlip
  BY <1>7 DEF WaitOldFlip
<1>8. CASE PageFlip
  BY <1>8 DEF PageFlip
<1>9. CASE Record
  BY <1>9 DEF Record
<1>10. CASE PageFlipFails
  BY <1>10 DEF PageFlipFails
<1>11. CASE NewFlip
  BY <1>11 DEF NewFlip
<1>12. CASE WaitNewFlip
  BY <1>12 DEF WaitNewFlip
<1>13. CASE UNCHANGED vars
  BY <1>13 DEF vars
<1>14. ~HandlerStep /\ ~\E thread \in SignalThreads : Signal(thread)
  BY DEF HandlerStep, OnSignal, HandlerFlip, HandlerWait, HandlerSleep
<1>. QED
  BY <1>1, <1>2, <1>3, <1>4, <1>5, <1>6, <1>7, <1>8, <1>9, <1>10, <1>11, <1>12, <1>13, <1>14
  DEF Next, PosterStep

LEMMA PostInvAlways == ASSUME Undisturbed PROVE Spec => []PostTypeInv
<1>1. PostTypeInv /\ [Next]_vars => PostTypeInv'
  BY PostTypes, PostSteps DEF PostTypeInv
<1>. QED BY <1>1, PostInit, PTL DEF Spec

\* Undisturbed, a post never blocks for a flip that is not coming.
THEOREM PostWaitsForItsFlip == ASSUME Undisturbed PROVE Spec => []WaitsForPendingFlip
<1>1. PostTypeInv => WaitsForPendingFlip
  BY NullAssumption DEF PostTypeInv, PostInv, OwnFlip, WaitsForPendingFlip, FlipWaits
<1>. QED BY <1>1, PostInvAlways, PTL

\* Undisturbed, a post leaves nothing behind: no pending flip, no unread event, and
\* the context knows what is on the screen.
THEOREM PostLeavesNothing == ASSUME Undisturbed PROVE Spec => []QuietBetweenPosts
<1>1. PostTypeInv => QuietBetweenPosts
  BY DEF PostTypeInv, PostInv, NoFlip, QuietBetweenPosts
<1>. QED BY <1>1, PostInvAlways, PTL

LEMMA FramesNext ==
  ASSUME Undisturbed, PostTypeInv, PostTypeInv', [Next]_vars
  PROVE  [Frames!Next]_(Frames!postVars)
<1>. USE NullAssumption
     DEF Undisturbed, PostTypeInv, TypeOK, PostInv, NoFlip, OwnFlip, FlipWaits, Goto, Done, ctxVars,
         kernelVars, sigVars, ReadEvents, ReturnWithoutFlip, Ack, Frames!Next, Frames!postVars
<1>1. CASE VBlank
  BY <1>1 DEF VBlank, Frames!Appear
<1>2. ASSUME NEW b \in Bos, Post(b)
      PROVE  [Frames!Next]_(Frames!postVars)
  BY <1>2 DEF Post, Frames!Begin
<1>3. CASE AddFb \/ SetCrtcFails \/ PageFlipFails
  BY <1>3 DEF AddFb, SetCrtcFails, PageFlipFails, Frames!Fail
<1>4. CASE SetCrtc
  BY <1>4 DEF SetCrtc, Frames!Succeed
<1>5. CASE OldFlip \/ WaitOldFlip \/ PageFlip \/ Record \/ NewFlip
  BY <1>5 DEF OldFlip, WaitOldFlip, PageFlip, Record, NewFlip
<1>6. CASE WaitNewFlip
  BY <1>6 DEF WaitNewFlip, Frames!Succeed
<1>7. CASE UNCHANGED vars
  BY <1>7 DEF vars
<1>8. ~HandlerStep /\ ~\E thread \in SignalThreads : Signal(thread)
  BY DEF HandlerStep, OnSignal, HandlerFlip, HandlerWait, HandlerSleep
<1>. QED BY <1>1, <1>2, <1>3, <1>4, <1>5, <1>6, <1>7, <1>8 DEF Next, PosterStep

\* Undisturbed, bo_post implements FramePost: a successful post returns with its
\* frame on the screen, a failed one leaves the screen as it was.
THEOREM PostImplementsFramePost == ASSUME Undisturbed PROVE Spec => FramePostSpec
<1>1. Init => Frames!Init
  BY DEF Init, Frames!Init
<1>2. PostTypeInv /\ PostTypeInv' /\ [Next]_vars => [Frames!Next]_(Frames!postVars)
  BY FramesNext
<1>. QED BY <1>1, <1>2, PostInvAlways, PTL DEF Spec, FramePostSpec, Frames!Spec

-----------------------------------------------------------------------------
(* With an uninitialised next_front, failing event reads and signals.  All *)
(* that is left of the case above is that a post waits for its own flip.   *)

\* What the constructor leaves in next_front is not a buffer that will be posted.
NeverPosted == InitialNextFronts \cap Bos = {}

LatePoints == {"record", "newFlip", "waitNew"}

\* Outside the wait for its own flip the context has none of the posted buffers
\* scheduled, and it waits for an old flip only if it has something scheduled.
Scheduled ==
    /\ next_front \in Pointers
    /\ next_front \in Bos => pc \in LatePoints
    /\ pc \in {"newFlip", "waitNew"} /\ sig # "exited" => next_front = bo
    /\ pc = "waitOld" /\ sig # "exited" => next_front # NULL

\* Once drmModePageFlip has succeeded, the flip of the post is pending or done.
Flipped ==
    /\ pc # "idle" => bo \in Bos
    /\ pc \in LatePoints => flip = bo \/ (flip = NULL /\ scanout = bo)
    /\ pc \in {"oldFlip", "waitOld", "pageFlip"} \cup LatePoints => ~first_post

\* Outside that wait, the front buffer is never older than what the kernel has or
\* will have on the screen.
Ahead ==
    ~first_post /\ pc \notin LatePoints =>
        current_front \in {IF flip = NULL THEN scanout ELSE flip, NULL} \cup InitialNextFronts

\* As long as no event was given up, a flip is pending or unread only in its own post.
NothingMissed ==
    ~gaveUp /\ sig # "exited" =>
        /\ pc \in LatePoints => IF flip # NULL THEN events = 0 ELSE events = 1
        /\ pc \notin LatePoints => flip = NULL /\ events = 0

\* The handler runs in the thread it interrupted; that thread starts no flip meanwhile.
Interrupted ==
    /\ sig = "none" <=> sigThread = "none"
    /\ sigThread = "poster" /\ sig \in {"flipTest", "wait", "sleep"} /\ flip # NULL => unflipped
    /\ unflipped => flip # NULL

FaultInv ==
    /\ events \in Nat
    /\ gaveUp \in BOOLEAN
    /\ Scheduled
    /\ Flipped
    /\ Ahead
    /\ NothingMissed
    /\ Interrupted
    /\ ExitRace

LEMMA FaultInit == ASSUME NeverPosted PROVE Init => FaultInv
<1>. SUFFICES ASSUME Init PROVE FaultInv
  OBVIOUS
<1>. USE NullAssumption DEF Init
<1>1. Scheduled
  BY DEF NeverPosted, Scheduled, Pointers
<1>2. Flipped /\ Ahead
  BY DEF Flipped, Ahead, LatePoints
<1>3. events \in Nat /\ gaveUp \in BOOLEAN /\ NothingMissed /\ Interrupted /\ ExitRace
  BY DEF NothingMissed, Interrupted, ExitRace, LatePoints
<1>. QED  BY <1>1, <1>2, <1>3 DEF FaultInv

LEMMA FaultStep ==
  ASSUME NeverPosted, FaultInv, [Next]_vars
  PROVE  FaultInv'
<1>. USE NullAssumption, SignalAssumption
     DEF NeverPosted, FaultInv, Scheduled, Pointers, Flipped, Ahead, NothingMissed, Interrupted,
         ExitRace, LatePoints, Goto, Done, Running, Handler, ctxVars, kernelVars, sigVars,
         ReadEvents, ReturnWithoutFlip, Ack
<1>1. CASE VBlank
  BY <1>1 DEF VBlank
<1>2. ASSUME NEW b \in Bos, Post(b)
      PROVE  FaultInv'
  BY <1>2 DEF Post
<1>3. CASE AddFb
  BY <1>3 DEF AddFb
<1>4. CASE SetCrtc
  BY <1>4 DEF SetCrtc
<1>5. CASE SetCrtcFails
  BY <1>5 DEF SetCrtcFails
<1>6. CASE OldFlip
  BY <1>6 DEF OldFlip
<1>7. CASE WaitOldFlip
  <2>1. pc = "waitOld" /\ pc' = "pageFlip" /\ sig # "exited" /\ UNCHANGED <<bo, sigVars>>
    BY <1>7 DEF WaitOldFlip
  <2>2. CASE ReadEvents
    <3>1. events' = 0 /\ events > 0 /\ UNCHANGED <<first_post, gaveUp, scanout, flip>>
            /\ current_front' \in {next_front, NULL} /\ next_front' = NULL
      BY ONLY <2>2 DEF ReadEvents, Ack
    <3>. QED  BY <2>1, <3>1
  <2>3. CASE ReturnWithoutFlip
    <3>1. gaveUp' /\ gaveUp' \in BOOLEAN /\ UNCHANGED <<first_post, kernelVars>>
            /\ current_front' = next_front /\ next_front' = NULL
      BY ONLY <2>3 DEF ReturnWithoutFlip
    <3>. QED  BY <2>1, <3>1
  <2>. QED  BY <1>7, <2>2, <2>3 DEF WaitOldFlip
<1>8. CASE PageFlip
  BY <1>8 DEF PageFlip
<1>9. CASE Record
  BY <1>9 DEF Record
<1>10. CASE PageFlipFails
  BY <1>10 DEF PageFlipFails
<1>11. CASE NewFlip
  BY <1>11 DEF NewFlip
<1>12. CASE WaitNewFlip
  <2>1. pc = "waitNew" /\ pc' = "idle" /\ sig # "exited" /\ UNCHANGED sigVars
    BY <1>12 DEF WaitNewFlip
  <2>2. CASE ReadEvents
    <3>1. events' = 0 /\ events > 0 /\ UNCHANGED <<first_post, gaveUp, scanout, flip>>
            /\ current_front' \in {next_front, NULL} /\ next_front' = NULL
      BY ONLY <2>2 DEF ReadEvents, Ack
    <3>. QED  BY <2>1, <3>1
  <2>3. CASE ReturnWithoutFlip
    <3>1. gaveUp' /\ gaveUp' \in BOOLEAN /\ UNCHANGED <<first_post, kernelVars>>
            /\ current_front' = next_front /\ next_front' = NULL
      BY ONLY <2>3 DEF ReturnWithoutFlip
    <3>. QED  BY <2>1, <3>1
  <2>. QED  BY <1>12, <2>2, <2>3 DEF WaitNewFlip
<1>13. ASSUME NEW thread \in SignalThreads, Signal(thread)
      PROVE  FaultInv'
  BY <1>13 DEF Signal
<1>14. CASE OnSignal
  BY <1>14 DEF OnSignal
<1>15. CASE HandlerFlip
  BY <1>15 DEF HandlerFlip
<1>16. CASE HandlerWait
  <2>1. sig = "wait" /\ sig' = "exited" /\ UNCHANGED <<pc, bo, sigThread, unflipped>>
    BY <1>16 DEF HandlerWait
  <2>2. CASE ReadEvents
    <3>1. events' = 0 /\ events > 0 /\ UNCHANGED <<first_post, gaveUp, scanout, flip>>
            /\ current_front' \in {next_front, NULL} /\ next_front' = NULL
      BY ONLY <2>2 DEF ReadEvents, Ack
    <3>. QED  BY <2>1, <3>1
  <2>3. CASE ReturnWithoutFlip
    <3>1. gaveUp' /\ gaveUp' \in BOOLEAN /\ UNCHANGED <<first_post, kernelVars>>
            /\ current_front' = next_front /\ next_front' = NULL
      BY ONLY <2>3 DEF ReturnWithoutFlip
    <3>. QED  BY <2>1, <3>1
  <2>. QED  BY <1>16, <2>2, <2>3 DEF HandlerWait
<1>17. CASE HandlerSleep
  BY <1>17 DEF HandlerSleep
<1>18. CASE UNCHANGED vars
  BY <1>18 DEF vars
<1>. QED
  BY <1>1, <1>2, <1>3, <1>4, <1>5, <1>6, <1>7, <1>8, <1>9, <1>10, <1>11, <1>12,
     <1>13, <1>14, <1>15, <1>16, <1>17, <1>18
  DEF Next, PosterStep, HandlerStep

LEMMA FaultInvAlways == ASSUME NeverPosted PROVE Spec => []FaultInv
BY FaultInit, FaultStep, PTL DEF Spec

\* Whatever fails, the head of page_flip waits only for a next_front that was
\* never assigned.
THEOREM OldFlipIsOnlyGarbage == ASSUME NeverPosted PROVE Spec => []OldFlipIsGarbage
<1>1. FaultInv => OldFlipIsGarbage
  BY DEF FaultInv, Scheduled, OldFlipIsGarbage, LatePoints
<1>. QED  BY <1>1, FaultInvAlways, PTL

\* Whatever fails, the front buffer of the context is not older than the kernel's.
THEOREM ContextIsNeverBehind == ASSUME NeverPosted PROVE Spec => []NeverBehind
<1>1. FaultInv => NeverBehind
  BY DEF FaultInv, Ahead, NeverBehind, LatePoints
<1>. QED  BY <1>1, FaultInvAlways, PTL

\* A signal in the posting thread ends the process with a pending flip only in the
\* window after drmModePageFlip, or after a failed drmHandleEvent.
THEOREM ExitRaceIsTheOnlyOne == ASSUME NeverPosted PROVE Spec => []ExitRace
<1>1. FaultInv => ExitRace
  BY DEF FaultInv
<1>. QED  BY <1>1, FaultInvAlways, PTL

-----------------------------------------------------------------------------
(* Types, whatever fails and whatever next_front held.                     *)

\* Events are queued for flips, and one flip is pending at most.
Queued == IF flip = NULL THEN events ELSE events + 1

EventsBounded ==
    /\ Queued <= MaxEvents + 1
    /\ pc \in {"addFb", "setCrtc", "oldFlip", "waitOld", "pageFlip"} => Queued <= MaxEvents

TypeInv ==
    /\ TypeOK
    /\ EventsBounded
    /\ pc # "idle" => bo \in Bos

LEMMA TypeInit == Init => TypeInv
<1>. SUFFICES ASSUME Init PROVE TypeInv
  OBVIOUS
<1>1. waiting_flip \in BOOLEAN
  BY DEF Init
<1>2. TypeOK
  BY <1>1, EventRange DEF Init, TypeOK, Pointers, FlipWaits
<1>3. EventsBounded
  BY EventAssumption DEF Init, EventsBounded, Queued
<1>. QED  BY <1>2, <1>3 DEF Init, TypeInv

\* drmHandleEvent, in the posting thread or in the handler, leaves fewer events.
LEMMA EventsAreRead ==
  ASSUME TypeInv, ReadEvents \/ ReturnWithoutFlip
  PROVE  /\ UNCHANGED <<first_post, scanout, flip>>
         /\ current_front' \in Pointers
         /\ next_front' \in Pointers
         /\ waiting_flip' \in BOOLEAN
         /\ gaveUp' \in BOOLEAN
         /\ events' \in 0..(MaxEvents + 1)
         /\ events' <= events
<1>. USE DEF TypeInv, TypeOK, Pointers
<1>1. CASE ReadEvents
  <2>1. UNCHANGED <<first_post, gaveUp, scanout, flip>> /\ events' = 0 /\ waiting_flip' = FALSE
    BY <1>1 DEF ReadEvents
  <2>2. current_front' \in Pointers /\ next_front' \in Pointers
    BY <1>1 DEF ReadEvents, Ack
  <2>3. events' \in 0..(MaxEvents + 1) /\ events' <= events
    BY <2>1, EventRange, EventAssumption
  <2>. QED  BY <2>1, <2>2, <2>3
<1>2. CASE ReturnWithoutFlip
  <2>1. UNCHANGED <<first_post, kernelVars>> /\ gaveUp' = TRUE /\ waiting_flip' = FALSE
    BY <1>2 DEF ReturnWithoutFlip
  <2>2. current_front' \in Pointers /\ next_front' \in Pointers
    BY <1>2 DEF ReturnWithoutFlip
  <2>3. events' \in 0..(MaxEvents + 1) /\ events' <= events
    BY <2>1, EventAssumption DEF kernelVars
  <2>. QED  BY <2>1, <2>2, <2>3 DEF kernelVars
<1>. QED  BY <1>1, <1>2

LEMMA TypeStep ==
  ASSUME TypeInv, [Next]_vars
  PROVE  TypeInv'
<1>. USE DEF TypeInv, TypeOK, Pointers, FlipWaits
<1>1. CASE VBlank
  <2>1. UNCHANGED <<pc, bo, ctxVars, sig, sigThread>> /\ scanout' = flip /\ flip' = NULL
        /\ flip # NULL /\ events' = events + 1 /\ unflipped' = FALSE
    BY <1>1 DEF VBlank
  <2>2. events' \in 0..(MaxEvents + 1) /\ Queued' = Queued
    BY <2>1, EventAssumption DEF EventsBounded, Queued
  <2>3. EventsBounded'
    BY <2>1, <2>2 DEF EventsBounded
  <2>4. scanout' \in Bos \cup {NULL} /\ flip' \in Bos \cup {NULL} /\ unflipped' \in BOOLEAN
    BY <2>1
  <2>. QED  BY <2>1, <2>2, <2>3, <2>4 DEF ctxVars
<1>2. CASE UNCHANGED vars
  BY <1>2 DEF vars, ctxVars, kernelVars, sigVars, EventsBounded, Queued
<1>3. ASSUME NEW b \in Bos, Post(b)
      PROVE  TypeInv'
  BY <1>3, NullAssumption, EventAssumption
     DEF Post, ctxVars, kernelVars, sigVars, EventsBounded, Queued
<1>4. CASE AddFb
  <2>1. UNCHANGED <<ctxVars, kernelVars, sigVars>> /\ pc = "addFb"
        /\ pc' \in {"setCrtc", "oldFlip", "idle"} /\ bo' = IF pc' = "idle" THEN NULL ELSE bo
    BY <1>4 DEF AddFb, Goto, Done
  <2>2. EventsBounded'
    BY <2>1 DEF kernelVars, EventsBounded, Queued
  <2>. QED  BY <2>1, <2>2 DEF ctxVars, kernelVars, sigVars
<1>5. CASE PageFlip \/ Record \/ SetCrtc \/ SetCrtcFails \/ PageFlipFails
  <2>1. UNCHANGED <<current_front, waiting_flip, gaveUp, events, sigVars>>
        \/ (SetCrtc /\ current_front' = bo /\ UNCHANGED <<waiting_flip, gaveUp, events, sigVars>>)
    BY <1>5 DEF PageFlip, Record, SetCrtc, SetCrtcFails, PageFlipFails, ctxVars, kernelVars
  <2>2. /\ \/ pc \notin {"idle", "record"} /\ pc' \in {"idle", "record"}
           \/ pc = "record" /\ pc' = "newFlip"
        /\ bo' = IF pc' = "idle" THEN NULL ELSE bo
    <3>1. CASE PageFlip
      BY <3>1 DEF PageFlip, Goto
    <3>2. CASE Record
      BY <3>2 DEF Record, Goto
    <3>3. CASE SetCrtc \/ SetCrtcFails \/ PageFlipFails
      BY <3>3 DEF SetCrtc, SetCrtcFails, PageFlipFails, Done
    <3>. QED  BY <1>5, <3>1, <3>2, <3>3
  <2>3. /\ next_front' \in {next_front, bo, NULL}
        /\ scanout' \in {scanout, bo}
        /\ first_post' \in BOOLEAN
    BY <1>5 DEF PageFlip, Record, SetCrtc, SetCrtcFails, PageFlipFails, ctxVars, kernelVars
  <2>4. flip' = flip \/ (pc = "pageFlip" /\ flip = NULL /\ flip' = bo)
    BY <1>5 DEF PageFlip, Record, SetCrtc, SetCrtcFails, PageFlipFails, kernelVars
  <2>5. EventsBounded'
    BY <2>1, <2>2, <2>4, EventAssumption DEF EventsBounded, Queued
  <2>. QED  BY <2>1, <2>2, <2>3, <2>4, <2>5 DEF sigVars
<1>6. CASE OldFlip \/ NewFlip
  <2>1. UNCHANGED <<first_post, current_front, next_front, gaveUp, kernelVars, sigVars>>
    BY <1>6 DEF OldFlip, NewFlip
  <2>2. waiting_flip' \in BOOLEAN
    BY <1>6 DEF OldFlip, NewFlip
  <2>3. /\ pc' \in {"idle", "pageFlip", "waitOld", "waitNew"}
        /\ bo' = IF pc' = "idle" THEN NULL ELSE bo
        /\ pc # "idle"
        /\ pc' \in {"pageFlip", "waitOld"} => pc = "oldFlip"
    BY <1>6 DEF OldFlip, NewFlip, Goto, Done
  <2>4. EventsBounded'
    BY <2>1, <2>3 DEF kernelVars, EventsBounded, Queued
  <2>. QED  BY <2>1, <2>2, <2>3, <2>4 DEF kernelVars, sigVars
<1>7. CASE WaitOldFlip \/ WaitNewFlip
  <2>1. ReadEvents \/ ReturnWithoutFlip
    BY <1>7 DEF WaitOldFlip, WaitNewFlip
  <2>2. /\ pc' \in {"idle", "pageFlip"}
        /\ bo' = IF pc' = "idle" THEN NULL ELSE bo
        /\ pc # "idle"
        /\ pc' = "pageFlip" => pc = "waitOld"
        /\ UNCHANGED sigVars
    BY <1>7 DEF WaitOldFlip, WaitNewFlip, Goto, Done
  <2>3. EventsBounded'
    BY <2>1, <2>2, EventsAreRead, EventAssumption DEF EventsBounded, Queued
  <2>. QED  BY <2>1, <2>2, <2>3, EventsAreRead DEF sigVars
<1>8. ASSUME NEW thread \in SignalThreads, Signal(thread)
      PROVE  TypeInv'
  BY <1>8, SignalAssumption DEF Signal, ctxVars, kernelVars, EventsBounded, Queued
<1>9. CASE OnSignal \/ HandlerFlip \/ HandlerSleep
  <2>1. /\ UNCHANGED <<pc, bo, first_post, current_front, next_front, gaveUp, kernelVars,
                       sigThread>>
        /\ waiting_flip' \in BOOLEAN
    BY <1>9 DEF OnSignal, HandlerFlip, HandlerSleep, Handler, ctxVars
  <2>2. unflipped' \in BOOLEAN
    BY <1>9 DEF OnSignal, HandlerFlip, HandlerSleep
  <2>3. sig' \in {"exited", "sleep", "flipTest", "wait"}
    BY <1>9 DEF OnSignal, HandlerFlip, HandlerSleep, Handler
  <2>4. EventsBounded'
    BY <2>1 DEF kernelVars, EventsBounded, Queued
  <2>. QED  BY <2>1, <2>2, <2>3, <2>4 DEF kernelVars
<1>10. CASE HandlerWait
  <2>1. /\ ReadEvents \/ ReturnWithoutFlip
        /\ sig' = "exited"
        /\ UNCHANGED <<pc, bo, sigThread, unflipped>>
    BY <1>10 DEF HandlerWait, Handler
  <2>2. EventsBounded'
    BY <2>1, EventsAreRead, EventAssumption DEF EventsBounded, Queued
  <2>. QED  BY <2>1, <2>2, EventsAreRead
<1>. QED
  BY <1>1, <1>2, <1>3, <1>4, <1>5, <1>6, <1>7, <1>8, <1>9, <1>10
     DEF Next, PosterStep, HandlerStep

\* The members of the context hold buffers or what was there, and one post adds at most one
\* event to the queue: with the bound on Post it never exceeds MaxEvents + 1.
THEOREM TypeCorrect == Spec => []TypeOK
<1>1. TypeInv => TypeOK
  BY DEF TypeInv
<1>. QED  BY <1>1, TypeInit, TypeStep, PTL DEF Spec
=============================================================================
