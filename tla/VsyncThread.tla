----------------------------- MODULE VsyncThread -----------------------------
(***************************************************************************)
(* Hwc2Device::VsyncThread: a thread that sleeps until the next multiple   *)
(* of the display period and then calls the vsync callback, while binder   *)
(* threads set, enable and disable the callback.  mMutex protects the      *)
(* callback and the flags; it is held during the callback and free during  *)
(* the sleep.                                                              *)
(***************************************************************************)
EXTENDS Integers

CONSTANTS
    Callers,        \* threads that call setCallback, enableCallback and stop
    Callbacks,      \* callbacks a caller may set
    NoCallback,     \* the null callback
    Period,         \* mPeriod
    SleepErrors,    \* the times at which clock_nanosleep may fail
    MayStop,        \* may stop be called?  (Hwc2Device never does.)
    MaxTime         \* bound of the model on the monotonic clock

ASSUME PeriodAssumption == Period \in Nat \ {0}
ASSUME NoCallbackAssumption == NoCallback \notin Callbacks
ASSUME ErrorsAssumption == SleepErrors \subseteq Nat /\ MayStop \in BOOLEAN
ASSUME TimeAssumption == MaxTime \in Nat

VARIABLES
    clock,              \* CLOCK_MONOTONIC
    vpc,                \* where vsyncLoop is
    mNextVsync,
    mStarted,
    mCallback,
    mCallbackEnabled,
    cpc,                \* what each caller does: "idle", "notify", "stopNotify" or "join"
    stamp,              \* ghost: the timestamp of the last callback
    late                \* ghost: callbacks begun since the last disabling

loopVars == <<vpc, mNextVsync>>
flagVars == <<mStarted, mCallback, mCallbackEnabled>>
ghostVars == <<stamp, late>>
vars == <<clock, loopVars, flagVars, cpc, ghostVars>>

LoopPoints == {"begin", "test", "waiting", "woken", "adjust", "sleep", "relock", "fire",
               "calling", "ended"}

TypeOK ==
    /\ clock \in 0..MaxTime
    /\ vpc \in LoopPoints
    /\ mNextVsync \in 0..(MaxTime + Period)
    /\ mStarted \in BOOLEAN
    /\ mCallback \in Callbacks \cup {NoCallback}
    /\ mCallbackEnabled \in BOOLEAN
    /\ cpc \in [Callers -> {"idle", "notify", "stopNotify", "join"}]
    /\ stamp \in -1..MaxTime
    /\ late \in Nat

\* start(0, period) has made the thread.
Init ==
    /\ clock = 0
    /\ vpc = "begin"
    /\ mNextVsync = 0
    /\ mStarted = TRUE
    /\ mCallback = NoCallback
    /\ mCallbackEnabled = FALSE
    /\ cpc = [c \in Callers |-> "idle"]
    /\ stamp = -1
    /\ late = 0

Tick ==
    /\ clock < MaxTime         \* bound
    /\ clock' = clock + 1
    /\ UNCHANGED <<loopVars, flagVars, cpc, ghostVars>>

-----------------------------------------------------------------------------
(* vsyncLoop.                                                              *)

\* The loop holds mMutex at these points.
MutexFree == vpc \notin {"test", "fire", "calling"}

LoopGoto(point) == vpc' = point /\ UNCHANGED <<clock, flagVars, cpc>>

Begin ==
    /\ vpc = "begin"
    /\ LoopGoto(IF mStarted THEN "test" ELSE "ended")
    /\ UNCHANGED <<mNextVsync, ghostVars>>

\* The head of the loop: wait while disabled, else go on and free the mutex.
TestEnabled ==
    /\ vpc = "test"
    /\ LoopGoto(IF mCallbackEnabled THEN "adjust"
                ELSE IF mStarted THEN "waiting" ELSE "ended")
    /\ UNCHANGED <<mNextVsync, ghostVars>>

\* A notified wait takes the mutex and tests its condition again.
Woken ==
    /\ vpc = "woken"
    /\ LoopGoto(IF ~mStarted THEN "ended"
                ELSE IF mCallbackEnabled THEN "adjust" ELSE "waiting")
    /\ UNCHANGED <<mNextVsync, ghostVars>>

\* (mutant) The next vsync is counted from now.
NextVsyncFromNow(t) == IF mNextVsync < t THEN t + Period ELSE mNextVsync

\* The first vsync that is not in the past.
NextVsync(t) ==
    IF mNextVsync < t
    THEN mNextVsync + Period * ((t - mNextVsync + Period - 1) \div Period)
    ELSE mNextVsync

Adjust ==
    /\ vpc = "adjust"
    /\ mNextVsync' = NextVsync(clock)
    /\ LoopGoto("sleep")
    /\ UNCHANGED ghostVars

\* sleepUntil(mNextVsync) is over; after an error the loop takes the mutex and
\* starts over.
Wake ==
    /\ vpc = "sleep"
    /\ \/ clock >= mNextVsync /\ LoopGoto("relock")
       \/ clock \in SleepErrors /\ LoopGoto("test")
    /\ UNCHANGED <<mNextVsync, ghostVars>>

Relock ==
    /\ vpc = "relock"
    /\ LoopGoto("fire")
    /\ UNCHANGED <<mNextVsync, ghostVars>>

\* The callback begins, if there is one.
Fire ==
    /\ vpc = "fire"
    /\ LoopGoto("calling")
    /\ IF mCallback # NoCallback
       THEN /\ stamp' = mNextVsync
            /\ late' = IF mCallbackEnabled THEN 0 ELSE late + 1
       ELSE UNCHANGED ghostVars
    /\ UNCHANGED mNextVsync

\* (mutant) The vsync that was just reported stays the next one.
EndCallbackKeepsNext ==
    /\ vpc = "calling"
    /\ LoopGoto("test")
    /\ UNCHANGED <<mNextVsync, ghostVars>>

\* (mutant) The loop does not look at mCallbackEnabled again.
EndCallbackSkipsTest ==
    /\ vpc = "calling"
    /\ mNextVsync' = mNextVsync + Period
    /\ LoopGoto("adjust")
    /\ UNCHANGED ghostVars

EndCallback ==
    /\ vpc = "calling"
    /\ mNextVsync' = mNextVsync + Period
    /\ LoopGoto("test")
    /\ UNCHANGED ghostVars

-----------------------------------------------------------------------------
(* The callers.                                                            *)

CallerGoto(c, point) == cpc' = [cpc EXCEPT ![c] = point]

SetCallback(c, callback) ==
    /\ cpc[c] = "idle"
    /\ MutexFree
    /\ mCallback' = callback
    /\ UNCHANGED <<clock, loopVars, mStarted, mCallbackEnabled, cpc, ghostVars>>

EnableCallback(c, enable) ==
    /\ cpc[c] = "idle"
    /\ MutexFree
    /\ mCallbackEnabled' = enable
    /\ late' = IF mCallbackEnabled /\ ~enable THEN 0 ELSE late
    /\ CallerGoto(c, "notify")
    /\ UNCHANGED <<clock, loopVars, mStarted, mCallback, stamp>>

Stop(c) ==
    /\ MayStop
    /\ cpc[c] = "idle"
    /\ mStarted
    /\ MutexFree
    /\ mStarted' = FALSE
    /\ CallerGoto(c, "stopNotify")
    /\ UNCHANGED <<clock, loopVars, mCallback, mCallbackEnabled, ghostVars>>

\* (mutant) A notification is lost.
NotifyForgotten(c) ==
    /\ cpc[c] \in {"notify", "stopNotify"}
    /\ CallerGoto(c, IF cpc[c] = "notify" THEN "idle" ELSE "join")
    /\ UNCHANGED <<clock, loopVars, flagVars, ghostVars>>

\* mCondition.notify_all(), after the mutex was freed.
Notify(c) ==
    /\ cpc[c] \in {"notify", "stopNotify"}
    /\ vpc' = IF vpc = "waiting" THEN "woken" ELSE vpc
    /\ CallerGoto(c, IF cpc[c] = "notify" THEN "idle" ELSE "join")
    /\ UNCHANGED <<clock, mNextVsync, flagVars, ghostVars>>

Join(c) ==
    /\ cpc[c] = "join"
    /\ vpc = "ended"
    /\ CallerGoto(c, "idle")
    /\ UNCHANGED <<clock, loopVars, flagVars, ghostVars>>

-----------------------------------------------------------------------------
LoopStep ==
    \/ Begin
    \/ TestEnabled
    \/ Woken
    \/ Adjust
    \/ Wake
    \/ Relock
    \/ Fire
    \/ EndCallback

CallerStep(c) ==
    \/ \E callback \in Callbacks \cup {NoCallback} : SetCallback(c, callback)
    \/ \E enable \in BOOLEAN : EnableCallback(c, enable)
    \/ Stop(c)
    \/ Notify(c)
    \/ Join(c)

Next ==
    \/ Tick
    \/ LoopStep
    \/ \E c \in Callers : CallerStep(c)

Spec == Init /\ [][Next]_vars

\* Time passes, the loop runs when it can, and a call that has begun ends.
FairSpec ==
    /\ Spec
    /\ WF_vars(Tick)
    /\ WF_vars(LoopStep)
    /\ \A c \in Callers : WF_vars(Notify(c) \/ Join(c))

-----------------------------------------------------------------------------
(* Properties.                                                             *)

\* The vsync the loop will report next is at most one period away: after any
\* sleep of the thread, however long, it catches up without a burst.  It stays on
\* the display's raster, and no callback reports a vsync that is still to come.
NextVsyncNear ==
    /\ mNextVsync <= clock + Period
    /\ vpc = "calling" => mNextVsync % Period = 0 /\ mNextVsync <= clock
    /\ vpc = "sleep" => mNextVsync > stamp

\* A vsync is reported once: the timestamps of the callbacks increase, whatever
\* was disabled, enabled or replaced in between.
StampsIncrease ==
    [][vpc = "fire" /\ vpc' = "calling" /\ mCallback # NoCallback => stamp' > stamp]_vars

\* At most one callback begins after enableCallback(false): the one the loop was
\* already sleeping for.
AtMostOneLate == late <= 1

\* While the callback is enabled the loop goes on reporting; it never sleeps
\* through an enabling.
EnabledFires ==
    \A t \in 0..(MaxTime - 2 * Period) :
        mStarted /\ mCallbackEnabled /\ clock = t
            ~> (vpc = "calling" /\ clock >= t) \/ ~mCallbackEnabled \/ ~mStarted

\* The two liveness properties stop two periods short of the end of time.

\* stop() of a disabled thread returns.  (Of an enabled one it never does: the
\* loop looks at mStarted only while it waits.)
StopJoins ==
    \A c \in Callers : cpc[c] = "stopNotify" /\ ~mCallbackEnabled /\ clock <= MaxTime - 2 * Period
        ~> cpc[c] = "idle" \/ mCallbackEnabled
=============================================================================
