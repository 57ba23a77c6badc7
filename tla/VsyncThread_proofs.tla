-------------------------- MODULE VsyncThread_proofs --------------------------
(***************************************************************************)
(* Proofs about VsyncThread for any period, any number of callers and any  *)
(* sleep errors: the raster, the timestamps and the late callbacks.        *)
(***************************************************************************)
EXTENDS VsyncThread, TLAPS

-----------------------------------------------------------------------------
(* The raster: multiples of the period.                                    *)

OnRaster(n) == \E k \in Nat : n = Period * k

\* Division with remainder.
LEMMA Division ==
  ASSUME NEW x \in Nat, NEW p \in Nat, p > 0
  PROVE  /\ x \div p \in Nat
         /\ p * (x \div p) \in Nat
         /\ p * (x \div p) <= x
         /\ x < p * (x \div p) + p
<1>1. x \div p \in Int
  BY SMTT(30)
<1>2. p * (x \div p) <= x /\ x < p * (x \div p) + p
  BY SMTT(30)
<1>3. x \div p >= 0
  BY SMTT(30)
<1>. QED  BY <1>1, <1>2, <1>3

\* A multiple leaves no remainder.
LEMMA Multiple ==
  ASSUME NEW p \in Nat, p > 0, NEW k \in Nat
  PROVE  (p * k) % p = 0
BY SMTT(30)

LEMMA RasterRemainder ==
  ASSUME NEW n \in Nat, OnRaster(n)
  PROVE  n % Period = 0
BY PeriodAssumption, Multiple DEF OnRaster

LEMMA RasterNext ==
  ASSUME NEW n \in Nat, OnRaster(n), NEW q \in Nat
  PROVE  OnRaster(n + Period * q)
<1>1. PICK k \in Nat : n = Period * k
  BY DEF OnRaster
<1>2. n + Period * q = Period * (k + q) /\ k + q \in Nat
  BY <1>1, PeriodAssumption
<1>. QED  BY <1>2 DEF OnRaster

\* What the formula of the loop computes: a vsync of the raster that is neither in
\* the past nor a whole period away, unless it was there before.
LEMMA NextVsyncBounds ==
  ASSUME NEW t \in Nat, mNextVsync \in Nat, OnRaster(mNextVsync), mNextVsync <= t + Period
  PROVE  /\ NextVsync(t) \in Nat
         /\ OnRaster(NextVsync(t))
         /\ NextVsync(t) >= t
         /\ NextVsync(t) >= mNextVsync
         /\ NextVsync(t) <= t + Period
<1>0. Period \in Nat /\ Period > 0
  BY PeriodAssumption
<1>1. CASE mNextVsync >= t
  BY <1>0, <1>1 DEF NextVsync
<1>2. CASE mNextVsync < t
  <2>. DEFINE a == t - mNextVsync + Period - 1
              q == a \div Period
  <2>1. a \in Nat
    BY <1>0, <1>2
  <2>2. q \in Nat /\ Period * q \in Nat /\ Period * q <= a /\ a < Period * q + Period
    BY <1>0, <2>1, Division
  <2>. HIDE DEF q
  <2>4. NextVsync(t) = mNextVsync + Period * q
    BY <1>2 DEF NextVsync, q
  <2>5. OnRaster(NextVsync(t))
    BY <2>2, <2>4, RasterNext
  <2>. QED  BY <1>0, <1>2, <2>2, <2>4, <2>5
<1>. QED  BY <1>0, <1>1, <1>2

-----------------------------------------------------------------------------
(* The inductive invariant.                                                *)

\* After the sleep the vsync is due; only the callback under way has reported it.
VsyncDue ==
    /\ OnRaster(mNextVsync)
    /\ mNextVsync <= clock + Period
    /\ vpc \in {"relock", "fire", "calling"} => mNextVsync <= clock
    /\ stamp <= mNextVsync
    /\ vpc # "calling" => stamp < mNextVsync

\* While the loop is on its way to a callback that was disabled meanwhile, none has
\* begun since the disabling: the head of the loop would have made it wait.
LateOnTheWay ==
    /\ late <= 1
    /\ ~mCallbackEnabled /\ vpc \in {"adjust", "sleep", "relock", "fire"} => late = 0

Types ==
    /\ clock \in Nat
    /\ clock <= MaxTime
    /\ mNextVsync \in Nat
    /\ stamp \in Int
    /\ stamp >= -1
    /\ late \in Nat

VsyncInv == Types /\ VsyncDue /\ LateOnTheWay

LEMMA VsyncInit == Init => VsyncInv
<1>1. OnRaster(0)
  BY PeriodAssumption DEF OnRaster
<1>. QED
  BY <1>1, TimeAssumption, PeriodAssumption DEF Init, VsyncInv, Types, VsyncDue, LateOnTheWay

LEMMA VsyncStep ==
  ASSUME VsyncInv, [Next]_vars
  PROVE  VsyncInv'
<1>. USE PeriodAssumption, TimeAssumption
     DEF VsyncInv, Types, VsyncDue, LateOnTheWay, LoopGoto, flagVars, loopVars, ghostVars,
         MutexFree, CallerGoto
<1>1. CASE Tick
  BY <1>1 DEF Tick, OnRaster
<1>2. CASE Begin \/ TestEnabled \/ Woken \/ Relock
  BY <1>2 DEF Begin, TestEnabled, Woken, Relock, OnRaster
<1>3. CASE Adjust
  <2>1. vpc' = "sleep" /\ mNextVsync' = NextVsync(clock) /\ UNCHANGED <<clock, mCallbackEnabled, stamp, late>>
    BY <1>3 DEF Adjust
  <2>2. /\ NextVsync(clock) \in Nat /\ OnRaster(NextVsync(clock))
        /\ NextVsync(clock) >= mNextVsync /\ NextVsync(clock) <= clock + Period
    BY NextVsyncBounds
  <2>3. OnRaster(mNextVsync')
    BY <2>1, <2>2
  <2>. QED  BY <1>3, <2>1, <2>2, <2>3 DEF Adjust, OnRaster
<1>4. CASE Wake
  BY <1>4 DEF Wake, OnRaster
<1>5. CASE Fire
  <2>1. CASE mCallback # NoCallback
    <3>1. stamp' = mNextVsync /\ late' = (IF mCallbackEnabled THEN 0 ELSE late + 1)
      BY <1>5, <2>1 DEF Fire
    <3>2. late' \in Nat /\ late' <= 1
      BY <1>5, <3>1 DEF Fire
    <3>. QED  BY <1>5, <3>1, <3>2 DEF Fire, OnRaster
  <2>2. CASE mCallback = NoCallback
    BY <1>5, <2>2 DEF Fire, OnRaster
  <2>. QED  BY <2>1, <2>2
<1>6. CASE EndCallback
  <2>1. OnRaster(mNextVsync + Period * 1)
    BY RasterNext
  <2>2. mNextVsync' = mNextVsync + Period * 1
    BY <1>6 DEF EndCallback
  <2>3. OnRaster(mNextVsync')
    BY <2>1, <2>2
  <2>4. /\ vpc = "calling" /\ vpc' = "test" /\ mNextVsync' = mNextVsync + Period
        /\ UNCHANGED <<clock, mCallbackEnabled, stamp, late>>
    BY <1>6 DEF EndCallback
  <2>5. Types' /\ LateOnTheWay'
    BY <2>4
  <2>6. mNextVsync' <= clock' + Period /\ stamp' < mNextVsync'
    BY <2>4
  <2>. QED  BY ONLY <2>3, <2>4, <2>5, <2>6 DEF VsyncInv, VsyncDue
<1>7. ASSUME NEW c \in Callers, NEW callback \in Callbacks \cup {NoCallback},
             SetCallback(c, callback)
      PROVE  VsyncInv'
  BY <1>7 DEF SetCallback, OnRaster
<1>8. ASSUME NEW c \in Callers, NEW enable \in BOOLEAN, EnableCallback(c, enable)
      PROVE  VsyncInv'
  BY <1>8 DEF EnableCallback, OnRaster
<1>9. ASSUME NEW c \in Callers, Stop(c) \/ Notify(c) \/ Join(c)
      PROVE  VsyncInv'
  BY <1>9 DEF Stop, Notify, Join, OnRaster
<1>10. CASE UNCHANGED vars
  BY <1>10 DEF vars, OnRaster
<1>. QED
  BY <1>1, <1>2, <1>3, <1>4, <1>5, <1>6, <1>7, <1>8, <1>9, <1>10 DEF Next, LoopStep, CallerStep

THEOREM VsyncInvariant == Spec => []VsyncInv
BY VsyncInit, VsyncStep, PTL DEF Spec

-----------------------------------------------------------------------------
\* The next vsync is on the raster, at most a period away, and one that is being
\* reported is due (vsyncLoop).
THEOREM VsyncIsNear == Spec => []NextVsyncNear
<1>1. VsyncInv => NextVsyncNear
  BY RasterRemainder DEF VsyncInv, Types, VsyncDue, NextVsyncNear
<1>. QED  BY <1>1, VsyncInvariant, PTL

\* Timestamps increase (the call of the callback in vsyncLoop).
THEOREM StampsDoIncrease == Spec => StampsIncrease
<1>1. VsyncInv /\ [Next]_vars
        => [vpc = "fire" /\ vpc' = "calling" /\ mCallback # NoCallback => stamp' > stamp]_vars
  <2>. SUFFICES ASSUME VsyncInv, [Next]_vars, vpc = "fire", vpc' = "calling",
                       mCallback # NoCallback
                PROVE  stamp' > stamp
    OBVIOUS
  <2>1. Fire
    BY DEF Next, LoopStep, CallerStep, Tick, Begin, TestEnabled, Woken, Adjust, Wake, Relock,
           EndCallback, SetCallback, EnableCallback, Stop, Notify, Join, LoopGoto, loopVars, vars
  <2>. QED  BY <2>1 DEF Fire, VsyncInv, Types, VsyncDue
<1>. QED  BY <1>1, VsyncInvariant, PTL DEF Spec, StampsIncrease

\* At most one callback begins after a disabling (enableCallback).
THEOREM OneIsLate == Spec => []AtMostOneLate
<1>1. VsyncInv => AtMostOneLate
  BY DEF VsyncInv, LateOnTheWay, AtMostOneLate
<1>. QED  BY <1>1, VsyncInvariant, PTL

-----------------------------------------------------------------------------
(* The condition variable.                                                 *)

FlagTypes ==
    /\ vpc \in LoopPoints
    /\ mStarted \in BOOLEAN /\ mCallbackEnabled \in BOOLEAN
    /\ mCallback \in Callbacks \cup {NoCallback}
    /\ cpc \in [Callers -> {"idle", "notify", "stopNotify", "join"}]

\* A loop that waits although its condition is met is about to be notified, and a
\* caller of stop that has notified joins a thread that does not wait any more.
NoLostWakeup ==
    /\ vpc = "waiting" /\ (mCallbackEnabled \/ ~mStarted) =>
           \E c \in Callers : cpc[c] \in {"notify", "stopNotify"}
    /\ \A c \in Callers : cpc[c] = "join" => ~mStarted /\ vpc # "waiting"

WakeInv ==
    /\ FlagTypes
    /\ NoLostWakeup
    /\ \A c \in Callers : cpc[c] = "stopNotify" => ~mStarted

LEMMA WakeStep ==
  ASSUME WakeInv, [Next]_vars
  PROVE  WakeInv'
<1>. USE DEF WakeInv, FlagTypes, LoopPoints, LoopGoto, flagVars, loopVars, ghostVars, CallerGoto
<1>1. CASE Tick \/ UNCHANGED vars
  BY <1>1 DEF Tick, vars, NoLostWakeup
<1>2. CASE Begin \/ TestEnabled \/ Woken
  BY <1>2 DEF Begin, TestEnabled, Woken, NoLostWakeup
<1>3. CASE Adjust \/ Wake \/ Relock \/ Fire \/ EndCallback
  BY <1>3 DEF Adjust, Wake, Relock, Fire, EndCallback, NoLostWakeup
<1>4. ASSUME NEW c \in Callers, NEW callback \in Callbacks \cup {NoCallback},
             SetCallback(c, callback)
      PROVE  WakeInv'
  BY <1>4 DEF SetCallback, NoLostWakeup
<1>5. ASSUME NEW c \in Callers, NEW enable \in BOOLEAN, EnableCallback(c, enable)
      PROVE  WakeInv'
  <2>1. cpc'[c] = "notify" /\ \A d \in Callers \ {c} : cpc'[d] = cpc[d]
    BY <1>5 DEF EnableCallback
  <2>. QED  BY <1>5, <2>1 DEF EnableCallback, NoLostWakeup
<1>6. ASSUME NEW c \in Callers, Stop(c)
      PROVE  WakeInv'
  <2>1. cpc'[c] = "stopNotify" /\ \A d \in Callers \ {c} : cpc'[d] = cpc[d]
    BY <1>6 DEF Stop
  <2>. QED  BY <1>6, <2>1 DEF Stop, NoLostWakeup
<1>7. ASSUME NEW c \in Callers, Notify(c)
      PROVE  WakeInv'
  BY <1>7 DEF Notify, NoLostWakeup
<1>8. ASSUME NEW c \in Callers, Join(c)
      PROVE  WakeInv'
  BY <1>8 DEF Join, NoLostWakeup
<1>. QED  BY <1>1, <1>2, <1>3, <1>4, <1>5, <1>6, <1>7, <1>8 DEF Next, LoopStep, CallerStep

LEMMA WakeInvariant == Spec => []WakeInv
<1>1. Init => WakeInv
  BY DEF Init, WakeInv, FlagTypes, LoopPoints, NoLostWakeup
<1>. QED  BY <1>1, WakeStep, PTL DEF Spec

\* The notification of enableCallback and stop, sent after the mutex was freed, never
\* misses the loop, whatever other callers do in between.
THEOREM WakeupIsNotLost == Spec => []NoLostWakeup
<1>1. WakeInv => NoLostWakeup
  BY DEF WakeInv
<1>. QED  BY <1>1, WakeInvariant, PTL

\* A timestamp is taken when its vsync is due.
LEMMA StampInThePast == Spec => [](stamp <= clock)
<1>1. Init => stamp <= clock
  BY DEF Init
<1>2. VsyncInv /\ stamp <= clock /\ [Next]_vars => (stamp <= clock)'
  <2>. SUFFICES ASSUME VsyncInv, stamp <= clock, [Next]_vars PROVE stamp' <= clock'
    OBVIOUS
  <2>1. clock' = clock \/ clock' = clock + 1
    BY DEF Next, LoopStep, CallerStep, Tick, Begin, TestEnabled, Woken, Adjust, Wake, Relock,
           Fire, EndCallback, SetCallback, EnableCallback, Stop, Notify, Join, LoopGoto, vars
  <2>2. stamp' = stamp \/ (vpc = "fire" /\ stamp' = mNextVsync)
    BY DEF Next, LoopStep, CallerStep, Tick, Begin, TestEnabled, Woken, Adjust, Wake, Relock,
           Fire, EndCallback, SetCallback, EnableCallback, Stop, Notify, Join, ghostVars, vars
  <2>. QED  BY <2>1, <2>2 DEF VsyncInv, Types, VsyncDue
<1>. QED  BY <1>1, <1>2, VsyncInvariant, PTL DEF Spec

\* All variables of the thread and its callers keep their types; in particular the
\* vsync stays within a period of the clock and no timestamp is in the future.
THEOREM TypeCorrect == Spec => []TypeOK
<1>1. VsyncInv /\ WakeInv /\ stamp <= clock => TypeOK
  <2>. SUFFICES ASSUME VsyncInv, WakeInv, stamp <= clock PROVE TypeOK
    OBVIOUS
  <2>. USE PeriodAssumption, TimeAssumption DEF VsyncInv, Types, VsyncDue
  <2>1. clock \in 0..MaxTime /\ mNextVsync \in 0..(MaxTime + Period) /\ late \in Nat
    OBVIOUS
  <2>2. stamp \in -1..MaxTime
    OBVIOUS
  <2>. QED  BY <2>1, <2>2 DEF WakeInv, FlagTypes, TypeOK
<1>. QED  BY <1>1, VsyncInvariant, WakeInvariant, StampInThePast, PTL
=============================================================================
