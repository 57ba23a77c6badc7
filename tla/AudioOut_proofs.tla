------------------------- MODULE AudioOut_proofs -------------------------
(***************************************************************************)
(* Proofs about AudioOut for any number of threads and streams: who holds  *)
(* which lock at which point, and what that says about the pcm.            *)
(***************************************************************************)
EXTENDS AudioOut, TLAPS

\* Where a thread holds the lock of the device, and where that of its stream.
AdevPoints == {"writeLock", "start", "writeFreeAdev", "failFreeAdev", "standbyLock", "pcmClose",
               "standbyFree", "standbyFreeAdev"}
OutPoints == {"start", "writeFreeAdev", "pcmWrite", "failFreeAdev", "writeFree", "pcmClose",
              "standbyFree"}

InCall == \A t \in Threads : pc[t] = "idle" <=> stream[t] = NULL

AdevHeld == \A t \in Threads : adevLock = t <=> pc[t] \in AdevPoints

OutHeld ==
    \A t \in Threads, s \in Streams : outLock[s] = t <=> stream[t] = s /\ pc[t] \in OutPoints

\* A stream that is about to be written, or that is written, is out of standby.
WriteStarted ==
    \A t \in Threads : pc[t] \in {"writeFreeAdev", "pcmWrite"} => ~standby[stream[t]]

\* A stream that was closed is used by the closing thread only, and is in standby
\* when that thread has been at it.
ClosedInStandby ==
    \A s \in Streams \ opened :
        /\ (\A t \in Threads : stream[t] # s) => standby[s]
        /\ \A t \in Threads : stream[t] = s =>
              /\ pc[t] \in StandbyPoints
              /\ pc[t] \in {"standbyFree", "standbyFreeAdev"} => standby[s]
              /\ \A u \in Threads : stream[u] = s => u = t

LockInv == InCall /\ AdevHeld /\ OutHeld
PcmInv == PcmMatchesStandby /\ WriteStarted
AudioInv == TypeOK /\ LockInv /\ PcmInv /\ ClosedInStandby

LEMMA AudioInit == Init => AudioInv
BY NullAssumption
DEF Init, AudioInv, TypeOK, LockInv, InCall, AdevHeld, OutHeld, PcmInv, PcmMatchesStandby,
    WriteStarted, ClosedInStandby, AdevPoints, OutPoints, WritePoints, StandbyPoints

\* Every step keeps the types.
LEMMA AudioTypes ==
  ASSUME AudioInv, [Next]_vars
  PROVE  TypeOK'
<1>. USE NullAssumption
     DEF AudioInv, TypeOK, LockInv, InCall, WritePoints, StandbyPoints, At, Goto, Call, Return, LockAdev, FreeAdev, LockOut, FreeOut, streamVars,
         lockVars
<1>1. ASSUME NEW s \in Streams, OpenStream(s)
      PROVE  TypeOK'
  BY <1>1 DEF OpenStream
<1>2. ASSUME NEW t \in Threads, NEW s \in Streams, CallWrite(t, s)
      PROVE  TypeOK'
  BY <1>2 DEF CallWrite
<1>3. ASSUME NEW t \in Threads, NEW s \in Streams, CallStandby(t, s)
      PROVE  TypeOK'
  BY <1>3 DEF CallStandby
<1>4. ASSUME NEW t \in Threads, NEW s \in Streams, CallClose(t, s)
      PROVE  TypeOK'
  BY <1>4 DEF CallClose
<1>5. ASSUME NEW t \in Threads, WriteLockAdev(t)
      PROVE  TypeOK'
  BY <1>5 DEF WriteLockAdev
<1>6. ASSUME NEW t \in Threads, WriteLockOut(t)
      PROVE  TypeOK'
  BY <1>6 DEF WriteLockOut
<1>7. ASSUME NEW t \in Threads, Start(t)
      PROVE  TypeOK'
  BY <1>7 DEF Start, StartOutputStream
<1>8. ASSUME NEW t \in Threads, WriteFreeAdev(t)
      PROVE  TypeOK'
  BY <1>8 DEF WriteFreeAdev
<1>9. ASSUME NEW t \in Threads, FailFreeAdev(t)
      PROVE  TypeOK'
  BY <1>9 DEF FailFreeAdev
<1>10. ASSUME NEW t \in Threads, PcmWrite(t)
      PROVE  TypeOK'
  BY <1>10 DEF PcmWrite
<1>11. ASSUME NEW t \in Threads, WriteFreeOut(t)
      PROVE  TypeOK'
  BY <1>11 DEF WriteFreeOut
<1>12. ASSUME NEW t \in Threads, EndWrite(t)
      PROVE  TypeOK'
  BY <1>12 DEF EndWrite
<1>13. ASSUME NEW t \in Threads, StandbyLockAdev(t)
      PROVE  TypeOK'
  BY <1>13 DEF StandbyLockAdev
<1>14. ASSUME NEW t \in Threads, StandbyLockOut(t)
      PROVE  TypeOK'
  BY <1>14 DEF StandbyLockOut
<1>15. ASSUME NEW t \in Threads, PcmClose(t)
      PROVE  TypeOK'
  BY <1>15 DEF PcmClose, EnterStandby
<1>16. ASSUME NEW t \in Threads, StandbyFreeOut(t)
      PROVE  TypeOK'
  BY <1>16 DEF StandbyFreeOut
<1>17. ASSUME NEW t \in Threads, StandbyFreeAdev(t)
      PROVE  TypeOK'
  BY <1>17 DEF StandbyFreeAdev
<1>18. CASE UNCHANGED vars
  BY <1>18 DEF vars
<1>. QED
  BY <1>1, <1>2, <1>3, <1>4, <1>5, <1>6, <1>7, <1>8, <1>9, <1>10, <1>11, <1>12, <1>13,
     <1>14, <1>15, <1>16, <1>17, <1>18
  DEF Next, ThreadStep

\* Every step keeps track of the locks.
LEMMA AudioLocks ==
  ASSUME AudioInv, [Next]_vars
  PROVE  LockInv'
<1>. USE NullAssumption
     DEF AudioInv, TypeOK, LockInv, InCall, AdevHeld, OutHeld, AdevPoints, OutPoints,
         WritePoints, StandbyPoints, At, Goto, Call, Return, LockAdev, FreeAdev, LockOut, FreeOut, streamVars,
         lockVars
<1>1. ASSUME NEW s \in Streams, OpenStream(s)
      PROVE  LockInv'
  BY <1>1 DEF OpenStream
<1>2. ASSUME NEW t \in Threads, NEW s \in Streams, CallWrite(t, s)
      PROVE  LockInv'
  BY <1>2 DEF CallWrite
<1>3. ASSUME NEW t \in Threads, NEW s \in Streams, CallStandby(t, s)
      PROVE  LockInv'
  BY <1>3 DEF CallStandby
<1>4. ASSUME NEW t \in Threads, NEW s \in Streams, CallClose(t, s)
      PROVE  LockInv'
  BY <1>4 DEF CallClose
<1>5. ASSUME NEW t \in Threads, WriteLockAdev(t)
      PROVE  LockInv'
  BY <1>5 DEF WriteLockAdev
<1>6. ASSUME NEW t \in Threads, WriteLockOut(t)
      PROVE  LockInv'
  BY <1>6 DEF WriteLockOut
<1>7. ASSUME NEW t \in Threads, Start(t)
      PROVE  LockInv'
  BY <1>7 DEF Start, StartOutputStream
<1>8. ASSUME NEW t \in Threads, WriteFreeAdev(t)
      PROVE  LockInv'
  BY <1>8 DEF WriteFreeAdev
<1>9. ASSUME NEW t \in Threads, FailFreeAdev(t)
      PROVE  LockInv'
  BY <1>9 DEF FailFreeAdev
<1>10. ASSUME NEW t \in Threads, PcmWrite(t)
      PROVE  LockInv'
  BY <1>10 DEF PcmWrite
<1>11. ASSUME NEW t \in Threads, WriteFreeOut(t)
      PROVE  LockInv'
  BY <1>11 DEF WriteFreeOut
<1>12. ASSUME NEW t \in Threads, EndWrite(t)
      PROVE  LockInv'
  BY <1>12 DEF EndWrite
<1>13. ASSUME NEW t \in Threads, StandbyLockAdev(t)
      PROVE  LockInv'
  BY <1>13 DEF StandbyLockAdev
<1>14. ASSUME NEW t \in Threads, StandbyLockOut(t)
      PROVE  LockInv'
  BY <1>14 DEF StandbyLockOut
<1>15. ASSUME NEW t \in Threads, PcmClose(t)
      PROVE  LockInv'
  BY <1>15 DEF PcmClose, EnterStandby
<1>16. ASSUME NEW t \in Threads, StandbyFreeOut(t)
      PROVE  LockInv'
  BY <1>16 DEF StandbyFreeOut
<1>17. ASSUME NEW t \in Threads, StandbyFreeAdev(t)
      PROVE  LockInv'
  BY <1>17 DEF StandbyFreeAdev
<1>18. CASE UNCHANGED vars
  BY <1>18 DEF vars
<1>. QED
  BY <1>1, <1>2, <1>3, <1>4, <1>5, <1>6, <1>7, <1>8, <1>9, <1>10, <1>11, <1>12, <1>13,
     <1>14, <1>15, <1>16, <1>17, <1>18
  DEF Next, ThreadStep

\* No step closes the pcm of a stream that another thread writes to.
LEMMA AudioPcms ==
  ASSUME AudioInv, [Next]_vars
  PROVE  PcmInv'
<1>. USE NullAssumption
     DEF AudioInv, TypeOK, LockInv, InCall, OutHeld, PcmInv, PcmMatchesStandby, WriteStarted,
         OutPoints, WritePoints, StandbyPoints, At, Goto, Call, Return, LockAdev, FreeAdev, LockOut, FreeOut, streamVars,
         lockVars
<1>1. ASSUME NEW s \in Streams, OpenStream(s)
      PROVE  PcmInv'
  <2>1. standby[s] /\ ~pcm[s] /\ card # s
    BY <1>1 DEF OpenStream, ClosedInStandby
  <2>2. \A u \in Threads : stream[u] # s /\ UNCHANGED <<pc, stream, card>>
    BY <1>1 DEF OpenStream
  <2>3. standby' = [standby EXCEPT ![s] = TRUE] /\ pcm' = [pcm EXCEPT ![s] = FALSE]
    BY <1>1 DEF OpenStream
  <2>4. standby' = standby /\ pcm' = pcm /\ card' = card
    BY <1>1, <2>1, <2>3 DEF OpenStream
  <2>. QED BY <2>2, <2>4
<1>2. ASSUME NEW t \in Threads, NEW s \in Streams, CallWrite(t, s)
      PROVE  PcmInv'
  BY <1>2 DEF CallWrite
<1>3. ASSUME NEW t \in Threads, NEW s \in Streams, CallStandby(t, s)
      PROVE  PcmInv'
  BY <1>3 DEF CallStandby
<1>4. ASSUME NEW t \in Threads, NEW s \in Streams, CallClose(t, s)
      PROVE  PcmInv'
  BY <1>4 DEF CallClose
<1>5. ASSUME NEW t \in Threads, WriteLockAdev(t)
      PROVE  PcmInv'
  BY <1>5 DEF WriteLockAdev
<1>6. ASSUME NEW t \in Threads, WriteLockOut(t)
      PROVE  PcmInv'
  BY <1>6 DEF WriteLockOut
<1>7. ASSUME NEW t \in Threads, Start(t)
      PROVE  PcmInv'
  <2>1. stream[t] \in Streams /\ UNCHANGED stream
    BY <1>7 DEF Start
  <2>2. pc' = [pc EXCEPT ![t] = "writeFreeAdev"] \/ pc' = [pc EXCEPT ![t] = "failFreeAdev"]
    BY <1>7 DEF Start
  <2>3. CASE UNCHANGED <<standby, pcm, card>>
    BY <1>7, <2>1, <2>2, <2>3 DEF Start, StartOutputStream
  <2>4. CASE StartOutputStream(stream[t])
    <3>1. /\ standby' = [standby EXCEPT ![stream[t]] = FALSE]
          /\ pcm' = [pcm EXCEPT ![stream[t]] = TRUE]
          /\ card = NULL /\ card' = stream[t]
      BY <2>4 DEF StartOutputStream
    <3>2. ASSUME NEW s \in Streams
          PROVE  pcm'[s] = ~standby'[s] /\ (pcm'[s] <=> card' = s)
      <4>1. CASE s = stream[t]
        <5>1. pcm'[s] /\ ~standby'[s] /\ pcm'[s] \in BOOLEAN /\ standby'[s] \in BOOLEAN
          BY <2>1, <3>1, <4>1
        <5>2. card' = s
          BY <3>1, <4>1
        <5>. QED BY <5>1, <5>2, Zenon
      <4>2. CASE s # stream[t]
        <5>1. pcm[s] = ~standby[s] /\ (pcm[s] <=> card = s)
          BY DEF PcmMatchesStandby
        <5>2. ~pcm[s]
          BY <3>1, <5>1
        <5>3. pcm'[s] = pcm[s] /\ standby'[s] = standby[s] /\ card' # s
          BY <3>1, <4>2
        <5>. QED BY <5>1, <5>2, <5>3, Zenon
      <4>. QED BY <4>1, <4>2
    <3>3. ASSUME NEW u \in Threads, pc'[u] \in {"writeFreeAdev", "pcmWrite"}
          PROVE  ~standby'[stream'[u]]
      <4>1. CASE u = t
        BY <2>1, <3>1, <4>1
      <4>2. CASE u # t
        <5>1. pc[u] \in {"writeFreeAdev", "pcmWrite"}
          BY <2>2, <3>3, <4>2
        <5>2. stream[u] \in Streams /\ stream[u] # stream[t]
          BY <1>7, <2>1, <4>2, <5>1 DEF Start
        <5>. QED BY <2>1, <3>1, <5>1, <5>2
      <4>. QED BY <4>1, <4>2
    <3>. QED BY <3>2, <3>3
  <2>. QED BY <1>7, <2>3, <2>4 DEF Start
<1>8. ASSUME NEW t \in Threads, WriteFreeAdev(t)
      PROVE  PcmInv'
  BY <1>8 DEF WriteFreeAdev
<1>9. ASSUME NEW t \in Threads, FailFreeAdev(t)
      PROVE  PcmInv'
  BY <1>9 DEF FailFreeAdev
<1>10. ASSUME NEW t \in Threads, PcmWrite(t)
      PROVE  PcmInv'
  BY <1>10 DEF PcmWrite
<1>11. ASSUME NEW t \in Threads, WriteFreeOut(t)
      PROVE  PcmInv'
  BY <1>11 DEF WriteFreeOut
<1>12. ASSUME NEW t \in Threads, EndWrite(t)
      PROVE  PcmInv'
  BY <1>12 DEF EndWrite
<1>13. ASSUME NEW t \in Threads, StandbyLockAdev(t)
      PROVE  PcmInv'
  BY <1>13 DEF StandbyLockAdev
<1>14. ASSUME NEW t \in Threads, StandbyLockOut(t)
      PROVE  PcmInv'
  BY <1>14 DEF StandbyLockOut
<1>15. ASSUME NEW t \in Threads, PcmClose(t)
      PROVE  PcmInv'
  <2>1. stream[t] \in Streams /\ UNCHANGED stream /\ pc' = [pc EXCEPT ![t] = "standbyFree"]
    BY <1>15 DEF PcmClose
  <2>2. \A u \in Threads : stream[u] = stream[t] /\ pc[u] \in OutPoints => u = t
    BY <1>15, <2>1 DEF PcmClose
  <2>3. PcmMatchesStandby'
    <3>1. CASE standby[stream[t]]
      BY <1>15, <3>1 DEF PcmClose, EnterStandby
    <3>2. CASE ~standby[stream[t]]
      <4>1. /\ standby' = [standby EXCEPT ![stream[t]] = TRUE]
            /\ pcm' = [pcm EXCEPT ![stream[t]] = FALSE]
            /\ card' = NULL
        BY <1>15, <3>2 DEF PcmClose, EnterStandby
      <4>2. card = stream[t]
        BY <2>1, <3>2
      <4>3. ASSUME NEW s \in Streams
            PROVE  pcm'[s] = ~standby'[s] /\ (pcm'[s] <=> card' = s)
        <5>1. CASE s = stream[t]
          BY <4>1, <5>1
        <5>2. CASE s # stream[t]
          <6>1. ~pcm[s] /\ pcm[s] = ~standby[s]
            BY <4>2, <5>2
          <6>2. pcm'[s] = pcm[s] /\ standby'[s] = standby[s] /\ card' # s
            BY <4>1, <5>2
          <6>. QED BY <6>1, <6>2, Zenon
        <5>. QED BY <5>1, <5>2
      <4>. QED BY <4>3
    <3>. QED BY <3>1, <3>2
  <2>4. standby' = [standby EXCEPT ![stream[t]] = TRUE] \/ standby' = standby
    BY <1>15 DEF PcmClose, EnterStandby
  <2>5. ASSUME NEW u \in Threads, pc'[u] \in {"writeFreeAdev", "pcmWrite"}
        PROVE  ~standby'[stream'[u]]
    <3>1. u # t /\ pc[u] \in {"writeFreeAdev", "pcmWrite"}
      BY <2>1, <2>5
    <3>2. stream[u] \in Streams /\ stream[u] # stream[t]
      BY <2>1, <2>2, <3>1
    <3>. QED BY <2>1, <2>4, <3>1, <3>2
  <2>. QED BY <2>3, <2>5
<1>16. ASSUME NEW t \in Threads, StandbyFreeOut(t)
      PROVE  PcmInv'
  BY <1>16 DEF StandbyFreeOut
<1>17. ASSUME NEW t \in Threads, StandbyFreeAdev(t)
      PROVE  PcmInv'
  BY <1>17 DEF StandbyFreeAdev
<1>18. CASE UNCHANGED vars
  BY <1>18 DEF vars
<1>. QED
  BY <1>1, <1>2, <1>3, <1>4, <1>5, <1>6, <1>7, <1>8, <1>9, <1>10, <1>11, <1>12, <1>13,
     <1>14, <1>15, <1>16, <1>17, <1>18
  DEF Next, ThreadStep

\* A closed stream goes into standby and stays there.
LEMMA AudioClosed ==
  ASSUME AudioInv, [Next]_vars
  PROVE  ClosedInStandby'
<1>. USE NullAssumption
     DEF AudioInv, TypeOK, LockInv, InCall, ClosedInStandby, WritePoints, StandbyPoints,
         At, Goto, Call, Return, LockAdev, FreeAdev, LockOut, FreeOut, streamVars, lockVars
<1>1. ASSUME NEW s \in Streams, OpenStream(s)
      PROVE  ClosedInStandby'
  BY <1>1 DEF OpenStream
<1>2. ASSUME NEW t \in Threads, NEW s \in Streams, CallWrite(t, s)
      PROVE  ClosedInStandby'
  BY <1>2 DEF CallWrite
<1>3. ASSUME NEW t \in Threads, NEW s \in Streams, CallStandby(t, s)
      PROVE  ClosedInStandby'
  BY <1>3 DEF CallStandby
<1>4. ASSUME NEW t \in Threads, NEW s \in Streams, CallClose(t, s)
      PROVE  ClosedInStandby'
  BY <1>4 DEF CallClose
<1>5. ASSUME NEW t \in Threads, WriteLockAdev(t)
      PROVE  ClosedInStandby'
  BY <1>5 DEF WriteLockAdev
<1>6. ASSUME NEW t \in Threads, WriteLockOut(t)
      PROVE  ClosedInStandby'
  BY <1>6 DEF WriteLockOut
<1>7. ASSUME NEW t \in Threads, Start(t)
      PROVE  ClosedInStandby'
  BY <1>7 DEF Start, StartOutputStream
<1>8. ASSUME NEW t \in Threads, WriteFreeAdev(t)
      PROVE  ClosedInStandby'
  BY <1>8 DEF WriteFreeAdev
<1>9. ASSUME NEW t \in Threads, FailFreeAdev(t)
      PROVE  ClosedInStandby'
  BY <1>9 DEF FailFreeAdev
<1>10. ASSUME NEW t \in Threads, PcmWrite(t)
      PROVE  ClosedInStandby'
  BY <1>10 DEF PcmWrite
<1>11. ASSUME NEW t \in Threads, WriteFreeOut(t)
      PROVE  ClosedInStandby'
  BY <1>11 DEF WriteFreeOut
<1>12. ASSUME NEW t \in Threads, EndWrite(t)
      PROVE  ClosedInStandby'
  BY <1>12 DEF EndWrite
<1>13. ASSUME NEW t \in Threads, StandbyLockAdev(t)
      PROVE  ClosedInStandby'
  BY <1>13 DEF StandbyLockAdev
<1>14. ASSUME NEW t \in Threads, StandbyLockOut(t)
      PROVE  ClosedInStandby'
  BY <1>14 DEF StandbyLockOut
<1>15. ASSUME NEW t \in Threads, PcmClose(t)
      PROVE  ClosedInStandby'
  BY <1>15 DEF PcmClose, EnterStandby
<1>16. ASSUME NEW t \in Threads, StandbyFreeOut(t)
      PROVE  ClosedInStandby'
  BY <1>16 DEF StandbyFreeOut
<1>17. ASSUME NEW t \in Threads, StandbyFreeAdev(t)
      PROVE  ClosedInStandby'
  BY <1>17 DEF StandbyFreeAdev
<1>18. CASE UNCHANGED vars
  BY <1>18 DEF vars
<1>. QED
  BY <1>1, <1>2, <1>3, <1>4, <1>5, <1>6, <1>7, <1>8, <1>9, <1>10, <1>11, <1>12, <1>13,
     <1>14, <1>15, <1>16, <1>17, <1>18
  DEF Next, ThreadStep

LEMMA AudioInvAlways == Spec => []AudioInv
<1>1. AudioInv /\ [Next]_vars => AudioInv'
  BY AudioTypes, AudioLocks, AudioPcms, AudioClosed DEF AudioInv
<1>. QED BY <1>1, AudioInit, PTL DEF Spec

\* The locks belong to threads, the card to a stream, and every thread is idle
\* or at a point of out_write or out_standby, however many threads and streams there are.
THEOREM TypeCorrect == Spec => []TypeOK
<1>1. AudioInv => TypeOK
  BY DEF AudioInv
<1>. QED BY <1>1, AudioInvAlways, PTL

\* standby, pcm and the card always agree.
THEOREM PcmAlwaysMatches == Spec => []PcmMatchesStandby
<1>1. AudioInv => PcmMatchesStandby
  BY DEF AudioInv, PcmInv
<1>. QED BY <1>1, AudioInvAlways, PTL

\* The pcm of a stream stays open while any thread writes to it.
THEOREM WriteKeepsPcm == Spec => []WriteHasPcm
<1>1. AudioInv => WriteHasPcm
  BY NullAssumption
  DEF AudioInv, TypeOK, LockInv, InCall, PcmInv, PcmMatchesStandby, WriteStarted, WriteHasPcm, At
<1>. QED BY <1>1, AudioInvAlways, PTL

\* A freed stream never keeps the card.
THEOREM CardIsNotLeaked == Spec => []CardNotLeaked
<1>1. AudioInv => CardNotLeaked
  BY DEF AudioInv, TypeOK, PcmInv, PcmMatchesStandby, ClosedInStandby, CardNotLeaked
<1>. QED BY <1>1, AudioInvAlways, PTL

-----------------------------------------------------------------------------
(* Waiting.                                                                *)

WaitsForAdev(t) == pc[t] \in {"write", "standby"} /\ adevLock # NULL
WaitsForOut(t) == pc[t] \in {"writeLock", "standbyLock"} /\ outLock[stream[t]] # NULL
GoesOn(t) == pc[t] # "idle" /\ ~WaitsForAdev(t) /\ ~WaitsForOut(t)

\* A stream's lock is awaited only from a thread that is in pcm_write or about to
\* free the lock, and waits for nothing.
OutIsFreed(t) ==
    WaitsForOut(t) /\ \E u \in Threads : /\ outLock[stream[t]] = u
                                         /\ pc[u] \in {"pcmWrite", "writeFree"}

\* The device's lock is awaited from a thread that goes on, or waits for such a stream.
AdevIsFreed(t) ==
    WaitsForAdev(t) /\ \E u \in Threads : adevLock = u /\ (GoesOn(u) \/ OutIsFreed(u))

WaitsEnd == \A t \in Threads : pc[t] # "idle" => GoesOn(t) \/ OutIsFreed(t) \/ AdevIsFreed(t)

\* No deadlock, and no chain of more than two waits, for any number of threads and streams:
\* out_standby and out_write take a stream's lock with the device's lock in hand, but
\* whoever has the former alone is at pcm_write or past it and asks for no lock any more.
THEOREM LocksAreFreed == Spec => []WaitsEnd
<1>1. ASSUME AudioInv PROVE WaitsEnd
  <2>. USE <1>1, NullAssumption DEF AudioInv, TypeOK, LockInv
  <2>1. ASSUME NEW t \in Threads, WaitsForOut(t)
        PROVE  OutIsFreed(t)
    <3>1. adevLock = t /\ stream[t] \in Streams
      BY <2>1 DEF WaitsForOut, AdevHeld, AdevPoints, InCall
    <3>2. PICK u \in Threads : outLock[stream[t]] = u
      BY <2>1, <3>1 DEF WaitsForOut
    <3>3. pc[u] \in OutPoints
      BY <3>1, <3>2 DEF OutHeld
    <3>4. u # t
      BY <2>1, <3>3 DEF WaitsForOut, OutPoints
    <3>5. pc[u] \notin AdevPoints
      BY <3>1, <3>4 DEF AdevHeld
    <3>6. pc[u] \in {"pcmWrite", "writeFree"}
      BY <3>3, <3>5 DEF OutPoints, AdevPoints
    <3>. QED  BY <2>1, <3>2, <3>6 DEF OutIsFreed
  <2>2. ASSUME NEW t \in Threads, WaitsForAdev(t)
        PROVE  AdevIsFreed(t)
    <3>1. PICK u \in Threads : adevLock = u
      BY <2>2 DEF WaitsForAdev
    <3>2. pc[u] \in AdevPoints
      BY <3>1 DEF AdevHeld
    <3>3. GoesOn(u) \/ WaitsForOut(u)
      BY <3>2 DEF GoesOn, WaitsForAdev, AdevPoints
    <3>. QED  BY <2>1, <2>2, <3>1, <3>3 DEF AdevIsFreed
  <2>. QED  BY <2>1, <2>2 DEF WaitsEnd, GoesOn
<1>. QED BY <1>1, AudioInvAlways, PTL
=============================================================================
