------------------------------- MODULE AudioOut -------------------------------
(***************************************************************************)
(* The output streams of the audio HAL: out_write, out_standby and         *)
(* adev_close_output_stream, run by several threads on several streams of  *)
(* one device.  Two kinds of mutex: the lock of the device and the lock of *)
(* each stream, always taken in this order.  All streams share the one PCM *)
(* of the sound card, which the kernel lets only one of them open.         *)
(***************************************************************************)
EXTENDS Naturals

CONSTANTS
    Threads,
    Streams,
    NULL

ASSUME NullAssumption == NULL \notin Threads \cup Streams

VARIABLES
    opened,      \* streams between adev_open_output_stream and their free
    standby,     \* standby of each stream
    pcm,         \* does the stream hold an open pcm?
    card,        \* kernel: the stream whose pcm is open, or NULL
    adevLock,    \* the thread that holds the lock of the device, or NULL
    outLock,     \* the thread that holds the lock of each stream, or NULL
    pc, stream   \* where each thread is, and on which stream

streamVars == <<opened, standby, pcm, card>>
lockVars == <<adevLock, outLock>>
vars == <<streamVars, lockVars, pc, stream>>

WritePoints == {"write", "writeLock", "start", "writeFreeAdev", "pcmWrite", "failFreeAdev",
                "writeFree", "sleep"}
StandbyPoints == {"standby", "standbyLock", "pcmClose", "standbyFree", "standbyFreeAdev"}

TypeOK ==
    /\ opened \subseteq Streams
    /\ standby \in [Streams -> BOOLEAN]
    /\ pcm \in [Streams -> BOOLEAN]
    /\ card \in Streams \cup {NULL}
    /\ adevLock \in Threads \cup {NULL}
    /\ outLock \in [Streams -> Threads \cup {NULL}]
    /\ pc \in [Threads -> {"idle"} \cup WritePoints \cup StandbyPoints]
    /\ stream \in [Threads -> Streams \cup {NULL}]

Init ==
    /\ opened = {}
    /\ standby = [s \in Streams |-> TRUE]
    /\ pcm = [s \in Streams |-> FALSE]
    /\ card = NULL
    /\ adevLock = NULL
    /\ outLock = [s \in Streams |-> NULL]
    /\ pc = [t \in Threads |-> "idle"]
    /\ stream = [t \in Threads |-> NULL]

-----------------------------------------------------------------------------
At(t, point) == pc[t] = point
Goto(t, point) == pc' = [pc EXCEPT ![t] = point] /\ UNCHANGED stream
Call(t, s, point) ==
    /\ pc' = [pc EXCEPT ![t] = point]
    /\ stream' = [stream EXCEPT ![t] = s]
Return(t) == Call(t, NULL, "idle")

LockAdev(t) == adevLock = NULL /\ adevLock' = t /\ UNCHANGED outLock
FreeAdev == adevLock' = NULL /\ UNCHANGED outLock
LockOut(t) ==
    /\ outLock[stream[t]] = NULL
    /\ outLock' = [outLock EXCEPT ![stream[t]] = t]
    /\ UNCHANGED adevLock

FreeOut(t) == outLock' = [outLock EXCEPT ![stream[t]] = NULL] /\ UNCHANGED adevLock

\* adev_open_output_stream, for a configuration it accepts.
OpenStream(s) ==
    /\ s \notin opened
    /\ \A t \in Threads : stream[t] # s
    /\ opened' = opened \cup {s}
    /\ standby' = [standby EXCEPT ![s] = TRUE]
    /\ pcm' = [pcm EXCEPT ![s] = FALSE]
    /\ UNCHANGED <<card, lockVars, pc, stream>>

\* start_output_stream.  pcm_open fails while another stream has the card, and
\* may fail for reasons of its own; a pcm that is not ready is closed again.
StartOutputStream(s) ==
    /\ card = NULL
    /\ card' = s
    /\ pcm' = [pcm EXCEPT ![s] = TRUE]
    /\ standby' = [standby EXCEPT ![s] = FALSE]

\* (mutant) The stream enters standby with its pcm open.
EnterStandbyKeepsPcm(s) ==
    /\ standby' = [standby EXCEPT ![s] = TRUE]
    /\ UNCHANGED <<pcm, card>>

\* The body of out_standby.
EnterStandby(s) ==
    IF standby[s]
    THEN UNCHANGED <<standby, pcm, card>>
    ELSE /\ standby' = [standby EXCEPT ![s] = TRUE]
         /\ pcm' = [pcm EXCEPT ![s] = FALSE]
         /\ card' = NULL

-----------------------------------------------------------------------------
(* out_write.                                                              *)

CallWrite(t, s) ==
    /\ At(t, "idle")
    /\ s \in opened
    /\ Call(t, s, "write")
    /\ UNCHANGED <<streamVars, lockVars>>

WriteLockAdev(t) == At(t, "write") /\ LockAdev(t) /\ Goto(t, "writeLock") /\ UNCHANGED streamVars

WriteLockOut(t) == At(t, "writeLock") /\ LockOut(t) /\ Goto(t, "start") /\ UNCHANGED streamVars

Start(t) ==
    /\ At(t, "start")
    /\ IF standby[stream[t]]
       THEN \/ StartOutputStream(stream[t]) /\ Goto(t, "writeFreeAdev")
            \/ UNCHANGED <<standby, pcm, card>> /\ Goto(t, "failFreeAdev")
       ELSE UNCHANGED <<standby, pcm, card>> /\ Goto(t, "writeFreeAdev")
    /\ UNCHANGED <<opened, lockVars>>

\* (mutant) The lock of the stream is dropped before pcm_write, not after it.
WriteFreeBoth(t) ==
    /\ At(t, "writeFreeAdev")
    /\ adevLock' = NULL
    /\ outLock' = [outLock EXCEPT ![stream[t]] = NULL]
    /\ Goto(t, "pcmWrite")
    /\ UNCHANGED streamVars

WriteFreeAdev(t) ==
    /\ At(t, "writeFreeAdev")
    /\ FreeAdev
    /\ Goto(t, "pcmWrite")
    /\ UNCHANGED streamVars

\* (mutant) The lock of the device stays locked on the error path.
FailKeepsAdev(t) ==
    /\ At(t, "failFreeAdev")
    /\ Goto(t, "writeFree")
    /\ UNCHANGED <<streamVars, lockVars>>

FailFreeAdev(t) ==
    /\ At(t, "failFreeAdev")
    /\ FreeAdev
    /\ Goto(t, "writeFree")
    /\ UNCHANGED streamVars

\* pcm_write blocks while the ring buffer is full, with the stream locked.
PcmWrite(t) ==
    /\ At(t, "pcmWrite")
    /\ Goto(t, "writeFree")
    /\ UNCHANGED <<streamVars, lockVars>>

\* After an error other than an underrun the thread sleeps for the time the
\* buffer would have played.
WriteFreeOut(t) ==
    /\ At(t, "writeFree")
    /\ FreeOut(t)
    /\ Goto(t, "sleep")
    /\ UNCHANGED streamVars

EndWrite(t) == At(t, "sleep") /\ Return(t) /\ UNCHANGED <<streamVars, lockVars>>

-----------------------------------------------------------------------------
(* out_standby, and adev_close_output_stream, which calls it and frees the *)
(* stream.  The framework makes no other call on a stream it closes.       *)

CallStandby(t, s) ==
    /\ At(t, "idle")
    /\ s \in opened
    /\ Call(t, s, "standby")
    /\ UNCHANGED <<streamVars, lockVars>>

CallClose(t, s) ==
    /\ At(t, "idle")
    /\ s \in opened
    /\ \A u \in Threads : stream[u] # s
    /\ opened' = opened \ {s}
    /\ Call(t, s, "standby")
    /\ UNCHANGED <<standby, pcm, card, lockVars>>

StandbyLockAdev(t) ==
    /\ At(t, "standby")
    /\ LockAdev(t)
    /\ Goto(t, "standbyLock")
    /\ UNCHANGED streamVars

StandbyLockOut(t) ==
    /\ At(t, "standbyLock")
    /\ LockOut(t)
    /\ Goto(t, "pcmClose")
    /\ UNCHANGED streamVars

PcmClose(t) ==
    /\ At(t, "pcmClose")
    /\ EnterStandby(stream[t])
    /\ Goto(t, "standbyFree")
    /\ UNCHANGED <<opened, lockVars>>

StandbyFreeOut(t) ==
    /\ At(t, "standbyFree")
    /\ FreeOut(t)
    /\ Goto(t, "standbyFreeAdev")
    /\ UNCHANGED streamVars

StandbyFreeAdev(t) ==
    /\ At(t, "standbyFreeAdev")
    /\ FreeAdev
    /\ Return(t)
    /\ UNCHANGED streamVars

-----------------------------------------------------------------------------
ThreadStep(t) ==
    \/ WriteLockAdev(t)
    \/ WriteLockOut(t)
    \/ Start(t)
    \/ WriteFreeAdev(t)
    \/ FailFreeAdev(t)
    \/ PcmWrite(t)
    \/ WriteFreeOut(t)
    \/ EndWrite(t)
    \/ StandbyLockAdev(t)
    \/ StandbyLockOut(t)
    \/ PcmClose(t)
    \/ StandbyFreeOut(t)
    \/ StandbyFreeAdev(t)

Next ==
    \/ \E s \in Streams : OpenStream(s)
    \/ \E t \in Threads, s \in Streams : CallWrite(t, s) \/ CallStandby(t, s) \/ CallClose(t, s)
    \/ \E t \in Threads : ThreadStep(t)

Spec == Init /\ [][Next]_vars

\* A thread in a call goes on, pcm_write returns (the card plays), and a mutex
\* that is free again and again is obtained.  Nothing forces a call.
FairSpec == Spec /\ \A t \in Threads : SF_vars(ThreadStep(t))

-----------------------------------------------------------------------------
(* Properties.                                                             *)

\* standby, pcm and the card agree: a stream out of standby has its pcm open, a
\* stream in standby has not, and the open pcm is the one the card knows.
PcmMatchesStandby ==
    \A s \in Streams : pcm[s] = ~standby[s] /\ (pcm[s] <=> card = s)

\* No stream keeps the card after it was freed.
CardNotLeaked ==
    card # NULL => card \in opened \/ \E t \in Threads : stream[t] = card

\* While a thread is in pcm_write its pcm is open: no standby or close of another
\* thread gets at it, although the lock of the device is already free.
WriteHasPcm == \A t \in Threads : At(t, "pcmWrite") => pcm[stream[t]]

\* Every call returns: the two kinds of lock are never taken in a cycle and are
\* freed on every path, although out_standby waits for the lock of a stream with
\* the lock of the device in hand.
CallReturns == \A t \in Threads : pc[t] # "idle" ~> pc[t] = "idle"
=============================================================================
