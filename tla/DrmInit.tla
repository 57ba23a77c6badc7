------------------------------- MODULE DrmInit --------------------------------
(***************************************************************************)
(* The drm object of a process, created by the first thread that needs it: *)
(* drm_mod_perform creates it under the mutex of the gralloc module, the   *)
(* mapper, which shares the module, without.                               *)
(***************************************************************************)
EXTENDS Naturals

CONSTANTS
    Performers,    \* threads that call drm_mod_perform
    Mappers,       \* threads that call the mapper
    NoDrm,
    NoThread,
    MaxDrms        \* bound of the model on the objects created

ClientThreads == Performers \cup Mappers
Drms == ClientThreads \X (1..MaxDrms)

ASSUME ThreadAssumption == NoThread \notin ClientThreads /\ Performers \cap Mappers = {}
ASSUME DrmAssumption == MaxDrms \in Nat /\ NoDrm \notin Drms

VARIABLES
    drm,           \* mod->drm: its creator and serial number
    drms,          \* objects created so far
    mutex,         \* who holds mod->mutex
    pc,            \* where each thread is
    seen,          \* the value of mod->drm a thread has tested
    used,          \* ghost: objects that handles were registered or fds taken with
    overwritten    \* ghost: an object was replaced in mod->drm

drmVars == <<drm, drms, mutex, seen, used, overwritten>>

DrmTypeOK ==
    /\ drm \in Drms \cup {NoDrm}
    /\ drms \in 0..MaxDrms
    /\ mutex \in ClientThreads \cup {NoThread}
    /\ pc \in [ClientThreads -> {"idle", "lock", "test", "create", "store", "tested", "getFd"}]
    /\ seen \in [ClientThreads -> Drms \cup {NoDrm}]
    /\ used \subseteq Drms \cup {NoDrm}
    /\ overwritten \in BOOLEAN

DrmStart ==
    /\ drm = NoDrm
    /\ drms = 0
    /\ mutex = NoThread
    /\ seen = [t \in ClientThreads |-> NoDrm]
    /\ used = {}
    /\ overwritten = FALSE

-----------------------------------------------------------------------------
At(t, point) == pc[t] = point
Goto(t, point) == pc' = [pc EXCEPT ![t] = point]

\* Whoever goes through a null mod->drm takes the process down.
Crashed == NoDrm \in used

\* (mutant) drm_mod_perform does not take the mutex.
DrmLockForgotten(t) ==
    /\ At(t, "lock")
    /\ Goto(t, "test")
    /\ UNCHANGED drmVars

DrmLock(t) ==
    /\ At(t, "lock")
    /\ mutex = NoThread
    /\ mutex' = t
    /\ Goto(t, "test")
    /\ UNCHANGED <<drm, drms, seen, used, overwritten>>

DrmTest(t) ==
    /\ At(t, "test")
    /\ seen' = [seen EXCEPT ![t] = drm]
    /\ Goto(t, IF drm = NoDrm THEN "create" ELSE "tested")
    /\ UNCHANGED <<drm, drms, mutex, used, overwritten>>

\* gralloc_drm_create opens the device, or fails.
DrmCreate(t) ==
    /\ At(t, "create")
    /\ \/ /\ drms < MaxDrms                   \* bound
          /\ drms' = drms + 1
          /\ seen' = [seen EXCEPT ![t] = <<t, drms'>>]
       \/ UNCHANGED <<drms, seen>>
    /\ Goto(t, "store")
    /\ UNCHANGED <<drm, mutex, used, overwritten>>

\* mod->drm is assigned also when the creation has failed.
DrmStore(t) ==
    /\ At(t, "store")
    /\ drm' = seen[t]
    /\ overwritten' = (overwritten \/ drm # NoDrm)
    /\ Goto(t, "tested")
    /\ UNCHANGED <<drms, mutex, seen, used>>

\* The value is of no use any more.
Forget(t) == seen' = [seen EXCEPT ![t] = NoDrm]

\* What drm_init returns; the build tests the value it has just stored.
DrmInitFailed(t) == seen[t] = NoDrm

DrmInit(t) == DrmTest(t) \/ DrmCreate(t) \/ DrmStore(t)

-----------------------------------------------------------------------------
(* drm_mod_perform.                                                        *)

Perform(t) ==
    /\ At(t, "idle")
    /\ Goto(t, "lock")
    /\ UNCHANGED drmVars

\* (mutant) drm_mod_perform does not look at the result of drm_init.
DrmUnlockIgnoresError(t) ==
    /\ At(t, "tested")
    /\ mutex' = NoThread
    /\ Goto(t, "getFd")
    /\ Forget(t)
    /\ UNCHANGED <<drm, drms, used, overwritten>>

DrmUnlock(t) ==
    /\ At(t, "tested")
    /\ mutex' = NoThread
    /\ Goto(t, IF DrmInitFailed(t) THEN "idle" ELSE "getFd")
    /\ Forget(t)
    /\ UNCHANGED <<drm, drms, used, overwritten>>

\* GET_DRM_FD reads mod->drm again, without the mutex.
GetDrmFd(t) ==
    /\ At(t, "getFd")
    /\ used' = used \cup {drm}
    /\ Goto(t, "idle")
    /\ UNCHANGED <<drm, drms, mutex, seen, overwritten>>

PerformerStep(t) ==
    Perform(t) \/ DrmLock(t) \/ DrmInit(t) \/ DrmUnlock(t) \/ GetDrmFd(t)

-----------------------------------------------------------------------------
(* Properties.                                                             *)

\* The mutex makes performers create the object once, also when several of them
\* find none at the same time: one that a performer created is replaced by the
\* mapper only, which takes no mutex, and one that the mapper created by the mapper
\* or by a performer that had found none before.
DrmKept ==
    [][drm # NoDrm /\ drm' # drm =>
          drm[1] \in Mappers \/ \E m \in Mappers : pc[m] = "store" /\ pc'[m] # "store"]_<<drm, pc>>

\* Unless an object was replaced, every handle of the process and every fd handed
\* out belongs to the one in mod->drm, and nobody went through a null mod->drm,
\* however the creations of several threads failed in between.
OneDrm == ~overwritten => used \subseteq Drms \cap {drm}
=============================================================================
