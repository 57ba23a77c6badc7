-------------------------- MODULE ComposerLifecycle --------------------------
(***************************************************************************)
(* How clients of the composer are created and destroyed: createClient and *)
(* waitForClientDestroyedLocked of Composer, the references to a           *)
(* ComposerClient, its destructor, registerCallback, and the VsyncThread   *)
(* that calls back into the client that registered last.                   *)
(*                                                                         *)
(* A client is destroyed by the thread that drops its last reference.  The *)
(* weak reference mClient can be promoted only while some strong reference *)
(* exists, so from the last drop on the client looks gone although its     *)
(* destructor has not run yet.                                             *)
(***************************************************************************)
EXTENDS Naturals, FiniteSets

CONSTANTS
    Threads,        \* binder threads of the service
    MaxClients,     \* bound of the model on the clients ever created
    Remote,         \* the process that asked for the client
    NULL

ASSUME ThreadsAssumption == IsFiniteSet(Threads)
ASSUME MaxClientsAssumption == MaxClients \in Nat \ {0}
ASSUME NullAssumption == NULL \notin Threads /\ NULL \notin 1..MaxClients
ASSUME RemoteAssumption == Remote \notin Threads

VARIABLES
    obj,            \* life of each client: "none", "live", "dying" or "dead"
    strong,         \* who holds a strong reference to each client
    mClient,        \* the weak reference of Composer
    mClientMutex,   \* the thread that holds it, or NULL
    pc,             \* where each thread is
    mine,           \* the client the thread has in hand
    timedOut,       \* the one-second wait of the thread is over
    mEventCallback, \* the client whose HalEventCallback the HAL calls
    mCallback,      \* does the VsyncThread have a callback?
    registered,     \* clients whose registerCallback has completed
    vsync,          \* what the VsyncThread does: "away", "fire" or "call"
    target,         \* the client it calls
    overtaken       \* ghost: a client was created while another one existed

clientVars == <<obj, strong>>
threadVars == <<pc, mine, timedOut>>
callbackVars == <<mEventCallback, mCallback, registered>>
vsyncVars == <<vsync, target>>
vars == <<clientVars, mClient, mClientMutex, threadVars, callbackVars, vsyncVars, overtaken>>

Clients == 1..MaxClients

CreatePoints == {"lock", "predicate", "predicateDrop", "sleep", "recheck", "create", "reply",
                 "return"}
RegisterPoints == {"setEventCallback", "hotplug", "setVsync", "registerDrop"}
DestructorPoints == {"unsetVsync", "unsetEventCallback", "onClientDestroyed", "free"}

TypeOK ==
    /\ obj \in [Clients -> {"none", "live", "dying", "dead"}]
    /\ strong \in [Clients -> SUBSET (Threads \cup {Remote})]
    /\ mClient \in Clients \cup {NULL}
    /\ mClientMutex \in Threads \cup {NULL}
    /\ pc \in [Threads -> {"idle"} \cup CreatePoints \cup RegisterPoints \cup DestructorPoints]
    /\ mine \in [Threads -> Clients \cup {NULL}]
    /\ timedOut \in [Threads -> BOOLEAN]
    /\ mEventCallback \in Clients \cup {NULL}
    /\ mCallback \in BOOLEAN
    /\ registered \subseteq Clients
    /\ vsync \in {"away", "fire", "call"}
    /\ target \in Clients \cup {NULL}
    /\ overtaken \in BOOLEAN

Init ==
    /\ obj = [c \in Clients |-> "none"]
    /\ strong = [c \in Clients |-> {}]
    /\ mClient = NULL
    /\ mClientMutex = NULL
    /\ pc = [t \in Threads |-> "idle"]
    /\ mine = [t \in Threads |-> NULL]
    /\ timedOut = [t \in Threads |-> FALSE]
    /\ mEventCallback = NULL
    /\ mCallback = FALSE
    /\ registered = {}
    /\ vsync = "away"
    /\ target = NULL
    /\ overtaken = FALSE

-----------------------------------------------------------------------------
At(t, point) == pc[t] = point
Goto(t, point) == pc' = [pc EXCEPT ![t] = point]
Hold(t, c) == mine' = [mine EXCEPT ![t] = c]
Release(t) == mine' = [mine EXCEPT ![t] = NULL]

Existing == {c \in Clients : obj[c] \in {"live", "dying"}}

FreeMutexIf(condition) == mClientMutex' = IF condition THEN NULL ELSE mClientMutex

\* wp::promote: a new strong reference, if one exists already.
Promotable == mClient # NULL /\ strong[mClient] # {}
Promote(t) ==
    /\ Promotable
    /\ strong' = [strong EXCEPT ![mClient] = @ \cup {t}]
    /\ Hold(t, mClient)

\* A holder drops its reference to c.  If it was the last one, thread t runs
\* the destructor; else it goes on at the given point.
DropReference(t, holder, c, point) ==
    /\ strong' = [strong EXCEPT ![c] = @ \ {holder}]
    /\ IF strong[c] = {holder}
       THEN /\ obj' = [obj EXCEPT ![c] = "dying"]
            /\ Goto(t, "unsetVsync")
            /\ Hold(t, c)
       ELSE /\ Goto(t, point)
            /\ Release(t)
            /\ UNCHANGED obj

-----------------------------------------------------------------------------
(* createClient.                                                           *)

Creating(t) == pc[t] \in CreatePoints
Created == {c \in Clients : obj[c] # "none"}
NewClient == Cardinality(Created) + 1

CallCreateClient(t) ==
    /\ At(t, "idle")
    /\ Cardinality(Created) + Cardinality({u \in Threads : Creating(u)}) < MaxClients  \* bound
    /\ Goto(t, "lock")
    /\ timedOut' = [timedOut EXCEPT ![t] = FALSE]
    /\ UNCHANGED <<clientVars, mClient, mClientMutex, mine, overtaken>>

\* Without a client there is nothing to wait for.
LockClient(t) ==
    /\ At(t, "lock")
    /\ mClientMutex = NULL
    /\ mClientMutex' = t
    /\ Goto(t, IF mClient = NULL THEN "create" ELSE "predicate")
    /\ UNCHANGED <<clientVars, mClient, mine, timedOut, overtaken>>

\* The predicate of wait_for, whose temporary reference is dropped at once.
Predicate(t) ==
    /\ At(t, "predicate")
    /\ \/ Promote(t) /\ Goto(t, "predicateDrop")
       \/ ~Promotable /\ Goto(t, "recheck") /\ UNCHANGED <<strong, mine>>
    /\ UNCHANGED <<obj, mClient, mClientMutex, timedOut, overtaken>>

PredicateDrop(t) ==
    /\ At(t, "predicateDrop")
    /\ DropReference(t, t, mine[t], IF timedOut[t] THEN "recheck" ELSE "sleep")
    /\ FreeMutexIf(pc'[t] = "sleep")
    /\ UNCHANGED <<mClient, timedOut, overtaken>>

\* One second has passed without the client's end.
Timeout(t) ==
    /\ At(t, "sleep")
    /\ timedOut' = [timedOut EXCEPT ![t] = TRUE]
    /\ Goto(t, "lock")
    /\ UNCHANGED <<clientVars, mClient, mClientMutex, mine, overtaken>>

\* (mutant) The weak reference is cleared although the client is alive.
RecheckClears(t) ==
    /\ At(t, "recheck")
    /\ mClient' = NULL
    /\ \/ Promote(t) /\ Goto(t, "return")
       \/ ~Promotable /\ Goto(t, "create") /\ UNCHANGED <<strong, mine>>
    /\ UNCHANGED <<obj, mClientMutex, timedOut, overtaken>>

\* After the wait: a client that can still be promoted was not destroyed, and
\* the answer is NO_RESOURCES; one that cannot is forgotten, even if its
\* destructor is still running.
Recheck(t) ==
    /\ At(t, "recheck")
    /\ \/ Promote(t) /\ Goto(t, "return") /\ UNCHANGED mClient
       \/ ~Promotable /\ mClient' = NULL /\ Goto(t, "create") /\ UNCHANGED <<strong, mine>>
    /\ UNCHANGED <<obj, mClientMutex, timedOut, overtaken>>

Create(t) ==
    /\ At(t, "create")
    /\ obj' = [obj EXCEPT ![NewClient] = "live"]
    /\ strong' = [strong EXCEPT ![NewClient] = {t}]
    /\ mClient' = NewClient
    /\ Hold(t, NewClient)
    /\ overtaken' = (overtaken \/ Existing # {})
    /\ Goto(t, "reply")
    /\ UNCHANGED <<mClientMutex, timedOut>>

\* hidl_cb hands the client to the caller, which now has a reference too.
Reply(t) ==
    /\ At(t, "reply")
    /\ strong' = [strong EXCEPT ![mine[t]] = @ \cup {Remote}]
    /\ Goto(t, "return")
    /\ UNCHANGED <<obj, mClient, mClientMutex, mine, timedOut, overtaken>>

\* (mutant) createClient returns with the mutex locked.
ReturnLocked(t) ==
    /\ At(t, "return")
    /\ DropReference(t, t, mine[t], "idle")
    /\ UNCHANGED <<mClient, mClientMutex, timedOut, overtaken>>

\* The local reference goes out of scope, and then the lock.
ReturnFromCreate(t) ==
    /\ At(t, "return")
    /\ DropReference(t, t, mine[t], "idle")
    /\ FreeMutexIf(pc'[t] = "idle")
    /\ UNCHANGED <<mClient, timedOut, overtaken>>

CreateStep(t) ==
    \/ LockClient(t)
    \/ Predicate(t)
    \/ PredicateDrop(t)
    \/ Timeout(t)
    \/ Recheck(t)
    \/ Create(t)
    \/ Reply(t)
    \/ ReturnFromCreate(t)

-----------------------------------------------------------------------------
(* The caller lets go of a client; registerCallback.                       *)

\* A binder thread carries out the release of the remote reference.
RemoteDrop(t, c) ==
    /\ At(t, "idle")
    /\ Remote \in strong[c]
    /\ DropReference(t, Remote, c, "idle")
    /\ UNCHANGED <<mClient, mClientMutex, timedOut, overtaken>>

\* A transaction holds a reference while it runs.  A client registers once.
CallRegister(t, c) ==
    /\ At(t, "idle")
    /\ Remote \in strong[c]
    /\ c \notin registered
    /\ \A u \in Threads : ~(mine[u] = c /\ pc[u] \in RegisterPoints)
    /\ strong' = [strong EXCEPT ![c] = @ \cup {t}]
    /\ Hold(t, c)
    /\ Goto(t, "setEventCallback")
    /\ UNCHANGED <<obj, mClient, mClientMutex, timedOut, overtaken>>

SetEventCallback(t) ==
    /\ At(t, "setEventCallback")
    /\ mEventCallback' = mine[t]
    /\ Goto(t, "hotplug")
    /\ UNCHANGED <<obj, strong, mine, mCallback, registered>>

\* hotplugHook calls through mEventCallback.
Hotplug(t) ==
    /\ At(t, "hotplug")
    /\ Goto(t, "setVsync")
    /\ UNCHANGED <<obj, strong, mine, callbackVars>>

\* (mutant) setCallback does not take the mutex of the VsyncThread.
VsyncMutexIgnored == TRUE

\* VsyncThread::setCallback takes the mutex that the thread holds while it fires.
VsyncMutexFree == vsync = "away"

\* (mutant) The callback is not stored.
SetVsyncCallbackLost(t) ==
    /\ At(t, "setVsync")
    /\ VsyncMutexFree
    /\ registered' = registered \cup {mine[t]}
    /\ Goto(t, "registerDrop")
    /\ UNCHANGED <<obj, strong, mine, mEventCallback, mCallback>>

SetVsyncCallback(t) ==
    /\ At(t, "setVsync")
    /\ VsyncMutexFree
    /\ mCallback' = TRUE
    /\ registered' = registered \cup {mine[t]}
    /\ Goto(t, "registerDrop")
    /\ UNCHANGED <<obj, strong, mine, mEventCallback>>

RegisterDrop(t) ==
    /\ At(t, "registerDrop")
    /\ DropReference(t, t, mine[t], "idle")
    /\ UNCHANGED callbackVars

RegisterStep(t) ==
    /\ SetEventCallback(t) \/ Hotplug(t) \/ SetVsyncCallback(t) \/ RegisterDrop(t)
    /\ UNCHANGED <<mClient, mClientMutex, timedOut, vsyncVars, overtaken>>

-----------------------------------------------------------------------------
(* ~ComposerClient, except for its layers and its final present, which are *)
(* the subject of ComposerHal.                                             *)

\* (mutant) The destructor leaves the callback in the VsyncThread.
UnsetVsyncForgotten(t) ==
    /\ At(t, "unsetVsync")
    /\ Goto(t, "unsetEventCallback")
    /\ UNCHANGED <<obj, mClient, mine, callbackVars>>

UnsetVsync(t) ==
    /\ At(t, "unsetVsync")
    /\ VsyncMutexFree
    /\ mCallback' = FALSE
    /\ Goto(t, "unsetEventCallback")
    /\ UNCHANGED <<obj, mClient, mine, mEventCallback, registered>>

UnsetEventCallback(t) ==
    /\ At(t, "unsetEventCallback")
    /\ mEventCallback' = NULL
    /\ Goto(t, "onClientDestroyed")
    /\ UNCHANGED <<obj, mClient, mine, mCallback, registered>>

\* The mutex is taken and freed again within the call; notify_all wakes the
\* threads in wait_for.
OnClientDestroyed(t) ==
    /\ At(t, "onClientDestroyed")
    /\ mClientMutex = NULL
    /\ mClient' = NULL
    /\ pc' = [u \in Threads |-> IF u = t THEN "free" ELSE IF At(u, "sleep") THEN "lock" ELSE pc[u]]
    /\ UNCHANGED <<obj, mine, callbackVars>>

\* The members go, mHalEventCallback among them.  (The destructor of a client without
\* a command engine, whose resources could not be created, comes here at once; that
\* createResources fails is left out.)
FreeClient(t) ==
    /\ At(t, "free")
    /\ obj' = [obj EXCEPT ![mine[t]] = "dead"]
    /\ Release(t)
    /\ Goto(t, "idle")
    /\ UNCHANGED <<mClient, callbackVars>>

DestructorStep(t) ==
    /\ UnsetVsync(t) \/ UnsetEventCallback(t) \/ OnClientDestroyed(t) \/ FreeClient(t)
    /\ UNCHANGED <<strong, mClientMutex, timedOut, vsyncVars, overtaken>>

-----------------------------------------------------------------------------
(* The VsyncThread, as far as the callback is concerned.  It holds its     *)
(* mutex from VsyncFire to VsyncReturn.                                    *)

VsyncFire == vsync = "away" /\ mCallback /\ vsync' = "fire" /\ UNCHANGED target

\* vsyncHook loads mEventCallback and calls onVsync.
VsyncCall == vsync = "fire" /\ vsync' = "call" /\ target' = mEventCallback

VsyncReturn == vsync = "call" /\ vsync' = "away" /\ target' = NULL

-----------------------------------------------------------------------------
ThreadStep(t) ==
    \/ CreateStep(t) /\ UNCHANGED <<callbackVars, vsyncVars>>
    \/ RegisterStep(t)
    \/ DestructorStep(t)

Call(t) ==
    /\ CallCreateClient(t) \/ \E c \in Clients : RemoteDrop(t, c) \/ CallRegister(t, c)
    /\ UNCHANGED <<callbackVars, vsyncVars>>

VsyncStep ==
    /\ VsyncFire \/ VsyncCall \/ VsyncReturn
    /\ UNCHANGED <<clientVars, mClient, mClientMutex, threadVars, callbackVars, overtaken>>

Next ==
    \/ \E t \in Threads : ThreadStep(t) \/ Call(t)
    \/ VsyncStep

Spec == Init /\ [][Next]_vars

\* A thread in a method goes on when it can, and gets a mutex that is free again
\* and again; the VsyncThread returns from its callback.  Nothing forces a
\* caller to create a client, to register or to let go.
FairSpec ==
    /\ Spec
    /\ \A t \in Threads : SF_vars(ThreadStep(t))
    /\ WF_vars(VsyncStep /\ vsync # "away")

-----------------------------------------------------------------------------
(* Properties.                                                             *)

\* A client is created only after the previous one was destroyed, which is what
\* createClient waits for ("waiting for previous client to be destroyed").
CreatedAfterDestroyed == Cardinality(Existing) <= 1

\* The HAL keeps no callback of a freed client, however registrations and
\* destructions interleave; and unless a client was created over another one, a
\* callback that the VsyncThread is in keeps its client from being freed.
NeverCallsFreed ==
    /\ mEventCallback # NULL => obj[mEventCallback] # "dead"
    /\ ~overtaken /\ target # NULL => obj[target] # "dead"

\* Unless a client was created over another one, no callback goes through a null
\* mEventCallback.
NeverCallsNull ==
    ~overtaken => /\ vsync = "fire" => mEventCallback # NULL
                  /\ vsync = "call" => target # NULL
                  /\ \A t \in Threads : At(t, "hotplug") => mEventCallback = mine[t]

\* Unless a client was created over another one, a client that has registered
\* keeps its vsync callback until it is destroyed.
KeepsVsync ==
    ~overtaken => \A c \in registered :
        obj[c] = "live" => mEventCallback = c /\ mCallback

\* A client that can still be used is the one Composer knows of, again unless a
\* client was created over another one: the next createClient will wait for it.
LiveClientKnown ==
    ~overtaken => \A c \in Clients : obj[c] = "live" => mClient = c

\* The only thread that can wait for mClientMutex in vain is one that destroys a
\* client while it holds the mutex itself: the last reference was a temporary of
\* createClient.
SelfDestruction == \E t \in Threads : At(t, "onClientDestroyed") /\ mClientMutex = t

\* createClient returns, within its one-second wait, unless that happened.
CreateClientReturns ==
    \A t \in Threads : Creating(t) ~> (~Creating(t) \/ SelfDestruction)

\* A destructor that has begun ends, unless that happened.
DestructionEnds ==
    \A c \in Clients : obj[c] = "dying" ~> (obj[c] = "dead" \/ SelfDestruction)
=============================================================================
