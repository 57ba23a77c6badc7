----------------------- MODULE ComposerLifecycle_proofs -----------------------
(***************************************************************************)
(* Proofs about ComposerLifecycle for any number of threads and clients:   *)
(* what a reference, a destructor and a registered callback say about the  *)
(* life of a client.                                                       *)
(***************************************************************************)
EXTENDS ComposerLifecycle, FiniteSetTheorems, TLAPS

\* Points at which a thread holds a reference to the client it has in hand.
HoldPoints == {"predicateDrop", "reply", "return"} \cup RegisterPoints

\* Points of a createClient that has not created its client yet.
WaitPoints == {"lock", "predicate", "predicateDrop", "sleep", "recheck", "create"}
Waiting == {t \in Threads : pc[t] \in WaitPoints}

\* A client is live exactly as long as someone holds it.
References ==
    /\ \A t \in Threads : pc[t] \in HoldPoints => mine[t] \in Clients /\ t \in strong[mine[t]]
    /\ \A c \in Clients : obj[c] = "live" <=> strong[c] # {}
    /\ \A c \in registered : obj[c] # "none"

\* Every destructor has a dying client of its own.
Destructors ==
    \A t \in Threads : pc[t] \in DestructorPoints =>
        /\ mine[t] \in Clients
        /\ obj[mine[t]] = "dying"
        /\ \A u \in Threads \ {t} : pc[u] \in DestructorPoints => mine[u] # mine[t]

\* Clients are created in order, and the bound leaves one for each thread that waits.
Numbered ==
    /\ \E n \in Nat : Created = 1..n
    /\ Cardinality(Created) + Cardinality(Waiting) <= MaxClients

\* The HAL's callback belongs to a client whose destructor has not unset it, and
\* the VsyncThread fires only with a callback, which it keeps while it fires.
Callbacks ==
    /\ mEventCallback # NULL => obj[mEventCallback] \in {"live", "dying"}
    /\ \A t \in Threads : pc[t] \in {"onClientDestroyed", "free"} => mEventCallback # mine[t]
    /\ vsync # "away" => mCallback
    /\ vsync # "call" => target = NULL

\* As long as no client was created over another one, what belongs to "the" client
\* does belong to it.
Alone ==
    /\ \A c, d \in Existing : c = d
    /\ mCallback => mEventCallback # NULL
    /\ \A t \in Threads : pc[t] \in DestructorPoints \ {"unsetVsync"} => ~mCallback
    /\ \A t \in Threads : pc[t] \in {"hotplug", "setVsync"} => mEventCallback = mine[t]
    /\ vsync = "call" => target = mEventCallback
    /\ \A c \in registered : obj[c] = "live" => mEventCallback = c /\ mCallback
    /\ \A c \in Clients : obj[c] = "live" => mClient = c

LifeInv ==
    /\ TypeOK
    /\ References
    /\ Destructors
    /\ Numbered
    /\ Callbacks
    /\ ~overtaken => Alone

USE MaxClientsAssumption, NullAssumption, RemoteAssumption DEF Clients

LEMMA LifeInit == Init => LifeInv
<1>. SUFFICES ASSUME Init PROVE LifeInv
  OBVIOUS
<1>. USE DEF Init
<1>1. TypeOK
  BY DEF TypeOK
<1>2. References /\ Destructors /\ Callbacks /\ Alone
  BY DEF References, Destructors, Callbacks, Alone, HoldPoints, RegisterPoints,
         DestructorPoints, Existing
<1>3. Created = {} /\ Waiting = {}
  BY DEF Created, Waiting, WaitPoints
<1>4. Numbered
  <2>1. Cardinality({}) = 0
    BY FS_EmptySet
  <2>2. Created = 1..0
    BY <1>3
  <2>. QED  BY <1>3, <2>1, <2>2 DEF Numbered
<1>. QED  BY <1>1, <1>2, <1>4 DEF LifeInv

-----------------------------------------------------------------------------
(* The clients that exist.                                                 *)

LEMMA WaitingFinite == IsFiniteSet(Waiting)
BY ThreadsAssumption, FS_Subset DEF Waiting

\* The number of the created clients is the last of them.
LEMMA CreatedInterval ==
  ASSUME Numbered
  PROVE  Cardinality(Created) \in Nat /\ Created = 1..Cardinality(Created)
<1>1. PICK n \in Nat : Created = 1..n
  BY DEF Numbered
<1>2. Cardinality(1..n) = n
  BY FS_Interval
<1>. QED  BY <1>1, <1>2

\* There is room for the client of a thread that creates one.
LEMMA NewClientIsFresh ==
  ASSUME Numbered, NEW t \in Threads, At(t, "create")
  PROVE  NewClient \in Clients /\ obj[NewClient] = "none"
<1>1. Cardinality(Created) \in Nat /\ Created = 1..Cardinality(Created)
  BY CreatedInterval
<1>2. t \in Waiting
  BY DEF At, Waiting, WaitPoints
<1>3. Cardinality(Waiting) \in Nat /\ Cardinality(Waiting) # 0
  BY <1>2, WaitingFinite, FS_CardinalityType, FS_EmptySet
<1>4. NewClient \in Clients
  BY <1>1, <1>3 DEF Numbered, NewClient
<1>5. NewClient \notin Created
  BY <1>1 DEF NewClient
<1>. QED  BY <1>4, <1>5 DEF Created

\* A step that creates no client and begins no createClient keeps the numbers.
LEMMA NumberedKept ==
  ASSUME Numbered, Created' = Created, Waiting' \subseteq Waiting
  PROVE  Numbered'
<1>1. Cardinality(Waiting') <= Cardinality(Waiting) /\ Cardinality(Waiting') \in Nat
        /\ Cardinality(Waiting) \in Nat
  BY WaitingFinite, FS_Subset, FS_CardinalityType
<1>2. Cardinality(Created) \in Nat
  BY CreatedInterval
<1>. QED  BY <1>1, <1>2 DEF Numbered

-----------------------------------------------------------------------------
(* References.                                                             *)

\* What a drop of a reference changes and keeps, whoever drops it and wherever.
Drops(t, holder, c, point) ==
    /\ DropReference(t, holder, c, point)
    /\ holder \in strong[c]
    /\ \/ holder = t /\ pc[t] \in HoldPoints /\ mine[t] = c
       \/ holder = Remote /\ pc[t] = "idle"
    /\ \/ point = "idle"
       \/ point \in {"sleep", "recheck"} /\ pc[t] = "predicateDrop"
    /\ mClientMutex' \in Threads \cup {NULL}
    /\ UNCHANGED <<mClient, timedOut, callbackVars, vsyncVars, overtaken>>

LEMMA DropStep ==
  ASSUME LifeInv, NEW t \in Threads, NEW c \in Clients, NEW holder \in Threads \cup {Remote},
         NEW point, Drops(t, holder, c, point)
  PROVE  LifeInv'
<1>. USE DEF Drops, LifeInv, DropReference, Goto, Hold, Release, callbackVars, vsyncVars
<1>1. TypeOK'
  <2>1. strong' \in [Clients -> SUBSET (Threads \cup {Remote})]
    BY DEF TypeOK
  <2>2. /\ obj' \in [Clients -> {"none", "live", "dying", "dead"}]
        /\ mine' \in [Threads -> Clients \cup {NULL}]
        /\ pc' \in [Threads -> {"idle"} \cup CreatePoints \cup RegisterPoints \cup DestructorPoints]
    <3>1. CASE strong[c] = {holder}
      <4>1. /\ obj' = [obj EXCEPT ![c] = "dying"]
            /\ pc' = [pc EXCEPT ![t] = "unsetVsync"]
            /\ mine' = [mine EXCEPT ![t] = c]
        BY <3>1
      <4>. QED  BY ONLY <4>1, TypeOK DEF TypeOK, DestructorPoints
    <3>2. CASE strong[c] # {holder}
      BY <3>2 DEF TypeOK, CreatePoints
    <3>. QED  BY <3>1, <3>2
  <2>3. /\ mClientMutex' \in Threads \cup {NULL}
        /\ UNCHANGED <<mClient, timedOut, mEventCallback, mCallback, registered, vsync, target, overtaken>>
    OBVIOUS
  <2>. QED  BY <2>1, <2>2, <2>3 DEF TypeOK
<1>2. Numbered'
  <2>1. Created' = Created
    BY DEF TypeOK, References, Created
  <2>2. Waiting' \subseteq Waiting
    BY DEF TypeOK, Waiting, WaitPoints
  <2>. QED  BY <2>1, <2>2, NumberedKept
<1>3. obj[c] = "live"
  BY DEF References
<1>4. CASE strong[c] = {holder}
  <2>1. /\ strong' = [strong EXCEPT ![c] = {}] /\ obj' = [obj EXCEPT ![c] = "dying"]
        /\ pc' = [pc EXCEPT ![t] = "unsetVsync"] /\ mine' = [mine EXCEPT ![t] = c]
    BY <1>4 DEF TypeOK
  <2>2. \A u \in Threads \ {t} : pc[u] \in HoldPoints => mine[u] # c
    BY <1>4 DEF TypeOK, References, HoldPoints, RegisterPoints
  <2>3. References'
    BY <1>3, <2>1, <2>2
    DEF TypeOK, References, HoldPoints, RegisterPoints
  <2>4. Destructors'
    BY <1>3, <2>1 DEF TypeOK, Destructors, DestructorPoints
  <2>5. Callbacks'
    BY <1>3, <2>1 DEF TypeOK, Callbacks
  <2>6. ~overtaken' => Alone'
    BY <1>3, <2>1 DEF TypeOK, Alone, Existing, DestructorPoints
  <2>. QED  BY <1>1, <1>2, <2>3, <2>4, <2>5, <2>6
<1>5. CASE strong[c] # {holder}
  <2>1. /\ strong' = [strong EXCEPT ![c] = @ \ {holder}] /\ obj' = obj
        /\ pc' = [pc EXCEPT ![t] = point] /\ mine' = [mine EXCEPT ![t] = NULL]
    BY <1>5
  <2>2. strong'[c] # {}
    BY <1>5, <2>1 DEF TypeOK
  <2>3. References'
    BY <1>3, <2>1, <2>2 DEF TypeOK, References, HoldPoints, RegisterPoints
  <2>4. Destructors'
    BY <2>1 DEF TypeOK, Destructors, DestructorPoints
  <2>5. Callbacks'
    BY <2>1 DEF TypeOK, Callbacks
  <2>6. ~overtaken' => Alone'
    BY <2>1 DEF TypeOK, Alone, Existing, DestructorPoints
  <2>. QED  BY <1>1, <1>2, <2>3, <2>4, <2>5, <2>6
<1>. QED  BY <1>4, <1>5

\* What a thread that takes a further reference to a client changes and keeps.
Takes(t, c, point) ==
    /\ strong[c] # {}
    /\ strong' = [strong EXCEPT ![c] = @ \cup {t}]
    /\ mine' = [mine EXCEPT ![t] = c]
    /\ pc' = [pc EXCEPT ![t] = point]
    /\ \/ pc[t] = "predicate" /\ point = "predicateDrop"
       \/ pc[t] = "recheck" /\ point = "return"
       \/ pc[t] = "idle" /\ point = "setEventCallback"
    /\ UNCHANGED <<obj, mClient, mClientMutex, timedOut, callbackVars, vsyncVars, overtaken>>

LEMMA TakeStep ==
  ASSUME LifeInv, NEW t \in Threads, NEW c \in Clients, NEW point, Takes(t, c, point)
  PROVE  LifeInv'
<1>. USE DEF Takes, LifeInv, callbackVars, vsyncVars
<1>1. TypeOK'
  BY DEF TypeOK, CreatePoints, RegisterPoints
<1>2. Numbered'
  <2>1. Created' = Created
    BY DEF Created
  <2>2. Waiting' \subseteq Waiting
    BY DEF TypeOK, Waiting, WaitPoints
  <2>. QED  BY <2>1, <2>2, NumberedKept
<1>3. References'
  BY DEF TypeOK, References, HoldPoints, RegisterPoints
<1>4. Destructors'
  BY DEF TypeOK, Destructors, DestructorPoints
<1>5. Callbacks'
  BY DEF TypeOK, Callbacks
<1>6. ~overtaken' => Alone'
  BY DEF TypeOK, Alone, Existing, DestructorPoints
<1>. QED  BY <1>1, <1>2, <1>3, <1>4, <1>5, <1>6

-----------------------------------------------------------------------------
(* createClient.                                                           *)

LEMMA CallCreateStep ==
  ASSUME LifeInv, NEW t \in Threads, CallCreateClient(t), UNCHANGED <<callbackVars, vsyncVars>>
  PROVE  LifeInv'
<1>. USE DEF LifeInv, CallCreateClient, At, Goto, clientVars, callbackVars, vsyncVars
<1>1. TypeOK'
  BY DEF TypeOK, CreatePoints
<1>2. Numbered'
  <2>. DEFINE Busy == {u \in Threads : Creating(u)}
  <2>1. IsFiniteSet(Busy) /\ Waiting \subseteq Busy
    BY ThreadsAssumption, FS_Subset DEF Waiting, WaitPoints, Creating, CreatePoints
  <2>2. Cardinality(Waiting) <= Cardinality(Busy) /\ Cardinality(Busy) \in Nat
          /\ Cardinality(Waiting) \in Nat
    BY <2>1, WaitingFinite, FS_Subset, FS_CardinalityType
  <2>3. Waiting' = Waiting \cup {t} /\ t \notin Waiting
    BY DEF TypeOK, Waiting, WaitPoints
  <2>4. Cardinality(Waiting') = Cardinality(Waiting) + 1
    BY <2>2, <2>3, WaitingFinite, FS_AddElement
  <2>5. Created' = Created /\ Cardinality(Created) \in Nat
    BY CreatedInterval DEF Created
  <2>6. Cardinality(Created) + Cardinality(Busy) < MaxClients
    OBVIOUS
  <2>7. Cardinality(Created') + Cardinality(Waiting') <= MaxClients
    BY <2>2, <2>4, <2>5, <2>6
  <2>. QED  BY <2>5, <2>7 DEF Numbered
<1>3. References' /\ Destructors' /\ Callbacks'
  BY DEF TypeOK, References, Destructors, Callbacks, HoldPoints, RegisterPoints, DestructorPoints
<1>4. ~overtaken' => Alone'
  BY DEF TypeOK, Alone, Existing, DestructorPoints
<1>. QED  BY <1>1, <1>2, <1>3, <1>4

\* The weak reference is forgotten only when nothing is held through it.
LEMMA WaitStep ==
  ASSUME LifeInv, NEW t \in Threads, UNCHANGED <<callbackVars, vsyncVars>>,
         LockClient(t) \/ Predicate(t) \/ Timeout(t) \/ Recheck(t)
  PROVE  LifeInv'
<1>1. ASSUME Promote(t), NEW point, Goto(t, point),
             \/ At(t, "predicate") /\ point = "predicateDrop"
             \/ At(t, "recheck") /\ point = "return",
             UNCHANGED <<obj, mClient, mClientMutex, timedOut, overtaken>>
      PROVE  LifeInv'
  <2>1. mClient \in Clients
    BY <1>1 DEF Promote, Promotable, LifeInv, TypeOK
  <2>2. Takes(t, mClient, point)
    BY <1>1 DEF Promote, Promotable, Goto, Hold, At, Takes
  <2>. QED  BY <2>1, <2>2, TakeStep
<1>2. ASSUME UNCHANGED <<clientVars, mine, overtaken>>, NEW point, Goto(t, point),
             pc[t] \in WaitPoints \ {"predicateDrop"}, point \in WaitPoints \ {"predicateDrop"},
             mClientMutex' \in Threads \cup {NULL}, timedOut' \in [Threads -> BOOLEAN],
             \/ mClient' = mClient
             \/ mClient' = NULL /\ ~Promotable
      PROVE  LifeInv'
  <2>. USE <1>2 DEF LifeInv, Goto, clientVars, callbackVars, vsyncVars
  <2>1. TypeOK'
    BY DEF TypeOK, WaitPoints, CreatePoints
  <2>2. Created' = Created /\ Waiting' \subseteq Waiting
    BY DEF TypeOK, Created, Waiting
  <2>3. Numbered'
    BY <2>2, NumberedKept
  <2>4. References' /\ Destructors' /\ Callbacks'
    BY DEF TypeOK, References, Destructors, Callbacks, WaitPoints, HoldPoints, RegisterPoints,
           DestructorPoints
  <2>5. mClient' = mClient \/ \A c \in Clients : obj[c] = "live" => mClient # c
    BY DEF TypeOK, References, Promotable
  <2>6. ~overtaken' => Alone'
    BY <2>5 DEF TypeOK, Alone, Existing, WaitPoints, DestructorPoints
  <2>. QED  BY <2>1, <2>3, <2>4, <2>6
<1>3. TypeOK
  BY DEF LifeInv
<1>4. CASE LockClient(t)
  BY <1>2, <1>3, <1>4 DEF LockClient, At, WaitPoints, TypeOK
<1>5. CASE Predicate(t)
  <2>1. CASE Promote(t)
    <3>1. Goto(t, "predicateDrop") /\ At(t, "predicate")
            /\ UNCHANGED <<obj, mClient, mClientMutex, timedOut, overtaken>>
      BY <1>5, <2>1 DEF Predicate, Promote
    <3>. QED  BY <1>1, <2>1, <3>1 DEF At, Goto
  <2>2. CASE ~Promote(t)
    <3>1. ~Promotable /\ Goto(t, "recheck") /\ UNCHANGED <<strong, mine>>
      BY <1>5, <2>2 DEF Predicate
    <3>. QED  BY <1>2, <1>3, <1>5, <3>1 DEF Predicate, At, WaitPoints, TypeOK, clientVars
  <2>. QED  BY <2>1, <2>2
<1>6. CASE Timeout(t)
  BY <1>2, <1>3, <1>6 DEF Timeout, At, WaitPoints, TypeOK
<1>7. CASE Recheck(t)
  BY <1>1, <1>2, <1>3, <1>7 DEF Recheck, At, WaitPoints, TypeOK, clientVars
<1>. QED  BY <1>4, <1>5, <1>6, <1>7

\* A client created while none exists is the only one.
LEMMA CreateClientStep ==
  ASSUME LifeInv, NEW t \in Threads, Create(t), UNCHANGED <<callbackVars, vsyncVars>>
  PROVE  LifeInv'
<1>. DEFINE n == NewClient
<1>1. n \in Clients /\ obj[n] = "none"
  BY NewClientIsFresh DEF LifeInv, Create
<1>2. /\ At(t, "create")
      /\ obj' = [obj EXCEPT ![n] = "live"]
      /\ strong' = [strong EXCEPT ![n] = {t}]
      /\ mClient' = n
      /\ mine' = [mine EXCEPT ![t] = n]
      /\ pc' = [pc EXCEPT ![t] = "reply"]
      /\ overtaken' = (overtaken \/ Existing # {})
      /\ UNCHANGED <<mClientMutex, timedOut>>
  BY DEF Create, Goto, Hold
<1>3. Numbered'
  <2>1. Cardinality(Created) \in Nat /\ Created = 1..Cardinality(Created)
          /\ n = Cardinality(Created) + 1
    BY CreatedInterval DEF LifeInv, NewClient
  <2>2. Created' = Created \cup {n}
    BY <1>1, <1>2 DEF LifeInv, TypeOK, Created
  <2>. HIDE DEF n
  <2>3. Created' = 1..n
    BY <2>1, <2>2
  <2>4. Cardinality(Created') = n
    BY <2>1, <2>3, FS_Interval
  <2>5. Waiting' = Waiting \ {t} /\ t \in Waiting
    BY <1>2 DEF LifeInv, TypeOK, Waiting, WaitPoints, At
  <2>6. Cardinality(Waiting') = Cardinality(Waiting) - 1 /\ Cardinality(Waiting) \in Nat
    BY <2>5, WaitingFinite, FS_RemoveElement, FS_CardinalityType
  <2>7. Cardinality(Created') + Cardinality(Waiting') <= MaxClients
    BY <2>1, <2>4, <2>6 DEF LifeInv, Numbered
  <2>8. n \in Nat
    BY <2>1
  <2>. QED  BY <2>3, <2>7, <2>8 DEF Numbered
<1>. HIDE DEF n
<1>. USE <1>1, <1>2 DEF LifeInv, At, callbackVars, vsyncVars
<1>4. TypeOK'
  BY DEF TypeOK, CreatePoints
<1>5. References'
  <2>1. \A u \in Threads : pc[u] \in HoldPoints => mine[u] # n
    BY DEF TypeOK, References
  <2>. QED  BY <2>1 DEF TypeOK, References, HoldPoints, RegisterPoints
<1>6. Destructors'
  BY DEF TypeOK, Destructors, DestructorPoints
<1>7. Callbacks'
  <2>1. \A u \in Threads : pc[u] \in {"onClientDestroyed", "free"} => mine[u] # n
    BY DEF TypeOK, Destructors, DestructorPoints
  <2>. QED  BY <2>1 DEF TypeOK, Callbacks
<1>8. ~overtaken' => Alone'
  <2>. SUFFICES ASSUME ~overtaken' PROVE Alone'
    OBVIOUS
  <2>1. ~overtaken /\ Existing = {}
    BY DEF TypeOK
  <2>2. \A c \in Clients : obj[c] \notin {"live", "dying"}
    BY <2>1 DEF Existing
  <2>3. mEventCallback = NULL /\ ~mCallback
    BY <2>1, <2>2 DEF TypeOK, Callbacks, Alone
  <2>4. \A u \in Threads : pc[u] \notin {"hotplug", "setVsync"}
    BY <2>2 DEF TypeOK, References, HoldPoints, RegisterPoints
  <2>5. n \notin registered
    BY DEF References
  <2>. QED  BY <2>1, <2>2, <2>3, <2>4, <2>5
       DEF TypeOK, Alone, Existing, DestructorPoints, Callbacks
<1>. QED  BY <1>3, <1>4, <1>5, <1>6, <1>7, <1>8

LEMMA ReplyStep ==
  ASSUME LifeInv, NEW t \in Threads, Reply(t), UNCHANGED <<callbackVars, vsyncVars>>
  PROVE  LifeInv'
<1>. USE DEF LifeInv, Reply, At, Goto, callbackVars, vsyncVars
<1>1. mine[t] \in Clients /\ t \in strong[mine[t]]
  BY DEF References, HoldPoints
<1>2. TypeOK'
  BY DEF TypeOK, CreatePoints
<1>3. Created' = Created /\ Waiting' \subseteq Waiting
  BY DEF TypeOK, Created, Waiting, WaitPoints
<1>4. Numbered'
  BY <1>3, NumberedKept
<1>5. References' /\ Destructors' /\ Callbacks'
  BY <1>1 DEF TypeOK, References, Destructors, Callbacks, HoldPoints, RegisterPoints,
              DestructorPoints
<1>6. ~overtaken' => Alone'
  BY DEF TypeOK, Alone, Existing, DestructorPoints
<1>. QED  BY <1>2, <1>4, <1>5, <1>6

\* The two drops of a temporary reference in createClient.
LEMMA CreateDropStep ==
  ASSUME LifeInv, NEW t \in Threads, PredicateDrop(t) \/ ReturnFromCreate(t),
         UNCHANGED <<callbackVars, vsyncVars>>
  PROVE  LifeInv'
<1>1. pc[t] \in HoldPoints /\ mine[t] \in Clients /\ t \in strong[mine[t]]
  BY DEF LifeInv, References, HoldPoints, PredicateDrop, ReturnFromCreate, At
<1>2. PICK point : Drops(t, t, mine[t], point)
  <2>1. mClientMutex' \in Threads \cup {NULL}
    BY DEF LifeInv, TypeOK, PredicateDrop, ReturnFromCreate, FreeMutexIf
  <2>2. CASE PredicateDrop(t)
    BY <1>1, <2>1, <2>2 DEF PredicateDrop, At, Drops
  <2>3. CASE ReturnFromCreate(t)
    BY <1>1, <2>1, <2>3 DEF ReturnFromCreate, Drops
  <2>. QED  BY <2>2, <2>3
<1>. QED  BY <1>1, <1>2, DropStep

-----------------------------------------------------------------------------
(* The caller lets go of a client; registerCallback.                       *)

LEMMA RemoteDropStep ==
  ASSUME LifeInv, NEW t \in Threads, NEW c \in Clients, RemoteDrop(t, c),
         UNCHANGED <<callbackVars, vsyncVars>>
  PROVE  LifeInv'
<1>1. mClientMutex' \in Threads \cup {NULL}
  BY DEF LifeInv, TypeOK, RemoteDrop
<1>2. Drops(t, Remote, c, "idle")
  BY <1>1 DEF RemoteDrop, Drops, At
<1>. QED  BY <1>2, DropStep

LEMMA CallRegisterStep ==
  ASSUME LifeInv, NEW t \in Threads, NEW c \in Clients, CallRegister(t, c),
         UNCHANGED <<callbackVars, vsyncVars>>
  PROVE  LifeInv'
<1>1. Takes(t, c, "setEventCallback")
  BY DEF CallRegister, Takes, At, Goto, Hold
<1>. QED  BY <1>1, TakeStep

\* As long as no client overtook another, the client that registers is the only one
\* there is, so no destructor runs beside it.
LEMMA RegisterCallbackStep ==
  ASSUME LifeInv, NEW t \in Threads,
         SetEventCallback(t) \/ Hotplug(t) \/ SetVsyncCallback(t),
         UNCHANGED <<mClient, mClientMutex, timedOut, vsyncVars, overtaken>>
  PROVE  LifeInv'
<1>. DEFINE m == mine[t]
<1>1. m \in Clients /\ t \in strong[m] /\ obj[m] = "live"
  BY DEF LifeInv, References, HoldPoints, RegisterPoints, SetEventCallback, Hotplug,
         SetVsyncCallback, At
<1>2. UNCHANGED <<obj, strong, mine>>
  BY DEF SetEventCallback, Hotplug, SetVsyncCallback, callbackVars
<1>3. PICK point \in RegisterPoints : pc' = [pc EXCEPT ![t] = point]
  BY DEF SetEventCallback, Hotplug, SetVsyncCallback, Goto, RegisterPoints
<1>4. pc[t] \in RegisterPoints
  BY DEF SetEventCallback, Hotplug, SetVsyncCallback, At, RegisterPoints
<1>. USE <1>1, <1>2, <1>3, <1>4 DEF LifeInv, vsyncVars
<1>5. mEventCallback' \in {mEventCallback, m} /\ mCallback' \in BOOLEAN
        /\ registered' \in {registered, registered \cup {m}}
  BY DEF SetEventCallback, Hotplug, SetVsyncCallback, callbackVars, TypeOK
<1>6. TypeOK'
  BY <1>5 DEF TypeOK, RegisterPoints
<1>7. Numbered'
  <2>1. Created' = Created /\ Waiting' \subseteq Waiting
    BY DEF TypeOK, Created, Waiting, WaitPoints, RegisterPoints
  <2>. QED  BY <2>1, NumberedKept
<1>8. References' /\ Destructors'
  BY <1>5 DEF TypeOK, References, Destructors, HoldPoints, RegisterPoints, DestructorPoints
<1>9. \A u \in Threads : pc[u] \in DestructorPoints => mine[u] # m
  BY DEF Destructors
<1>10. Callbacks'
  <2>1. mCallback => mCallback'
    BY DEF SetEventCallback, Hotplug, SetVsyncCallback, callbackVars
  <2>. QED
    BY <1>5, <1>9, <2>1 DEF TypeOK, Callbacks, RegisterPoints, DestructorPoints
<1>11. ~overtaken' => Alone'
  <2>. SUFFICES ASSUME ~overtaken PROVE Alone'
    OBVIOUS
  <2>1. \A u \in Threads : pc[u] \notin DestructorPoints
    BY DEF Alone, Existing, Destructors
  <2>2. \A u \in Threads : pc'[u] \notin DestructorPoints
    BY <2>1 DEF TypeOK, RegisterPoints, DestructorPoints
  <2>3. \A u \in Threads : pc[u] \in RegisterPoints => mine[u] = m
    BY DEF Alone, Existing, References, HoldPoints
  <2>4. mEventCallback \in {NULL, m}
    BY DEF Alone, Existing, Callbacks, TypeOK
  <2>5. CASE SetEventCallback(t)
    <3>1. /\ mEventCallback' = m /\ pc'[t] = "hotplug"
          /\ UNCHANGED <<mCallback, registered>>
      BY <2>5 DEF SetEventCallback, Goto, TypeOK
    <3>2. vsync = "call" => target = m
      BY <2>4 DEF Alone, Callbacks
    <3>. QED
      BY <2>2, <2>3, <3>1, <3>2 DEF TypeOK, Alone, Existing, RegisterPoints
  <2>6. CASE Hotplug(t)
    BY <2>2, <2>6 DEF Hotplug, At, Goto, callbackVars, TypeOK, Alone, Existing, RegisterPoints
  <2>7. CASE SetVsyncCallback(t)
    <3>1. /\ mEventCallback = m /\ mEventCallback' = m /\ mCallback'
          /\ registered' = registered \cup {m} /\ pc'[t] = "registerDrop"
      BY <2>7 DEF SetVsyncCallback, At, Goto, Alone, TypeOK
    <3>. QED
      BY <2>2, <3>1 DEF TypeOK, Alone, Existing, RegisterPoints
  <2>. QED  BY <2>5, <2>6, <2>7
<1>. QED  BY <1>6, <1>7, <1>8, <1>10, <1>11

LEMMA RegisterDropStep ==
  ASSUME LifeInv, NEW t \in Threads, RegisterDrop(t),
         UNCHANGED <<mClient, mClientMutex, timedOut, vsyncVars, overtaken>>
  PROVE  LifeInv'
<1>1. pc[t] \in HoldPoints /\ mine[t] \in Clients /\ t \in strong[mine[t]]
  BY DEF LifeInv, References, HoldPoints, RegisterPoints, RegisterDrop, At
<1>2. mClientMutex' \in Threads \cup {NULL}
  BY DEF LifeInv, TypeOK
<1>3. Drops(t, t, mine[t], "idle")
  BY <1>1, <1>2 DEF RegisterDrop, Drops
<1>. QED  BY <1>1, <1>3, DropStep

-----------------------------------------------------------------------------
(* The destructor and the VsyncThread.                                     *)

LEMMA DestructorKeeps ==
  ASSUME LifeInv, NEW t \in Threads, DestructorStep(t)
  PROVE  LifeInv'
<1>. DEFINE m == mine[t]
<1>1. pc[t] \in DestructorPoints /\ m \in Clients /\ obj[m] = "dying" /\ strong[m] = {}
  BY DEF LifeInv, TypeOK, References, Destructors, DestructorPoints, DestructorStep, UnsetVsync,
         UnsetEventCallback, OnClientDestroyed, FreeClient, At
<1>2. ~overtaken => \A c \in Clients : obj[c] # "live"
  BY <1>1 DEF LifeInv, Alone, Existing
<1>3. ~overtaken => \A u \in Threads : pc[u] \in RegisterPoints => FALSE
  BY <1>2 DEF LifeInv, References, HoldPoints
<1>. USE <1>1 DEF LifeInv, DestructorStep, vsyncVars
<1>4. CASE UnsetVsync(t) \/ UnsetEventCallback(t)
  <2>1. PICK point \in {"unsetEventCallback", "onClientDestroyed"} :
          /\ pc' = [pc EXCEPT ![t] = point]
          /\ point = "onClientDestroyed" => mEventCallback' = NULL
    BY <1>4 DEF UnsetVsync, UnsetEventCallback, Goto
  <2>2. UNCHANGED <<obj, strong, mClient, mClientMutex, mine, timedOut, registered, vsync, target,
                    overtaken>>
    BY <1>4 DEF UnsetVsync, UnsetEventCallback
  <2>3. mEventCallback' \in {mEventCallback, NULL} /\ mCallback' \in {mCallback, FALSE}
    BY <1>4 DEF UnsetVsync, UnsetEventCallback
  <2>4. mCallback' = mCallback \/ vsync = "away"
    BY <1>4 DEF UnsetVsync, UnsetEventCallback, VsyncMutexFree
  <2>5. TypeOK'
    BY <2>1, <2>2, <2>3 DEF TypeOK, DestructorPoints
  <2>6. Created' = Created /\ Waiting' \subseteq Waiting
    BY <2>1, <2>2 DEF TypeOK, Created, Waiting, WaitPoints
  <2>7. Numbered'
    BY <2>6, NumberedKept
  <2>8. References' /\ Destructors'
    BY <2>1, <2>2 DEF TypeOK, References, Destructors, HoldPoints, RegisterPoints, DestructorPoints
  <2>9. Callbacks'
    BY <2>1, <2>2, <2>3, <2>4 DEF TypeOK, Callbacks, Destructors, DestructorPoints
  <2>10. ~overtaken' => Alone'
    <3>. SUFFICES ASSUME ~overtaken PROVE Alone'
      BY <2>2
    <3>1. ~mCallback'
      BY <1>4 DEF UnsetVsync, UnsetEventCallback, Alone, At, DestructorPoints
    <3>2. vsync # "call" \/ UNCHANGED <<mEventCallback, mCallback>>
      BY <1>4, <2>4, <3>1 DEF UnsetVsync, UnsetEventCallback, Callbacks, VsyncMutexFree, At, Alone
    <3>3. \A u \in Threads : pc'[u] \notin {"hotplug", "setVsync"}
      BY <1>3, <2>1 DEF TypeOK, RegisterPoints
    <3>. QED  BY <1>2, <2>1, <2>2, <3>1, <3>2, <3>3 DEF TypeOK, Alone, Existing
  <2>. QED  BY <2>5, <2>7, <2>8, <2>9, <2>10
<1>5. CASE OnClientDestroyed(t)
  <2>1. /\ mClient' = NULL
        /\ At(t, "onClientDestroyed")
        /\ pc' = [u \in Threads |->
                    IF u = t THEN "free" ELSE IF pc[u] = "sleep" THEN "lock" ELSE pc[u]]
        /\ UNCHANGED <<obj, strong, mClientMutex, mine, timedOut, callbackVars, vsync, target,
                       overtaken>>
    BY <1>5 DEF OnClientDestroyed, At
  <2>. USE <2>1 DEF callbackVars, At
  <2>2. TypeOK'
    BY DEF TypeOK, DestructorPoints, CreatePoints
  <2>3. Created' = Created /\ Waiting' \subseteq Waiting
    BY DEF TypeOK, Created, Waiting, WaitPoints
  <2>4. Numbered'
    BY <2>3, NumberedKept
  <2>5. References' /\ Destructors' /\ Callbacks'
    BY DEF TypeOK, References, Destructors, Callbacks, HoldPoints, RegisterPoints,
           DestructorPoints
  <2>6. ~overtaken' => Alone'
    BY <1>2 DEF TypeOK, Alone, Existing, DestructorPoints
  <2>. QED  BY <2>2, <2>4, <2>5, <2>6
<1>6. CASE FreeClient(t)
  <2>1. /\ At(t, "free")
        /\ obj' = [obj EXCEPT ![m] = "dead"]
        /\ mine' = [mine EXCEPT ![t] = NULL]
        /\ pc' = [pc EXCEPT ![t] = "idle"]
        /\ UNCHANGED <<strong, mClient, mClientMutex, timedOut, callbackVars, vsync, target,
                       overtaken>>
    BY <1>6 DEF FreeClient, Release, Goto
  <2>. USE <2>1 DEF callbackVars, At
  <2>2. TypeOK'
    BY DEF TypeOK
  <2>3. Created' = Created /\ Waiting' \subseteq Waiting
    BY DEF TypeOK, Created, Waiting, WaitPoints
  <2>4. Numbered'
    BY <2>3, NumberedKept
  <2>5. References'
    BY DEF TypeOK, References, HoldPoints, RegisterPoints
  <2>6. Destructors'
    BY DEF TypeOK, Destructors, DestructorPoints
  <2>7. Callbacks'
    BY DEF TypeOK, Callbacks
  <2>8. ~overtaken' => Alone'
    BY <1>2 DEF TypeOK, Alone, Existing, DestructorPoints
  <2>. QED  BY <2>2, <2>4, <2>5, <2>6, <2>7, <2>8
<1>. QED  BY <1>4, <1>5, <1>6

LEMMA VsyncKeeps ==
  ASSUME LifeInv, VsyncStep
  PROVE  LifeInv'
<1>. USE DEF LifeInv, VsyncStep, VsyncFire, VsyncCall, VsyncReturn, clientVars, threadVars,
             callbackVars
<1>1. TypeOK'
  BY DEF TypeOK
<1>2. Created' = Created /\ Waiting' = Waiting
  BY DEF Created, Waiting
<1>3. Numbered'
  BY <1>2, NumberedKept
<1>4. References' /\ Destructors' /\ Callbacks'
  BY DEF References, Destructors, Callbacks
<1>5. ~overtaken' => Alone'
  BY DEF Alone, Existing
<1>. QED  BY <1>1, <1>3, <1>4, <1>5

-----------------------------------------------------------------------------
LEMMA LifeStep ==
  ASSUME LifeInv, [Next]_vars
  PROVE  LifeInv'
<1>1. ASSUME NEW t \in Threads, ThreadStep(t)
      PROVE  LifeInv'
  BY <1>1, WaitStep, CreateClientStep, ReplyStep, CreateDropStep, RegisterCallbackStep,
     RegisterDropStep, DestructorKeeps
     DEF ThreadStep, CreateStep, RegisterStep
<1>2. ASSUME NEW t \in Threads, Call(t)
      PROVE  LifeInv'
  BY <1>2, CallCreateStep, RemoteDropStep, CallRegisterStep DEF Call
<1>3. CASE UNCHANGED vars
  <2>. USE <1>3 DEF vars, clientVars, threadVars, callbackVars, vsyncVars
  <2>1. Created' = Created /\ Waiting' = Waiting
    BY DEF Created, Waiting
  <2>2. Numbered'
    BY <2>1, NumberedKept DEF LifeInv
  <2>3. TypeOK' /\ References' /\ Destructors' /\ Callbacks' /\ (~overtaken' => Alone')
    BY DEF LifeInv, TypeOK, References, Destructors, Callbacks, Alone, Existing
  <2>. QED  BY <2>2, <2>3 DEF LifeInv
<1>. QED  BY <1>1, <1>2, <1>3, VsyncKeeps DEF Next

THEOREM LifeInvariant == Spec => []LifeInv
BY LifeInit, LifeStep, PTL DEF Spec

-----------------------------------------------------------------------------
\* The state keeps its type.
THEOREM TypeCorrect == Spec => []TypeOK
<1>1. LifeInv => TypeOK
  BY DEF LifeInv
<1>. QED  BY <1>1, LifeInvariant, PTL

\* The HAL keeps no callback of a freed client (the order of ~ComposerClient).
THEOREM FreedIsNeverCalled == Spec => []NeverCallsFreed
<1>1. LifeInv => NeverCallsFreed
  BY DEF LifeInv, TypeOK, Callbacks, Alone, NeverCallsFreed
<1>. QED  BY <1>1, LifeInvariant, PTL

\* No callback goes through a null mEventCallback (vsyncHook, hotplugHook), unless
\* a client was created over another one.
THEOREM NullIsNeverCalled == Spec => []NeverCallsNull
<1>1. LifeInv => NeverCallsNull
  <2>. SUFFICES ASSUME LifeInv, ~overtaken PROVE NeverCallsNull
    BY DEF NeverCallsNull
  <2>1. \A t \in Threads : At(t, "hotplug") => mEventCallback = mine[t]
    BY DEF LifeInv, Alone, At
  <2>2. vsync \in {"fire", "call"} => mEventCallback # NULL
    BY DEF LifeInv, Callbacks, Alone
  <2>3. vsync = "call" => target # NULL
    BY <2>2 DEF LifeInv, Alone
  <2>. QED  BY <2>1, <2>2, <2>3 DEF NeverCallsNull
<1>. QED  BY <1>1, LifeInvariant, PTL

\* A registered client keeps its vsync (registerCallback and a destructor that
\* runs late), unless a client was created over another one.
THEOREM VsyncIsKept == Spec => []KeepsVsync
<1>1. LifeInv => KeepsVsync
  BY DEF LifeInv, Alone, KeepsVsync
<1>. QED  BY <1>1, LifeInvariant, PTL

\* Composer knows the client that can be used (mClient), unless a client was
\* created over another one.
THEOREM LiveClientIsKnown == Spec => []LiveClientKnown
<1>1. LifeInv => LiveClientKnown
  BY DEF LifeInv, Alone, LiveClientKnown
<1>. QED  BY <1>1, LifeInvariant, PTL

-----------------------------------------------------------------------------
(* mClientMutex.                                                           *)

\* The points of createClient with the mutex, and those of a destructor that may run
\* with it, in a thread that dropped the last reference within createClient.
LockedPoints == {"predicate", "predicateDrop", "recheck", "create", "reply", "return"}
InheritPoints == {"unsetVsync", "unsetEventCallback", "onClientDestroyed"}

MutexHeld ==
    \A t \in Threads :
        /\ pc[t] \in LockedPoints => mClientMutex = t
        /\ mClientMutex = t => pc[t] \in LockedPoints \cup InheritPoints

\* A thread that is neither the last nor the next holder does not touch the mutex.
LEMMA MutexOthers ==
  ASSUME TypeOK, MutexHeld, NEW t \in Threads,
         \A u \in Threads \ {t} : pc'[u] = pc[u],
         \/ mClientMutex' = mClientMutex
         \/ mClientMutex = NULL /\ mClientMutex' = t
         \/ mClientMutex = t /\ mClientMutex' = NULL,
         pc'[t] \in LockedPoints => mClientMutex' = t,
         mClientMutex' = t => pc'[t] \in LockedPoints \cup InheritPoints
  PROVE  MutexHeld'
BY DEF TypeOK, MutexHeld

LEMMA MutexStep ==
  ASSUME TypeOK, TypeOK', MutexHeld, [Next]_vars
  PROVE  MutexHeld'
<1>. USE DEF TypeOK, At, Goto, LockedPoints, InheritPoints
<1>1. ASSUME NEW t \in Threads, CreateStep(t)
      PROVE  MutexHeld'
  <2>. USE DEF Promote, Hold, Release, DropReference, FreeMutexIf, clientVars
  <2>1. CASE LockClient(t)
    BY <2>1, MutexOthers DEF LockClient
  <2>2. CASE Predicate(t)
    BY <2>2, MutexOthers DEF Predicate, MutexHeld
  <2>3. CASE PredicateDrop(t)
    BY <2>3, MutexOthers DEF PredicateDrop, MutexHeld
  <2>4. CASE Timeout(t)
    BY <2>4, MutexOthers DEF Timeout, MutexHeld
  <2>5. CASE Recheck(t)
    BY <2>5, MutexOthers DEF Recheck, MutexHeld
  <2>6. CASE Create(t)
    BY <2>6, MutexOthers DEF Create, MutexHeld
  <2>7. CASE Reply(t)
    BY <2>7, MutexOthers DEF Reply, MutexHeld
  <2>8. CASE ReturnFromCreate(t)
    BY <2>8, MutexOthers DEF ReturnFromCreate, MutexHeld
  <2>. QED  BY <1>1, <2>1, <2>2, <2>3, <2>4, <2>5, <2>6, <2>7, <2>8 DEF CreateStep
<1>2. ASSUME NEW t \in Threads, RegisterStep(t)
      PROVE  MutexHeld'
  <2>1. mClientMutex' = mClientMutex
    BY <1>2 DEF RegisterStep
  <2>2. pc[t] \in RegisterPoints /\ pc'[t] \in {"hotplug", "setVsync", "registerDrop", "unsetVsync", "idle"}
        /\ \A u \in Threads \ {t} : pc'[u] = pc[u]
    BY <1>2 DEF RegisterStep, SetEventCallback, Hotplug, SetVsyncCallback, RegisterDrop,
                DropReference, RegisterPoints
  <2>. QED  BY <2>1, <2>2, MutexOthers DEF MutexHeld, RegisterPoints
<1>3. ASSUME NEW t \in Threads, DestructorStep(t)
      PROVE  MutexHeld'
  <2>1. mClientMutex' = mClientMutex
    BY <1>3 DEF DestructorStep
  <2>2. CASE UnsetVsync(t) \/ UnsetEventCallback(t)
    BY <2>1, <2>2, MutexOthers DEF UnsetVsync, UnsetEventCallback, MutexHeld
  <2>3. CASE OnClientDestroyed(t)
    <3>1. mClientMutex = NULL /\ \A u \in Threads : pc[u] \notin LockedPoints
      BY <2>3 DEF OnClientDestroyed, MutexHeld
    <3>2. \A u \in Threads : pc'[u] \in {"free", "lock", pc[u]}
      BY <2>3 DEF OnClientDestroyed
    <3>. QED  BY <2>1, <3>1, <3>2 DEF MutexHeld
  <2>4. CASE FreeClient(t)
    BY <2>1, <2>4, MutexOthers DEF FreeClient, MutexHeld
  <2>. QED  BY <1>3, <2>2, <2>3, <2>4 DEF DestructorStep
<1>4. ASSUME NEW t \in Threads, Call(t)
      PROVE  MutexHeld'
  <2>1. /\ mClientMutex' = mClientMutex
        /\ pc[t] = "idle" /\ pc'[t] \in {"lock", "idle", "unsetVsync", "setEventCallback"}
        /\ \A u \in Threads \ {t} : pc'[u] = pc[u]
    BY <1>4 DEF Call, CallCreateClient, RemoteDrop, CallRegister, DropReference
  <2>. QED  BY <2>1, MutexOthers DEF MutexHeld
<1>5. CASE VsyncStep \/ UNCHANGED vars
  BY <1>5 DEF VsyncStep, vars, threadVars, MutexHeld
<1>. QED  BY <1>1, <1>2, <1>3, <1>4, <1>5 DEF Next, ThreadStep

LEMMA MutexIsHeld == Spec => [](TypeOK /\ MutexHeld)
<1>1. Init => MutexHeld
  BY DEF Init, MutexHeld, LockedPoints
<1>2. TypeOK /\ TypeOK' /\ MutexHeld /\ [Next]_vars => MutexHeld'
  BY MutexStep
<1>. QED  BY <1>1, <1>2, TypeCorrect, PTL DEF Spec

\* Threads that want mClientMutex or the mutex of the VsyncThread; the VsyncThread
\* itself waits for neither while it holds its own.
AwaitsClient(t) == pc[t] \in {"lock", "onClientDestroyed"} /\ mClientMutex # NULL
AwaitsVsync(t) == pc[t] \in {"setVsync", "unsetVsync"} /\ ~VsyncMutexFree
GoesOn(t) == pc[t] # "idle" /\ ~AwaitsClient(t) /\ ~AwaitsVsync(t)

WaitsEnd ==
    \A t \in Threads : AwaitsClient(t) =>
        \/ SelfDestruction
        \/ \E u \in Threads : mClientMutex = u /\ (GoesOn(u) \/ AwaitsVsync(u))

\* createClient and the destructor wait for mClientMutex only while its holder goes on or
\* waits for a vsync callback to return; only a destructor within createClient blocks.
THEOREM MutexIsFreed == Spec => []WaitsEnd
<1>1. ASSUME TypeOK, MutexHeld PROVE WaitsEnd
  <2>. SUFFICES ASSUME NEW t \in Threads, AwaitsClient(t), ~SelfDestruction
                PROVE  \E u \in Threads : mClientMutex = u /\ (GoesOn(u) \/ AwaitsVsync(u))
    BY DEF WaitsEnd
  <2>1. PICK u \in Threads : mClientMutex = u
    BY <1>1 DEF TypeOK, AwaitsClient
  <2>2. pc[u] \in LockedPoints \cup InheritPoints /\ pc[u] # "onClientDestroyed"
    BY <1>1, <2>1 DEF MutexHeld, SelfDestruction, At
  <2>. QED  BY <2>1, <2>2 DEF GoesOn, AwaitsClient, LockedPoints, InheritPoints
<1>. QED  BY <1>1, MutexIsHeld, PTL

\* That deadlock is for good: no later step frees the mutex or ends the destructor.
THEOREM SelfDestructionStays == Spec => [][SelfDestruction => SelfDestruction']_vars
<1>1. ASSUME TypeOK, MutexHeld, SelfDestruction, [Next]_vars
      PROVE  SelfDestruction'
  <2>1. PICK t \in Threads : pc[t] = "onClientDestroyed" /\ mClientMutex = t
    BY <1>1 DEF SelfDestruction, At
  <2>2. SUFFICES pc'[t] = pc[t] /\ mClientMutex' = mClientMutex
    BY <2>1 DEF SelfDestruction, At
  <2>3. mClientMutex # NULL /\ \A u \in Threads : pc[u] \notin LockedPoints
    BY <1>1, <2>1 DEF MutexHeld, LockedPoints
  <2>. USE <1>1, <2>1, <2>3 DEF TypeOK, At, Goto, LockedPoints
  <2>4. ASSUME NEW u \in Threads, CreateStep(u)
        PROVE  pc'[t] = pc[t] /\ mClientMutex' = mClientMutex
    BY <2>4 DEF CreateStep, LockClient, Predicate, PredicateDrop, Timeout, Recheck, Create,
                Reply, ReturnFromCreate
  <2>5. ASSUME NEW u \in Threads, RegisterStep(u)
        PROVE  pc'[t] = pc[t] /\ mClientMutex' = mClientMutex
    BY <2>5 DEF RegisterStep, SetEventCallback, Hotplug, SetVsyncCallback, RegisterDrop,
                DropReference
  <2>6. ASSUME NEW u \in Threads, DestructorStep(u)
        PROVE  pc'[t] = pc[t] /\ mClientMutex' = mClientMutex
    BY <2>6 DEF DestructorStep, UnsetVsync, UnsetEventCallback, OnClientDestroyed, FreeClient
  <2>7. ASSUME NEW u \in Threads, Call(u)
        PROVE  pc'[t] = pc[t] /\ mClientMutex' = mClientMutex
    BY <2>7 DEF Call, CallCreateClient, RemoteDrop, CallRegister, DropReference
  <2>8. CASE VsyncStep \/ UNCHANGED vars
    BY <2>8 DEF VsyncStep, vars, threadVars
  <2>. QED  BY <2>4, <2>5, <2>6, <2>7, <2>8 DEF Next, ThreadStep
<1>. QED  BY <1>1, MutexIsHeld, PTL DEF Spec
=============================================================================
