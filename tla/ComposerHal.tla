----------------------------- MODULE ComposerHal -----------------------------
(***************************************************************************)
(* ComposerHal and the clients above it, down to single statements of the  *)
(* device.  Binder threads run the methods of ComposerClient; the commands *)
(* of one client are serialised by its mCommandEngineMutex, createLayer,   *)
(* destroyLayer and registerCallback are not, nothing serialises two       *)
(* clients, and the device has no lock of its own.  So between any two     *)
(* statements that touch shared state another thread may run.  When the    *)
(* last reference to a client goes, the thread that dropped it runs the    *)
(* destructor, which destroys the client's layers and performs a final     *)
(* validate, accept and present; Composer may hand out the next client     *)
(* before that is through.  The client target is the subject of            *)
(* ClientTarget and stays as it is here.                                   *)
(***************************************************************************)
EXTENDS Hwc2Device

CONSTANTS
    Threads,       \* binder threads
    Clients,       \* the clients that may be created
    NoClient

ASSUME ClientAssumption == NoClient \notin Clients

VARIABLES
    mMustValidateDisplay,
    mClient,       \* the client Composer has a weak reference to
    status,        \* life of each client: "none", "live", "dying" or "dead"
    hotplugged,    \* clients whose resources know the primary display
    mResources,    \* the layers each client's resources hold
    call,          \* the statement each thread is at, and its local variables
    told,          \* ghost: the layers the last validation returned, until they
                   \* are settled
    missed,        \* ghost: the layers marked dirty too late for the decision
                   \* the thread has taken and is about to act on
    unseen,        \* ghost: the same for the decision behind mState
    orphans,       \* ghost: layers that the resources refused
    overtaken,     \* ghost: a client was created while another was not dead
    dangled        \* ghost: a layer was dirty after it had been destroyed

halVars == <<mMustValidateDisplay, mClient, status, hotplugged, mResources>>
ghostVars == <<told, missed, unseen, orphans, overtaken, dangled>>
vars == <<deviceVars, halVars, call, ghostVars>>

\* The statement a thread will execute next.
LayerPoints == {"insertDirty", "created", "addLayer", "eraseLayer", "destroyed", "removeLayer"}
CommandPoints == {"mark", "unmark", "marked", "unmarked", "counted", "mustValidate",
                  "countTypes", "countSize", "fillTypes", "fillArrays", "clearDirty",
                  "accepted", "presentState", "post"}
DestructorPoints == {"clear", "accept", "present", "ended"}
Points == {"idle", "hotplug"} \cup LayerPoints \cup CommandPoints \cup DestructorPoints

NoCall == [at |-> "idle", client |-> NoClient, layer |-> 0, num |-> 0]
Calls == [at : Points, client : Clients \cup {NoClient}, layer : LayerIds, num : Nat]

TypeOK ==
    /\ DeviceTypeOK
    /\ mMustValidateDisplay \in BOOLEAN
    /\ mClient \in Clients \cup {NoClient}
    /\ status \in [Clients -> {"none", "live", "dying", "dead"}]
    /\ hotplugged \subseteq Clients
    /\ mResources \in [Clients -> SUBSET LayerIds]
    /\ call \in [Threads -> Calls]
    /\ told \subseteq LayerIds
    /\ missed \in [Threads -> SUBSET LayerIds]
    /\ unseen \subseteq LayerIds
    /\ orphans \subseteq LayerIds
    /\ overtaken \in BOOLEAN
    /\ dangled \in BOOLEAN

Init ==
    /\ DeviceInit
    /\ mMustValidateDisplay = TRUE
    /\ mClient = NoClient
    /\ status = [c \in Clients |-> "none"]
    /\ hotplugged = {}
    /\ mResources = [c \in Clients |-> {}]
    /\ call = [t \in Threads |-> NoCall]
    /\ told = {}
    /\ missed = [t \in Threads |-> {}]
    /\ unseen = {}
    /\ orphans = {}
    /\ overtaken = FALSE
    /\ dangled = FALSE

-----------------------------------------------------------------------------
At(t, point) == call[t].at = point
InCall(t, c) == call[t].client = c

Begin(t, point, c, l, n) ==
    call' = [call EXCEPT ![t] = [at |-> point, client |-> c, layer |-> l, num |-> n]]
Goto(t, point) == call' = [call EXCEPT ![t].at = point]
Return(t) == call' = [call EXCEPT ![t] = NoCall]

\* Does t run the destructor of its client, and not a method?
Destructing(t) == status[call[t].client] = "dying"

\* The end of a call: the destructor goes on at point, a method returns.
GoOnOrReturn(t, point) ==
    IF Destructing(t) THEN Begin(t, point, call[t].client, 0, 0) ELSE Return(t)

\* (mutant) Commands run without mCommandEngineMutex.
CommandEngineUnlocked(c) == FALSE

\* Some thread is inside executeCommands of c: mCommandEngineMutex is held.
CommandEngineLocked(c) == \E t \in Threads : InCall(t, c) /\ call[t].at \in CommandPoints

\* A binder thread may start a method of c; a command also takes the mutex.
MayCall(t, c) == At(t, "idle") /\ status[c] = "live"
MayCommand(t, c) == MayCall(t, c) /\ ~CommandEngineLocked(c)

-----------------------------------------------------------------------------
(* What the properties remember.                                           *)

\* Statements before which a decision has been taken from the dirty layers or
\* from the state, and is not in force yet.
DecidingPoints == {"counted", "clearDirty", "accepted", "post"}

\* Layers marked dirty by a thread that has not reached setState(MODIFIED).
InFlight == {call[t].layer : t \in {u \in Threads : At(u, "created") \/ At(u, "marked")}}

\* A dirty mark of l comes too late for those who have decided.
MissedBy(l) ==
    missed' = [t \in Threads |->
                  IF call[t].at \in DecidingPoints THEN missed[t] \cup {l} ELSE missed[t]]

\* A decision taken now rests on mState, or on the dirty layers alone.
DecideByState(t) == missed' = [missed EXCEPT ![t] = unseen \cup InFlight]
DecideByLayers(t) == missed' = [missed EXCEPT ![t] = {}]

\* The decision of t is in force, as the state of the display or as a frame.
Decided(t) == missed' = [missed EXCEPT ![t] = {}]

RecordDangling == dangled' = (dangled \/ ~(mDirtyLayers' \subseteq mLayers'))

-----------------------------------------------------------------------------
(* Clients come and go.                                                    *)

\* createClient of Composer, under mClientMutex.  promote() fails as soon as
\* the previous client has lost its last reference.
Connect(c) ==
    /\ status[c] = "none"
    /\ mClient \notin {d \in Clients : status[d] = "live"}
    /\ mClient' = c
    /\ status' = [status EXCEPT ![c] = "live"]
    /\ overtaken' = (overtaken \/ \E d \in Clients : status[d] \in {"live", "dying"})
    /\ UNCHANGED <<deviceVars, mMustValidateDisplay, hotplugged, mResources, call, told,
                   missed, unseen, orphans, dangled>>

\* registerEventCallback, which a client calls once.
Register(t, c) ==
    /\ MayCall(t, c)
    /\ c \notin hotplugged
    /\ \A u \in Threads : ~(InCall(u, c) /\ At(u, "hotplug"))
    /\ mMustValidateDisplay' = TRUE
    /\ Begin(t, "hotplug", c, 0, 0)
    /\ UNCHANGED <<deviceVars, mClient, status, hotplugged, mResources, ghostVars>>

\* The device answers the registration with onHotplug of its display, and
\* the callback adds the display to the resources.
OnHotplug(t) ==
    /\ At(t, "hotplug")
    /\ hotplugged' = hotplugged \cup {call[t].client}
    /\ Return(t)
    /\ UNCHANGED <<deviceVars, mMustValidateDisplay, mClient, status, mResources, ghostVars>>

\* A running method holds a reference.
NoMethodRunning(c) == \A t \in Threads : ~InCall(t, c)

\* The last reference goes; the destructor clears the displays it knows of.
LastReference(t, c) ==
    /\ MayCall(t, c)
    /\ NoMethodRunning(c)
    /\ status' = [status EXCEPT ![c] = "dying"]
    /\ Begin(t, IF c \in hotplugged THEN "clear" ELSE "ended", c, 0, 0)
    /\ UNCHANGED <<deviceVars, mMustValidateDisplay, mClient, hotplugged, mResources, ghostVars>>

\* The resources are gone and onClientDestroyed clears mClient, whichever client
\* it refers to.
EndClient(t) ==
    /\ At(t, "ended")
    /\ status' = [status EXCEPT ![call[t].client] = "dead"]
    /\ mClient' = NoClient
    /\ hotplugged' = hotplugged \ {call[t].client}
    /\ Return(t)
    /\ UNCHANGED <<deviceVars, mMustValidateDisplay, mResources, ghostVars>>

-----------------------------------------------------------------------------
(* createLayer.                                                            *)

CreateLayerCall(t, c) ==
    /\ MayCall(t, c)
    /\ \E l \in LayerIds : NewLayer(l) /\ Begin(t, "insertDirty", c, l, 0)
    /\ UNCHANGED <<halVars, ghostVars>>

InsertNewLayer(t) ==
    /\ At(t, "insertDirty")
    /\ InsertDirty(call[t].layer)
    /\ MissedBy(call[t].layer)
    /\ RecordDangling
    /\ Goto(t, "created")
    /\ UNCHANGED <<halVars, told, unseen, orphans, overtaken>>

\* addLayer of the resources; when it refuses, the device keeps the layer.
AddLayerToResources(t) ==
    LET c == call[t].client
        l == call[t].layer
    IN  /\ At(t, "addLayer")
        /\ IF c \in hotplugged
           THEN /\ mResources' = [mResources EXCEPT ![c] = @ \cup {l}]
                /\ UNCHANGED orphans
           ELSE /\ orphans' = orphans \cup {l}
                /\ UNCHANGED mResources
        /\ Return(t)
        /\ UNCHANGED <<deviceVars, mMustValidateDisplay, mClient, status, hotplugged, told,
                       missed, unseen, overtaken, dangled>>

-----------------------------------------------------------------------------
(* destroyLayer, by a method or, for each layer of the resources, by the   *)
(* destructor.                                                             *)

\* removeLayer erases the dirty mark before it knows whether l is a layer.
DestroyLayerCall(t, c, l) ==
    /\ MayCall(t, c)
    /\ EraseDirty(l)
    /\ Begin(t, "eraseLayer", c, l, 0)
    /\ UNCHANGED <<halVars, ghostVars>>

ClearLayer(t, l) ==
    /\ At(t, "clear")
    /\ l \in mResources[call[t].client]
    /\ EraseDirty(l)
    /\ Begin(t, "eraseLayer", call[t].client, l, 0)
    /\ UNCHANGED <<halVars, ghostVars>>

\* destroyLayer goes on to setState(MODIFIED) or returns BAD_LAYER, for which
\* the destructor does not care.
EraseLayerStep(t) ==
    /\ At(t, "eraseLayer")
    /\ EraseLayer(call[t].layer)
    /\ orphans' = orphans \ {call[t].layer}
    /\ RecordDangling
    /\ \/ call[t].layer \in mLayers /\ Goto(t, "destroyed")
       \/ call[t].layer \notin mLayers /\ Destructing(t) /\ Goto(t, "removeLayer")
       \/ call[t].layer \notin mLayers /\ ~Destructing(t) /\ Return(t)
    /\ UNCHANGED <<halVars, told, missed, unseen, overtaken>>

RemoveLayerFromResources(t) ==
    /\ At(t, "removeLayer")
    /\ mResources' = [mResources EXCEPT ![call[t].client] = @ \ {call[t].layer}]
    /\ GoOnOrReturn(t, "clear")
    /\ UNCHANGED <<deviceVars, mMustValidateDisplay, mClient, status, hotplugged, ghostVars>>

-----------------------------------------------------------------------------
(* setLayerCompositionType.                                                *)

\* markLayerDirty tests the layer, then inserts or erases its mark.
SetLayerCompositionType(t, c, l, type) ==
    /\ MayCommand(t, c)
    /\ l \in mLayers
    /\ Begin(t, IF type # "CLIENT" THEN "mark" ELSE "unmark", c, l, 0)
    /\ UNCHANGED <<deviceVars, halVars, ghostVars>>

MarkLayerDirty(t) ==
    /\ \/ /\ At(t, "mark")
          /\ InsertDirty(call[t].layer)
          /\ MissedBy(call[t].layer)
          /\ Goto(t, "marked")
       \/ /\ At(t, "unmark")
          /\ EraseDirty(call[t].layer)
          /\ UNCHANGED missed
          /\ Goto(t, "unmarked")
    /\ RecordDangling
    /\ UNCHANGED <<halVars, told, unseen, orphans, overtaken>>

-----------------------------------------------------------------------------
\* setState(MODIFIED), the last statement of the three calls above.
ModifiedStep(t) ==
    /\ \/ At(t, "created") /\ Goto(t, "addLayer")
       \/ At(t, "destroyed") /\ Goto(t, "removeLayer")
       \/ At(t, "marked") /\ Return(t)
       \/ At(t, "unmarked") /\ Return(t)
    /\ MarkModified
    /\ unseen' = {}
    /\ UNCHANGED <<halVars, told, missed, orphans, overtaken, dangled>>

-----------------------------------------------------------------------------
(* validateDisplay of ComposerHal: three calls of the device.              *)

\* The first call reads the number of dirty layers ...
CountDirtyLayers(t, c) ==
    /\ Begin(t, "counted", c, 0, Cardinality(mDirtyLayers))
    /\ DecideByLayers(t)
    /\ told' = {}
    /\ UNCHANGED <<deviceVars, halVars, unseen, orphans, overtaken, dangled>>

Validate(t, c) == MayCommand(t, c) /\ CountDirtyLayers(t, c)

FinalValidate(t) ==
    /\ At(t, "clear")
    /\ mResources[call[t].client] = {}
    /\ CountDirtyLayers(t, call[t].client)

\* ... and sets the state that follows from it.
ValidatedStep(t) ==
    /\ At(t, "counted")
    /\ SetState(ValidatedState(call[t].num))
    /\ unseen' = IF call[t].num = 0 THEN missed[t] ELSE {}
    /\ Decided(t)
    /\ Begin(t, "mustValidate", call[t].client, 0, 0)
    /\ UNCHANGED <<halVars, told, orphans, overtaken, dangled>>

MustValidateStep(t) ==
    /\ At(t, "mustValidate")
    /\ mMustValidateDisplay' = FALSE
    /\ Goto(t, "countTypes")
    /\ UNCHANGED <<deviceVars, mClient, status, hotplugged, mResources, ghostVars>>

\* For another display the device refuses and the flag goes all the same.
ValidateOther(t, c) ==
    /\ MayCommand(t, c)
    /\ Displays # {Primary}
    /\ mMustValidateDisplay' = FALSE
    /\ UNCHANGED <<deviceVars, mClient, status, hotplugged, mResources, call, ghostVars>>

\* The second and the third call end the validation if the state is MODIFIED.
TestValidated(t) ==
    /\ \/ /\ Unvalidated
          /\ At(t, "countTypes") \/ At(t, "fillTypes")
          /\ GoOnOrReturn(t, "accept")
       \/ ~Unvalidated /\ At(t, "countTypes") /\ Goto(t, "countSize")
       \/ ~Unvalidated /\ At(t, "fillTypes") /\ Goto(t, "fillArrays")
    /\ UNCHANGED <<deviceVars, halVars, ghostVars>>

\* The second call returns the size of the arrays to allocate.
CountSize(t) ==
    /\ At(t, "countSize")
    /\ Begin(t, "fillTypes", call[t].client, 0, Cardinality(mDirtyLayers))
    /\ UNCHANGED <<deviceVars, halVars, ghostVars>>

\* The third call fills the arrays, which are then the answer.  (The pointers
\* of empty arrays are null and the device only counts again.)
FillArrays(t) ==
    /\ At(t, "fillArrays")
    /\ told' \in ChangedTypes(call[t].num)
    /\ GoOnOrReturn(t, "accept")
    /\ UNCHANGED <<deviceVars, halVars, missed, unseen, orphans, overtaken, dangled>>

-----------------------------------------------------------------------------
(* acceptDisplayChanges and presentDisplay.                                *)

\* acceptDisplayChanges tests the state ...
AcceptTest(t, c) ==
    /\ ~Unvalidated
    /\ Begin(t, "clearDirty", c, 0, 0)
    /\ DecideByState(t)
    /\ UNCHANGED <<deviceVars, halVars, told, unseen, orphans, overtaken, dangled>>

Accept(t, c) == MayCommand(t, c) /\ AcceptTest(t, c)

FinalAccept(t) ==
    /\ At(t, "accept")
    /\ \/ AcceptTest(t, call[t].client)
       \/ Unvalidated /\ Goto(t, "present") /\ UNCHANGED <<deviceVars, halVars, ghostVars>>

\* ... clears the dirty layers ...
ClearDirtyStep(t) ==
    /\ At(t, "clearDirty")
    /\ ClearDirtyLayers
    /\ DecideByLayers(t)
    /\ told' = {}
    /\ Goto(t, "accepted")
    /\ UNCHANGED <<halVars, unseen, orphans, overtaken, dangled>>

\* ... and sets the state.
AcceptedStep(t) ==
    /\ At(t, "accepted")
    /\ SetState("VALIDATED")
    /\ unseen' = missed[t]
    /\ Decided(t)
    /\ GoOnOrReturn(t, "present")
    /\ UNCHANGED <<halVars, told, orphans, overtaken, dangled>>

\* presentDisplay of the HAL is refused until a validateDisplay was called.
Present(t, c) ==
    /\ MayCommand(t, c)
    /\ ~mMustValidateDisplay
    /\ Begin(t, "presentState", c, 0, 0)
    /\ UNCHANGED <<deviceVars, halVars, ghostVars>>

FinalPresent(t) ==
    /\ At(t, "present")
    /\ Goto(t, IF mMustValidateDisplay THEN "ended" ELSE "presentState")
    /\ UNCHANGED <<deviceVars, halVars, ghostVars>>

\* presentDisplay of the device tests the state ...
PresentTest(t) ==
    /\ At(t, "presentState")
    /\ IF Presentable
       THEN Goto(t, "post") /\ DecideByState(t)
       ELSE GoOnOrReturn(t, "ended") /\ UNCHANGED missed
    /\ UNCHANGED <<deviceVars, halVars, told, unseen, orphans, overtaken, dangled>>

\* ... and posts.
PostStep(t) ==
    /\ At(t, "post")
    /\ Post
    /\ Decided(t)
    /\ GoOnOrReturn(t, "ended")
    /\ UNCHANGED <<halVars, told, unseen, orphans, overtaken, dangled>>

-----------------------------------------------------------------------------
Method(t, c) ==
    \/ Register(t, c)
    \/ LastReference(t, c)
    \/ CreateLayerCall(t, c)
    \/ \E l \in LayerIds : DestroyLayerCall(t, c, l)
    \/ \E l \in LayerIds, type \in CompositionTypes : SetLayerCompositionType(t, c, l, type)
    \/ Validate(t, c)
    \/ ValidateOther(t, c)
    \/ Accept(t, c)
    \/ Present(t, c)

Continue(t) ==
    \/ OnHotplug(t)
    \/ EndClient(t)
    \/ InsertNewLayer(t)
    \/ AddLayerToResources(t)
    \/ \E l \in LayerIds : ClearLayer(t, l)
    \/ EraseLayerStep(t)
    \/ RemoveLayerFromResources(t)
    \/ MarkLayerDirty(t)
    \/ ModifiedStep(t)
    \/ FinalValidate(t)
    \/ ValidatedStep(t)
    \/ MustValidateStep(t)
    \/ TestValidated(t)
    \/ CountSize(t)
    \/ FillArrays(t)
    \/ FinalAccept(t)
    \/ ClearDirtyStep(t)
    \/ AcceptedStep(t)
    \/ FinalPresent(t)
    \/ PresentTest(t)
    \/ PostStep(t)

Next ==
    \/ \E c \in Clients : Connect(c)
    \/ \E t \in Threads, c \in Clients : Method(t, c)
    \/ \E t \in Threads : Continue(t)

Spec == Init /\ [][Next]_vars

-----------------------------------------------------------------------------
(* Properties.                                                             *)

\* A frame goes out over a layer that waits for an accept only if the layer was
\* marked dirty while the validation, the accept or the present was already
\* under way, past the statement that looked: any layer that was dirty before
\* is always noticed, however many threads and clients use the device.
PresentGated == \A t \in Threads : At(t, "post") => mDirtyLayers \subseteq missed[t]

\* Between a change of the dirty layers and the setState(MODIFIED) after it.
Changing(t) ==
    \/ call[t].at \in {"created", "marked", "unmarked", "destroyed"}
    \/ At(t, "eraseLayer") /\ call[t].layer \in mLayers

\* The three calls of validateDisplay agree, or the client will find out: when
\* the arrays are filled and their size is no longer the number of the dirty
\* layers (so that a layer is missing or a slot is left over), the state is
\* MODIFIED, which refuses the accept, or a thread is about to set it.  Not so
\* when two clients overlap, or when a mark has outlived its layer.
AnswerFits ==
    ~overtaken /\ ~dangled =>
        \A t \in Threads :
            /\ At(t, "fillTypes") \/ At(t, "fillArrays")
            /\ call[t].num # Cardinality(mDirtyLayers)
            => mState = "MODIFIED" \/ \E u \in Threads : Changing(u)

\* acceptDisplayChanges settles only layers whose change the client was told,
\* unless a layer was being marked while the accept, or the validation before
\* it, was under way.
SettledWereTold ==
    ~overtaken =>
        \A t \in Threads :
            At(t, "clearDirty") /\ missed[t] = {} => mDirtyLayers \subseteq told

\* No layer of the device is forgotten: each one is in the resources of a
\* client that will destroy it at the latest in its destructor, is on its way
\* there, or was refused by them (a layer created before registerCallback,
\* which ComposerClient::createLayer does not take back).
LayersAccounted ==
    \A l \in mLayers :
        \/ \E c \in Clients : l \in mResources[c] /\ status[c] \in {"live", "dying"}
        \/ \E t \in Threads :
               /\ call[t].at \in {"insertDirty", "created", "addLayer"}
               /\ call[t].layer = l
        \/ l \in orphans
=============================================================================
