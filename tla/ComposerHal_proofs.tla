------------------------- MODULE ComposerHal_proofs -------------------------
(***************************************************************************)
(* Proofs about ComposerHal, for any number of threads, clients and        *)
(* layers, and for every interleaving of their statements.  The invariant  *)
(* has four parts, proved one after the other: who runs what (CallInv),    *)
(* which layers are where (LayerInv), what the decisions of validations,   *)
(* accepts and presents have missed (SeenInv) and what the client was told *)
(* (AnswerInv).                                                            *)
(***************************************************************************)
EXTENDS ComposerHal, FiniteSetTheorems, TLAPS

(***************************************************************************)
(* Types.                                                                  *)
(***************************************************************************)
LEMMA LayerIdsFinite == IsFiniteSet(LayerIds)
BY LayerBoundAssumption, FS_Interval DEF LayerIds

LEMMA DirtyFinite ==
  ASSUME TypeOK
  PROVE  IsFiniteSet(mDirtyLayers) /\ Cardinality(mDirtyLayers) \in Nat
BY LayerIdsFinite, FS_Subset, FS_CardinalityType DEF TypeOK, DeviceTypeOK

LEMMA ZeroIsLayerId == 0 \in LayerIds
BY LayerBoundAssumption DEF LayerIds

\* The statements a device step can execute.
DeviceStatement ==
    \/ UNCHANGED deviceVars
    \/ \E s \in States : SetState(s)
    \/ \E l \in LayerIds : NewLayer(l) \/ InsertDirty(l) \/ EraseDirty(l) \/ EraseLayer(l)
    \/ ClearDirtyLayers
    \/ Post

LEMMA DeviceTypes ==
  ASSUME DeviceTypeOK, DeviceStatement
  PROVE  DeviceTypeOK'
<1>. USE DEF DeviceTypeOK, layerVars, targetVars
<1>1. CASE UNCHANGED deviceVars \/ ClearDirtyLayers \/ Post
  BY <1>1 DEF deviceVars, ClearDirtyLayers, Post
<1>2. ASSUME NEW s \in States, SetState(s)
      PROVE  DeviceTypeOK'
  BY <1>2 DEF SetState
<1>3. ASSUME NEW l \in LayerIds, NewLayer(l) \/ InsertDirty(l) \/ EraseDirty(l) \/ EraseLayer(l)
      PROVE  DeviceTypeOK'
  BY <1>3 DEF NewLayer, InsertDirty, EraseDirty, EraseLayer
<1>. QED BY <1>1, <1>2, <1>3 DEF DeviceStatement

LEMMA ModifiedIsStatement == MarkModified => DeviceStatement
BY DEF MarkModified, DeviceStatement, States

LEMMA ValidatedIsStatement ==
  ASSUME NEW n \in Nat, SetState(ValidatedState(n))
  PROVE  DeviceStatement
BY DEF ValidatedState, DeviceStatement, States

(***************************************************************************)
(* Every step moves at most one thread.                                    *)
(***************************************************************************)
LEMMA CallFields ==
  ASSUME TypeOK, NEW t \in Threads
  PROVE  /\ call[t].at \in Points
         /\ call[t].client \in Clients \cup {NoClient}
         /\ call[t].layer \in LayerIds
         /\ call[t].num \in Nat
         /\ call[t] = [at |-> call[t].at, client |-> call[t].client,
                       layer |-> call[t].layer, num |-> call[t].num]
BY DEF TypeOK, Calls

LEMMA GotoIsBegin ==
  ASSUME TypeOK, NEW t \in Threads, NEW point, Goto(t, point)
  PROVE  Begin(t, point, call[t].client, call[t].layer, call[t].num)
<1>1. PICK a \in Points, c \in Clients \cup {NoClient}, l \in LayerIds, n \in Nat :
          call[t] = [at |-> a, client |-> c, layer |-> l, num |-> n]
  BY DEF TypeOK, Calls
<1>2. call[t].client = c /\ call[t].layer = l /\ call[t].num = n
  BY <1>1
<1>3. [[at |-> a, client |-> c, layer |-> l, num |-> n] EXCEPT !.at = point] =
          [at |-> point, client |-> c, layer |-> l, num |-> n]
  OBVIOUS
<1>4. call' = [call EXCEPT ![t] = [call[t] EXCEPT !.at = point]]
  BY DEF Goto, TypeOK
<1>5. call' = [call EXCEPT ![t] = [at |-> point, client |-> c, layer |-> l, num |-> n]]
  BY <1>1, <1>3, <1>4
<1>. QED BY <1>2, <1>5 DEF Begin

LEMMA ReturnIsBegin ==
  ASSUME NEW t \in Threads, Return(t)
  PROVE  Begin(t, "idle", NoClient, 0, 0)
BY DEF Return, Begin, NoCall

LEMMA BeginEffect ==
  ASSUME TypeOK, NEW t \in Threads, NEW p, NEW c, NEW l, NEW n, Begin(t, p, c, l, n)
  PROVE  /\ call'[t] = [at |-> p, client |-> c, layer |-> l, num |-> n]
         /\ call'[t].at = p /\ call'[t].client = c /\ call'[t].layer = l /\ call'[t].num = n
         /\ \A u \in Threads : u # t => call'[u] = call[u]
BY DEF TypeOK, Begin

LEMMA BeginType ==
  ASSUME TypeOK, NEW t \in Threads, NEW p \in Points, NEW c \in Clients \cup {NoClient},
         NEW l \in LayerIds, NEW n \in Nat, Begin(t, p, c, l, n)
  PROVE  call' \in [Threads -> Calls]
BY DEF TypeOK, Begin, Calls

LEMMA GotoType ==
  ASSUME TypeOK, NEW t \in Threads, NEW p \in Points, Goto(t, p)
  PROVE  call' \in [Threads -> Calls]
BY GotoIsBegin, CallFields, BeginType

LEMMA ReturnType ==
  ASSUME TypeOK, NEW t \in Threads, Return(t)
  PROVE  call' \in [Threads -> Calls]
BY ReturnIsBegin, BeginType, ZeroIsLayerId DEF Points

LEMMA GoOnOrReturnType ==
  ASSUME TypeOK, NEW t \in Threads, NEW p \in Points, GoOnOrReturn(t, p)
  PROVE  call' \in [Threads -> Calls]
BY CallFields, BeginType, ReturnType, ZeroIsLayerId DEF GoOnOrReturn

LEMMA MarkTypes ==
  ASSUME TypeOK, NEW l \in LayerIds, MissedBy(l)
  PROVE  missed' \in [Threads -> SUBSET LayerIds]
BY DEF TypeOK, MissedBy

LEMMA InFlightType ==
  ASSUME TypeOK
  PROVE  InFlight \subseteq LayerIds
BY CallFields DEF InFlight

LEMMA DecideTypes ==
  ASSUME TypeOK, NEW t \in Threads, DecideByState(t) \/ DecideByLayers(t) \/ Decided(t)
  PROVE  missed' \in [Threads -> SUBSET LayerIds]
BY InFlightType DEF TypeOK, DecideByState, DecideByLayers, Decided

-----------------------------------------------------------------------------
\* The types of all but the device, whose statements DeviceTypes covers.
HalTypeOK ==
    /\ mMustValidateDisplay \in BOOLEAN
    /\ mClient \in Clients \cup {NoClient}
    /\ status \in [Clients -> {"none", "live", "dying", "dead"}]
    /\ hotplugged \subseteq Clients
    /\ mResources \in [Clients -> SUBSET LayerIds]
    /\ call \in [Threads -> Calls]
    /\ told \subseteq LayerIds
    /\ missed \in [Threads -> SUBSET LayerIds]
    /\ unseen \subseteq LayerIds
    /\ orphans \subseteq LayerIds
    /\ overtaken \in BOOLEAN
    /\ dangled \in BOOLEAN

LEMMA TypeParts == TypeOK => DeviceTypeOK /\ HalTypeOK
BY DEF TypeOK, HalTypeOK

LEMMA TypeStep ==
  ASSUME TypeOK, DeviceStatement, HalTypeOK'
  PROVE  TypeOK'
BY DeviceTypes DEF TypeOK, HalTypeOK

\* A thread that is inside a call knows its client.
Running(t) == ~At(t, "idle")
ClientsKnown == \A t \in Threads : Running(t) => call[t].client \in Clients

LEMMA InitTypes == Init => TypeOK
<1>. SUFFICES ASSUME Init PROVE TypeOK
  OBVIOUS
<1>1. DeviceTypeOK
  BY ZeroIsLayerId DEF Init, DeviceInit, DeviceTypeOK, States, Handles
<1>2. NoCall \in Calls
  BY ZeroIsLayerId DEF NoCall, Calls, Points
<1>. QED BY <1>1, <1>2 DEF Init, TypeOK

LEMMA MethodTypes ==
  ASSUME TypeOK, NEW t \in Threads, NEW c \in Clients, Method(t, c)
  PROVE  TypeOK'
<1>. USE ZeroIsLayerId, TypeParts, TypeStep DEF halVars, ghostVars
<1>1. CASE Register(t, c)
  BY <1>1, BeginType DEF Register, HalTypeOK, DeviceStatement, Points
<1>2. CASE LastReference(t, c)
  BY <1>2, BeginType DEF LastReference, HalTypeOK, DeviceStatement, Points, DestructorPoints
<1>3. CASE CreateLayerCall(t, c)
  BY <1>3, BeginType DEF CreateLayerCall, HalTypeOK, DeviceStatement, Points, LayerPoints
<1>4. ASSUME NEW l \in LayerIds, DestroyLayerCall(t, c, l)
      PROVE  TypeOK'
  BY <1>4, BeginType DEF DestroyLayerCall, HalTypeOK, DeviceStatement, Points, LayerPoints
<1>5. ASSUME NEW l \in LayerIds, NEW type, SetLayerCompositionType(t, c, l, type)
      PROVE  TypeOK'
  BY <1>5, BeginType
  DEF SetLayerCompositionType, HalTypeOK, DeviceStatement, Points, CommandPoints
<1>6. CASE Validate(t, c)
  BY <1>6, BeginType, DecideTypes, DirtyFinite
  DEF Validate, CountDirtyLayers, HalTypeOK, DeviceStatement, Points, CommandPoints
<1>7. CASE ValidateOther(t, c)
  BY <1>7 DEF ValidateOther, HalTypeOK, DeviceStatement
<1>8. CASE Accept(t, c)
  BY <1>8, BeginType, DecideTypes
  DEF Accept, AcceptTest, HalTypeOK, DeviceStatement, Points, CommandPoints
<1>9. CASE Present(t, c)
  BY <1>9, BeginType DEF Present, HalTypeOK, DeviceStatement, Points, CommandPoints
<1>. QED BY <1>1, <1>2, <1>3, <1>4, <1>5, <1>6, <1>7, <1>8, <1>9 DEF Method

LEMMA ContinueTypes ==
  ASSUME TypeOK, ClientsKnown, NEW t \in Threads, Continue(t)
  PROVE  TypeOK'
<1>. USE ZeroIsLayerId, TypeParts, TypeStep DEF halVars, ghostVars
<1>0. Running(t) => call[t].client \in Clients
  BY DEF ClientsKnown
<1>1. CASE OnHotplug(t)
  BY <1>0, <1>1, ReturnType DEF OnHotplug, HalTypeOK, DeviceStatement, Running, At
<1>2. CASE EndClient(t)
  BY <1>0, <1>2, ReturnType DEF EndClient, HalTypeOK, DeviceStatement, Running, At
<1>3. CASE InsertNewLayer(t)
  BY <1>3, CallFields, GotoType, MarkTypes
  DEF InsertNewLayer, RecordDangling, HalTypeOK, DeviceStatement, Points, LayerPoints
<1>4. CASE AddLayerToResources(t)
  BY <1>0, <1>4, CallFields, ReturnType
  DEF AddLayerToResources, HalTypeOK, DeviceStatement
<1>5. ASSUME NEW l \in LayerIds, ClearLayer(t, l)
      PROVE  TypeOK'
  BY <1>0, <1>5, BeginType
  DEF ClearLayer, HalTypeOK, DeviceStatement, Points, LayerPoints, Running, At
<1>6. CASE EraseLayerStep(t)
  <2>1. call' \in [Threads -> Calls]
    BY <1>6, GotoType, ReturnType DEF EraseLayerStep, Points, LayerPoints
  <2>. QED BY <1>6, <2>1, CallFields DEF EraseLayerStep, RecordDangling, HalTypeOK, DeviceStatement
<1>7. CASE RemoveLayerFromResources(t)
  BY <1>7, GoOnOrReturnType
  DEF RemoveLayerFromResources, HalTypeOK, DeviceStatement, Points, DestructorPoints
<1>8. CASE MarkLayerDirty(t)
  <2>1. call' \in [Threads -> Calls]
    BY <1>8, GotoType DEF MarkLayerDirty, Points, CommandPoints
  <2>2. DeviceStatement /\ missed' \in [Threads -> SUBSET LayerIds]
    BY <1>8, CallFields, MarkTypes DEF MarkLayerDirty, DeviceStatement, HalTypeOK
  <2>. QED BY <1>8, <2>1, <2>2 DEF MarkLayerDirty, RecordDangling, HalTypeOK
<1>9. CASE ModifiedStep(t)
  <2>1. call' \in [Threads -> Calls]
    BY <1>9, GotoType, ReturnType DEF ModifiedStep, Points, LayerPoints
  <2>. QED BY <1>9, <2>1, ModifiedIsStatement DEF ModifiedStep, HalTypeOK
<1>10. CASE FinalValidate(t)
  BY <1>0, <1>10, BeginType, DecideTypes, DirtyFinite
  DEF FinalValidate, CountDirtyLayers, HalTypeOK, DeviceStatement, Points, CommandPoints, Running, At
<1>11. CASE ValidatedStep(t)
  <2>1. call' \in [Threads -> Calls]
    BY <1>11, BeginType, CallFields DEF ValidatedStep, Points, CommandPoints
  <2>2. DeviceStatement
    BY <1>11, CallFields, ValidatedIsStatement DEF ValidatedStep
  <2>. QED BY <1>11, <2>1, <2>2, DecideTypes DEF ValidatedStep, HalTypeOK
<1>12. CASE MustValidateStep(t)
  BY <1>12, GotoType DEF MustValidateStep, HalTypeOK, DeviceStatement, Points, CommandPoints
<1>13. CASE TestValidated(t)
  <2>1. call' \in [Threads -> Calls]
    BY <1>13, GotoType, GoOnOrReturnType
    DEF TestValidated, Points, CommandPoints, DestructorPoints
  <2>. QED BY <1>13, <2>1 DEF TestValidated, HalTypeOK, DeviceStatement
<1>14. CASE CountSize(t)
  BY <1>0, <1>14, BeginType, DirtyFinite
  DEF CountSize, HalTypeOK, DeviceStatement, Points, CommandPoints, Running, At
<1>15. CASE FillArrays(t)
  <2>1. told' \subseteq LayerIds
    BY <1>15 DEF FillArrays, ChangedTypes, DeviceTypeOK
  <2>. QED BY <1>15, <2>1, GoOnOrReturnType
       DEF FillArrays, HalTypeOK, DeviceStatement, Points, DestructorPoints
<1>16. CASE FinalAccept(t)
  <2>1. CASE AcceptTest(t, call[t].client)
    BY <1>0, <1>16, <2>1, BeginType, DecideTypes
    DEF FinalAccept, AcceptTest, HalTypeOK, DeviceStatement, Points, CommandPoints, Running, At
  <2>2. CASE ~AcceptTest(t, call[t].client)
    BY <1>16, <2>2, GotoType
    DEF FinalAccept, HalTypeOK, DeviceStatement, Points, DestructorPoints
  <2>. QED BY <2>1, <2>2
<1>17. CASE ClearDirtyStep(t)
  BY <1>17, GotoType, DecideTypes
  DEF ClearDirtyStep, HalTypeOK, DeviceStatement, Points, CommandPoints
<1>18. CASE AcceptedStep(t)
  BY <1>18, GoOnOrReturnType, DecideTypes
  DEF AcceptedStep, HalTypeOK, DeviceStatement, Points, DestructorPoints, States
<1>19. CASE FinalPresent(t)
  BY <1>19, GotoType
  DEF FinalPresent, HalTypeOK, DeviceStatement, Points, DestructorPoints, CommandPoints
<1>20. CASE PresentTest(t)
  <2>1. call' \in [Threads -> Calls]
    BY <1>20, GotoType, GoOnOrReturnType
    DEF PresentTest, Points, CommandPoints, DestructorPoints
  <2>. QED BY <1>20, <2>1, DecideTypes DEF PresentTest, HalTypeOK, DeviceStatement
<1>21. CASE PostStep(t)
  BY <1>21, GoOnOrReturnType, DecideTypes
  DEF PostStep, HalTypeOK, DeviceStatement, Points, DestructorPoints
<1>. QED BY <1>1, <1>2, <1>3, <1>4, <1>5, <1>6, <1>7, <1>8, <1>9, <1>10, <1>11, <1>12, <1>13,
        <1>14, <1>15, <1>16, <1>17, <1>18, <1>19, <1>20, <1>21 DEF Continue

LEMMA ConnectTypes ==
  ASSUME TypeOK, NEW c \in Clients, Connect(c)
  PROVE  TypeOK'
BY TypeParts, TypeStep DEF Connect, HalTypeOK, DeviceStatement

LEMMA StutterTypes ==
  ASSUME TypeOK, UNCHANGED vars
  PROVE  TypeOK'
BY TypeParts, TypeStep DEF vars, halVars, ghostVars, HalTypeOK, DeviceStatement

(***************************************************************************)
(* Who runs what.                                                          *)
(***************************************************************************)
InCommand(t) == call[t].at \in CommandPoints

\* Statements that only a method executes, never the destructor.
MethodPoints == {"hotplug", "insertDirty", "created", "addLayer",
                 "mark", "unmark", "marked", "unmarked"}

\* Statements of the destructor while the layers of the client go.
ClearingPoints == {"clear", "eraseLayer", "destroyed", "removeLayer"}

\* A thread runs a method of a live client, or the destructor of a dying one.
CallsOK ==
    \A t \in Threads :
        /\ At(t, "idle") => call[t].client = NoClient
        /\ Running(t) => call[t].client \in Clients
        /\ Running(t) => status[call[t].client] \in {"live", "dying"}
        /\ call[t].at \in MethodPoints => status[call[t].client] = "live"
        /\ call[t].at \in DestructorPoints => status[call[t].client] = "dying"

\* The destructor is alone with its client.
DestructorAlone ==
    \A t, u \in Threads :
        Running(t) /\ call[u].client = call[t].client /\ Destructing(t) => u = t

\* mCommandEngineMutex is held by one thread.
MutexHeldOnce ==
    \A t, u \in Threads :
        InCommand(t) /\ InCommand(u) /\ call[u].client = call[t].client => u = t

\* Without overlap there is one client at a time.
OneClient ==
    ~overtaken =>
        \A c, d \in Clients :
            status[c] \in {"live", "dying"} /\ status[d] \in {"live", "dying"} => c = d

CallInv == TypeOK /\ CallsOK /\ DestructorAlone /\ MutexHeldOnce /\ OneClient

LEMMA PointKinds ==
  /\ "idle" \notin CommandPoints \cup MethodPoints \cup DestructorPoints \cup ClearingPoints
  /\ CommandPoints \subseteq Points /\ MethodPoints \subseteq Points
  /\ DestructorPoints \subseteq Points /\ ClearingPoints \subseteq Points
BY DEF CommandPoints, MethodPoints, DestructorPoints, ClearingPoints, Points, LayerPoints

\* A call goes on to its next statement.
LEMMA CallGoesOn ==
  ASSUME CallInv, TypeOK', NEW t \in Threads, Running(t), NEW p \in Points, p # "idle",
         NEW l, NEW n, Begin(t, p, call[t].client, l, n),
         UNCHANGED <<status, overtaken>>,
         p \in CommandPoints => InCommand(t) \/ Destructing(t),
         p \in MethodPoints => call[t].at \in MethodPoints,
         p \in DestructorPoints => Destructing(t)
  PROVE  CallInv'
<1>1. /\ call'[t].at = p /\ call'[t].client = call[t].client
      /\ \A u \in Threads : u # t => call'[u] = call[u]
      /\ \A u \in Threads : call'[u].client = call[u].client
  BY DEF Begin, CallInv, TypeOK
<1>2. CallsOK'
  BY <1>1 DEF CallInv, CallsOK, Running, At, Destructing
<1>3. DestructorAlone'
  BY <1>1 DEF CallInv, DestructorAlone, Running, At, Destructing
<1>4. MutexHeldOnce'
  <2>1. SUFFICES ASSUME NEW a \in Threads, NEW b \in Threads, InCommand(a)', InCommand(b)',
                        call[b].client = call[a].client
                 PROVE  b = a
    BY <1>1 DEF MutexHeldOnce
  <2>2. CASE Destructing(t) /\ (a = t \/ b = t)
    BY <1>1, <2>1, <2>2 DEF CallInv, DestructorAlone
  <2>3. CASE ~(Destructing(t) /\ (a = t \/ b = t))
    BY <1>1, <2>1, <2>3 DEF CallInv, MutexHeldOnce, InCommand
  <2>. QED BY <2>2, <2>3
<1>. QED BY <1>2, <1>3, <1>4 DEF CallInv, OneClient

LEMMA CallReturns ==
  ASSUME CallInv, TypeOK', NEW t \in Threads, Return(t), UNCHANGED <<status, overtaken>>
  PROVE  CallInv'
<1>1. /\ call'[t].at = "idle" /\ call'[t].client = NoClient
      /\ \A u \in Threads : u # t => call'[u] = call[u]
  BY DEF Return, NoCall, CallInv, TypeOK
<1>2. CallsOK'
  BY <1>1, PointKinds DEF CallInv, CallsOK, Running, At
<1>3. DestructorAlone'
  BY <1>1, ClientAssumption DEF CallInv, CallsOK, DestructorAlone, Running, At, Destructing
<1>4. MutexHeldOnce'
  BY <1>1, PointKinds DEF CallInv, MutexHeldOnce, InCommand
<1>. QED BY <1>2, <1>3, <1>4 DEF CallInv, OneClient

LEMMA CallGoesOnOrReturns ==
  ASSUME CallInv, TypeOK', NEW t \in Threads, Running(t), NEW p \in Points,
         p \in DestructorPoints \cup ClearingPoints,
         GoOnOrReturn(t, p), UNCHANGED <<status, overtaken>>
  PROVE  CallInv'
<1>1. p # "idle" /\ p \notin CommandPoints /\ p \notin MethodPoints
  BY DEF DestructorPoints, ClearingPoints, CommandPoints, MethodPoints
<1>2. CASE Destructing(t)
  BY <1>1, <1>2, CallGoesOn DEF GoOnOrReturn
<1>3. CASE ~Destructing(t)
  BY <1>3, CallReturns DEF GoOnOrReturn
<1>. QED BY <1>2, <1>3

\* A method of a live client begins.
LEMMA CallBegins ==
  ASSUME CallInv, TypeOK', NEW t \in Threads, NEW c \in Clients, MayCall(t, c),
         NEW p \in Points, p # "idle", p \notin DestructorPoints, NEW l, NEW n,
         Begin(t, p, c, l, n), UNCHANGED <<status, overtaken>>,
         p \in CommandPoints => ~CommandEngineLocked(c)
  PROVE  CallInv'
<1>1. /\ call'[t].at = p /\ call'[t].client = c
      /\ \A u \in Threads : u # t => call'[u] = call[u]
  BY DEF Begin, CallInv, TypeOK
<1>2. CallsOK'
  BY <1>1 DEF CallInv, CallsOK, Running, At, MayCall
<1>3. DestructorAlone'
  BY <1>1 DEF CallInv, DestructorAlone, Running, At, Destructing, MayCall
<1>4. MutexHeldOnce'
  BY <1>1 DEF CallInv, MutexHeldOnce, InCommand, CommandEngineLocked, InCall
<1>. QED BY <1>2, <1>3, <1>4 DEF CallInv, OneClient

LEMMA CallStays ==
  ASSUME CallInv, TypeOK', UNCHANGED <<call, status, overtaken>>
  PROVE  CallInv'
BY DEF CallInv, CallsOK, DestructorAlone, MutexHeldOnce, OneClient, Running, At, Destructing,
       InCommand

LEMMA ConnectCalls ==
  ASSUME CallInv, NEW c \in Clients, Connect(c)
  PROVE  CallInv'
<1>1. TypeOK'
  BY ConnectTypes DEF CallInv
<1>2. /\ status'[c] = "live" /\ \A d \in Clients : d # c => status'[d] = status[d]
      /\ status[c] = "none" /\ call' = call
      /\ overtaken' = (overtaken \/ \E d \in Clients : status[d] \in {"live", "dying"})
  BY DEF Connect, CallInv, TypeOK
<1>3. \A t \in Threads : Running(t) => call[t].client # c
  BY <1>2 DEF CallInv, CallsOK
<1>4. CallsOK' /\ DestructorAlone' /\ MutexHeldOnce'
  BY <1>2, <1>3, PointKinds
  DEF CallInv, CallsOK, DestructorAlone, MutexHeldOnce, Running, At, Destructing, InCommand
<1>5. OneClient'
  BY <1>2 DEF CallInv, OneClient
<1>. QED BY <1>1, <1>4, <1>5 DEF CallInv

LEMMA LastReferenceCalls ==
  ASSUME CallInv, TypeOK', NEW t \in Threads, NEW c \in Clients, LastReference(t, c)
  PROVE  CallInv'
<1>1. /\ status'[c] = "dying" /\ \A d \in Clients : d # c => status'[d] = status[d]
      /\ status[c] = "live" /\ overtaken' = overtaken
      /\ \A u \in Threads : call[u].client # c
  BY DEF LastReference, MayCall, NoMethodRunning, InCall, CallInv, TypeOK, ghostVars
<1>2. /\ call'[t].client = c /\ call'[t].at \in {"clear", "ended"}
      /\ \A u \in Threads : u # t => call'[u] = call[u]
  BY DEF LastReference, Begin, CallInv, TypeOK
<1>3. call'[t].at \notin MethodPoints /\ call'[t].at \notin CommandPoints
      /\ call'[t].at # "idle"
  BY <1>2 DEF MethodPoints, CommandPoints
<1>4. CallsOK'
  <2>1. ASSUME NEW u \in Threads, u # t
        PROVE  /\ At(u, "idle")' => call'[u].client = NoClient
               /\ Running(u)' => call'[u].client \in Clients
               /\ Running(u)' => status'[call'[u].client] \in {"live", "dying"}
               /\ call'[u].at \in MethodPoints => status'[call'[u].client] = "live"
               /\ call'[u].at \in DestructorPoints => status'[call'[u].client] = "dying"
    BY <1>1, <1>2, <2>1, PointKinds DEF CallInv, CallsOK, Running, At
  <2>. QED BY <1>1, <1>2, <1>3, <2>1 DEF CallsOK, Running, At
<1>5. DestructorAlone'
  BY <1>1, <1>2, <1>3 DEF CallInv, CallsOK, DestructorAlone, Running, At, Destructing
<1>6. MutexHeldOnce'
  BY <1>2, <1>3 DEF CallInv, MutexHeldOnce, InCommand
<1>7. OneClient'
  BY <1>1 DEF CallInv, OneClient
<1>. QED BY <1>4, <1>5, <1>6, <1>7 DEF CallInv

LEMMA EndClientCalls ==
  ASSUME CallInv, TypeOK', NEW t \in Threads, EndClient(t)
  PROVE  CallInv'
<1>. DEFINE c == call[t].client
<1>1. c \in Clients /\ status[c] = "dying" /\ Running(t)
  BY DEF EndClient, CallInv, CallsOK, Running, At, DestructorPoints
<1>2. /\ status'[c] = "dead" /\ \A d \in Clients : d # c => status'[d] = status[d]
      /\ overtaken' = overtaken
  BY <1>1 DEF EndClient, CallInv, TypeOK, ghostVars
<1>3. /\ call'[t].client = NoClient /\ call'[t].at = "idle"
      /\ \A u \in Threads : u # t => call'[u] = call[u]
  BY DEF EndClient, Return, NoCall, CallInv, TypeOK
<1>4. \A u \in Threads : u # t => call[u].client # c
  BY <1>1 DEF CallInv, DestructorAlone, Destructing
<1>5. CallsOK'
  BY <1>2, <1>3, <1>4, PointKinds DEF CallInv, CallsOK, Running, At
<1>6. DestructorAlone'
  BY <1>2, <1>3, <1>4, ClientAssumption
  DEF CallInv, CallsOK, DestructorAlone, Running, At, Destructing
<1>7. MutexHeldOnce'
  BY <1>3, PointKinds DEF CallInv, MutexHeldOnce, InCommand
<1>8. OneClient'
  BY <1>1, <1>2 DEF CallInv, OneClient
<1>. QED BY <1>5, <1>6, <1>7, <1>8 DEF CallInv

LEMMA MethodCalls ==
  ASSUME CallInv, NEW t \in Threads, NEW c \in Clients, Method(t, c)
  PROVE  CallInv'
<1>0. TypeOK'
  BY MethodTypes DEF CallInv
<1>. USE <1>0, CallBegins, CallStays DEF halVars, ghostVars, MayCommand
<1>1. CASE Register(t, c)
  BY <1>1 DEF Register, Points, DestructorPoints, CommandPoints
<1>2. CASE LastReference(t, c)
  BY <1>2, LastReferenceCalls
<1>3. CASE CreateLayerCall(t, c)
  BY <1>3 DEF CreateLayerCall, Points, LayerPoints, DestructorPoints, CommandPoints
<1>4. ASSUME NEW l \in LayerIds, DestroyLayerCall(t, c, l)
      PROVE  CallInv'
  BY <1>4 DEF DestroyLayerCall, Points, LayerPoints, DestructorPoints, CommandPoints
<1>5. ASSUME NEW l \in LayerIds, NEW type, SetLayerCompositionType(t, c, l, type)
      PROVE  CallInv'
  BY <1>5 DEF SetLayerCompositionType, Points, CommandPoints, DestructorPoints
<1>6. CASE Validate(t, c)
  BY <1>6 DEF Validate, CountDirtyLayers, Points, CommandPoints, DestructorPoints
<1>7. CASE ValidateOther(t, c)
  BY <1>7 DEF ValidateOther
<1>8. CASE Accept(t, c)
  BY <1>8 DEF Accept, AcceptTest, Points, CommandPoints, DestructorPoints
<1>9. CASE Present(t, c)
  BY <1>9 DEF Present, Points, CommandPoints, DestructorPoints
<1>. QED BY <1>1, <1>2, <1>3, <1>4, <1>5, <1>6, <1>7, <1>8, <1>9 DEF Method

LEMMA ClientsAreKnown == CallInv => ClientsKnown
BY DEF CallInv, CallsOK, ClientsKnown

\* At a statement of the destructor the client is dying.
LEMMA DestructorDestructs ==
  ASSUME CallInv, NEW t \in Threads, call[t].at \in DestructorPoints
  PROVE  Running(t) /\ Destructing(t)
BY DEF CallInv, CallsOK, Running, At, Destructing, DestructorPoints

LEMMA GoesOn ==
  ASSUME CallInv, TypeOK', NEW t \in Threads, Running(t), NEW p \in Points, p # "idle",
         Goto(t, p), UNCHANGED <<status, overtaken>>,
         p \in CommandPoints => InCommand(t) \/ Destructing(t),
         p \in MethodPoints => call[t].at \in MethodPoints,
         p \in DestructorPoints => Destructing(t)
  PROVE  CallInv'
<1>1. Begin(t, p, call[t].client, call[t].layer, call[t].num)
  BY GotoIsBegin DEF CallInv
<1>. QED BY <1>1, CallGoesOn

LEMMA ContinueCalls ==
  ASSUME CallInv, NEW t \in Threads, Continue(t)
  PROVE  CallInv'
<1>0. TypeOK'
  BY ContinueTypes, ClientsAreKnown DEF CallInv
<1>p. ASSUME NEW p, p \in Points \ {"idle"}, At(t, p)
      PROVE  Running(t)
  BY <1>p DEF Running, At
<1>. USE <1>0 DEF halVars, ghostVars
<1>1. CASE OnHotplug(t)
  BY <1>1, CallReturns DEF OnHotplug
<1>2. CASE EndClient(t)
  BY <1>2, EndClientCalls
<1>3. CASE InsertNewLayer(t)
  BY <1>3, GoesOn
  DEF InsertNewLayer, Running, At, Points, LayerPoints, MethodPoints, CommandPoints, DestructorPoints
<1>4. CASE AddLayerToResources(t)
  BY <1>4, CallReturns DEF AddLayerToResources
<1>5. ASSUME NEW l \in LayerIds, ClearLayer(t, l)
      PROVE  CallInv'
  BY <1>5, CallGoesOn
  DEF ClearLayer, Running, At, Points, LayerPoints, MethodPoints, CommandPoints, DestructorPoints
<1>6. CASE EraseLayerStep(t)
  <2>1. CASE Return(t)
    BY <1>6, <2>1, CallReturns DEF EraseLayerStep
  <2>2. CASE Goto(t, "destroyed") \/ Goto(t, "removeLayer")
    BY <1>6, <2>2, GoesOn
    DEF EraseLayerStep, Running, At, Points, LayerPoints, MethodPoints, CommandPoints,
        DestructorPoints
  <2>. QED BY <1>6, <2>1, <2>2 DEF EraseLayerStep
<1>7. CASE RemoveLayerFromResources(t)
  BY <1>7, CallGoesOnOrReturns
  DEF RemoveLayerFromResources, Running, At, Points, DestructorPoints
<1>8. CASE MarkLayerDirty(t)
  <2>1. CASE At(t, "mark")
    BY <1>8, <2>1, GoesOn
    DEF MarkLayerDirty, Running, At, InCommand, Points, CommandPoints, MethodPoints, DestructorPoints
  <2>2. CASE At(t, "unmark")
    BY <1>8, <2>2, GoesOn
    DEF MarkLayerDirty, Running, At, InCommand, Points, CommandPoints, MethodPoints, DestructorPoints
  <2>. QED BY <1>8, <2>1, <2>2 DEF MarkLayerDirty
<1>9. CASE ModifiedStep(t)
  <2>1. CASE Return(t)
    BY <1>9, <2>1, CallReturns DEF ModifiedStep
  <2>2. CASE At(t, "created") /\ Goto(t, "addLayer")
    BY <1>9, <2>2, GoesOn
    DEF ModifiedStep, Running, At, Points, LayerPoints, MethodPoints, CommandPoints, DestructorPoints
  <2>3. CASE At(t, "destroyed") /\ Goto(t, "removeLayer")
    BY <1>9, <2>3, GoesOn
    DEF ModifiedStep, Running, At, Points, LayerPoints, MethodPoints, CommandPoints, DestructorPoints
  <2>. QED BY <1>9, <2>1, <2>2, <2>3 DEF ModifiedStep
<1>10. CASE FinalValidate(t)
  <2>1. Running(t) /\ Destructing(t)
    BY <1>10, DestructorDestructs DEF FinalValidate, At, DestructorPoints
  <2>. QED BY <1>10, <2>1, CallGoesOn
       DEF FinalValidate, CountDirtyLayers, Points, CommandPoints, MethodPoints, DestructorPoints
<1>11. CASE ValidatedStep(t)
  BY <1>11, CallGoesOn
  DEF ValidatedStep, Running, At, InCommand, Points, CommandPoints, MethodPoints, DestructorPoints
<1>12. CASE MustValidateStep(t)
  BY <1>12, GoesOn
  DEF MustValidateStep, Running, At, InCommand, Points, CommandPoints, MethodPoints, DestructorPoints
<1>13. CASE TestValidated(t)
  <2>1. CASE GoOnOrReturn(t, "accept")
    BY <1>13, <2>1, CallGoesOnOrReturns DEF TestValidated, Running, At, Points, DestructorPoints
  <2>2. CASE Goto(t, "countSize") \/ Goto(t, "fillArrays")
    BY <1>13, <2>2, GoesOn
    DEF TestValidated, Running, At, InCommand, Points, CommandPoints, MethodPoints, DestructorPoints
  <2>. QED BY <1>13, <2>1, <2>2 DEF TestValidated
<1>14. CASE CountSize(t)
  BY <1>14, CallGoesOn
  DEF CountSize, Running, At, InCommand, Points, CommandPoints, MethodPoints, DestructorPoints
<1>15. CASE FillArrays(t)
  BY <1>15, CallGoesOnOrReturns DEF FillArrays, Running, At, Points, DestructorPoints
<1>16. CASE FinalAccept(t)
  <2>1. Running(t) /\ Destructing(t)
    BY <1>16, DestructorDestructs DEF FinalAccept, At, DestructorPoints
  <2>2. CASE AcceptTest(t, call[t].client)
    BY <1>16, <2>1, <2>2, CallGoesOn
    DEF FinalAccept, AcceptTest, Points, CommandPoints, MethodPoints, DestructorPoints
  <2>3. CASE Goto(t, "present") /\ UNCHANGED <<halVars, ghostVars>>
    BY <2>1, <2>3, GoesOn DEF Points, CommandPoints, MethodPoints, DestructorPoints
  <2>. QED BY <1>16, <2>2, <2>3 DEF FinalAccept
<1>17. CASE ClearDirtyStep(t)
  BY <1>17, GoesOn
  DEF ClearDirtyStep, Running, At, InCommand, Points, CommandPoints, MethodPoints, DestructorPoints
<1>18. CASE AcceptedStep(t)
  BY <1>18, CallGoesOnOrReturns DEF AcceptedStep, Running, At, Points, DestructorPoints
<1>19. CASE FinalPresent(t)
  <2>1. Running(t) /\ Destructing(t)
    BY <1>19, DestructorDestructs DEF FinalPresent, At, DestructorPoints
  <2>2. Goto(t, "ended") \/ Goto(t, "presentState")
    BY <1>19 DEF FinalPresent
  <2>. QED BY <1>19, <2>1, <2>2, GoesOn
       DEF FinalPresent, Points, CommandPoints, MethodPoints, DestructorPoints
<1>20. CASE PresentTest(t)
  <2>1. CASE GoOnOrReturn(t, "ended")
    BY <1>20, <2>1, CallGoesOnOrReturns DEF PresentTest, Running, At, Points, DestructorPoints
  <2>2. CASE Goto(t, "post")
    BY <1>20, <2>2, GoesOn
    DEF PresentTest, Running, At, InCommand, Points, CommandPoints, MethodPoints, DestructorPoints
  <2>. QED BY <1>20, <2>1, <2>2 DEF PresentTest
<1>21. CASE PostStep(t)
  BY <1>21, CallGoesOnOrReturns DEF PostStep, Running, At, Points, DestructorPoints
<1>. QED BY <1>1, <1>2, <1>3, <1>4, <1>5, <1>6, <1>7, <1>8, <1>9, <1>10, <1>11, <1>12, <1>13,
        <1>14, <1>15, <1>16, <1>17, <1>18, <1>19, <1>20, <1>21 DEF Continue

LEMMA InitCalls == Init => CallInv
<1>. SUFFICES ASSUME Init PROVE CallInv
  OBVIOUS
<1>1. \A t \in Threads : call[t].at = "idle" /\ call[t].client = NoClient
  BY DEF Init, NoCall
<1>2. CallsOK /\ DestructorAlone /\ MutexHeldOnce
  BY <1>1, PointKinds DEF CallsOK, DestructorAlone, MutexHeldOnce, Running, At, InCommand
<1>. QED BY <1>2, InitTypes DEF CallInv, OneClient, Init

LEMMA NextCalls == CallInv /\ [Next]_vars => CallInv'
<1>. SUFFICES ASSUME CallInv, [Next]_vars PROVE CallInv'
  OBVIOUS
<1>1. CASE UNCHANGED vars
  <2>1. TypeOK'
    BY <1>1, StutterTypes DEF CallInv
  <2>. QED BY <1>1, <2>1, CallStays DEF vars, halVars, ghostVars
<1>. QED BY <1>1, ConnectCalls, MethodCalls, ContinueCalls DEF Next

LEMMA CallInvAlways == Spec => []CallInv
BY InitCalls, NextCalls, PTL DEF Spec

\* Whatever the threads of all clients do, overlapping or not, the state of the
\* composer has its type: every statement finds the call, the client and the
\* layer it works on.
THEOREM TypeCorrect == Spec => []TypeOK
BY CallInvAlways, PTL DEF CallInv

(***************************************************************************)
(* Which layers are where.                                                 *)
(***************************************************************************)
\* The resources of a client are empty before and after its life, and in the
\* destructor once it has cleared them.
ResourcesOK ==
    \A c \in Clients :
        /\ mResources[c] # {} => c \in hotplugged
        /\ status[c] \in {"none", "dead"} => mResources[c] = {}
        /\ \A t \in Threads :
               InCall(t, c) /\ status[c] = "dying" /\ call[t].at \notin ClearingPoints
                   => mResources[c] = {}

\* Statements of createLayer after addLayer of the device.
MakingPoints == {"insertDirty", "created", "addLayer"}

\* Statements of destroyLayer after removeLayer of the device.
RemovedPoints == {"destroyed", "removeLayer"}

\* Every layer that somebody keeps was handed out by the device.
IdsHandedOut ==
    /\ \A l \in mLayers : l <= mNextLayerId
    /\ \A c \in Clients : \A l \in mResources[c] : l <= mNextLayerId
    /\ \A t \in Threads :
           \/ call[t].at \in MakingPoints \cup RemovedPoints
           \/ At(t, "eraseLayer") /\ Destructing(t)
           => call[t].layer <= mNextLayerId

\* A layer leaves the resources only after it has left the device.
RemovedIsGone ==
    \A t \in Threads : call[t].at \in RemovedPoints => call[t].layer \notin mLayers

LayerInv == ResourcesOK /\ IdsHandedOut /\ RemovedIsGone /\ LayersAccounted

\* A step that moves one thread and no layer.
LEMMA LayersStay ==
  ASSUME CallInv, LayerInv, NEW t \in Threads, NEW p, NEW c, NEW l, NEW n,
         Begin(t, p, c, l, n), hotplugged \subseteq hotplugged',
         UNCHANGED <<mNextLayerId, mLayers, mResources, status, orphans>>,
         \/ p \in MakingPoints \cup RemovedPoints
         \/ p = "eraseLayer" /\ status[c] = "dying"
         => l <= mNextLayerId,
         p \in RemovedPoints => l \notin mLayers,
         c \in Clients /\ status[c] = "dying" /\ p \notin ClearingPoints => mResources[c] = {},
         call[t].at \in MakingPoints => p \in MakingPoints /\ l = call[t].layer
  PROVE  LayerInv'
<1>1. /\ call'[t].at = p /\ call'[t].client = c /\ call'[t].layer = l
      /\ \A u \in Threads : u # t => call'[u] = call[u]
  BY DEF Begin, CallInv, TypeOK
<1>2. ResourcesOK'
  BY <1>1 DEF LayerInv, ResourcesOK, InCall
<1>3. IdsHandedOut'
  BY <1>1 DEF LayerInv, IdsHandedOut, At, Destructing
<1>4. RemovedIsGone'
  BY <1>1 DEF LayerInv, RemovedIsGone
<1>5. LayersAccounted'
  <2>1. SUFFICES ASSUME NEW k \in mLayers, k \notin orphans,
                        ~\E d \in Clients : k \in mResources[d] /\ status[d] \in {"live", "dying"}
                 PROVE  \E u \in Threads : call'[u].at \in MakingPoints /\ call'[u].layer = k
    BY DEF LayersAccounted, MakingPoints
  <2>2. PICK u \in Threads : call[u].at \in MakingPoints /\ call[u].layer = k
    BY <2>1 DEF LayerInv, LayersAccounted, MakingPoints
  <2>. QED BY <1>1, <2>2
<1>. QED BY <1>2, <1>3, <1>4, <1>5 DEF LayerInv

\* A thread that is neither creating nor destroying a layer goes on, or returns.
LEMMA LayersStayOn ==
  ASSUME CallInv, LayerInv, NEW t \in Threads, Running(t), NEW p \in Points,
         call[t].at \notin MakingPoints, call[t].at \notin ClearingPoints,
         p \notin MakingPoints, p \notin ClearingPoints,
         \/ \E n : Begin(t, p, call[t].client, 0, n)
         \/ Goto(t, p)
         \/ GoOnOrReturn(t, p)
         \/ Return(t),
         UNCHANGED <<mNextLayerId, mLayers, mResources, status, hotplugged, orphans>>
  PROVE  LayerInv'
<1>1. p \notin RemovedPoints /\ p # "eraseLayer"
  BY DEF RemovedPoints, ClearingPoints
<1>2. /\ call[t].client \in Clients
      /\ status[call[t].client] = "dying" => mResources[call[t].client] = {}
  BY DEF CallInv, CallsOK, LayerInv, ResourcesOK, InCall
<1>3. CASE \E l, n : Begin(t, p, call[t].client, l, n)
  BY <1>1, <1>2, <1>3, LayersStay
<1>4. CASE Return(t)
  <2>1. Begin(t, "idle", NoClient, 0, 0)
    BY <1>4, ReturnIsBegin
  <2>2. "idle" \notin MakingPoints /\ "idle" \notin RemovedPoints
    BY DEF MakingPoints, RemovedPoints
  <2>. QED BY <2>1, <2>2, ClientAssumption, LayersStay
<1>5. Goto(t, p) => \E l, n : Begin(t, p, call[t].client, l, n)
  BY GotoIsBegin DEF CallInv
<1>6. GoOnOrReturn(t, p) => Return(t) \/ \E l, n : Begin(t, p, call[t].client, l, n)
  BY DEF GoOnOrReturn
<1>. QED BY <1>3, <1>4, <1>5, <1>6

\* A method that does not begin with a layer in hand.
LEMMA LayersStayBegin ==
  ASSUME CallInv, LayerInv, NEW t \in Threads, NEW c \in Clients, MayCall(t, c),
         NEW p, NEW l, NEW n, Begin(t, p, c, l, n),
         p \notin MakingPoints, p \notin RemovedPoints,
         UNCHANGED <<mNextLayerId, mLayers, mResources, status, hotplugged, orphans>>
  PROVE  LayerInv'
<1>1. call[t].at = "idle" /\ status[c] = "live" /\ "idle" \notin MakingPoints
  BY DEF MayCall, At, MakingPoints
<1>. QED BY <1>1, LayersStay

LEMMA CreateLayerLayers ==
  ASSUME CallInv, LayerInv, NEW t \in Threads, NEW c \in Clients, CreateLayerCall(t, c)
  PROVE  LayerInv'
<1>1. PICK l \in LayerIds : NewLayer(l) /\ Begin(t, "insertDirty", c, l, 0)
  BY DEF CreateLayerCall
<1>2. /\ l = mNextLayerId + 1 /\ mNextLayerId' = l /\ mLayers' = mLayers \cup {l}
      /\ mNextLayerId \in LayerIds
      /\ UNCHANGED <<mResources, status, hotplugged, orphans>>
  BY <1>1 DEF CreateLayerCall, NewLayer, halVars, ghostVars, CallInv, TypeOK, DeviceTypeOK
<1>3. mNextLayerId \in Nat /\ mNextLayerId < mNextLayerId'
  BY <1>2, LayerBoundAssumption DEF LayerIds
<1>4. /\ call'[t].at = "insertDirty" /\ call'[t].client = c /\ call'[t].layer = l
      /\ \A u \in Threads : u # t => call'[u] = call[u]
      /\ call[t].at = "idle" /\ status[c] = "live"
  BY <1>1 DEF Begin, CallInv, TypeOK, CreateLayerCall, MayCall, At
<1>5. /\ mLayers \subseteq LayerIds
      /\ \A d \in Clients : mResources[d] \subseteq LayerIds
      /\ \A u \in Threads : call[u].layer \in LayerIds
  BY CallFields DEF CallInv, TypeOK, DeviceTypeOK
<1>6. \A k \in LayerIds : k <= mNextLayerId => k <= mNextLayerId' /\ k # l
  BY <1>2, <1>3, LayerBoundAssumption DEF LayerIds
<1>7. ResourcesOK'
  BY <1>2, <1>4 DEF LayerInv, ResourcesOK, InCall
<1>8. IdsHandedOut'
  <2>1. \A k \in mLayers' : k <= mNextLayerId'
    BY <1>2, <1>3, <1>5, <1>6 DEF LayerInv, IdsHandedOut
  <2>2. \A d \in Clients : \A k \in mResources'[d] : k <= mNextLayerId'
    BY <1>2, <1>5, <1>6 DEF LayerInv, IdsHandedOut
  <2>3. ASSUME NEW u \in Threads,
               \/ call'[u].at \in MakingPoints \cup RemovedPoints
               \/ At(u, "eraseLayer")' /\ Destructing(u)'
        PROVE  call'[u].layer <= mNextLayerId'
    <3>1. CASE u = t
      BY <1>2, <1>3, <1>4, <3>1
    <3>2. CASE u # t
      BY <1>2, <1>4, <1>5, <1>6, <2>3, <3>2 DEF LayerInv, IdsHandedOut, At, Destructing
    <3>. QED BY <3>1, <3>2
  <2>. QED BY <2>1, <2>2, <2>3 DEF IdsHandedOut
<1>9. RemovedIsGone'
  <2>1. "insertDirty" \notin RemovedPoints
    BY DEF RemovedPoints
  <2>. QED BY <1>2, <1>4, <1>5, <1>6, <2>1 DEF LayerInv, RemovedIsGone, IdsHandedOut
<1>10. LayersAccounted'
  <2>1. ASSUME NEW k \in mLayers, k \notin orphans,
               ~\E d \in Clients : k \in mResources[d] /\ status[d] \in {"live", "dying"}
        PROVE  \E u \in Threads : call'[u].at \in MakingPoints /\ call'[u].layer = k
    <3>1. PICK u \in Threads : call[u].at \in MakingPoints /\ call[u].layer = k
      BY <2>1 DEF LayerInv, LayersAccounted, MakingPoints
    <3>. QED BY <1>4, <3>1 DEF MakingPoints
  <2>. QED BY <1>2, <1>4, <2>1 DEF LayersAccounted, MakingPoints
<1>. QED BY <1>7, <1>8, <1>9, <1>10 DEF LayerInv

LEMMA AddLayerLayers ==
  ASSUME CallInv, LayerInv, NEW t \in Threads, AddLayerToResources(t)
  PROVE  LayerInv'
<1>. DEFINE c == call[t].client
            l == call[t].layer
<1>1. /\ c \in Clients /\ status[c] = "live" /\ At(t, "addLayer")
      /\ l <= mNextLayerId
  BY DEF AddLayerToResources, At, Running, CallInv, CallsOK, MethodPoints, LayerInv,
         IdsHandedOut, MakingPoints
<1>2. /\ call'[t].at = "idle" /\ call'[t].client = NoClient
      /\ \A u \in Threads : u # t => call'[u] = call[u]
  BY DEF AddLayerToResources, Return, NoCall, CallInv, TypeOK
<1>3. /\ UNCHANGED <<mNextLayerId, mLayers, status, hotplugged>>
      /\ \A d \in Clients : d # c => mResources'[d] = mResources[d]
      /\ \/ c \in hotplugged /\ mResources'[c] = mResources[c] \cup {l} /\ orphans' = orphans
         \/ mResources'[c] = mResources[c] /\ orphans' = orphans \cup {l}
  BY <1>1 DEF AddLayerToResources, deviceVars, CallInv, TypeOK
<1>4. ResourcesOK'
  BY <1>1, <1>2, <1>3, ClientAssumption DEF LayerInv, ResourcesOK, InCall
<1>5. IdsHandedOut'
  BY <1>1, <1>2, <1>3
  DEF LayerInv, IdsHandedOut, At, Destructing, MakingPoints, RemovedPoints
<1>6. RemovedIsGone'
  BY <1>2, <1>3 DEF LayerInv, RemovedIsGone, RemovedPoints
<1>7. LayersAccounted'
  BY <1>1, <1>2, <1>3 DEF LayerInv, LayersAccounted, At
<1>. QED BY <1>4, <1>5, <1>6, <1>7 DEF LayerInv

LEMMA EraseLayerLayers ==
  ASSUME CallInv, LayerInv, NEW t \in Threads, EraseLayerStep(t)
  PROVE  LayerInv'
<1>. DEFINE c == call[t].client
            l == call[t].layer
<1>1. At(t, "eraseLayer") /\ c \in Clients /\ l \in LayerIds
  BY CallFields DEF EraseLayerStep, At, Running, CallInv, CallsOK
<1>2. /\ UNCHANGED <<mNextLayerId, mResources, status, hotplugged>>
      /\ mLayers' = mLayers \ {l} /\ orphans' = orphans \ {l}
  BY DEF EraseLayerStep, EraseLayer, halVars
<1>3. \/ /\ call'[t].at \in RemovedPoints /\ call'[t].client = c /\ call'[t].layer = l
         /\ l <= mNextLayerId
      \/ call'[t].at = "idle" /\ call'[t].client = NoClient
  <2>1. CASE Return(t)
    BY <2>1 DEF Return, NoCall, CallInv, TypeOK
  <2>2. CASE l \in mLayers /\ Goto(t, "destroyed")
    <3>1. Begin(t, "destroyed", c, l, call[t].num)
      BY <2>2, GotoIsBegin DEF CallInv
    <3>. QED BY <2>2, <3>1 DEF Begin, CallInv, TypeOK, RemovedPoints, LayerInv, IdsHandedOut
  <2>3. CASE Destructing(t) /\ Goto(t, "removeLayer")
    <3>1. Begin(t, "removeLayer", c, l, call[t].num)
      BY <2>3, GotoIsBegin DEF CallInv
    <3>. QED BY <1>1, <2>3, <3>1 DEF Begin, CallInv, TypeOK, RemovedPoints, LayerInv, IdsHandedOut
  <2>. QED BY <2>1, <2>2, <2>3 DEF EraseLayerStep
<1>4. \A u \in Threads : u # t => call'[u] = call[u]
  BY DEF EraseLayerStep, Goto, Return, CallInv, TypeOK
<1>5. ResourcesOK'
  BY <1>1, <1>2, <1>3, <1>4, ClientAssumption
  DEF LayerInv, ResourcesOK, InCall, ClearingPoints, RemovedPoints
<1>6. IdsHandedOut'
  BY <1>2, <1>3, <1>4
  DEF LayerInv, IdsHandedOut, At, Destructing, MakingPoints, RemovedPoints
<1>7. RemovedIsGone'
  BY <1>2, <1>3, <1>4 DEF LayerInv, RemovedIsGone, RemovedPoints
<1>8. LayersAccounted'
  BY <1>1, <1>2, <1>4 DEF LayerInv, LayersAccounted, At
<1>. QED BY <1>5, <1>6, <1>7, <1>8 DEF LayerInv

LEMMA RemoveLayerLayers ==
  ASSUME CallInv, LayerInv, NEW t \in Threads, RemoveLayerFromResources(t)
  PROVE  LayerInv'
<1>. DEFINE c == call[t].client
            l == call[t].layer
<1>1. At(t, "removeLayer") /\ c \in Clients /\ l \notin mLayers
  BY DEF RemoveLayerFromResources, At, Running, CallInv, CallsOK, LayerInv, RemovedIsGone,
         RemovedPoints
<1>2. /\ UNCHANGED <<mNextLayerId, mLayers, status, hotplugged, orphans>>
      /\ mResources'[c] = mResources[c] \ {l}
      /\ \A d \in Clients : d # c => mResources'[d] = mResources[d]
  BY <1>1 DEF RemoveLayerFromResources, deviceVars, ghostVars, CallInv, TypeOK
<1>3. /\ \A u \in Threads : u # t => call'[u] = call[u]
      /\ \/ call'[t].at = "clear" /\ call'[t].client = c
         \/ call'[t].at = "idle" /\ call'[t].client = NoClient
  BY DEF RemoveLayerFromResources, GoOnOrReturn, Begin, Return, NoCall, CallInv, TypeOK
<1>4. ResourcesOK'
  BY <1>1, <1>2, <1>3, ClientAssumption DEF LayerInv, ResourcesOK, InCall, ClearingPoints
<1>5. IdsHandedOut'
  BY <1>1, <1>2, <1>3
  DEF LayerInv, IdsHandedOut, At, Destructing, MakingPoints, RemovedPoints
<1>6. RemovedIsGone'
  BY <1>2, <1>3 DEF LayerInv, RemovedIsGone, RemovedPoints
<1>7. LayersAccounted'
  BY <1>1, <1>2, <1>3 DEF LayerInv, LayersAccounted, At
<1>. QED BY <1>4, <1>5, <1>6, <1>7 DEF LayerInv

LEMMA LastReferenceLayers ==
  ASSUME CallInv, LayerInv, NEW t \in Threads, NEW c \in Clients, LastReference(t, c)
  PROVE  LayerInv'
<1>1. /\ UNCHANGED <<mNextLayerId, mLayers, mResources, hotplugged, orphans>>
      /\ status'[c] = "dying" /\ \A d \in Clients : d # c => status'[d] = status[d]
      /\ \A u \in Threads : call[u].client # c
      /\ At(t, "idle")
  BY DEF LastReference, MayCall, NoMethodRunning, InCall, deviceVars, ghostVars, CallInv, TypeOK
<1>2. /\ call'[t].client = c
      /\ call'[t].at = IF c \in hotplugged THEN "clear" ELSE "ended"
      /\ \A u \in Threads : u # t => call'[u] = call[u]
  BY DEF LastReference, Begin, CallInv, TypeOK
<1>3. c \notin hotplugged => mResources[c] = {}
  BY DEF LayerInv, ResourcesOK
<1>4. ResourcesOK'
  BY <1>1, <1>2, <1>3 DEF LayerInv, ResourcesOK, InCall, ClearingPoints
<1>5. IdsHandedOut'
  BY <1>1, <1>2, ClientsAreKnown
  DEF LayerInv, IdsHandedOut, At, Destructing, MakingPoints, RemovedPoints, ClientsKnown, Running
<1>6. RemovedIsGone'
  BY <1>1, <1>2 DEF LayerInv, RemovedIsGone, RemovedPoints
<1>7. LayersAccounted'
  BY <1>1, <1>2 DEF LayerInv, LayersAccounted, At
<1>. QED BY <1>4, <1>5, <1>6, <1>7 DEF LayerInv

LEMMA EndClientLayers ==
  ASSUME CallInv, LayerInv, NEW t \in Threads, EndClient(t)
  PROVE  LayerInv'
<1>. DEFINE c == call[t].client
<1>1. c \in Clients /\ status[c] = "dying" /\ Running(t) /\ At(t, "ended")
  BY DEF EndClient, CallInv, CallsOK, Running, At, DestructorPoints
<1>2. mResources[c] = {}
  BY <1>1 DEF LayerInv, ResourcesOK, InCall, At, ClearingPoints
<1>3. /\ UNCHANGED <<mNextLayerId, mLayers, mResources, orphans>>
      /\ hotplugged' = hotplugged \ {c}
      /\ status'[c] = "dead" /\ \A d \in Clients : d # c => status'[d] = status[d]
  BY <1>1 DEF EndClient, deviceVars, ghostVars, CallInv, TypeOK
<1>4. /\ call'[t].client = NoClient /\ call'[t].at = "idle"
      /\ \A u \in Threads : u # t => call'[u] = call[u]
      /\ \A u \in Threads : u # t => call[u].client # c
  BY <1>1 DEF EndClient, Return, NoCall, CallInv, TypeOK, DestructorAlone, Destructing
<1>5. ResourcesOK'
  BY <1>1, <1>2, <1>3, <1>4, ClientAssumption DEF LayerInv, ResourcesOK, InCall
<1>6. IdsHandedOut'
  BY <1>3, <1>4, ClientsAreKnown
  DEF LayerInv, IdsHandedOut, At, Destructing, MakingPoints, RemovedPoints, ClientsKnown, Running
<1>7. RemovedIsGone'
  BY <1>3, <1>4 DEF LayerInv, RemovedIsGone, RemovedPoints
<1>8. LayersAccounted'
  BY <1>1, <1>2, <1>3, <1>4 DEF LayerInv, LayersAccounted, At
<1>. QED BY <1>5, <1>6, <1>7, <1>8 DEF LayerInv

LEMMA ConnectLayers ==
  ASSUME CallInv, LayerInv, NEW c \in Clients, Connect(c)
  PROVE  LayerInv'
<1>1. /\ UNCHANGED <<mNextLayerId, mLayers, mResources, hotplugged, orphans, call>>
      /\ status[c] = "none" /\ status'[c] = "live"
      /\ \A d \in Clients : d # c => status'[d] = status[d]
  BY DEF Connect, deviceVars, CallInv, TypeOK
<1>2. \A u \in Threads : Running(u) => call[u].client \in Clients /\ call[u].client # c
  BY <1>1 DEF CallInv, CallsOK
<1>3. ResourcesOK'
  BY <1>1 DEF LayerInv, ResourcesOK, InCall
<1>4. IdsHandedOut'
  BY <1>1, <1>2 DEF LayerInv, IdsHandedOut, At, Destructing, Running
<1>5. RemovedIsGone' /\ LayersAccounted'
  BY <1>1 DEF LayerInv, RemovedIsGone, LayersAccounted, At
<1>. QED BY <1>3, <1>4, <1>5 DEF LayerInv

LEMMA LayersUnchanged ==
  ASSUME LayerInv,
         UNCHANGED <<mNextLayerId, mLayers, mResources, status, hotplugged, orphans, call>>
  PROVE  LayerInv'
BY DEF LayerInv, ResourcesOK, IdsHandedOut, RemovedIsGone, LayersAccounted, At, InCall, Destructing

LEMMA MethodLayers ==
  ASSUME CallInv, LayerInv, NEW t \in Threads, NEW c \in Clients, Method(t, c)
  PROVE  LayerInv'
<1>. USE LayersStayBegin
     DEF halVars, ghostVars, deviceVars, targetVars, MayCommand, MakingPoints, RemovedPoints
<1>1. CASE Register(t, c)
  BY <1>1 DEF Register
<1>2. CASE LastReference(t, c)
  BY <1>2, LastReferenceLayers
<1>3. CASE CreateLayerCall(t, c)
  BY <1>3, CreateLayerLayers
<1>4. ASSUME NEW l \in LayerIds, DestroyLayerCall(t, c, l)
      PROVE  LayerInv'
  BY <1>4 DEF DestroyLayerCall, EraseDirty
<1>5. ASSUME NEW l \in LayerIds, NEW type, SetLayerCompositionType(t, c, l, type)
      PROVE  LayerInv'
  BY <1>5 DEF SetLayerCompositionType
<1>6. CASE Validate(t, c)
  BY <1>6 DEF Validate, CountDirtyLayers
<1>7. CASE ValidateOther(t, c)
  BY <1>7, LayersUnchanged DEF ValidateOther
<1>8. CASE Accept(t, c)
  BY <1>8 DEF Accept, AcceptTest
<1>9. CASE Present(t, c)
  BY <1>9 DEF Present
<1>. QED BY <1>1, <1>2, <1>3, <1>4, <1>5, <1>6, <1>7, <1>8, <1>9 DEF Method

LEMMA PointIsPlain ==
  ASSUME NEW p \in CommandPoints \cup DestructorPoints \cup {"idle", "hotplug"}, p # "clear"
  PROVE  p \notin MakingPoints /\ p \notin ClearingPoints /\ p \notin RemovedPoints /\ p \in Points
BY DEF CommandPoints, DestructorPoints, MakingPoints, ClearingPoints, RemovedPoints, Points

LEMMA ContinueLayers ==
  ASSUME CallInv, LayerInv, NEW t \in Threads, Continue(t)
  PROVE  LayerInv'
<1>p. ASSUME NEW p \in CommandPoints \cup DestructorPoints \cup {"hotplug"}, p # "clear", At(t, p)
      PROVE  /\ Running(t)
             /\ call[t].at \notin MakingPoints /\ call[t].at \notin ClearingPoints
  BY <1>p, PointIsPlain, PointKinds DEF Running, At, CommandPoints, DestructorPoints
<1>. USE DEF halVars, ghostVars, deviceVars, layerVars, targetVars
<1>1. CASE OnHotplug(t)
  <2>1. Begin(t, "idle", NoClient, 0, 0)
    BY <1>1, ReturnIsBegin DEF OnHotplug
  <2>2. "idle" \notin MakingPoints /\ "idle" \notin RemovedPoints /\ call[t].at \notin MakingPoints
    BY <1>1 DEF OnHotplug, At, MakingPoints, RemovedPoints
  <2>. QED BY <1>1, <2>1, <2>2, ClientAssumption, LayersStay DEF OnHotplug
<1>2. CASE EndClient(t)
  BY <1>2, EndClientLayers
<1>3. CASE InsertNewLayer(t)
  <2>1. Begin(t, "created", call[t].client, call[t].layer, call[t].num)
    BY <1>3, GotoIsBegin DEF InsertNewLayer, CallInv
  <2>2. call[t].layer <= mNextLayerId /\ status[call[t].client] # "dying"
    BY <1>3 DEF InsertNewLayer, At, LayerInv, IdsHandedOut, MakingPoints, CallInv, CallsOK,
                MethodPoints
  <2>3. "created" \in MakingPoints /\ "created" \notin RemovedPoints
    BY DEF MakingPoints, RemovedPoints
  <2>. QED BY <1>3, <2>1, <2>2, <2>3, LayersStay DEF InsertNewLayer, InsertDirty
<1>4. CASE AddLayerToResources(t)
  BY <1>4, AddLayerLayers
<1>5. ASSUME NEW l \in LayerIds, ClearLayer(t, l)
      PROVE  LayerInv'
  <2>1. call[t].client \in Clients
    BY <1>5 DEF ClearLayer, CallInv, CallsOK, Running, At
  <2>2. l <= mNextLayerId /\ call[t].at \notin MakingPoints
    BY <1>5, <2>1 DEF ClearLayer, LayerInv, IdsHandedOut, At, MakingPoints
  <2>3. "eraseLayer" \notin RemovedPoints /\ "eraseLayer" \in ClearingPoints
        /\ "eraseLayer" \notin MakingPoints
    BY DEF RemovedPoints, ClearingPoints, MakingPoints
  <2>. QED BY <1>5, <2>1, <2>2, <2>3, LayersStay DEF ClearLayer, EraseDirty
<1>6. CASE EraseLayerStep(t)
  BY <1>6, EraseLayerLayers
<1>7. CASE RemoveLayerFromResources(t)
  BY <1>7, RemoveLayerLayers
<1>8. CASE MarkLayerDirty(t)
  <2>1. Running(t) /\ call[t].at \notin MakingPoints /\ call[t].at \notin ClearingPoints
    BY <1>8, <1>p DEF MarkLayerDirty, CommandPoints
  <2>2. /\ Goto(t, "marked") \/ Goto(t, "unmarked")
        /\ UNCHANGED <<mNextLayerId, mLayers>>
    BY <1>8 DEF MarkLayerDirty, InsertDirty, EraseDirty
  <2>. QED BY <1>8, <2>1, <2>2, LayersStayOn, PointIsPlain DEF MarkLayerDirty, CommandPoints
<1>9. CASE ModifiedStep(t)
  <2>1. UNCHANGED <<mNextLayerId, mLayers, mResources, status, hotplugged, orphans>>
    BY <1>9 DEF ModifiedStep, MarkModified, SetState
  <2>2. CASE At(t, "created") /\ Goto(t, "addLayer")
    <3>1. Begin(t, "addLayer", call[t].client, call[t].layer, call[t].num)
      BY <2>2, GotoIsBegin DEF CallInv
    <3>2. call[t].layer <= mNextLayerId /\ status[call[t].client] # "dying"
      BY <2>2 DEF At, LayerInv, IdsHandedOut, MakingPoints, CallInv, CallsOK, MethodPoints
    <3>3. "addLayer" \in MakingPoints /\ "addLayer" \notin RemovedPoints
      BY DEF MakingPoints, RemovedPoints
    <3>. QED BY <2>1, <3>1, <3>2, <3>3, LayersStay
  <2>3. CASE At(t, "destroyed") /\ Goto(t, "removeLayer")
    <3>1. Begin(t, "removeLayer", call[t].client, call[t].layer, call[t].num)
      BY <2>3, GotoIsBegin DEF CallInv
    <3>2. /\ call[t].layer <= mNextLayerId /\ call[t].layer \notin mLayers
          /\ call[t].at \notin MakingPoints
      BY <2>3 DEF At, LayerInv, IdsHandedOut, MakingPoints, RemovedIsGone, RemovedPoints
    <3>3. "removeLayer" \in ClearingPoints
      BY DEF ClearingPoints
    <3>. QED BY <2>1, <3>1, <3>2, <3>3, LayersStay
  <2>4. CASE (At(t, "marked") \/ At(t, "unmarked")) /\ Return(t)
    <3>1. Running(t) /\ call[t].at \notin MakingPoints /\ call[t].at \notin ClearingPoints
      BY <2>4, <1>p DEF CommandPoints
    <3>. QED BY <2>1, <2>4, <3>1, LayersStayOn, PointIsPlain
  <2>. QED BY <1>9, <2>2, <2>3, <2>4 DEF ModifiedStep
<1>10. CASE FinalValidate(t)
  <2>1. "counted" \notin MakingPoints /\ "counted" \notin RemovedPoints
        /\ call[t].at \notin MakingPoints
    BY <1>10 DEF FinalValidate, At, MakingPoints, RemovedPoints
  <2>. QED BY <1>10, <2>1, LayersStay DEF FinalValidate, CountDirtyLayers
<1>11. CASE ValidatedStep(t)
  BY <1>p, <1>11, LayersStayOn, PointIsPlain DEF ValidatedStep, SetState, CommandPoints
<1>12. CASE MustValidateStep(t)
  BY <1>p, <1>12, LayersStayOn, PointIsPlain DEF MustValidateStep, CommandPoints
<1>13. CASE TestValidated(t)
  <2>1. Running(t) /\ call[t].at \notin MakingPoints /\ call[t].at \notin ClearingPoints
    BY <1>p, <1>13 DEF TestValidated, CommandPoints
  <2>2. GoOnOrReturn(t, "accept") \/ Goto(t, "countSize") \/ Goto(t, "fillArrays")
    BY <1>13 DEF TestValidated
  <2>3. {"accept", "countSize", "fillArrays"} \subseteq CommandPoints \cup DestructorPoints
    BY DEF CommandPoints, DestructorPoints
  <2>. QED BY <1>13, <2>1, <2>2, <2>3, LayersStayOn, PointIsPlain DEF TestValidated
<1>14. CASE CountSize(t)
  BY <1>p, <1>14, LayersStayOn, PointIsPlain DEF CountSize, CommandPoints
<1>15. CASE FillArrays(t)
  BY <1>p, <1>15, LayersStayOn, PointIsPlain DEF FillArrays, CommandPoints, DestructorPoints
<1>16. CASE FinalAccept(t)
  BY <1>p, <1>16, LayersStayOn, PointIsPlain
  DEF FinalAccept, AcceptTest, CommandPoints, DestructorPoints
<1>17. CASE ClearDirtyStep(t)
  BY <1>p, <1>17, LayersStayOn, PointIsPlain DEF ClearDirtyStep, ClearDirtyLayers, CommandPoints
<1>18. CASE AcceptedStep(t)
  BY <1>p, <1>18, LayersStayOn, PointIsPlain
  DEF AcceptedStep, SetState, CommandPoints, DestructorPoints
<1>19. CASE FinalPresent(t)
  <2>1. Goto(t, "ended") \/ Goto(t, "presentState")
    BY <1>19 DEF FinalPresent
  <2>. QED BY <1>p, <1>19, <2>1, LayersStayOn, PointIsPlain
       DEF FinalPresent, CommandPoints, DestructorPoints
<1>20. CASE PresentTest(t)
  <2>1. GoOnOrReturn(t, "ended") \/ Goto(t, "post")
    BY <1>20 DEF PresentTest
  <2>. QED BY <1>p, <1>20, <2>1, LayersStayOn, PointIsPlain
       DEF PresentTest, CommandPoints, DestructorPoints
<1>21. CASE PostStep(t)
  BY <1>p, <1>21, LayersStayOn, PointIsPlain DEF PostStep, Post, CommandPoints, DestructorPoints
<1>. QED BY <1>1, <1>2, <1>3, <1>4, <1>5, <1>6, <1>7, <1>8, <1>9, <1>10, <1>11, <1>12, <1>13,
        <1>14, <1>15, <1>16, <1>17, <1>18, <1>19, <1>20, <1>21 DEF Continue

LEMMA InitLayers == Init => LayerInv
<1>. SUFFICES ASSUME Init PROVE LayerInv
  OBVIOUS
<1>1. \A t \in Threads : call[t].at = "idle"
  BY DEF Init, NoCall
<1>. QED BY <1>1, PointKinds
     DEF Init, DeviceInit, LayerInv, ResourcesOK, IdsHandedOut, RemovedIsGone, LayersAccounted, At,
         MakingPoints, RemovedPoints

LEMMA NextLayers == CallInv /\ LayerInv /\ [Next]_vars => LayerInv'
<1>. SUFFICES ASSUME CallInv, LayerInv, [Next]_vars PROVE LayerInv'
  OBVIOUS
<1>1. CASE UNCHANGED vars
  BY <1>1, LayersUnchanged DEF vars, deviceVars, halVars, ghostVars
<1>. QED BY <1>1, ConnectLayers, MethodLayers, ContinueLayers DEF Next

\* Every layer of the device belongs to a client that will destroy it, or its
\* registration is under way, or the resources refused it: whatever threads and
\* clients do, also when one client destroys a layer of another.
THEOREM LayersAreAccounted == Spec => []LayersAccounted
<1>1. Spec => []LayerInv
  BY CallInvAlways, InitLayers, NextLayers, PTL DEF Spec
<1>. QED BY <1>1, PTL DEF LayerInv

(***************************************************************************)
(* Decisions, and what they have missed.                                   *)
(***************************************************************************)
\* "VALIDATED" vouches for every dirty layer but those its decision missed and
\* those whose thread is about to revoke it.
ValidatedSeen == mState = "VALIDATED" => mDirtyLayers \subseteq unseen \cup InFlight

\* A decision to set "VALIDATED", or to post.
Deciding(point, n) == (point = "counted" /\ n = 0) \/ point = "accepted" \/ point = "post"

DecisionsSeen ==
    \A t \in Threads : Deciding(call[t].at, call[t].num) => mDirtyLayers \subseteq missed[t]

SeenInv == ValidatedSeen /\ DecisionsSeen

\* A step that marks no layer.
LEMMA SeenStep ==
  ASSUME CallInv, SeenInv, NEW t \in Threads, NEW p, NEW c, NEW l, NEW n, Begin(t, p, c, l, n),
         mDirtyLayers' \subseteq mDirtyLayers,
         \A u \in Threads : u # t => missed'[u] = missed[u],
         Deciding(p, n) => mDirtyLayers' \subseteq missed'[t],
         mState' = "VALIDATED" => mDirtyLayers' \subseteq unseen' \cup InFlight'
  PROVE  SeenInv'
<1>1. /\ call'[t].at = p /\ call'[t].num = n
      /\ \A u \in Threads : u # t => call'[u] = call[u]
  BY DEF Begin, CallInv, TypeOK
<1>2. DecisionsSeen'
  BY <1>1 DEF SeenInv, DecisionsSeen, Deciding
<1>. QED BY <1>2 DEF SeenInv, ValidatedSeen

LEMMA InFlightKept ==
  ASSUME CallInv, NEW t \in Threads, NEW p, NEW c, NEW l, NEW n, Begin(t, p, c, l, n),
         call[t].at \notin {"created", "marked"}
  PROVE  InFlight \subseteq InFlight'
<1>1. \A u \in Threads : u # t => call'[u] = call[u]
  BY DEF Begin, CallInv, TypeOK
<1>. QED BY <1>1 DEF InFlight, At

\* It leaves the state alone, too.
LEMMA SeenQuiet ==
  ASSUME CallInv, SeenInv, NEW t \in Threads, NEW p, NEW c, NEW l, NEW n, Begin(t, p, c, l, n),
         mDirtyLayers' \subseteq mDirtyLayers,
         \A u \in Threads : u # t => missed'[u] = missed[u],
         Deciding(p, n) => mDirtyLayers' \subseteq missed'[t],
         UNCHANGED <<mState, unseen>>, call[t].at \notin {"created", "marked"}
  PROVE  SeenInv'
<1>1. mState' = "VALIDATED" => mDirtyLayers' \subseteq unseen' \cup InFlight'
  BY InFlightKept DEF SeenInv, ValidatedSeen
<1>. QED BY <1>1, SeenStep

\* A thread goes on to a statement that acts on no decision, or returns.
LEMMA SeenBegin ==
  ASSUME CallInv, SeenInv, NEW t \in Threads, NEW p, p \notin {"counted", "accepted", "post"},
         NEW c, NEW l, NEW n, Begin(t, p, c, l, n),
         mDirtyLayers' \subseteq mDirtyLayers,
         \A u \in Threads : u # t => missed'[u] = missed[u],
         UNCHANGED <<mState, unseen>>, call[t].at \notin {"created", "marked"}
  PROVE  SeenInv'
BY SeenQuiet DEF Deciding

\* The same, with the forms the actions are written in.
LEMMA SeenMove ==
  ASSUME CallInv, SeenInv, NEW t \in Threads, NEW p, p \notin {"counted", "accepted", "post"},
         \/ \E c, l, n : Begin(t, p, c, l, n)
         \/ Goto(t, p)
         \/ GoOnOrReturn(t, p)
         \/ Return(t),
         mDirtyLayers' \subseteq mDirtyLayers,
         \A u \in Threads : u # t => missed'[u] = missed[u],
         UNCHANGED <<mState, unseen>>, call[t].at \notin {"created", "marked"}
  PROVE  SeenInv'
<1>1. CASE \E c, l, n : Begin(t, p, c, l, n)
  BY <1>1, SeenQuiet DEF Deciding
<1>2. CASE Return(t)
  BY <1>2, ReturnIsBegin, SeenQuiet DEF Deciding
<1>3. Goto(t, p) => \E c, l, n : Begin(t, p, c, l, n)
  BY GotoIsBegin DEF CallInv
<1>4. GoOnOrReturn(t, p) => Return(t) \/ \E c, l, n : Begin(t, p, c, l, n)
  BY DEF GoOnOrReturn
<1>. QED BY <1>1, <1>2, <1>3, <1>4

LEMMA SeenStays ==
  ASSUME SeenInv, UNCHANGED <<mState, mDirtyLayers, unseen, missed, call>>
  PROVE  SeenInv'
BY DEF SeenInv, ValidatedSeen, DecisionsSeen, InFlight, At

\* A layer is marked: whoever has decided records it.
LEMMA MarkSeen ==
  ASSUME CallInv, SeenInv, NEW t \in Threads, NEW p \in {"created", "marked"}, Goto(t, p),
         call[t].at \in {"insertDirty", "mark"},
         InsertDirty(call[t].layer), MissedBy(call[t].layer), unseen' = unseen
  PROVE  SeenInv'
<1>. DEFINE l == call[t].layer
<1>1. Begin(t, p, call[t].client, l, call[t].num)
  BY GotoIsBegin DEF CallInv
<1>2. /\ call'[t].at = p /\ call'[t].layer = l
      /\ \A u \in Threads : u # t => call'[u] = call[u]
  BY <1>1 DEF Begin, CallInv, TypeOK
<1>3. mDirtyLayers' = mDirtyLayers \cup {l} /\ mState' = mState
  BY DEF InsertDirty
<1>4. InFlight \cup {l} \subseteq InFlight'
  BY <1>2 DEF InFlight, At
<1>5. ValidatedSeen'
  BY <1>3, <1>4 DEF SeenInv, ValidatedSeen
<1>6. ASSUME NEW u \in Threads, Deciding(call'[u].at, call'[u].num)
      PROVE  mDirtyLayers' \subseteq missed'[u]
  <2>1. u # t
    BY <1>2, <1>6 DEF Deciding
  <2>2. call[u].at \in DecidingPoints /\ mDirtyLayers \subseteq missed[u]
    BY <1>2, <1>6, <2>1 DEF Deciding, DecidingPoints, SeenInv, DecisionsSeen
  <2>3. missed'[u] = missed[u] \cup {l}
    BY <2>2 DEF MissedBy
  <2>. QED BY <1>3, <2>2, <2>3
<1>7. DecisionsSeen'
  BY <1>6 DEF DecisionsSeen
<1>. QED BY <1>5, <1>7 DEF SeenInv

LEMMA CountSeen ==
  ASSUME CallInv, SeenInv, NEW t \in Threads, NEW c, CountDirtyLayers(t, c),
         call[t].at \notin {"created", "marked"}
  PROVE  SeenInv'
<1>1. Cardinality(mDirtyLayers) = 0 => mDirtyLayers = {}
  BY DirtyFinite, FS_EmptySet DEF CallInv
<1>2. Begin(t, "counted", c, 0, Cardinality(mDirtyLayers)) /\ UNCHANGED <<mState, mDirtyLayers, unseen>>
  BY DEF CountDirtyLayers, deviceVars
<1>3. \A u \in Threads : u # t => missed'[u] = missed[u]
  BY DEF CountDirtyLayers, DecideByLayers, CallInv, TypeOK
<1>4. Deciding("counted", Cardinality(mDirtyLayers)) => mDirtyLayers' \subseteq missed'[t]
  BY <1>1, <1>2 DEF Deciding
<1>. QED BY <1>2, <1>3, <1>4, SeenQuiet

LEMMA AcceptTestSeen ==
  ASSUME CallInv, SeenInv, NEW t \in Threads, NEW c, AcceptTest(t, c),
         call[t].at \notin {"created", "marked"}
  PROVE  SeenInv'
<1>1. \A u \in Threads : u # t => missed'[u] = missed[u]
  BY DEF AcceptTest, DecideByState, CallInv, TypeOK
<1>. QED BY <1>1, SeenBegin DEF AcceptTest, deviceVars

LEMMA MethodSeen ==
  ASSUME CallInv, SeenInv, NEW t \in Threads, NEW c \in Clients, Method(t, c)
  PROVE  SeenInv'
<1>. USE SeenBegin DEF halVars, ghostVars, deviceVars, targetVars, MayCommand, MayCall, At
<1>1. CASE Register(t, c)
  BY <1>1 DEF Register
<1>2. CASE LastReference(t, c)
  BY <1>2 DEF LastReference
<1>3. CASE CreateLayerCall(t, c)
  BY <1>3 DEF CreateLayerCall, NewLayer
<1>4. ASSUME NEW l \in LayerIds, DestroyLayerCall(t, c, l)
      PROVE  SeenInv'
  BY <1>4 DEF DestroyLayerCall, EraseDirty
<1>5. ASSUME NEW l \in LayerIds, NEW type, SetLayerCompositionType(t, c, l, type)
      PROVE  SeenInv'
  BY <1>5 DEF SetLayerCompositionType
<1>6. CASE Validate(t, c)
  BY <1>6, CountSeen DEF Validate
<1>7. CASE ValidateOther(t, c)
  BY <1>7, SeenStays DEF ValidateOther
<1>8. CASE Accept(t, c)
  BY <1>8, AcceptTestSeen DEF Accept
<1>9. CASE Present(t, c)
  BY <1>9 DEF Present
<1>. QED BY <1>1, <1>2, <1>3, <1>4, <1>5, <1>6, <1>7, <1>8, <1>9 DEF Method

LEMMA DecidedOthers ==
  ASSUME CallInv, NEW t \in Threads, Decided(t) \/ DecideByState(t) \/ DecideByLayers(t)
  PROVE  \A u \in Threads : u # t => missed'[u] = missed[u]
BY DEF Decided, DecideByState, DecideByLayers, CallInv, TypeOK

LEMMA ContinueSeen ==
  ASSUME CallInv, SeenInv, NEW t \in Threads, Continue(t)
  PROVE  SeenInv'
<1>. USE DEF halVars, ghostVars, deviceVars, layerVars, targetVars, At
<1>1. CASE OnHotplug(t)
  BY <1>1, SeenMove DEF OnHotplug
<1>2. CASE EndClient(t)
  BY <1>2, SeenMove DEF EndClient
<1>3. CASE InsertNewLayer(t)
  BY <1>3, MarkSeen DEF InsertNewLayer
<1>4. CASE AddLayerToResources(t)
  BY <1>4, SeenMove DEF AddLayerToResources
<1>5. ASSUME NEW l \in LayerIds, ClearLayer(t, l)
      PROVE  SeenInv'
  BY <1>5, SeenBegin DEF ClearLayer, EraseDirty
<1>6. CASE EraseLayerStep(t)
  <2>1. Goto(t, "destroyed") \/ Goto(t, "removeLayer") \/ Return(t)
    BY <1>6 DEF EraseLayerStep
  <2>. QED BY <1>6, <2>1, SeenMove DEF EraseLayerStep, EraseLayer
<1>7. CASE RemoveLayerFromResources(t)
  BY <1>7, SeenMove DEF RemoveLayerFromResources
<1>8. CASE MarkLayerDirty(t)
  <2>1. CASE call[t].at = "mark"
    BY <1>8, <2>1, MarkSeen DEF MarkLayerDirty
  <2>2. CASE call[t].at = "unmark"
    BY <1>8, <2>2, SeenMove DEF MarkLayerDirty, EraseDirty
  <2>. QED BY <1>8, <2>1, <2>2 DEF MarkLayerDirty
<1>9. CASE ModifiedStep(t)
  <2>1. PICK p, c, l, n : Begin(t, p, c, l, n) /\ p \in {"addLayer", "removeLayer", "idle"}
    <3>1. Goto(t, "addLayer") \/ Goto(t, "removeLayer") \/ Return(t)
      BY <1>9 DEF ModifiedStep
    <3>. QED BY <3>1, GotoIsBegin, ReturnIsBegin DEF CallInv
  <2>2. mState' = "MODIFIED" /\ UNCHANGED <<mDirtyLayers, missed>>
    BY <1>9 DEF ModifiedStep, MarkModified, SetState
  <2>. QED BY <2>1, <2>2, SeenStep DEF Deciding
<1>10. CASE FinalValidate(t)
  BY <1>10, CountSeen DEF FinalValidate
<1>11. CASE ValidatedStep(t)
  <2>0. call[t].num \in Nat
    BY CallFields DEF CallInv
  <2>1. mState' = "VALIDATED" => call[t].num = 0
    <3>1. mState' = ValidatedState(call[t].num)
      BY <1>11 DEF ValidatedStep, SetState
    <3>. QED BY <2>0, <3>1 DEF ValidatedState
  <2>2. call[t].num = 0 => unseen' = missed[t] /\ mDirtyLayers \subseteq missed[t]
    BY <1>11 DEF ValidatedStep, SeenInv, DecisionsSeen, Deciding
  <2>3. mDirtyLayers' = mDirtyLayers
    BY <1>11 DEF ValidatedStep, SetState
  <2>. QED BY <1>11, <2>1, <2>2, <2>3, DecidedOthers, SeenStep DEF ValidatedStep, Deciding
<1>12. CASE MustValidateStep(t)
  BY <1>12, SeenMove DEF MustValidateStep
<1>13. CASE TestValidated(t)
  <2>1. GoOnOrReturn(t, "accept") \/ Goto(t, "countSize") \/ Goto(t, "fillArrays")
    BY <1>13 DEF TestValidated
  <2>. QED BY <1>13, <2>1, SeenMove DEF TestValidated
<1>14. CASE CountSize(t)
  BY <1>14, SeenBegin DEF CountSize
<1>15. CASE FillArrays(t)
  BY <1>15, SeenMove DEF FillArrays
<1>16. CASE FinalAccept(t)
  BY <1>16, SeenMove, AcceptTestSeen DEF FinalAccept
<1>17. CASE ClearDirtyStep(t)
  <2>1. Begin(t, "accepted", call[t].client, call[t].layer, call[t].num)
    BY <1>17, GotoIsBegin DEF ClearDirtyStep, CallInv
  <2>. QED BY <1>17, <2>1, DecidedOthers, SeenQuiet DEF ClearDirtyStep, ClearDirtyLayers
<1>18. CASE AcceptedStep(t)
  <2>1. unseen' = missed[t] /\ mDirtyLayers \subseteq missed[t] /\ mDirtyLayers' = mDirtyLayers
    BY <1>18 DEF AcceptedStep, SetState, SeenInv, DecisionsSeen, Deciding
  <2>2. PICK p, c, l, n : Begin(t, p, c, l, n) /\ p \in {"present", "idle"}
    BY <1>18, ReturnIsBegin DEF AcceptedStep, GoOnOrReturn
  <2>. QED BY <1>18, <2>1, <2>2, DecidedOthers, SeenStep DEF AcceptedStep, Deciding
<1>19. CASE FinalPresent(t)
  <2>1. Goto(t, "ended") \/ Goto(t, "presentState")
    BY <1>19 DEF FinalPresent
  <2>. QED BY <1>19, <2>1, SeenMove DEF FinalPresent
<1>20. CASE PresentTest(t)
  <2>1. CASE Presentable
    <3>1. Begin(t, "post", call[t].client, call[t].layer, call[t].num)
      BY <1>20, <2>1, GotoIsBegin DEF PresentTest, CallInv
    <3>2. missed'[t] = unseen \cup InFlight
      BY <1>20, <2>1 DEF PresentTest, DecideByState, CallInv, TypeOK
    <3>3. mDirtyLayers \subseteq unseen \cup InFlight
      BY <2>1 DEF Presentable, SeenInv, ValidatedSeen
    <3>. QED BY <1>20, <2>1, <3>1, <3>2, <3>3, DecidedOthers, SeenQuiet DEF PresentTest
  <2>2. CASE ~Presentable
    BY <1>20, <2>2, SeenMove DEF PresentTest
  <2>. QED BY <2>1, <2>2
<1>21. CASE PostStep(t)
  BY <1>21, DecidedOthers, SeenMove DEF PostStep, Post
<1>. QED BY <1>1, <1>2, <1>3, <1>4, <1>5, <1>6, <1>7, <1>8, <1>9, <1>10, <1>11, <1>12, <1>13,
        <1>14, <1>15, <1>16, <1>17, <1>18, <1>19, <1>20, <1>21 DEF Continue

LEMMA InitSeen == Init => SeenInv
BY DEF Init, DeviceInit, SeenInv, ValidatedSeen, DecisionsSeen

LEMMA NextSeen == CallInv /\ SeenInv /\ [Next]_vars => SeenInv'
<1>. SUFFICES ASSUME CallInv, SeenInv, [Next]_vars PROVE SeenInv'
  OBVIOUS
<1>1. ASSUME NEW c \in Clients, Connect(c)
      PROVE  SeenInv'
  BY <1>1, SeenStays DEF Connect, deviceVars
<1>2. CASE UNCHANGED vars
  BY <1>2, SeenStays DEF vars, deviceVars, ghostVars
<1>. QED BY <1>1, <1>2, MethodSeen, ContinueSeen DEF Next

LEMMA SeenInvAlways == Spec => []SeenInv
BY CallInvAlways, InitSeen, NextSeen, PTL DEF Spec

\* However many threads and clients share the device, and however their
\* statements interleave, a frame goes out only over layers that were accepted,
\* or were marked dirty after the deciding statement of the validation, the
\* accept or the present that let it through.
THEOREM PresentIsGated == Spec => []PresentGated
<1>1. SeenInv => PresentGated
  BY DEF SeenInv, DecisionsSeen, Deciding, PresentGated, At
<1>. QED BY <1>1, SeenInvAlways, PTL

(***************************************************************************)
(* Answers, as long as clients do not overlap.                             *)
(***************************************************************************)
FillingPoints == {"fillTypes", "fillArrays"}
ValidatingPoints == {"counted", "mustValidate", "countTypes", "countSize", "fillTypes", "fillArrays"}
Filling(t) == call[t].at \in FillingPoints
Validating(t) == call[t].at \in ValidatingPoints

MarksHaveLayers == ~dangled => mDirtyLayers \subseteq mLayers

\* The arrays are too small only if a layer has been marked since.
RoomForAll ==
    ~overtaken =>
        \A t \in Threads :
            Filling(t) /\ mState # "MODIFIED" /\ InFlight = {}
                => Cardinality(mDirtyLayers) <= call[t].num

\* Between commands the client knows of every dirty layer that was in time.
AnswerStands ==
    ~overtaken =>
        \/ mState = "MODIFIED"
        \/ InFlight # {}
        \/ unseen # {}
        \/ \E t \in Threads : Validating(t) \/ At(t, "accepted")
        \/ mDirtyLayers \subseteq told

AnswerInv == MarksHaveLayers /\ AnswerFits /\ RoomForAll /\ AnswerStands /\ SettledWereTold

\* Without overlap one thread at a time is in a command.
LEMMA OneCommand ==
  ASSUME CallInv, ~overtaken, NEW t \in Threads, NEW u \in Threads, InCommand(t), InCommand(u)
  PROVE  u = t
<1>1. Running(t) /\ Running(u)
  BY PointKinds DEF InCommand, Running, At
<1>2. call[u].client = call[t].client
  BY <1>1 DEF CallInv, CallsOK, OneClient
<1>. QED BY <1>2 DEF CallInv, MutexHeldOnce

LEMMA CommandAlone ==
  ASSUME CallInv, CallInv', overtaken' = overtaken, ~overtaken, NEW s \in Threads, NEW p, NEW c,
         NEW l, NEW n, Begin(s, p, c, l, n), InCommand(s) \/ p \in CommandPoints,
         NEW u \in Threads, u # s
  PROVE  ~InCommand(u)'
<1>1. call'[u] = call[u] /\ call'[s].at = p
  BY DEF Begin, CallInv, TypeOK
<1>2. CASE InCommand(s)
  BY <1>1, <1>2, OneCommand DEF InCommand
<1>3. CASE p \in CommandPoints
  <2>1. SUFFICES ASSUME InCommand(u)' PROVE FALSE
    OBVIOUS
  <2>2. Running(u)' /\ Running(s)' /\ InCommand(s)'
    BY <1>1, <1>3, <2>1, PointKinds DEF InCommand, Running, At
  <2>3. call'[u].client = call'[s].client
    BY <2>2 DEF CallInv, CallsOK, OneClient
  <2>. QED BY <2>1, <2>2, <2>3 DEF CallInv, MutexHeldOnce
<1>. QED BY <1>2, <1>3

\* A step that changes no layer, or only adds one.
LEMMA FitsKept ==
  ASSUME CallInv, AnswerFits, NEW s \in Threads, NEW p, NEW c, NEW l, NEW n, Begin(s, p, c, l, n),
         UNCHANGED <<mState, mDirtyLayers, overtaken, dangled>>, mLayers \subseteq mLayers',
         ~Changing(s), p \in FillingPoints => Filling(s) /\ n = call[s].num
  PROVE  AnswerFits'
<1>1. /\ call'[s].at = p /\ call'[s].num = n
      /\ \A u \in Threads : u # s => call'[u] = call[u]
  BY DEF Begin, CallInv, TypeOK
<1>2. \A u \in Threads : Changing(u) => Changing(u)'
  BY <1>1 DEF Changing, At
<1>3. \A t \in Threads : Filling(t)' => Filling(t) /\ call'[t].num = call[t].num
  BY <1>1 DEF Filling
<1>. QED BY <1>2, <1>3 DEF AnswerFits, Filling, FillingPoints, At

LEMMA RoomKept ==
  ASSUME CallInv, RoomForAll, NEW s \in Threads, NEW p, NEW c, NEW l, NEW n, Begin(s, p, c, l, n),
         UNCHANGED <<mState, overtaken>>, mDirtyLayers' \subseteq mDirtyLayers,
         call[s].at \notin {"created", "marked"},
         p \in FillingPoints => Filling(s) /\ n = call[s].num
  PROVE  RoomForAll'
<1>1. /\ call'[s].at = p /\ call'[s].num = n
      /\ \A u \in Threads : u # s => call'[u] = call[u]
  BY DEF Begin, CallInv, TypeOK
<1>2. \A t \in Threads : Filling(t)' => Filling(t) /\ call'[t].num = call[t].num
  BY <1>1 DEF Filling
<1>3. /\ Cardinality(mDirtyLayers') <= Cardinality(mDirtyLayers)
      /\ Cardinality(mDirtyLayers) \in Nat /\ Cardinality(mDirtyLayers') \in Nat
  BY DirtyFinite, FS_Subset, FS_CardinalityType DEF CallInv
<1>4. \A t \in Threads : call[t].num \in Nat
  BY CallFields DEF CallInv
<1>5. InFlight' = {} => InFlight = {}
  BY InFlightKept
<1>6. SUFFICES ASSUME ~overtaken', NEW t \in Threads, Filling(t)', mState' # "MODIFIED", InFlight' = {}
               PROVE  Cardinality(mDirtyLayers') <= call'[t].num
  BY DEF RoomForAll
<1>7. Cardinality(mDirtyLayers) <= call[t].num /\ call'[t].num = call[t].num
  BY <1>2, <1>5, <1>6 DEF RoomForAll
<1>. QED BY <1>3, <1>4, <1>7

LEMMA StandsKept ==
  ASSUME CallInv, AnswerStands, NEW s \in Threads, NEW p, NEW c, NEW l, NEW n, Begin(s, p, c, l, n),
         UNCHANGED <<mState, unseen, told, overtaken>>, mDirtyLayers' \subseteq mDirtyLayers,
         call[s].at \notin {"created", "marked", "accepted"},
         Validating(s) => p \in ValidatingPoints \/ mState = "MODIFIED"
  PROVE  AnswerStands'
<1>1. call'[s].at = p /\ \A u \in Threads : u # s => call'[u] = call[u]
  BY DEF Begin, CallInv, TypeOK
<1>2. \A t \in Threads : Validating(t) \/ At(t, "accepted")
                            => mState' = "MODIFIED" \/ Validating(t)' \/ At(t, "accepted")'
  BY <1>1 DEF Validating, At
<1>3. InFlight' = {} => InFlight = {}
  BY InFlightKept
<1>. QED BY <1>2, <1>3 DEF AnswerStands

LEMMA ToldKept ==
  ASSUME CallInv, SettledWereTold, NEW s \in Threads, NEW p, NEW c, NEW l, NEW n,
         Begin(s, p, c, l, n), UNCHANGED <<told, overtaken>>, mDirtyLayers' \subseteq mDirtyLayers,
         \A u \in Threads : u # s => missed'[u] = missed[u], p # "clearDirty"
  PROVE  SettledWereTold'
<1>1. call'[s].at = p /\ \A u \in Threads : u # s => call'[u] = call[u]
  BY DEF Begin, CallInv, TypeOK
<1>. QED BY <1>1 DEF SettledWereTold, At

\* A command does not meet another one that fills arrays or settles layers.
LEMMA CommandFits ==
  ASSUME CallInv, CallInv', overtaken' = overtaken, NEW s \in Threads, NEW p, NEW c, NEW l, NEW n,
         Begin(s, p, c, l, n), InCommand(s) \/ p \in CommandPoints, p \notin FillingPoints
  PROVE  AnswerFits' /\ RoomForAll'
<1>1. call'[s].at = p
  BY DEF Begin, CallInv, TypeOK
<1>2. FillingPoints \subseteq CommandPoints
  BY DEF FillingPoints, CommandPoints
<1>3. ~overtaken => \A u \in Threads : ~Filling(u)'
  BY <1>1, <1>2, CommandAlone DEF Filling, InCommand
<1>. QED BY <1>3 DEF AnswerFits, RoomForAll, Filling, FillingPoints, At

LEMMA CommandSettles ==
  ASSUME CallInv, CallInv', overtaken' = overtaken, NEW s \in Threads, NEW p, NEW c, NEW l, NEW n,
         Begin(s, p, c, l, n), InCommand(s) \/ p \in CommandPoints, p # "clearDirty"
  PROVE  SettledWereTold'
<1>1. call'[s].at = p /\ "clearDirty" \in CommandPoints
  BY DEF Begin, CallInv, TypeOK, CommandPoints
<1>2. ~overtaken => \A u \in Threads : ~At(u, "clearDirty")'
  BY <1>1, CommandAlone DEF InCommand, At
<1>. QED BY <1>2 DEF SettledWereTold

\* A step that decides nothing, and neither changes layers nor announces it.
QuietPoints == Points \ {"created", "marked", "unmarked", "destroyed", "eraseLayer", "accepted"}

LEMMA AnswerQuiet ==
  ASSUME CallInv, AnswerInv, NEW s \in Threads, NEW p, NEW c, NEW l, NEW n, Begin(s, p, c, l, n),
         UNCHANGED <<mState, mDirtyLayers, unseen, told, overtaken, dangled>>,
         mLayers \subseteq mLayers', \A u \in Threads : u # s => missed'[u] = missed[u],
         call[s].at \in QuietPoints, p # "clearDirty",
         p \in FillingPoints => Filling(s) /\ n = call[s].num,
         Validating(s) => p \in ValidatingPoints \/ mState = "MODIFIED"
  PROVE  AnswerInv'
<1>1. ~Changing(s)
  BY DEF QuietPoints, Changing, At
<1>2. AnswerFits' /\ RoomForAll'
  BY <1>1, FitsKept, RoomKept DEF AnswerInv, QuietPoints
<1>3. AnswerStands' /\ SettledWereTold'
  BY StandsKept, ToldKept DEF AnswerInv, QuietPoints
<1>. QED BY <1>2, <1>3 DEF AnswerInv, MarksHaveLayers

\* A mark goes, because its layer is about to be destroyed: either the layer
\* exists, and the thread will set MODIFIED, or there was no mark.
LEMMA EraseAnswers ==
  ASSUME CallInv, AnswerInv, NEW s \in Threads, NEW c, NEW l,
         EraseDirty(l), Begin(s, "eraseLayer", c, l, 0),
         UNCHANGED <<unseen, told, missed, overtaken, dangled>>,
         call[s].at \in {"idle", "clear"}
  PROVE  AnswerInv'
<1>1. /\ call'[s].at = "eraseLayer" /\ call'[s].layer = l
      /\ \A u \in Threads : u # s => call'[u] = call[u]
  BY DEF Begin, CallInv, TypeOK
<1>2. mDirtyLayers' = mDirtyLayers \ {l} /\ UNCHANGED <<mState, mLayers>>
  BY DEF EraseDirty
<1>3. ~Validating(s) /\ ~Changing(s) /\ "eraseLayer" \notin FillingPoints
  BY DEF Validating, ValidatingPoints, Changing, FillingPoints, At
<1>4. MarksHaveLayers'
  BY <1>2 DEF AnswerInv, MarksHaveLayers
<1>5. AnswerFits'
  <2>1. CASE l \in mLayers
    <3>1. Changing(s)'
      BY <1>1, <1>2, <2>1 DEF Changing, At
    <3>. QED BY <3>1 DEF AnswerFits
  <2>2. CASE l \notin mLayers /\ ~dangled
    <3>1. mDirtyLayers' = mDirtyLayers
      BY <1>2, <2>2 DEF AnswerInv, MarksHaveLayers
    <3>. QED BY <1>2, <1>3, <3>1, FitsKept DEF AnswerInv
  <2>. QED BY <2>1, <2>2 DEF AnswerFits
<1>6. RoomForAll' /\ AnswerStands' /\ SettledWereTold'
  BY <1>2, <1>3, RoomKept, StandsKept, ToldKept DEF AnswerInv
<1>. QED BY <1>4, <1>5, <1>6 DEF AnswerInv

LEMMA MarkAnswers ==
  ASSUME CallInv, AnswerInv, NEW s \in Threads, NEW p \in {"created", "marked"}, Goto(s, p),
         call[s].at \in {"insertDirty", "mark"},
         InsertDirty(call[s].layer), MissedBy(call[s].layer), RecordDangling,
         UNCHANGED <<told, overtaken>>
  PROVE  AnswerInv'
<1>. DEFINE l == call[s].layer
<1>1. Begin(s, p, call[s].client, l, call[s].num)
  BY GotoIsBegin DEF CallInv
<1>2. /\ call'[s].at = p /\ call'[s].layer = l
      /\ \A u \in Threads : u # s => call'[u] = call[u]
  BY <1>1 DEF Begin, CallInv, TypeOK
<1>3. MarksHaveLayers'
  BY DEF RecordDangling, MarksHaveLayers
<1>4. Changing(s)' /\ l \in InFlight'
  BY <1>2 DEF Changing, InFlight, At
<1>5. AnswerFits' /\ RoomForAll' /\ AnswerStands'
  BY <1>4 DEF AnswerFits, RoomForAll, AnswerStands
<1>6. ASSUME NEW u \in Threads, At(u, "clearDirty")'
      PROVE  missed'[u] # {}
  <2>1. call[u].at = "clearDirty"
    BY <1>2, <1>6 DEF At
  <2>2. missed'[u] = missed[u] \cup {l}
    BY <2>1 DEF MissedBy, DecidingPoints
  <2>. QED BY <2>2
<1>. QED BY <1>3, <1>5, <1>6 DEF AnswerInv, SettledWereTold

LEMMA UnmarkAnswers ==
  ASSUME CallInv, AnswerInv, NEW s \in Threads, Goto(s, "unmarked"), call[s].at = "unmark",
         EraseDirty(call[s].layer), RecordDangling, UNCHANGED <<unseen, told, missed, overtaken>>
  PROVE  AnswerInv'
<1>1. Begin(s, "unmarked", call[s].client, call[s].layer, call[s].num)
  BY GotoIsBegin DEF CallInv
<1>2. mDirtyLayers' \subseteq mDirtyLayers /\ UNCHANGED mState
  BY DEF EraseDirty
<1>3. MarksHaveLayers'
  BY DEF RecordDangling, MarksHaveLayers
<1>4. Changing(s)'
  BY <1>1 DEF Changing, At, Begin, CallInv, TypeOK
<1>5. AnswerFits'
  BY <1>4 DEF AnswerFits
<1>6. RoomForAll' /\ AnswerStands' /\ SettledWereTold'
  BY <1>1, <1>2, RoomKept, StandsKept, ToldKept
  DEF AnswerInv, FillingPoints, Validating, ValidatingPoints
<1>. QED BY <1>3, <1>5, <1>6 DEF AnswerInv

\* The layer itself goes; another thread may be about to destroy it, too.
LEMMA EraseLayerAnswers ==
  ASSUME CallInv, AnswerInv, NEW s \in Threads, EraseLayerStep(s)
  PROVE  AnswerInv'
<1>. DEFINE l == call[s].layer
<1>1. PICK p \in {"destroyed", "removeLayer", "idle"} : \E c, k, n : Begin(s, p, c, k, n)
  <2>1. Goto(s, "destroyed") \/ Goto(s, "removeLayer") \/ Return(s)
    BY DEF EraseLayerStep
  <2>. QED BY <2>1, GotoIsBegin, ReturnIsBegin DEF CallInv
<1>2. PICK c, k, n : Begin(s, p, c, k, n)
  BY <1>1
<1>3. /\ call'[s].at = p
      /\ \A u \in Threads : u # s => call'[u] = call[u]
  BY <1>2 DEF Begin, CallInv, TypeOK
<1>4. /\ mLayers' = mLayers \ {l} /\ call[s].at = "eraseLayer"
      /\ UNCHANGED <<mState, mDirtyLayers, unseen, told, missed, overtaken>>
  BY DEF EraseLayerStep, EraseLayer, At
<1>5. l \in mLayers => p = "destroyed"
  BY <1>3 DEF EraseLayerStep, Goto, At, CallInv, TypeOK, Calls
<1>6. MarksHaveLayers' /\ (~dangled' => ~dangled)
  BY DEF EraseLayerStep, RecordDangling, MarksHaveLayers
<1>7. AnswerFits'
  <2>1. CASE l \in mLayers
    <3>1. Changing(s)'
      BY <1>3, <1>5, <2>1 DEF Changing, At
    <3>. QED BY <3>1 DEF AnswerFits
  <2>2. CASE l \notin mLayers
    <3>1. \A u \in Threads : Changing(u) => Changing(u)'
      BY <1>3, <1>4, <2>2 DEF Changing, At
    <3>2. \A t \in Threads : At(t, "fillTypes")' \/ At(t, "fillArrays")' => t # s /\ call'[t] = call[t]
      BY <1>3 DEF At
    <3>. QED BY <1>4, <1>6, <3>1, <3>2 DEF AnswerInv, AnswerFits, At
  <2>. QED BY <2>1, <2>2
<1>8. RoomForAll' /\ AnswerStands' /\ SettledWereTold'
  BY <1>2, <1>4, RoomKept, StandsKept, ToldKept
  DEF AnswerInv, FillingPoints, Validating, ValidatingPoints
<1>. QED BY <1>6, <1>7, <1>8 DEF AnswerInv

LEMMA ModifiedAnswers ==
  ASSUME CallInv, AnswerInv, NEW s \in Threads, ModifiedStep(s)
  PROVE  AnswerInv'
<1>1. PICK p \in {"addLayer", "removeLayer", "idle"} : \E c, l, n : Begin(s, p, c, l, n)
  <2>1. Goto(s, "addLayer") \/ Goto(s, "removeLayer") \/ Return(s)
    BY DEF ModifiedStep
  <2>. QED BY <2>1, GotoIsBegin, ReturnIsBegin DEF CallInv
<1>2. /\ mState' = "MODIFIED"
      /\ UNCHANGED <<mLayers, mDirtyLayers, told, missed, overtaken, dangled>>
  BY DEF ModifiedStep, MarkModified, SetState, layerVars
<1>3. MarksHaveLayers' /\ AnswerFits' /\ RoomForAll' /\ AnswerStands'
  BY <1>2 DEF AnswerInv, MarksHaveLayers, AnswerFits, RoomForAll, AnswerStands
<1>4. SettledWereTold'
  BY <1>1, <1>2, ToldKept DEF AnswerInv
<1>. QED BY <1>3, <1>4 DEF AnswerInv

LEMMA CountAnswers ==
  ASSUME CallInv, CallInv', AnswerInv, NEW s \in Threads, NEW c, CountDirtyLayers(s, c)
  PROVE  AnswerInv'
<1>1. Begin(s, "counted", c, 0, Cardinality(mDirtyLayers))
  BY DEF CountDirtyLayers
<1>2. call'[s].at = "counted"
  BY <1>1 DEF Begin, CallInv, TypeOK
<1>3. AnswerFits' /\ RoomForAll' /\ SettledWereTold'
  BY <1>1, CommandFits, CommandSettles DEF CountDirtyLayers, CommandPoints, FillingPoints
<1>4. AnswerStands'
  BY <1>2 DEF AnswerStands, Validating, ValidatingPoints
<1>. QED BY <1>3, <1>4 DEF AnswerInv, MarksHaveLayers, CountDirtyLayers, deviceVars

LEMMA ValidatedAnswers ==
  ASSUME CallInv, CallInv', AnswerInv, NEW s \in Threads, ValidatedStep(s)
  PROVE  AnswerInv'
<1>1. Begin(s, "mustValidate", call[s].client, 0, 0) /\ InCommand(s)
  BY DEF ValidatedStep, InCommand, At, CommandPoints
<1>2. call'[s].at = "mustValidate"
  BY <1>1 DEF Begin, CallInv, TypeOK
<1>3. AnswerFits' /\ RoomForAll' /\ SettledWereTold'
  BY <1>1, CommandFits, CommandSettles DEF ValidatedStep, FillingPoints
<1>4. AnswerStands'
  BY <1>2 DEF AnswerStands, Validating, ValidatingPoints
<1>. QED BY <1>3, <1>4 DEF AnswerInv, MarksHaveLayers, ValidatedStep, SetState, layerVars

\* The size of the arrays is the number of the dirty layers.
LEMMA CountSizeAnswers ==
  ASSUME CallInv, CallInv', AnswerInv, NEW s \in Threads, CountSize(s)
  PROVE  AnswerInv'
<1>1. /\ Begin(s, "fillTypes", call[s].client, 0, Cardinality(mDirtyLayers))
      /\ call[s].at = "countSize"
      /\ UNCHANGED <<mState, mDirtyLayers, mLayers, unseen, told, missed, overtaken, dangled>>
  BY DEF CountSize, At, deviceVars, layerVars, ghostVars
<1>2. InCommand(s) /\ FillingPoints \subseteq CommandPoints
  BY <1>1 DEF InCommand, CommandPoints, FillingPoints
<1>3. call'[s].at = "fillTypes" /\ call'[s].num = Cardinality(mDirtyLayers')
  BY <1>1 DEF Begin, CallInv, TypeOK
<1>4. ~overtaken => \A u \in Threads : u # s => ~Filling(u)'
  BY <1>1, <1>2, CommandAlone DEF Filling, InCommand
<1>5. AnswerFits'
  BY <1>1, <1>3, <1>4 DEF AnswerFits, Filling, FillingPoints, At
<1>6. RoomForAll'
  BY <1>1, <1>3, <1>4, DirtyFinite DEF CallInv, RoomForAll
<1>7. AnswerStands' /\ SettledWereTold'
  BY <1>1, StandsKept, ToldKept DEF AnswerInv, ValidatingPoints
<1>. QED BY <1>1, <1>5, <1>6, <1>7 DEF AnswerInv, MarksHaveLayers

\* If there is room for all of the dirty layers, all of them are told.
LEMMA FillAnswers ==
  ASSUME CallInv, CallInv', AnswerInv, NEW s \in Threads, FillArrays(s)
  PROVE  AnswerInv'
<1>1. PICK p, c, l, n : Begin(s, p, c, l, n) /\ p \in {"accept", "idle"}
  BY ReturnIsBegin DEF FillArrays, GoOnOrReturn
<1>2. /\ call[s].at = "fillArrays"
      /\ UNCHANGED <<mState, mDirtyLayers, mLayers, unseen, overtaken, dangled>>
  BY DEF FillArrays, At, deviceVars, layerVars
<1>3. /\ call'[s].at = p
      /\ \A u \in Threads : u # s => call'[u] = call[u]
  BY <1>1 DEF Begin, CallInv, TypeOK
<1>4. InCommand(s)
  BY <1>2 DEF InCommand, CommandPoints
<1>5. AnswerFits' /\ RoomForAll' /\ SettledWereTold'
  BY <1>1, <1>2, <1>4, CommandFits, CommandSettles DEF FillingPoints
<1>6. AnswerStands'
  <2>1. SUFFICES ASSUME ~overtaken, mState # "MODIFIED", InFlight' = {}
                 PROVE  mDirtyLayers' \subseteq told'
    BY <1>2 DEF AnswerStands
  <2>2. InFlight = {}
    BY <1>1, <1>2, <2>1, InFlightKept
  <2>3. Cardinality(mDirtyLayers) <= call[s].num
    BY <1>2, <2>1, <2>2 DEF AnswerInv, RoomForAll, Filling, FillingPoints
  <2>4. /\ told' \subseteq mDirtyLayers
        /\ Cardinality(told') = MinOf(call[s].num, Cardinality(mDirtyLayers))
    BY DEF FillArrays, ChangedTypes
  <2>5. call[s].num \in Nat /\ IsFiniteSet(mDirtyLayers) /\ Cardinality(mDirtyLayers) \in Nat
    BY CallFields, DirtyFinite DEF CallInv
  <2>6. Cardinality(told') = Cardinality(mDirtyLayers)
    BY <2>3, <2>4, <2>5 DEF MinOf
  <2>7. told' = mDirtyLayers
    BY <2>4, <2>5, <2>6, FS_Subset
  <2>. QED BY <1>2, <2>7
<1>. QED BY <1>2, <1>5, <1>6 DEF AnswerInv, MarksHaveLayers

\* No validation and no accept is under way when an accept begins.
LEMMA AcceptTestAnswers ==
  ASSUME CallInv, CallInv', AnswerInv, NEW s \in Threads, NEW c, AcceptTest(s, c),
         call[s].at \in {"idle", "accept"}
  PROVE  AnswerInv'
<1>1. /\ Begin(s, "clearDirty", c, 0, 0) /\ mState # "MODIFIED"
      /\ UNCHANGED <<mState, mDirtyLayers, mLayers, unseen, told, overtaken, dangled>>
  BY DEF AcceptTest, Unvalidated, deviceVars, layerVars
<1>2. /\ call'[s].at = "clearDirty"
      /\ \A u \in Threads : u # s => call'[u] = call[u] /\ missed'[u] = missed[u]
  BY <1>1, DecidedOthers DEF AcceptTest, Begin, CallInv, TypeOK
<1>3. missed'[s] = unseen \cup InFlight
  BY DEF AcceptTest, DecideByState, CallInv, TypeOK
<1>4. /\ "clearDirty" \in CommandPoints /\ "accepted" \in CommandPoints
      /\ ValidatingPoints \subseteq CommandPoints /\ "clearDirty" \notin FillingPoints
      /\ ~Validating(s) /\ call[s].at # "accepted"
  BY DEF CommandPoints, ValidatingPoints, FillingPoints, Validating
<1>5. AnswerFits' /\ RoomForAll'
  BY <1>1, <1>4, CommandFits
<1>6. AnswerStands'
  BY <1>1, <1>4, StandsKept DEF AnswerInv
<1>7. SettledWereTold'
  <2>1. SUFFICES ASSUME ~overtaken, NEW t \in Threads, At(t, "clearDirty")', missed'[t] = {}
                 PROVE  mDirtyLayers \subseteq told
    BY <1>1 DEF SettledWereTold
  <2>2. \A u \in Threads : u # s => ~InCommand(u)'
    BY <1>1, <1>4, <2>1, CommandAlone
  <2>3. t = s
    BY <1>4, <2>1, <2>2 DEF InCommand, At
  <2>4. unseen = {} /\ InFlight = {}
    BY <1>3, <2>1, <2>3
  <2>5. \A u \in Threads : ~Validating(u) /\ ~At(u, "accepted")
    BY <1>2, <1>4, <2>2 DEF InCommand, Validating, At
  <2>. QED BY <1>1, <2>1, <2>4, <2>5 DEF AnswerInv, AnswerStands
<1>. QED BY <1>1, <1>5, <1>6, <1>7 DEF AnswerInv, MarksHaveLayers

LEMMA ClearDirtyAnswers ==
  ASSUME CallInv, CallInv', AnswerInv, NEW s \in Threads, ClearDirtyStep(s)
  PROVE  AnswerInv'
<1>1. /\ Begin(s, "accepted", call[s].client, call[s].layer, call[s].num)
      /\ call[s].at = "clearDirty" /\ mDirtyLayers' = {} /\ overtaken' = overtaken
  BY GotoIsBegin DEF ClearDirtyStep, ClearDirtyLayers, At, CallInv
<1>2. InCommand(s) /\ "accepted" \notin FillingPoints
  BY <1>1 DEF InCommand, CommandPoints, FillingPoints
<1>3. AnswerFits' /\ RoomForAll' /\ SettledWereTold'
  BY <1>1, <1>2, CommandFits, CommandSettles
<1>. QED BY <1>1, <1>3 DEF AnswerInv, MarksHaveLayers, AnswerStands

\* "VALIDATED" leaves nothing untold but what the accept has missed.
LEMMA AcceptedAnswers ==
  ASSUME CallInv, CallInv', SeenInv, AnswerInv, NEW s \in Threads, AcceptedStep(s)
  PROVE  AnswerInv'
<1>1. PICK p, c, l, n : Begin(s, p, c, l, n) /\ p \in {"present", "idle"}
  BY ReturnIsBegin DEF AcceptedStep, GoOnOrReturn
<1>2. /\ call[s].at = "accepted" /\ unseen' = missed[s]
      /\ UNCHANGED <<mDirtyLayers, mLayers, told, overtaken, dangled>>
  BY DEF AcceptedStep, SetState, At, layerVars
<1>3. InCommand(s) /\ p \notin FillingPoints /\ p # "clearDirty"
  BY <1>1, <1>2 DEF InCommand, CommandPoints, FillingPoints
<1>4. AnswerFits' /\ RoomForAll' /\ SettledWereTold'
  BY <1>1, <1>2, <1>3, CommandFits, CommandSettles
<1>5. mDirtyLayers \subseteq missed[s]
  BY <1>2 DEF SeenInv, DecisionsSeen, Deciding
<1>6. AnswerStands'
  BY <1>2, <1>5 DEF AnswerStands
<1>. QED BY <1>2, <1>4, <1>6 DEF AnswerInv, MarksHaveLayers

LEMMA AnswerMove ==
  ASSUME CallInv, AnswerInv, NEW s \in Threads, NEW p,
         Goto(s, p) \/ GoOnOrReturn(s, p) \/ Return(s),
         UNCHANGED <<mState, mDirtyLayers, unseen, told, overtaken, dangled>>,
         mLayers \subseteq mLayers', \A u \in Threads : u # s => missed'[u] = missed[u],
         call[s].at \in QuietPoints, p # "clearDirty",
         p \in FillingPoints => Filling(s) /\ Goto(s, p),
         Validating(s) => (p \in ValidatingPoints /\ Goto(s, p)) \/ mState = "MODIFIED"
  PROVE  AnswerInv'
<1>1. CASE Goto(s, p)
  BY <1>1, GotoIsBegin, AnswerQuiet DEF CallInv
<1>2. CASE Return(s) /\ ~Goto(s, p)
  BY <1>2, ReturnIsBegin, AnswerQuiet DEF FillingPoints
<1>3. CASE GoOnOrReturn(s, p) /\ ~Goto(s, p) /\ ~Return(s)
  <2>1. Begin(s, p, call[s].client, 0, 0)
    BY <1>3 DEF GoOnOrReturn
  <2>. QED BY <1>3, <2>1, AnswerQuiet
<1>. QED BY <1>1, <1>2, <1>3

LEMMA AnswersStay ==
  ASSUME AnswerInv, UNCHANGED <<mState, mDirtyLayers, mLayers, call, told, missed, unseen, dangled>>,
         ~overtaken' => ~overtaken
  PROVE  AnswerInv'
BY DEF AnswerInv, MarksHaveLayers, AnswerFits, RoomForAll, AnswerStands, SettledWereTold,
       InFlight, Filling, Validating, Changing, At

LEMMA MethodAnswers ==
  ASSUME CallInv, CallInv', AnswerInv, NEW t \in Threads, NEW c \in Clients, Method(t, c)
  PROVE  AnswerInv'
<1>. USE DEF halVars, ghostVars, deviceVars, layerVars, targetVars
<1>1. call[t].at = "idle" => call[t].at \in QuietPoints /\ ~Validating(t)
  BY DEF QuietPoints, Points, Validating, ValidatingPoints
<1>2. \A p \in {"hotplug", "clear", "ended", "insertDirty", "mark", "unmark", "presentState"} :
          p \notin FillingPoints
  BY DEF FillingPoints
<1>3. CASE Register(t, c)
  BY <1>1, <1>2, <1>3, AnswerQuiet DEF Register, MayCall, At
<1>4. CASE LastReference(t, c)
  BY <1>1, <1>2, <1>4, AnswerQuiet DEF LastReference, MayCall, At
<1>5. CASE CreateLayerCall(t, c)
  BY <1>1, <1>2, <1>5, AnswerQuiet DEF CreateLayerCall, NewLayer, MayCall, At
<1>6. ASSUME NEW l \in LayerIds, DestroyLayerCall(t, c, l)
      PROVE  AnswerInv'
  BY <1>6, EraseAnswers DEF DestroyLayerCall, MayCall, At
<1>7. ASSUME NEW l \in LayerIds, NEW type, SetLayerCompositionType(t, c, l, type)
      PROVE  AnswerInv'
  BY <1>1, <1>2, <1>7, AnswerQuiet DEF SetLayerCompositionType, MayCommand, MayCall, At
<1>8. CASE Validate(t, c)
  BY <1>8, CountAnswers DEF Validate
<1>9. CASE ValidateOther(t, c)
  BY <1>9, AnswersStay DEF ValidateOther
<1>10. CASE Accept(t, c)
  BY <1>10, AcceptTestAnswers DEF Accept, MayCommand, MayCall, At
<1>11. CASE Present(t, c)
  BY <1>1, <1>2, <1>11, AnswerQuiet DEF Present, MayCommand, MayCall, At
<1>. QED BY <1>3, <1>4, <1>5, <1>6, <1>7, <1>8, <1>9, <1>10, <1>11 DEF Method

LEMMA ContinueAnswers ==
  ASSUME CallInv, CallInv', SeenInv, AnswerInv, NEW t \in Threads, Continue(t)
  PROVE  AnswerInv'
<1>. USE DEF halVars, ghostVars, deviceVars, layerVars, targetVars, At
<1>q. \A p \in {"hotplug", "ended", "addLayer", "removeLayer", "mustValidate", "countTypes",
                "fillTypes", "accept", "present", "presentState", "post"} : p \in QuietPoints
  BY DEF QuietPoints, Points, LayerPoints, CommandPoints, DestructorPoints
<1>v. \A p \in {"hotplug", "ended", "addLayer", "removeLayer", "accept", "present",
                "presentState", "post", "idle", "clear"} :
          p \notin ValidatingPoints /\ p \notin FillingPoints
  BY DEF ValidatingPoints, FillingPoints
<1>1. CASE OnHotplug(t)
  BY <1>q, <1>v, <1>1, AnswerMove DEF OnHotplug, Validating
<1>2. CASE EndClient(t)
  BY <1>q, <1>v, <1>2, AnswerMove DEF EndClient, Validating
<1>3. CASE InsertNewLayer(t)
  BY <1>3, MarkAnswers DEF InsertNewLayer
<1>4. CASE AddLayerToResources(t)
  BY <1>q, <1>v, <1>4, AnswerMove DEF AddLayerToResources, Validating
<1>5. ASSUME NEW l \in LayerIds, ClearLayer(t, l)
      PROVE  AnswerInv'
  BY <1>5, EraseAnswers DEF ClearLayer
<1>6. CASE EraseLayerStep(t)
  BY <1>6, EraseLayerAnswers
<1>7. CASE RemoveLayerFromResources(t)
  BY <1>q, <1>v, <1>7, AnswerMove DEF RemoveLayerFromResources, Validating
<1>8. CASE MarkLayerDirty(t)
  <2>1. CASE call[t].at = "mark"
    BY <1>8, <2>1, MarkAnswers DEF MarkLayerDirty
  <2>2. CASE call[t].at = "unmark"
    BY <1>8, <2>2, UnmarkAnswers DEF MarkLayerDirty
  <2>. QED BY <1>8, <2>1, <2>2 DEF MarkLayerDirty
<1>9. CASE ModifiedStep(t)
  BY <1>9, ModifiedAnswers
<1>10. CASE FinalValidate(t)
  BY <1>10, CountAnswers DEF FinalValidate
<1>11. CASE ValidatedStep(t)
  BY <1>11, ValidatedAnswers
<1>12. CASE MustValidateStep(t)
  BY <1>q, <1>12, AnswerMove DEF MustValidateStep, ValidatingPoints, FillingPoints
<1>13. CASE TestValidated(t)
  <2>1. CASE call[t].at = "countTypes" /\ Goto(t, "countSize")
    BY <1>q, <1>13, <2>1, AnswerMove DEF TestValidated, ValidatingPoints, FillingPoints
  <2>2. CASE call[t].at = "fillTypes" /\ Goto(t, "fillArrays")
    BY <1>q, <1>13, <2>2, AnswerMove DEF TestValidated, ValidatingPoints, FillingPoints, Filling
  <2>3. CASE /\ Unvalidated /\ GoOnOrReturn(t, "accept")
             /\ call[t].at \in {"countTypes", "fillTypes"}
    BY <1>q, <1>v, <1>13, <2>3, AnswerMove DEF TestValidated, Unvalidated
  <2>. QED BY <1>13, <2>1, <2>2, <2>3 DEF TestValidated
<1>14. CASE CountSize(t)
  BY <1>14, CountSizeAnswers
<1>15. CASE FillArrays(t)
  BY <1>15, FillAnswers
<1>16. CASE FinalAccept(t)
  <2>1. CASE AcceptTest(t, call[t].client)
    BY <1>16, <2>1, AcceptTestAnswers DEF FinalAccept
  <2>2. CASE ~AcceptTest(t, call[t].client)
    BY <1>q, <1>v, <1>16, <2>2, AnswerMove DEF FinalAccept, Validating
  <2>. QED BY <2>1, <2>2
<1>17. CASE ClearDirtyStep(t)
  BY <1>17, ClearDirtyAnswers
<1>18. CASE AcceptedStep(t)
  BY <1>18, AcceptedAnswers
<1>19. CASE FinalPresent(t)
  <2>1. Goto(t, "ended") \/ Goto(t, "presentState")
    BY <1>19 DEF FinalPresent
  <2>. QED BY <1>q, <1>v, <1>19, <2>1, AnswerMove DEF FinalPresent, Validating
<1>20. CASE PresentTest(t)
  <2>1. \A u \in Threads : u # t => missed'[u] = missed[u]
    BY <1>20, DecidedOthers DEF PresentTest
  <2>2. Goto(t, "post") \/ GoOnOrReturn(t, "ended")
    BY <1>20 DEF PresentTest
  <2>. QED BY <1>q, <1>v, <1>20, <2>1, <2>2, AnswerMove DEF PresentTest, Validating
<1>21. CASE PostStep(t)
  BY <1>q, <1>v, <1>21, DecidedOthers, AnswerMove DEF PostStep, Post, Validating
<1>. QED BY <1>1, <1>2, <1>3, <1>4, <1>5, <1>6, <1>7, <1>8, <1>9, <1>10, <1>11, <1>12, <1>13,
        <1>14, <1>15, <1>16, <1>17, <1>18, <1>19, <1>20, <1>21 DEF Continue

LEMMA InitAnswers == Init => AnswerInv
<1>. SUFFICES ASSUME Init PROVE AnswerInv
  OBVIOUS
<1>1. \A t \in Threads : call[t].at = "idle"
  BY DEF Init, NoCall
<1>. QED BY <1>1
     DEF Init, DeviceInit, AnswerInv, MarksHaveLayers, AnswerFits, RoomForAll, AnswerStands,
         SettledWereTold, At

LEMMA NextAnswers == CallInv /\ CallInv' /\ SeenInv /\ AnswerInv /\ [Next]_vars => AnswerInv'
<1>. SUFFICES ASSUME CallInv, CallInv', SeenInv, AnswerInv, [Next]_vars PROVE AnswerInv'
  OBVIOUS
<1>1. ASSUME NEW c \in Clients, Connect(c)
      PROVE  AnswerInv'
  BY <1>1, AnswersStay DEF Connect, deviceVars, layerVars
<1>2. CASE UNCHANGED vars
  BY <1>2, AnswersStay DEF vars, deviceVars, ghostVars
<1>. QED BY <1>1, <1>2, MethodAnswers, ContinueAnswers DEF Next

LEMMA AnswerInvAlways == Spec => []AnswerInv
BY CallInvAlways, SeenInvAlways, InitAnswers, NextAnswers, PTL DEF Spec

\* The three calls of a validation give arrays that fit the dirty layers, or the
\* client cannot accept them: for any number of threads that create, destroy and
\* mark layers meanwhile, as long as clients do not overlap and no mark has
\* outlived its layer.
THEOREM AnswersFit == Spec => []AnswerFits
BY AnswerInvAlways, PTL DEF AnswerInv

\* An accept that nothing was marked under settles only layers the client was
\* told of, as long as clients do not overlap.
THEOREM SettledAreTold == Spec => []SettledWereTold
BY AnswerInvAlways, PTL DEF AnswerInv
=============================================================================
