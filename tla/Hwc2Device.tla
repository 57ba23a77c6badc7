----------------------------- MODULE Hwc2Device -----------------------------
(***************************************************************************)
(* The display part of class Hwc2Device: a set of layers, the set of       *)
(* layers whose composition type the device overrides ("dirty"), the       *)
(* validation state and the client target.                                 *)
(*                                                                         *)
(* The class has no lock and its calls come from several binder threads,   *)
(* so what is defined here are the single statements that touch a shared   *)
(* member, each once; the calls are the sequences of them that ComposerHal *)
(* lets the threads run, in any interleaving.  Taken as indivisible: one   *)
(* operation on one set, one access to the state.  (That two of them at    *)
(* the very same moment corrupt an unordered_set is not modelled.)         *)
(***************************************************************************)
EXTENDS Naturals, FiniteSets

CONSTANTS
    Displays,      \* the display ids a caller may pass
    Primary,       \* display 0, the only display of the device
    Targets,       \* buffer handles a caller may pass as client target
    NoTarget,      \* the null handle
    MaxLayerId     \* bound of the model on mNextLayerId (uint64_t in the code)

ASSUME PrimaryAssumption == Primary \in Displays
ASSUME TargetAssumption == NoTarget \notin Targets
ASSUME LayerBoundAssumption == MaxLayerId \in Nat

VARIABLES
    mState,        \* State of the display
    mNextLayerId,  \* the last layer id handed out
    mLayers,       \* the layers that exist
    mDirtyLayers,  \* the layers the device will report as changed
    mBuffer,       \* the client target
    posted         \* the handle given to the last hwc_post

deviceVars == <<mState, mNextLayerId, mLayers, mDirtyLayers, mBuffer, posted>>
layerVars == <<mNextLayerId, mLayers, mDirtyLayers>>
targetVars == <<mBuffer, posted>>

States == {"MODIFIED", "VALIDATED_WITH_CHANGES", "VALIDATED"}
LayerIds == 0..MaxLayerId
Handles == Targets \cup {NoTarget}
CompositionTypes == {"CLIENT", "DEVICE"}
Dataspaces == {"UNKNOWN", "OTHER"}

DeviceTypeOK ==
    /\ mState \in States
    /\ mNextLayerId \in LayerIds
    /\ mLayers \subseteq LayerIds
    /\ mDirtyLayers \subseteq LayerIds
    /\ mBuffer \in Handles
    /\ posted \in Handles

DeviceInit ==
    /\ mState = "MODIFIED"
    /\ mNextLayerId = 0
    /\ mLayers = {}
    /\ mDirtyLayers = {}
    /\ mBuffer = NoTarget
    /\ posted = NoTarget

-----------------------------------------------------------------------------
(* The validation state.                                                   *)

SetState(s) == mState' = s /\ UNCHANGED <<layerVars, targetVars>>

\* (mutant) A change of the layers leaves the validation in force.
MarkModifiedForgotten == UNCHANGED deviceVars

\* What createLayer, destroyLayer and setLayerCompositionType end with.
MarkModified == SetState("MODIFIED")

\* The state in which a validation that found n dirty layers leaves the display.
ValidatedState(n) == IF n > 0 THEN "VALIDATED_WITH_CHANGES" ELSE "VALIDATED"

\* (mutant) Any validation is enough to present.
PresentableUnaccepted == mState # "MODIFIED"

\* presentDisplay goes on to hwc_post only in this state.
Presentable == mState = "VALIDATED"

\* acceptDisplayChanges and getChangedCompositionTypes refuse in this state.
Unvalidated == mState = "MODIFIED"

-----------------------------------------------------------------------------
(* The layers.                                                             *)

\* A new id enters mLayers; nobody else knows it yet.
NewLayer(l) ==
    /\ mNextLayerId < MaxLayerId        \* bound of the model
    /\ l = mNextLayerId + 1
    /\ mNextLayerId' = l
    /\ mLayers' = mLayers \cup {l}
    /\ UNCHANGED <<mState, mDirtyLayers, targetVars>>

InsertDirty(l) ==
    /\ mDirtyLayers' = mDirtyLayers \cup {l}
    /\ UNCHANGED <<mState, mNextLayerId, mLayers, targetVars>>

EraseDirty(l) ==
    /\ mDirtyLayers' = mDirtyLayers \ {l}
    /\ UNCHANGED <<mState, mNextLayerId, mLayers, targetVars>>

\* (mutant) A call that reports success leaves the layer where it is.
EraseLayerForgotten(l) == UNCHANGED deviceVars

EraseLayer(l) ==
    /\ mLayers' = mLayers \ {l}
    /\ UNCHANGED <<mState, mNextLayerId, mDirtyLayers, targetVars>>

ClearDirtyLayers ==
    /\ mDirtyLayers' = {}
    /\ UNCHANGED <<mState, mNextLayerId, mLayers, targetVars>>

MinOf(m, n) == IF m <= n THEN m ELSE n

\* getChangedCompositionTypes into arrays of cap elements: as many of the
\* dirty layers as fit, in the order of the hash set.
ChangedTypes(cap) ==
    {changed \in SUBSET mDirtyLayers :
        Cardinality(changed) = MinOf(cap, Cardinality(mDirtyLayers))}

-----------------------------------------------------------------------------
(* The client target, which only commands touch.                           *)

\* setClientTarget touches nothing but mBuffer, and that as the last thing.
SetClientTarget(d, target, dataspace, err) ==
    \/ /\ d # Primary
       /\ err = "BAD_DISPLAY"
       /\ UNCHANGED deviceVars
    \/ /\ d = Primary
       /\ dataspace # "UNKNOWN"
       /\ err = "BAD_PARAMETER"
       /\ UNCHANGED deviceVars
    \/ /\ d = Primary
       /\ dataspace = "UNKNOWN"
       /\ err = "NONE"
       /\ mBuffer' = target
       /\ UNCHANGED <<mState, layerVars, posted>>

\* The handle goes to hwc_post.
Post == posted' = mBuffer /\ UNCHANGED <<mState, layerVars, mBuffer>>
=============================================================================
