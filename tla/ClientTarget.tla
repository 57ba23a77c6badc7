----------------------------- MODULE ClientTarget -----------------------------
(***************************************************************************)
(* The command engine of a client and what it keeps for its client: the    *)
(* buffers imported into the slots of the client target, the acquire       *)
(* fences that come with commands, and the handle the device posts.        *)
(* mCommandEngineMutex makes the commands of a client one sequence; here   *)
(* one client follows another without overlap (see ComposerHal for layers  *)
(* and overlap).  Other threads of the process open and close descriptors. *)
(***************************************************************************)
EXTENDS Hwc2Device

CONSTANTS
    Slots,         \* slots of the client target
    Buffers,       \* graphic buffers of the client
    NoBuffer,
    Fds,           \* descriptor numbers of the process
    NoFd,
    MaxClients     \* bound of the model on the clients ever created

ASSUME NoBufferAssumption == NoBuffer \notin Buffers
ASSUME NoFdAssumption == NoFd \notin Fds
ASSUME MaxClientsAssumption == MaxClients \in Nat \ {0}

VARIABLES
    pc,            \* where the command engine, or the destructor, is
    op,            \* the command under way
    mCurrentDisplay,
    mMustValidateDisplay,
    clients,       \* clients created so far
    status,        \* life of the last one: "none", "live" or "dying"
    registered,    \* do its resources know the primary display?
    slots,         \* the handle in each slot of its resources
    holds,         \* the buffer an imported handle names, NoBuffer if it is freed
    fds,           \* who has each descriptor
    wanted,        \* ghost: the last target of this client that was accepted
    overwritten    \* ghost: a refused target has replaced it in its slot

clientVars == <<mMustValidateDisplay, clients, status, registered>>
ghostVars == <<wanted, overwritten>>
vars == <<deviceVars, pc, op, mCurrentDisplay, clientVars, slots, holds, fds, ghostVars>>

Ops == [handle : Handles, replaced : Handles, fence : Fds \cup {NoFd},
        err : {"NONE", "BAD_DISPLAY", "NO_RESOURCES", "BAD_PARAMETER"}]
NoOp == [handle |-> NoTarget, replaced |-> NoTarget, fence |-> NoFd, err |-> "NONE"]

TypeOK ==
    /\ DeviceTypeOK
    /\ pc \in {"idle", "command", "discard", "setTarget", "settle", "post", "final", "free"}
    /\ op \in Ops
    /\ mCurrentDisplay \in Displays
    /\ mMustValidateDisplay \in BOOLEAN
    /\ clients \in 0..MaxClients
    /\ status \in {"none", "live", "dying"}
    /\ registered \in BOOLEAN
    /\ slots \in [Slots -> Handles]
    /\ holds \in [Handles -> Buffers \cup {NoBuffer}]
    /\ fds \in [Fds -> {"free", "engine", "other"}]
    /\ wanted \in Buffers \cup {NoBuffer}
    /\ overwritten \in BOOLEAN

Init ==
    /\ DeviceInit
    /\ pc = "idle"
    /\ op = NoOp
    /\ mCurrentDisplay = Primary
    /\ mMustValidateDisplay = TRUE
    /\ clients = 0
    /\ status = "none"
    /\ registered = FALSE
    /\ slots = [s \in Slots |-> NoTarget]
    /\ holds = [h \in Handles |-> NoBuffer]
    /\ fds = [f \in Fds |-> "free"]
    /\ wanted = NoBuffer
    /\ overwritten = FALSE

-----------------------------------------------------------------------------
Goto(point) == pc' = point

\* A fence read from the queue is a new descriptor, or none.
ReadFence(f) ==
    \/ f = NoFd /\ UNCHANGED fds
    \/ f \in Fds /\ fds[f] = "free" /\ fds' = [fds EXCEPT ![f] = "engine"]

\* close(f) frees the number, whoever has it by now.
Close(f) == fds' = [g \in Fds |-> IF g = f THEN "free" ELSE fds[g]]

\* Importing a buffer makes a new handle, at an address that is free.
Import(h, b) == h \in Targets /\ holds[h] = NoBuffer /\ holds' = [holds EXCEPT ![h] = b]
Free(handles) == holds' = [h \in Handles |-> IF h \in handles THEN NoBuffer ELSE holds[h]]

OtherThread ==
    /\ \E f \in Fds :
           \/ fds[f] = "free" /\ fds' = [fds EXCEPT ![f] = "other"]
           \/ fds[f] = "other" /\ fds' = [fds EXCEPT ![f] = "free"]
    /\ UNCHANGED <<deviceVars, pc, op, mCurrentDisplay, clientVars, slots, holds, ghostVars>>

-----------------------------------------------------------------------------
(* Clients.                                                                *)

\* A new client has a command engine and resources of its own; the HAL and the
\* device stay as the previous client left them.
Connect ==
    /\ status = "none"
    /\ clients < MaxClients              \* bound
    /\ clients' = clients + 1
    /\ status' = "live"
    /\ registered' = FALSE
    /\ mCurrentDisplay' = Primary
    /\ wanted' = NoBuffer
    /\ overwritten' = FALSE
    /\ UNCHANGED <<deviceVars, pc, op, mMustValidateDisplay, slots, holds, fds>>

\* registerCallback, beside any command: the hotplug of the primary display
\* makes it known to the resources.
Register ==
    /\ status = "live"
    /\ ~registered
    /\ registered' = TRUE
    /\ mMustValidateDisplay' = TRUE
    /\ UNCHANGED <<deviceVars, pc, op, mCurrentDisplay, clients, status, slots, holds, fds,
                   ghostVars>>

\* The last reference goes when no command runs.
LastReference ==
    /\ status = "live"
    /\ pc = "idle"
    /\ status' = "dying"
    /\ Goto(IF registered THEN "final" ELSE "free")
    /\ UNCHANGED <<deviceVars, op, mCurrentDisplay, mMustValidateDisplay, clients, registered,
                   slots, holds, fds, ghostVars>>

\* (mutant) The resources are cleared before the final present.
FinalPresentAfterFree ==
    /\ pc = "final"
    /\ mState' = "VALIDATED"
    /\ mMustValidateDisplay' = FALSE
    /\ posted' = mBuffer
    /\ Free({slots[s] : s \in Slots})
    /\ Goto("post")
    /\ UNCHANGED <<layerVars, mBuffer, op, mCurrentDisplay, clients, status, registered,
                   slots, fds, ghostVars>>

\* validateDisplay, acceptDisplayChanges and presentDisplay of the destructor.
FinalPresent ==
    /\ pc = "final"
    /\ mState' = "VALIDATED"
    /\ mMustValidateDisplay' = FALSE
    /\ posted' = mBuffer
    /\ Goto("post")
    /\ UNCHANGED <<layerVars, mBuffer, op, mCurrentDisplay, clients, status, registered,
                   slots, holds, fds, ghostVars>>

\* (mutant) The slots are emptied, the buffers in them stay imported.
ResetResourcesLeaks ==
    /\ pc = "free"
    /\ slots' = [s \in Slots |-> NoTarget]
    /\ status' = "none"
    /\ Goto("idle")
    /\ UNCHANGED <<deviceVars, op, mCurrentDisplay, mMustValidateDisplay, clients, registered,
                   holds, fds, ghostVars>>

\* The resources free the buffers of all slots.  Nobody tells the device.
ResetResources ==
    /\ pc = "free"
    /\ Free({slots[s] : s \in Slots})
    /\ slots' = [s \in Slots |-> NoTarget]
    /\ status' = "none"
    /\ Goto("idle")
    /\ UNCHANGED <<deviceVars, op, mCurrentDisplay, mMustValidateDisplay, clients, registered,
                   fds, ghostVars>>

-----------------------------------------------------------------------------
(* Batches.                                                                *)

\* execute takes the commands of the queue one by one, and stops at the end or
\* at the first that does not parse; executeCommands then resets the queues but
\* not mCurrentDisplay.  The commands about layers change nothing that is modelled
\* here.
Execute ==
    /\ status = "live"
    /\ \/ pc = "idle" /\ Goto("command")
       \/ pc = "command" /\ Goto("idle")
    /\ UNCHANGED <<deviceVars, op, mCurrentDisplay, clientVars, slots, holds, fds, ghostVars>>

SelectDisplay(d) ==
    /\ pc = "command"
    /\ mCurrentDisplay' = d
    /\ UNCHANGED <<deviceVars, pc, op, clientVars, slots, holds, fds, ghostVars>>

\* SET_OUTPUT_BUFFER and SET_LAYER_BUFFER only have a fence to close.
DiscardFence(f) ==
    /\ \/ pc = "command" /\ ReadFence(f) /\ op' = [NoOp EXCEPT !.fence = f] /\ Goto("discard")
       \/ pc = "discard" /\ f = op.fence /\ Close(f) /\ op' = NoOp /\ Goto("command")
    /\ UNCHANGED <<deviceVars, mCurrentDisplay, clientVars, slots, holds, ghostVars>>

-----------------------------------------------------------------------------
(* SET_CLIENT_TARGET.                                                      *)

\* getDisplayClientTarget: the buffer in slot s, or a new buffer b for slot s.
GetClientTarget(s, b, f) ==
    /\ pc = "command"
    /\ ReadFence(f)
    /\ \/ /\ ~registered \/ mCurrentDisplay # Primary
          /\ op' = [NoOp EXCEPT !.fence = f, !.err = "BAD_DISPLAY"]
          /\ Goto("settle")
          /\ UNCHANGED <<slots, holds>>
       \/ /\ registered /\ mCurrentDisplay = Primary
          /\ op' = [NoOp EXCEPT !.fence = f, !.err = "NO_RESOURCES"]    \* the import fails
          /\ Goto("settle")
          /\ UNCHANGED <<slots, holds>>
       \/ /\ registered /\ mCurrentDisplay = Primary
          /\ op' = [NoOp EXCEPT !.fence = f, !.handle = slots[s]]       \* useCache
          /\ Goto("setTarget")
          /\ UNCHANGED <<slots, holds>>
       \/ /\ registered /\ mCurrentDisplay = Primary
          /\ \E h \in Targets :
                 /\ Import(h, b)
                 /\ slots' = [slots EXCEPT ![s] = h]
                 /\ op' = [NoOp EXCEPT !.fence = f, !.handle = h, !.replaced = slots[s]]
          /\ Goto("setTarget")
    /\ UNCHANGED <<deviceVars, mCurrentDisplay, clientVars, ghostVars>>

\* The device waits for the fence and closes it before it looks at the rest.
SetTarget(dataspace) ==
    /\ pc = "setTarget"
    /\ Close(op.fence)
    /\ \E err \in {"NONE", "BAD_PARAMETER"} :
           /\ SetClientTarget(mCurrentDisplay, op.handle, dataspace, err)
           /\ op' = [op EXCEPT !.err = err]
           /\ IF err = "NONE"
              THEN wanted' = holds[op.handle] /\ overwritten' = FALSE
              ELSE /\ overwritten' = (overwritten \/ op.replaced = mBuffer)
                   /\ UNCHANGED wanted
    /\ Goto("settle")
    /\ UNCHANGED <<mCurrentDisplay, clientVars, slots, holds>>

\* (mutant) The fence is taken to be the device's on every path.
ClosesFenceNever == FALSE

\* (mutant) closeFence is never cleared.
ClosesFenceAlways == TRUE

\* closeFence of executeSetClientTarget.
ClosesFence == op.err # "NONE"

\* After an error the engine closes the fence, also when the device has done so;
\* the handle that was in the slot is freed when the command is over.
SettleTarget ==
    /\ pc = "settle"
    /\ IF ClosesFence THEN Close(op.fence) ELSE UNCHANGED fds
    /\ Free({op.replaced})
    /\ op' = NoOp
    /\ Goto("command")
    /\ UNCHANGED <<deviceVars, mCurrentDisplay, clientVars, slots, ghostVars>>

-----------------------------------------------------------------------------
(* VALIDATE_DISPLAY, PRESENT_OR_VALIDATE_DISPLAY and PRESENT_DISPLAY, for  *)
(* a client without layers.                                                *)

Validate ==
    /\ pc = "command"
    /\ IF mCurrentDisplay = Primary
       THEN SetState(ValidatedState(Cardinality(mDirtyLayers)))
       ELSE UNCHANGED deviceVars
    /\ mMustValidateDisplay' = FALSE
    /\ UNCHANGED <<pc, op, mCurrentDisplay, clients, status, registered, slots, holds, fds,
                   ghostVars>>

Present ==
    /\ pc = "command"
    /\ ~mMustValidateDisplay
    /\ mCurrentDisplay = Primary
    /\ Presentable
    /\ Post
    /\ Goto("post")
    /\ UNCHANGED <<op, mCurrentDisplay, clientVars, slots, holds, fds, ghostVars>>

\* hwc_post returns, to the engine or to the destructor.
EndPost ==
    /\ pc = "post"
    /\ Goto(IF status = "dying" THEN "free" ELSE "command")
    /\ UNCHANGED <<deviceVars, op, mCurrentDisplay, clientVars, slots, holds, fds, ghostVars>>

-----------------------------------------------------------------------------
Next ==
    \/ OtherThread
    \/ Connect
    \/ Register
    \/ LastReference
    \/ FinalPresent
    \/ ResetResources
    \/ Execute
    \/ \E d \in Displays : SelectDisplay(d)
    \/ \E f \in Fds \cup {NoFd} :
           \/ DiscardFence(f)
           \/ \E s \in Slots, b \in Buffers : GetClientTarget(s, b, f)
    \/ \E dataspace \in Dataspaces : SetTarget(dataspace)
    \/ SettleTarget
    \/ Validate
    \/ Present
    \/ EndPost

Spec == Init /\ [][Next]_vars

-----------------------------------------------------------------------------
(* Properties.                                                             *)

\* A post reads the last target that was accepted from this client, and the
\* handle is still imported, whatever was set, replaced, refused or cleared in
\* between; except that a refused target frees the accepted one if it came for
\* the same slot (then the device posts a freed handle), and that a client which
\* never set a target posts what the previous one left behind.
PostsWanted ==
    pc = "post" /\ wanted # NoBuffer /\ ~overwritten => holds[mBuffer] = wanted

\* A buffer that no slot holds any more is freed, and no slot holds a freed one:
\* replacing, refusing and clearing neither leak an import nor free one twice.
SlotsAccounted ==
    \A h \in Targets :
        holds[h] # NoBuffer <=> (\E s \in Slots : slots[s] = h) \/ op.replaced = h

\* Every fence that came with a command is closed when the command is over,
\* whichever of the resources, the device and the engine ended it.
FencesSettled ==
    pc \notin {"discard", "setTarget", "settle"} => \A f \in Fds : fds[f] # "engine"

\* The engine closes a descriptor of somebody else in one case only: the device
\* has refused a target, and the number of the fence was given out again.
ForeignFdsKept ==
    [][\A f \in Fds : fds[f] = "other" /\ fds'[f] # "other" /\ pc' # pc
          => pc = "settle" /\ op.err = "BAD_PARAMETER"]_vars
=============================================================================
