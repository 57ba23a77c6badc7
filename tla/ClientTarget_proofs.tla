-------------------------- MODULE ClientTarget_proofs --------------------------
(***************************************************************************)
(* Proofs about ClientTarget for any number of clients, slots, handles,    *)
(* buffers and descriptors: who owns an imported handle and a fence at     *)
(* each point of a command.                                                *)
(***************************************************************************)
EXTENDS ClientTarget, TLAPS

\* Points at which a command keeps something in op.
OpPoints == {"discard", "setTarget", "settle"}

\* Which points belong to which time of a client's life.
StatusAt ==
    /\ pc \in {"command"} \cup OpPoints => status = "live"
    /\ pc \in {"final", "free"} => status = "dying"
    /\ pc = "post" => status # "none"

\* Between commands op is empty; only SET_CLIENT_TARGET has handles in it.
OpAt ==
    /\ pc \notin OpPoints => op = NoOp
    /\ pc = "discard" => op.handle = NoTarget /\ op.replaced = NoTarget

\* A handle is in one slot at most, and the one taken out of its slot in none.
SlotsDistinct ==
    /\ \A s, u \in Slots : slots[s] = slots[u] /\ slots[s] # NoTarget => s = u
    /\ op.replaced # NoTarget => \A s \in Slots : slots[s] # op.replaced
    /\ op.handle # NoTarget => \E s \in Slots : slots[s] = op.handle
    /\ holds[NoTarget] = NoBuffer

\* The only descriptor of the engine is the fence of the command under way; it is open
\* until the device, or after an error the engine, closes it.
FenceOpen == pc \in {"discard", "setTarget"} \/ (pc = "settle" /\ op.err \in {"BAD_DISPLAY", "NO_RESOURCES"})
FenceHeld ==
    /\ \A f \in Fds : fds[f] = "engine" => FenceOpen /\ f = op.fence
    /\ FenceOpen /\ op.fence # NoFd => fds[op.fence] = "engine"

\* The accepted target stays imported as long as its client lives, and is not the
\* one that the end of the command frees.
Kept == status # "none" /\ wanted # NoBuffer /\ ~overwritten
TargetKept ==
    /\ Kept => holds[mBuffer] = wanted
    /\ Kept /\ pc = "settle" => op.replaced # mBuffer

HandleInv == StatusAt /\ OpAt /\ SlotsDistinct /\ SlotsAccounted
TargetInv == TypeOK /\ HandleInv /\ FenceHeld /\ TargetKept

LEMMA TargetInit == Init => TargetInv
<1>. SUFFICES ASSUME Init PROVE TargetInv
  OBVIOUS
<1>. USE PrimaryAssumption, TargetAssumption, LayerBoundAssumption, NoBufferAssumption,
         NoFdAssumption, MaxClientsAssumption DEF Init, DeviceInit
<1>1. TypeOK
  <2>1. DeviceTypeOK
    BY DEF DeviceTypeOK, States, LayerIds, Handles
  <2>2. op \in Ops
    BY DEF Ops, NoOp, Handles
  <2>3. mMustValidateDisplay \in BOOLEAN /\ registered \in BOOLEAN /\ overwritten \in BOOLEAN
    OBVIOUS
  <2>4. slots \in [Slots -> Handles] /\ holds \in [Handles -> Buffers \cup {NoBuffer}]
          /\ fds \in [Fds -> {"free", "engine", "other"}]
    BY DEF Handles
  <2>. QED  BY <2>1, <2>2, <2>3, <2>4 DEF TypeOK
<1>2. HandleInv
  BY DEF HandleInv, StatusAt, OpAt, OpPoints, NoOp, SlotsDistinct, SlotsAccounted, Handles
<1>3. FenceHeld /\ TargetKept
  BY DEF FenceHeld, FenceOpen, TargetKept, Kept, NoOp
<1>. QED  BY <1>1, <1>2, <1>3 DEF TargetInv

-----------------------------------------------------------------------------
\* Every step keeps the types.
LEMMA TargetTypes ==
  ASSUME TypeOK, OpAt, [Next]_vars
  PROVE  TypeOK'
<1>. USE PrimaryAssumption, TargetAssumption, LayerBoundAssumption, MaxClientsAssumption
     DEF TypeOK, DeviceTypeOK, Goto, deviceVars, layerVars, targetVars, clientVars, ghostVars
<1>1. CASE OtherThread
  BY <1>1 DEF OtherThread
<1>2. CASE Connect
  <2>1. clients' \in 0..MaxClients
    BY <1>2 DEF Connect
  <2>2. registered' \in BOOLEAN /\ overwritten' \in BOOLEAN /\ wanted' \in Buffers \cup {NoBuffer}
    BY <1>2 DEF Connect
  <2>. QED  BY <1>2, <2>1, <2>2 DEF Connect
<1>3. CASE Register
  BY <1>3 DEF Register
<1>4. CASE LastReference
  BY <1>4 DEF LastReference
<1>5. CASE FinalPresent
  BY <1>5 DEF FinalPresent, States
<1>6. CASE ResetResources
  BY <1>6 DEF ResetResources, Free, Handles
<1>7. CASE Execute
  BY <1>7 DEF Execute
<1>8. ASSUME NEW d \in Displays, SelectDisplay(d)
      PROVE  TypeOK'
  BY <1>8 DEF SelectDisplay
<1>9. CASE UNCHANGED vars
  BY <1>9 DEF vars
<1>10. ASSUME NEW f \in Fds \cup {NoFd}, DiscardFence(f)
       PROVE  TypeOK'
  BY <1>10 DEF DiscardFence, ReadFence, Close, Ops, NoOp, Handles
<1>11. ASSUME NEW f \in Fds \cup {NoFd}, NEW s \in Slots, NEW b \in Buffers,
              GetClientTarget(s, b, f)
       PROVE  TypeOK'
  <2>1. fds' \in [Fds -> {"free", "engine", "other"}]
    BY <1>11 DEF GetClientTarget, ReadFence
  <2>2. op' \in Ops
    <3>1. ASSUME NEW h \in Handles, NEW r \in Handles,
                 NEW err \in {"NONE", "BAD_DISPLAY", "NO_RESOURCES"}
          PROVE  [handle |-> h, replaced |-> r, fence |-> f, err |-> err] \in Ops
      BY DEF Ops
    <3>2. slots[s] \in Handles /\ NoTarget \in Handles /\ Targets \subseteq Handles
      BY DEF Handles
    <3>3. PICK h \in Handles, r \in Handles, err \in {"NONE", "BAD_DISPLAY", "NO_RESOURCES"} :
              op' = [handle |-> h, replaced |-> r, fence |-> f, err |-> err]
      BY <1>11, <3>2 DEF GetClientTarget, NoOp
    <3>4. [handle |-> h, replaced |-> r, fence |-> f, err |-> err] \in Ops
      BY <3>1
    <3>. QED  BY <3>3, <3>4
  <2>3. slots' \in [Slots -> Handles] /\ holds' \in [Handles -> Buffers \cup {NoBuffer}]
    <3>1. CASE UNCHANGED <<slots, holds>>
      BY <3>1
    <3>2. ASSUME NEW h \in Targets, Import(h, b), slots' = [slots EXCEPT ![s] = h]
          PROVE  slots' \in [Slots -> Handles] /\ holds' \in [Handles -> Buffers \cup {NoBuffer}]
      BY <3>2 DEF Import, Handles
    <3>. QED  BY <1>11, <3>1, <3>2 DEF GetClientTarget
  <2>4. pc' \in {"settle", "setTarget"}
    BY <1>11 DEF GetClientTarget
  <2>. QED  BY <1>11, <2>1, <2>2, <2>3, <2>4 DEF GetClientTarget
<1>12. ASSUME NEW dataspace \in Dataspaces, SetTarget(dataspace)
       PROVE  TypeOK'
  <2>1. op' \in Ops
    BY <1>12 DEF SetTarget, Ops
  <2>2. op.handle \in Handles
    BY DEF Ops
  <2>3. fds' \in [Fds -> {"free", "engine", "other"}]
    BY <1>12 DEF SetTarget, Close
  <2>4. DeviceTypeOK'
    BY <1>12, <2>2 DEF SetTarget, SetClientTarget
  <2>5. wanted' \in Buffers \cup {NoBuffer} /\ overwritten' \in BOOLEAN
    BY <1>12, <2>2 DEF SetTarget
  <2>. QED  BY <1>12, <2>1, <2>3, <2>4, <2>5 DEF SetTarget
<1>13. CASE SettleTarget
  <2>1. fds' \in [Fds -> {"free", "engine", "other"}]
    BY <1>13 DEF SettleTarget, Close
  <2>2. op' \in Ops
    BY <1>13 DEF SettleTarget, Ops, NoOp, Handles
  <2>. QED  BY <1>13, <2>1, <2>2 DEF SettleTarget, Free
<1>14. CASE Validate
  BY <1>14 DEF Validate, SetState, ValidatedState, States
<1>15. CASE Present
  BY <1>15 DEF Present, Post
<1>16. CASE EndPost
  BY <1>16 DEF EndPost
<1>. QED
  BY <1>1, <1>2, <1>3, <1>4, <1>5, <1>6, <1>7, <1>8, <1>9, <1>10, <1>11, <1>12, <1>13, <1>14,
     <1>15, <1>16 DEF Next

-----------------------------------------------------------------------------
\* Steps that leave op, slots and handles alone.
LEMMA HandlesUntouched ==
  ASSUME HandleInv, StatusAt', OpAt', UNCHANGED <<op, slots, holds>>
  PROVE  HandleInv'
BY DEF HandleInv, SlotsDistinct, SlotsAccounted

\* Every step keeps the account of the handles.
LEMMA HandlesKept ==
  ASSUME TypeOK, HandleInv, [Next]_vars
  PROVE  HandleInv'
<1>. USE TargetAssumption, NoBufferAssumption DEF Goto, clientVars, OpPoints
<1>0. StatusAt /\ OpAt /\ SlotsDistinct /\ SlotsAccounted
  BY DEF HandleInv
<1>1. CASE OtherThread
  <2>1. StatusAt' /\ OpAt' /\ UNCHANGED <<op, slots, holds>>
    BY <1>0, <1>1 DEF OtherThread, StatusAt, OpAt
  <2>. QED  BY <2>1, HandlesUntouched
<1>2. CASE Connect \/ Register \/ LastReference
  <2>1. StatusAt' /\ OpAt' /\ UNCHANGED <<op, slots, holds>>
    BY <1>0, <1>2 DEF Connect, Register, LastReference, StatusAt, OpAt, TypeOK
  <2>. QED  BY <2>1, HandlesUntouched
<1>3. CASE FinalPresent \/ EndPost \/ Present \/ Validate
  <2>1. StatusAt' /\ OpAt' /\ UNCHANGED <<op, slots, holds>>
    BY <1>0, <1>3 DEF FinalPresent, EndPost, Present, Validate, StatusAt, OpAt, TypeOK
  <2>. QED  BY <2>1, HandlesUntouched
<1>4. CASE Execute \/ UNCHANGED vars
  <2>1. StatusAt' /\ OpAt' /\ UNCHANGED <<op, slots, holds>>
    BY <1>0, <1>4 DEF Execute, vars, StatusAt, OpAt
  <2>. QED  BY <2>1, HandlesUntouched
<1>5. ASSUME NEW d \in Displays, SelectDisplay(d)
      PROVE  HandleInv'
  <2>1. StatusAt' /\ OpAt' /\ UNCHANGED <<op, slots, holds>>
    BY <1>0, <1>5 DEF SelectDisplay, StatusAt, OpAt
  <2>. QED  BY <2>1, HandlesUntouched
<1>6. CASE ResetResources
  <2>1. op = NoOp /\ op' = NoOp
    BY <1>0, <1>6 DEF ResetResources, OpAt
  <2>2. slots' = [s \in Slots |-> NoTarget]
    BY <1>6 DEF ResetResources
  <2>3. \A h \in Handles : holds'[h] = NoBuffer
    BY <1>0, <1>6, <2>1 DEF ResetResources, Free, SlotsAccounted, SlotsDistinct, NoOp, Handles
  <2>4. SlotsDistinct' /\ SlotsAccounted'
    BY <2>1, <2>2, <2>3 DEF SlotsDistinct, SlotsAccounted, NoOp, Handles
  <2>5. StatusAt' /\ OpAt'
    BY <1>6, <2>1 DEF ResetResources, StatusAt, OpAt
  <2>. QED  BY <2>4, <2>5 DEF HandleInv
<1>7. ASSUME NEW f \in Fds \cup {NoFd}, DiscardFence(f)
      PROVE  HandleInv'
  <2>1. op.handle = NoTarget /\ op.replaced = NoTarget
    BY <1>0, <1>7 DEF DiscardFence, OpAt, NoOp
  <2>2. op'.handle = NoTarget /\ op'.replaced = NoTarget /\ UNCHANGED <<slots, holds>>
    BY <1>7 DEF DiscardFence, NoOp
  <2>3. StatusAt' /\ OpAt'
    BY <1>0, <1>7, <2>2 DEF DiscardFence, StatusAt, OpAt
  <2>. QED  BY <1>0, <2>1, <2>2, <2>3 DEF HandleInv, SlotsDistinct, SlotsAccounted
<1>8. ASSUME NEW f \in Fds \cup {NoFd}, NEW s \in Slots, NEW b \in Buffers,
             GetClientTarget(s, b, f)
      PROVE  HandleInv'
  <2>0. pc = "command" /\ pc' \in {"settle", "setTarget"} /\ UNCHANGED status
    BY <1>8 DEF GetClientTarget
  <2>1. op.handle = NoTarget /\ op.replaced = NoTarget
    BY <1>0, <2>0 DEF OpAt, NoOp
  <2>2. StatusAt' /\ OpAt'
    BY <1>0, <2>0 DEF StatusAt, OpAt
  <2>3. CASE op'.handle \in {NoTarget, slots[s]} /\ op'.replaced = NoTarget
               /\ UNCHANGED <<slots, holds>>
    BY <1>0, <2>1, <2>2, <2>3 DEF HandleInv, SlotsDistinct, SlotsAccounted
  <2>4. ASSUME NEW h \in Targets, Import(h, b), slots' = [slots EXCEPT ![s] = h],
               op'.handle = h, op'.replaced = slots[s]
        PROVE  SlotsDistinct' /\ SlotsAccounted'
    <3>1. \A u \in Slots : slots[u] # h
      BY <1>0, <2>4 DEF Import, SlotsAccounted
    <3>2. slots'[s] = h /\ \A u \in Slots \ {s} : slots'[u] = slots[u]
      BY <2>4 DEF TypeOK
    <3>3. holds'[h] = b /\ \A g \in Handles \ {h} : holds'[g] = holds[g]
      BY <2>4 DEF TypeOK, Import, Handles
    <3>4. h # NoTarget /\ b # NoBuffer
      OBVIOUS
    <3>5. SlotsDistinct'
      BY <1>0, <2>4, <3>1, <3>2, <3>3, <3>4 DEF SlotsDistinct, Handles
    <3>6. ASSUME NEW g \in Targets
          PROVE  holds'[g] # NoBuffer <=> (\E u \in Slots : slots'[u] = g) \/ op'.replaced = g
      <4>1. CASE g = h
        BY <3>2, <3>3, <3>4, <4>1
      <4>2. CASE g # h
        <5>1. holds'[g] # NoBuffer <=> \E u \in Slots : slots[u] = g
          BY <1>0, <2>1, <3>3, <4>2 DEF SlotsAccounted, Handles
        <5>. QED  BY <2>4, <3>2, <4>2, <5>1
      <4>. QED  BY <4>1, <4>2
    <3>7. SlotsAccounted'
      BY <3>6 DEF SlotsAccounted
    <3>. QED  BY <3>5, <3>7
  <2>5. \/ op'.handle \in {NoTarget, slots[s]} /\ op'.replaced = NoTarget
               /\ UNCHANGED <<slots, holds>>
        \/ \E h \in Targets : /\ Import(h, b) /\ slots' = [slots EXCEPT ![s] = h]
                              /\ op'.handle = h /\ op'.replaced = slots[s]
    BY <1>8 DEF GetClientTarget, NoOp
  <2>. QED  BY <2>2, <2>3, <2>4, <2>5 DEF HandleInv
<1>9. ASSUME NEW dataspace \in Dataspaces, SetTarget(dataspace)
      PROVE  HandleInv'
  <2>1. op'.handle = op.handle /\ op'.replaced = op.replaced /\ UNCHANGED <<slots, holds>>
    BY <1>9 DEF SetTarget, TypeOK, Ops
  <2>2. StatusAt' /\ OpAt'
    BY <1>0, <1>9 DEF SetTarget, StatusAt, OpAt
  <2>. QED  BY <1>0, <2>1, <2>2 DEF HandleInv, SlotsDistinct, SlotsAccounted
<1>10. CASE SettleTarget
  <2>1. op' = NoOp /\ UNCHANGED slots
    BY <1>10 DEF SettleTarget
  <2>2. StatusAt' /\ OpAt'
    BY <1>0, <1>10 DEF SettleTarget, StatusAt, OpAt
  <2>3. \A h \in Handles : holds'[h] = IF h = op.replaced THEN NoBuffer ELSE holds[h]
    BY <1>10 DEF SettleTarget, Free
  <2>4. SlotsDistinct' /\ SlotsAccounted'
    BY <1>0, <2>1, <2>3 DEF SlotsDistinct, SlotsAccounted, NoOp, Handles
  <2>. QED  BY <2>2, <2>4 DEF HandleInv
<1>. QED
  BY <1>1, <1>2, <1>3, <1>4, <1>5, <1>6, <1>7, <1>8, <1>9, <1>10 DEF Next
-----------------------------------------------------------------------------
\* Every step keeps the account of the fences.
LEMMA FencesKept ==
  ASSUME TypeOK, OpAt, FenceHeld, [Next]_vars
  PROVE  FenceHeld'
<1>. USE NoFdAssumption DEF Goto, clientVars, OpPoints, FenceOpen
<1>1. CASE OtherThread
  <2>1. UNCHANGED <<pc, op>>
    BY <1>1 DEF OtherThread
  <2>2. \A f \in Fds : fds'[f] = "engine" <=> fds[f] = "engine"
    BY <1>1 DEF OtherThread, TypeOK
  <2>3. op.fence \in Fds \cup {NoFd}
    BY DEF TypeOK, Ops
  <2>. QED  BY <2>1, <2>2, <2>3 DEF FenceHeld
<1>2. CASE Connect \/ Register \/ LastReference
  BY <1>2 DEF Connect, Register, LastReference, FenceHeld
<1>3. CASE FinalPresent \/ EndPost \/ Present \/ Validate
  BY <1>3 DEF FinalPresent, EndPost, Present, Validate, FenceHeld
<1>4. CASE Execute \/ ResetResources \/ UNCHANGED vars
  BY <1>4 DEF Execute, ResetResources, vars, FenceHeld
<1>5. ASSUME NEW d \in Displays, SelectDisplay(d)
      PROVE  FenceHeld'
  BY <1>5 DEF SelectDisplay, FenceHeld
<1>6. ASSUME NEW f \in Fds \cup {NoFd}, DiscardFence(f)
      PROVE  FenceHeld'
  <2>1. CASE pc = "command"
    BY <1>6, <2>1 DEF DiscardFence, ReadFence, FenceHeld, TypeOK, NoOp
  <2>2. CASE pc = "discard"
    BY <1>6, <2>2 DEF DiscardFence, Close, FenceHeld, TypeOK
  <2>. QED  BY <1>6, <2>1, <2>2 DEF DiscardFence
<1>7. ASSUME NEW f \in Fds \cup {NoFd}, NEW s \in Slots, NEW b \in Buffers,
             GetClientTarget(s, b, f)
      PROVE  FenceHeld'
  <2>1. pc = "command" /\ ReadFence(f)
    BY <1>7 DEF GetClientTarget
  <2>2. /\ op'.fence = f
        /\ pc' = "setTarget" \/ (pc' = "settle" /\ op'.err \in {"BAD_DISPLAY", "NO_RESOURCES"})
    BY <1>7 DEF GetClientTarget, NoOp
  <2>. QED  BY <2>1, <2>2 DEF ReadFence, FenceHeld, TypeOK
<1>8. ASSUME NEW dataspace \in Dataspaces, SetTarget(dataspace)
      PROVE  FenceHeld'
  <2>1. pc = "setTarget" /\ pc' = "settle" /\ Close(op.fence)
    BY <1>8 DEF SetTarget
  <2>2. op'.err \in {"NONE", "BAD_PARAMETER"}
    BY <1>8 DEF SetTarget, TypeOK, Ops
  <2>. QED  BY <2>1, <2>2 DEF Close, FenceHeld, TypeOK
<1>9. CASE SettleTarget
  <2>1. pc = "settle" /\ pc' = "command"
    BY <1>9 DEF SettleTarget
  <2>2. IF op.err # "NONE" THEN Close(op.fence) ELSE UNCHANGED fds
    BY <1>9 DEF SettleTarget, ClosesFence
  <2>. QED  BY <2>1, <2>2 DEF Close, FenceHeld, TypeOK
<1>. QED
  BY <1>1, <1>2, <1>3, <1>4, <1>5, <1>6, <1>7, <1>8, <1>9 DEF Next

-----------------------------------------------------------------------------
\* Steps that leave the target, the handles and what is known of them alone.
LEMMA TargetUntouched ==
  ASSUME TargetKept, Kept' => Kept, UNCHANGED <<mBuffer, wanted, holds>>, pc' # "settle"
  PROVE  TargetKept'
BY DEF TargetKept

\* Every step keeps the accepted target imported.
LEMMA TargetIsKept ==
  ASSUME TypeOK, HandleInv, TargetKept, [Next]_vars
  PROVE  TargetKept'
<1>. USE TargetAssumption, NoBufferAssumption
     DEF Goto, OpPoints, Kept, deviceVars, layerVars, targetVars, clientVars, ghostVars
<1>0. StatusAt /\ OpAt /\ SlotsDistinct /\ SlotsAccounted
  BY DEF HandleInv
<1>1. CASE OtherThread \/ UNCHANGED vars
  BY <1>1 DEF OtherThread, vars, TargetKept
<1>2. CASE Connect
  BY <1>2 DEF Connect, TargetKept
<1>3. CASE Register
  BY <1>3 DEF Register, TargetKept
<1>4. CASE LastReference
  BY <1>4, TargetUntouched DEF LastReference
<1>5. CASE FinalPresent
  BY <1>5, TargetUntouched DEF FinalPresent
<1>6. CASE ResetResources
  BY <1>6 DEF ResetResources, TargetKept
<1>7. CASE Execute
  BY <1>7, TargetUntouched DEF Execute
<1>8. ASSUME NEW d \in Displays, SelectDisplay(d)
      PROVE  TargetKept'
  BY <1>8 DEF SelectDisplay, TargetKept
<1>9. ASSUME NEW f \in Fds \cup {NoFd}, DiscardFence(f)
      PROVE  TargetKept'
  BY <1>9, TargetUntouched DEF DiscardFence
<1>10. ASSUME NEW f \in Fds \cup {NoFd}, NEW s \in Slots, NEW b \in Buffers,
              GetClientTarget(s, b, f)
       PROVE  TargetKept'
  <2>1. UNCHANGED <<mBuffer, wanted, overwritten, status>>
    BY <1>10 DEF GetClientTarget
  <2>2. holds[mBuffer] # NoBuffer => holds'[mBuffer] = holds[mBuffer]
    <3>1. mBuffer \in Handles
      BY DEF TypeOK, DeviceTypeOK
    <3>2. ASSUME NEW h \in Targets, Import(h, b)
          PROVE  holds[mBuffer] # NoBuffer => holds'[mBuffer] = holds[mBuffer]
      BY <3>1, <3>2 DEF Import, TypeOK
    <3>. QED  BY <1>10, <3>2 DEF GetClientTarget
  <2>3. pc' = "settle" => op'.replaced = NoTarget
    BY <1>10 DEF GetClientTarget, NoOp
  <2>. QED  BY <1>0, <2>1, <2>2, <2>3 DEF TargetKept, SlotsDistinct
<1>11. ASSUME NEW dataspace \in Dataspaces, SetTarget(dataspace)
       PROVE  TargetKept'
  <2>1. op'.replaced = op.replaced /\ UNCHANGED <<holds, status>>
    BY <1>11 DEF SetTarget, TypeOK, Ops
  <2>2. CASE mBuffer' = op.handle /\ wanted' = holds[op.handle]
    <3>1. op.handle # NoTarget => op.replaced # op.handle
      BY <1>0 DEF SlotsDistinct
    <3>2. op.handle = NoTarget => wanted' = NoBuffer
      BY <1>0, <2>2 DEF SlotsDistinct
    <3>. QED  BY <2>1, <2>2, <3>1, <3>2 DEF TargetKept
  <2>3. CASE UNCHANGED <<mBuffer, wanted>> /\ overwritten' = (overwritten \/ op.replaced = mBuffer)
    BY <2>1, <2>3 DEF TargetKept
  <2>4. PICK err \in {"NONE", "BAD_PARAMETER"} :
          /\ SetClientTarget(mCurrentDisplay, op.handle, dataspace, err)
          /\ IF err = "NONE" THEN wanted' = holds[op.handle] /\ overwritten' = FALSE
             ELSE overwritten' = (overwritten \/ op.replaced = mBuffer) /\ UNCHANGED wanted
    BY <1>11 DEF SetTarget
  <2>. QED  BY <2>2, <2>3, <2>4 DEF SetClientTarget
<1>12. CASE SettleTarget
  <2>1. /\ pc = "settle" /\ pc' = "command" /\ UNCHANGED <<mBuffer, wanted, overwritten, status>>
        /\ \A h \in Handles : holds'[h] = IF h = op.replaced THEN NoBuffer ELSE holds[h]
    BY <1>12 DEF SettleTarget, Free
  <2>2. mBuffer \in Handles
    BY DEF TypeOK, DeviceTypeOK
  <2>. QED  BY <2>1, <2>2 DEF TargetKept
<1>13. CASE Validate
  BY <1>13, TargetUntouched DEF Validate, SetState
<1>14. CASE Present
  BY <1>14, TargetUntouched DEF Present, Post
<1>15. CASE EndPost
  BY <1>15, TargetUntouched DEF EndPost
<1>. QED
  BY <1>1, <1>2, <1>3, <1>4, <1>5, <1>6, <1>7, <1>8, <1>9, <1>10, <1>11, <1>12, <1>13, <1>14,
     <1>15 DEF Next

-----------------------------------------------------------------------------
\* The invariant of the command engine and its client.
THEOREM TargetInvariant == Spec => []TargetInv
<1>1. TargetInv /\ [Next]_vars => TargetInv'
  BY TargetTypes, HandlesKept, FencesKept, TargetIsKept DEF TargetInv, HandleInv
<1>. QED  BY <1>1, TargetInit, PTL DEF Spec

\* The state has its type.
THEOREM TypeCorrect == Spec => []TypeOK
<1>1. TargetInv => TypeOK
  BY DEF TargetInv
<1>. QED  BY <1>1, TargetInvariant, PTL

\* A post reads the accepted target, which is still imported (executeSetClientTarget,
\* destroyResources).
THEOREM PostsAreWanted == Spec => []PostsWanted
<1>1. TargetInv => PostsWanted
  BY DEF TargetInv, HandleInv, StatusAt, TargetKept, Kept, PostsWanted
<1>. QED  BY <1>1, TargetInvariant, PTL

\* Imports are neither leaked nor freed twice (getDisplayClientTarget, the replaced
\* handle of executeSetClientTarget, destroyResources).
THEOREM SlotsAreAccounted == Spec => []SlotsAccounted
<1>1. TargetInv => SlotsAccounted
  BY DEF TargetInv, HandleInv
<1>. QED  BY <1>1, TargetInvariant, PTL

\* No fence outlives its command (closeFence of executeSetClientTarget).
THEOREM FencesAreSettled == Spec => []FencesSettled
<1>1. TargetInv => FencesSettled
  BY DEF TargetInv, FenceHeld, FenceOpen, FencesSettled
<1>. QED  BY <1>1, TargetInvariant, PTL

\* Descriptors of others are closed after a refused target only.
THEOREM ForeignFdsAreKept == Spec => ForeignFdsKept
<1>. DEFINE KeepsFd(f) == fds[f] = "other" /\ fds'[f] # "other" /\ pc' # pc
                              => pc = "settle" /\ op.err = "BAD_PARAMETER"
<1>1. ASSUME TargetInv, [Next]_vars, NEW f \in Fds
      PROVE  KeepsFd(f)
  <2>. USE <1>1, NoFdAssumption DEF Goto, TargetInv, TypeOK, clientVars, FenceOpen
  <2>1. CASE OtherThread
    BY <2>1 DEF OtherThread
  <2>2. CASE Connect \/ Register \/ LastReference \/ FinalPresent \/ EndPost
    BY <2>2 DEF Connect, Register, LastReference, FinalPresent, EndPost
  <2>3. CASE Execute \/ ResetResources \/ UNCHANGED vars \/ Validate \/ Present
    BY <2>3 DEF Execute, ResetResources, vars, Validate, Present
  <2>4. CASE \E d \in Displays : SelectDisplay(d)
    BY <2>4 DEF SelectDisplay
  <2>5. ASSUME NEW g \in Fds \cup {NoFd}, DiscardFence(g)
        PROVE  KeepsFd(f)
    BY <2>5 DEF DiscardFence, ReadFence, Close, FenceHeld
  <2>6. ASSUME NEW g \in Fds \cup {NoFd}, NEW s \in Slots, NEW b \in Buffers,
               GetClientTarget(s, b, g)
        PROVE  KeepsFd(f)
    <3>1. ReadFence(g)
      BY <2>6 DEF GetClientTarget
    <3>. QED  BY <3>1 DEF ReadFence
  <2>7. ASSUME NEW dataspace \in Dataspaces, SetTarget(dataspace)
        PROVE  KeepsFd(f)
    <3>1. pc = "setTarget" /\ Close(op.fence)
      BY <2>7 DEF SetTarget
    <3>. QED  BY <3>1 DEF Close, FenceHeld
  <2>8. CASE SettleTarget
    <3>1. pc = "settle" /\ (IF op.err # "NONE" THEN Close(op.fence) ELSE UNCHANGED fds)
      BY <2>8 DEF SettleTarget, ClosesFence
    <3>2. op.err \in {"NONE", "BAD_DISPLAY", "NO_RESOURCES", "BAD_PARAMETER"}
      BY DEF Ops
    <3>. QED  BY <3>1, <3>2 DEF Close, FenceHeld
  <2>. QED
    BY <2>1, <2>2, <2>3, <2>4, <2>5, <2>6, <2>7, <2>8 DEF Next
<1>2. TargetInv /\ [Next]_vars => [\A f \in Fds : KeepsFd(f)]_vars
  BY <1>1
<1>. QED  BY <1>2, TargetInvariant, PTL DEF Spec, ForeignFdsKept
=============================================================================
