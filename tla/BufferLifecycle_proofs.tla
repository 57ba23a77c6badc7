------------------------ MODULE BufferLifecycle_proofs ------------------------
(***************************************************************************)
(* Proofs about BufferLifecycle and DrmInit, for any number of threads,    *)
(* names and buffers.                                                      *)
(***************************************************************************)
EXTENDS BufferLifecycle, FiniteSetTheorems, TLAPS

-----------------------------------------------------------------------------
(* References.                                                             *)

\* An idle thread of the allocator holds nothing, and a name that is referenced
\* stands for a buffer.
IdleHoldsNothing == \A a \in AllocThreads : call[a].at = "idle" => call[a].bufs = {}
RefsNamed == \A n \in Names : refs[n] > 0 => named[n] \in Buffers

BufferInv == TypeOK /\ IdleHoldsNothing /\ RefsNamed /\ RefsAccounted /\ NamesHeld

\* The members of CallRefs and of Imports.
LEMMA CallRefsMembers ==
    ASSUME TypeOK, NEW n \in Names
    PROVE  /\ CallRefs(n) \subseteq AllocThreads \X RawHandles
           /\ \A a \in AllocThreads, buf \in RawHandles :
                  <<a, buf>> \in CallRefs(n) <=> buf \in call[a].bufs /\ buf[1] = n
<1>1. \A a \in AllocThreads : call[a].bufs \subseteq RawHandles
    BY DEF TypeOK, Calls
<1>2. ASSUME NEW ref
      PROVE  ref \in CallRefs(n) <=>
                \E a \in AllocThreads : ref \in {a} \X {buf \in call[a].bufs : buf[1] = n}
    BY DEF CallRefs
<1> QED
    BY <1>1, <1>2

LEMMA RawHandlesFinite == IsFiniteSet(RawHandles)
<1>1. IsFiniteSet(Buffers)
    BY BufferAssumption, FS_Interval DEF Buffers
<1> QED
    BY <1>1, BufferAssumption, FS_Product DEF RawHandles

\* Both are finite, so that their cardinalities count.
LEMMA HoldersFinite ==
    ASSUME TypeOK, NEW n \in Names
    PROVE  /\ IsFiniteSet(CallRefs(n)) /\ Cardinality(CallRefs(n)) \in Nat
           /\ IsFiniteSet(Imports(n)) /\ Cardinality(Imports(n)) \in Nat
<1>1. IsFiniteSet(AllocThreads \X RawHandles)
    BY RawHandlesFinite, BufferAssumption, FS_Product
<1>2. IsFiniteSet(CallRefs(n))
    BY <1>1, CallRefsMembers, FS_Subset
<1>3. IsFiniteSet(Imports(n))
    BY BufferAssumption, FS_Subset DEF Imports
<1> QED
    BY <1>2, <1>3, FS_CardinalityType

\* The primed forms of the two lemmas.
LEMMA CallRefsMembersNext ==
    ASSUME TypeOK', NEW n \in Names
    PROVE  /\ CallRefs(n)' \subseteq AllocThreads \X RawHandles
           /\ \A a \in AllocThreads, buf \in RawHandles :
                  <<a, buf>> \in CallRefs(n)' <=> buf \in call'[a].bufs /\ buf[1] = n
<1>1. \A a \in AllocThreads : call'[a].bufs \subseteq RawHandles
    BY DEF TypeOK, Calls
<1>2. ASSUME NEW ref
      PROVE  ref \in CallRefs(n)' <=>
                \E a \in AllocThreads : ref \in {a} \X {buf \in call'[a].bufs : buf[1] = n}
    BY DEF CallRefs
<1> QED
    BY <1>1, <1>2

LEMMA CallRefsFiniteNext ==
    ASSUME TypeOK', NEW n \in Names
    PROVE  IsFiniteSet(CallRefs(n)') /\ Cardinality(CallRefs(n)') \in Nat
<1>1. IsFiniteSet(AllocThreads \X RawHandles)
    BY RawHandlesFinite, BufferAssumption, FS_Product
<1>2. IsFiniteSet(CallRefs(n)')
    BY <1>1, CallRefsMembersNext, FS_Subset
<1> QED
    BY <1>2, FS_CardinalityType

\* Who holds a name with no references?  Nobody.
LEMMA FreeNameUnheld ==
    ASSUME BufferInv, NEW n \in Names, refs[n] = 0
    PROVE  CallRefs(n) = {} /\ Imports(n) = {}
<1>1. TypeOK
    BY DEF BufferInv
<1>2. refs[n] = Cardinality(CallRefs(n)) + Cardinality(Imports(n))
    BY DEF BufferInv, RefsAccounted
<1>3. Cardinality(CallRefs(n)) = 0 /\ Cardinality(Imports(n)) = 0
    BY <1>1, <1>2, HoldersFinite
<1> QED
    BY <1>1, <1>3, HoldersFinite, FS_EmptySet

-----------------------------------------------------------------------------
(* How the steps change the references of the calls and of the client.     *)

LEMMA CardGains ==
    ASSUME NEW S, IsFiniteSet(S), NEW x, x \notin S, NEW T, T = S \cup {x}
    PROVE  Cardinality(T) = Cardinality(S) + 1
BY FS_AddElement

LEMMA CardLoses ==
    ASSUME NEW S, IsFiniteSet(S), NEW x, x \in S, NEW T, T = S \ {x}
    PROVE  Cardinality(S) = Cardinality(T) + 1
<1>1. Cardinality(S \ {x}) = Cardinality(S) - 1
    BY FS_RemoveElement
<1>2. Cardinality(S) \in Nat
    BY FS_CardinalityType
<1> QED
    BY <1>1, <1>2

LEMMA PairsEqual ==
    ASSUME NEW A, NEW B, NEW S, NEW T, S \subseteq A \X B, T \subseteq A \X B,
           \A a \in A, b \in B : <<a, b>> \in S <=> <<a, b>> \in T
    PROVE  S = T
<1>1. \A x \in A \X B : x \in S <=> x \in T
    OBVIOUS
<1> QED
    BY <1>1

LEMMA CallRefsEqual ==
    ASSUME TypeOK, TypeOK', NEW n \in Names,
           \A a \in AllocThreads, buf \in RawHandles :
               <<a, buf>> \in CallRefs(n)' <=> <<a, buf>> \in CallRefs(n)
    PROVE  CallRefs(n)' = CallRefs(n)
<1>1. CallRefs(n) \subseteq AllocThreads \X RawHandles
    BY CallRefsMembers
<1>2. CallRefs(n)' \subseteq AllocThreads \X RawHandles
    BY CallRefsMembersNext
<1>3. \A ref \in AllocThreads \X RawHandles : ref \in CallRefs(n)' <=> ref \in CallRefs(n)
    OBVIOUS
<1> QED
    BY <1>1, <1>2, <1>3

LEMMA SameCallRefs ==
    ASSUME TypeOK, TypeOK', \A a \in AllocThreads : call'[a].bufs = call[a].bufs
    PROVE  \A n \in Names : CallRefs(n)' = CallRefs(n)
<1> SUFFICES ASSUME NEW n \in Names PROVE CallRefs(n)' = CallRefs(n)
    OBVIOUS
<1>1. \A a \in AllocThreads, buf \in RawHandles :
          <<a, buf>> \in CallRefs(n)' <=> <<a, buf>> \in CallRefs(n)
    BY CallRefsMembers, CallRefsMembersNext
<1> QED
    BY <1>1, CallRefsEqual

LEMMA GainCallRef ==
    ASSUME TypeOK, TypeOK', NEW a \in AllocThreads, NEW buf \in RawHandles,
           buf \notin call[a].bufs, call'[a].bufs = call[a].bufs \cup {buf},
           \A b \in AllocThreads \ {a} : call'[b].bufs = call[b].bufs
    PROVE  \A n \in Names :
               Cardinality(CallRefs(n)') = Cardinality(CallRefs(n)) + IF n = buf[1] THEN 1 ELSE 0
<1> SUFFICES ASSUME NEW n \in Names
             PROVE  Cardinality(CallRefs(n)') =
                        Cardinality(CallRefs(n)) + IF n = buf[1] THEN 1 ELSE 0
    OBVIOUS
<1>0. IsFiniteSet(CallRefs(n)) /\ Cardinality(CallRefs(n)) \in Nat
    BY HoldersFinite
<1>1. \A b \in AllocThreads, x \in RawHandles :
          <<b, x>> \in CallRefs(n)' <=>
              <<b, x>> \in CallRefs(n) \/ (b = a /\ x = buf /\ buf[1] = n)
    <2> SUFFICES ASSUME NEW b \in AllocThreads, NEW x \in RawHandles
                 PROVE  <<b, x>> \in CallRefs(n)' <=>
                            <<b, x>> \in CallRefs(n) \/ (b = a /\ x = buf /\ buf[1] = n)
        OBVIOUS
    <2>1. x \in call'[b].bufs <=> x \in call[b].bufs \/ (b = a /\ x = buf)
        OBVIOUS
    <2> QED
        BY <2>1, CallRefsMembers, CallRefsMembersNext
<1>2. CASE n = buf[1]
    <2>1. CallRefs(n)' = CallRefs(n) \cup {<<a, buf>>}
        <3>1. CallRefs(n) \cup {<<a, buf>>} \subseteq AllocThreads \X RawHandles
            BY CallRefsMembers
        <3>2. \A b \in AllocThreads, x \in RawHandles :
                  <<b, x>> \in CallRefs(n)' <=> <<b, x>> \in CallRefs(n) \cup {<<a, buf>>}
            BY <1>1, <1>2
        <3> QED
            BY <3>1, <3>2, CallRefsMembersNext, PairsEqual
    <2>2. <<a, buf>> \notin CallRefs(n)
        BY CallRefsMembers
    <2> QED
        BY <1>2, <2>1, <2>2, <1>0, CardGains
<1>3. CASE n # buf[1]
    <2>1. CallRefs(n)' = CallRefs(n)
        BY <1>1, <1>3, CallRefsEqual
    <2> QED
        BY <1>3, <2>1, <1>0
<1> QED
    BY <1>2, <1>3

LEMMA LoseCallRef ==
    ASSUME TypeOK, TypeOK', NEW a \in AllocThreads, NEW buf \in RawHandles,
           buf \in call[a].bufs, call'[a].bufs = call[a].bufs \ {buf},
           \A b \in AllocThreads \ {a} : call'[b].bufs = call[b].bufs
    PROVE  \A n \in Names :
               Cardinality(CallRefs(n)) = Cardinality(CallRefs(n)') + IF n = buf[1] THEN 1 ELSE 0
<1> SUFFICES ASSUME NEW n \in Names
             PROVE  Cardinality(CallRefs(n)) =
                        Cardinality(CallRefs(n)') + IF n = buf[1] THEN 1 ELSE 0
    OBVIOUS
<1>0. IsFiniteSet(CallRefs(n)) /\ Cardinality(CallRefs(n)) \in Nat
    BY HoldersFinite
<1>1. \A b \in AllocThreads, x \in RawHandles :
          <<b, x>> \in CallRefs(n)' <=>
              <<b, x>> \in CallRefs(n) /\ ~(b = a /\ x = buf)
    BY CallRefsMembers, CallRefsMembersNext
<1>2. CASE n = buf[1]
    <2>1. CallRefs(n)' = CallRefs(n) \ {<<a, buf>>}
        BY <1>1, <1>2, CallRefsMembers, CallRefsMembersNext
    <2>2. <<a, buf>> \in CallRefs(n)
        BY <1>2, CallRefsMembers
    <2> QED
        BY <1>2, <2>1, <2>2, <1>0, CardLoses
<1>3. CASE n # buf[1]
    <2>1. <<a, buf>> \notin CallRefs(n)
        BY <1>3, CallRefsMembers
    <2>2. CallRefs(n)' = CallRefs(n)
        BY <1>1, <2>1, CallRefsEqual
    <2> QED
        BY <1>3, <2>2, <1>0
<1> QED
    BY <1>2, <1>3

LEMMA SameImports ==
    ASSUME imported' = imported
    PROVE  \A n \in Names : Imports(n)' = Imports(n)
BY DEF Imports

LEMMA GainImport ==
    ASSUME TypeOK, NEW h \in Addresses, NEW handle \in RawHandles, imported[h] = NoHandle,
           imported' = [imported EXCEPT ![h] = handle]
    PROVE  \A n \in Names :
               Cardinality(Imports(n)') = Cardinality(Imports(n)) + IF n = handle[1] THEN 1 ELSE 0
<1> SUFFICES ASSUME NEW n \in Names
             PROVE  Cardinality(Imports(n)') =
                        Cardinality(Imports(n)) + IF n = handle[1] THEN 1 ELSE 0
    OBVIOUS
<1>0. IsFiniteSet(Imports(n)) /\ Cardinality(Imports(n)) \in Nat
    BY HoldersFinite
<1>1. \A g \in Addresses : imported'[g] = IF g = h THEN handle ELSE imported[g]
    BY DEF TypeOK
<1>2. h \notin Imports(n) /\ handle # NoHandle
    BY BufferAssumption DEF Imports
<1>3. CASE n = handle[1]
    <2>1. Imports(n)' = Imports(n) \cup {h}
        BY <1>1, <1>2, <1>3 DEF Imports
    <2> QED
        BY <1>2, <1>3, <2>1, <1>0, CardGains
<1>4. CASE n # handle[1]
    <2>1. Imports(n)' = Imports(n)
        BY <1>1, <1>2, <1>4 DEF Imports
    <2> QED
        BY <1>4, <2>1, <1>0
<1> QED
    BY <1>3, <1>4

LEMMA LoseImport ==
    ASSUME TypeOK, NEW h \in Addresses, imported[h] # NoHandle,
           imported' = [imported EXCEPT ![h] = NoHandle]
    PROVE  \A n \in Names :
               Cardinality(Imports(n)) =
                   Cardinality(Imports(n)') + IF n = imported[h][1] THEN 1 ELSE 0
<1> SUFFICES ASSUME NEW n \in Names
             PROVE  Cardinality(Imports(n)) =
                        Cardinality(Imports(n)') + IF n = imported[h][1] THEN 1 ELSE 0
    OBVIOUS
<1>0. IsFiniteSet(Imports(n)) /\ Cardinality(Imports(n)) \in Nat
    BY HoldersFinite
<1>1. \A g \in Addresses : imported'[g] = IF g = h THEN NoHandle ELSE imported[g]
    BY DEF TypeOK
<1>2. CASE n = imported[h][1]
    <2>1. Imports(n)' = Imports(n) \ {h} /\ h \in Imports(n)
        BY <1>1, <1>2 DEF Imports
    <2> QED
        BY <1>2, <2>1, <1>0, CardLoses
<1>3. CASE n # imported[h][1]
    <2>1. Imports(n)' = Imports(n)
        BY <1>1, <1>3 DEF Imports
    <2> QED
        BY <1>3, <2>1, <1>0
<1> QED
    BY <1>2, <1>3

-----------------------------------------------------------------------------
(* The invariant of the buffers, step by step.                             *)

LEMMA NoCallType == NoCall \in Calls
BY BufferAssumption DEF NoCall, Calls

LEMMA InitBufferInv == Init => BufferInv
<1> SUFFICES ASSUME Init PROVE BufferInv
    OBVIOUS
<1>1. TypeOK
    <2>1. DrmTypeOK
        <3>1. drms \in 0..MaxDrms
            BY DrmAssumption DEF Init, DrmStart
        <3>2. used \subseteq Drms \cup {NoDrm}
            BY DEF Init, DrmStart
        <3> QED
            BY <3>1, <3>2 DEF Init, DrmStart, DrmTypeOK
    <2>2. call \in [AllocThreads -> Calls]
        BY NoCallType DEF Init
    <2> QED
        BY <2>1, <2>2, BufferAssumption DEF Init, TypeOK
<1>2. \A n \in Names : CallRefs(n) = {} /\ Imports(n) = {}
    BY DEF Init, CallRefs, Imports, NoCall
<1>3. RefsAccounted
    <2> SUFFICES ASSUME NEW n \in Names
                 PROVE  refs[n] = Cardinality(CallRefs(n)) + Cardinality(Imports(n))
        BY DEF RefsAccounted
    <2>1. Cardinality(CallRefs(n)) = 0 /\ Cardinality(Imports(n)) = 0
        BY <1>2, FS_EmptySet
    <2>2. refs[n] = 0
        BY DEF Init
    <2> QED
        BY <2>1, <2>2
<1> QED
    BY <1>1, <1>3 DEF Init, BufferInv, IdleHoldsNothing, RefsNamed, NamesHeld, NoCall

\* The steps that touch no reference.
LEMMA HoldersUnchanged ==
    ASSUME BufferInv, TypeOK', UNCHANGED <<named, refs, imported>>,
           \A a \in AllocThreads : call'[a].bufs = call[a].bufs
    PROVE  RefsNamed' /\ RefsAccounted' /\ NamesHeld'
<1>1. \A n \in Names : CallRefs(n)' = CallRefs(n) /\ Imports(n)' = Imports(n)
    BY SameCallRefs, SameImports DEF BufferInv
<1>2. RefsAccounted'
    BY <1>1 DEF BufferInv, RefsAccounted
<1> QED
    BY <1>2 DEF BufferInv, RefsNamed, NamesHeld

LEMMA DrmStepType ==
    ASSUME DrmTypeOK, NEW t \in ClientThreads, PerformerStep(t) \/ DrmInit(t)
    PROVE  DrmTypeOK'
<1> USE DrmAssumption DEF DrmTypeOK, drmVars, At, Goto, Forget, DrmInitFailed
<1>1. CASE Perform(t)
    BY <1>1 DEF Perform
<1>2. CASE DrmLock(t)
    BY <1>2 DEF DrmLock
<1>3. CASE DrmTest(t)
    BY <1>3 DEF DrmTest
<1>4. CASE DrmCreate(t)
    <2>1. CASE UNCHANGED <<drms, seen>>
        BY <1>4, <2>1 DEF DrmCreate
    <2>2. CASE drms < MaxDrms /\ drms' = drms + 1 /\ seen' = [seen EXCEPT ![t] = <<t, drms'>>]
        <3>1. drms' \in 1..MaxDrms
            BY <2>2
        <3>2. <<t, drms'>> \in Drms
            BY <3>1 DEF Drms
        <3> QED
            BY <1>4, <2>2, <3>1, <3>2 DEF DrmCreate
    <2> QED
        BY <1>4, <2>1, <2>2 DEF DrmCreate
<1>5. CASE DrmStore(t)
    BY <1>5 DEF DrmStore
<1>6. CASE DrmUnlock(t)
    BY <1>6 DEF DrmUnlock
<1>7. CASE GetDrmFd(t)
    BY <1>7 DEF GetDrmFd
<1> QED
    BY <1>1, <1>2, <1>3, <1>4, <1>5, <1>6, <1>7 DEF PerformerStep, DrmInit

\* Steps of the allocator.
LEMMA AllocKeeps ==
    ASSUME BufferInv, NEW a \in AllocThreads,
           (\E count \in 0..MaxCount : CallAllocate(a, count)) \/ AllocStep(a)
    PROVE  BufferInv'
<1> USE DEF CallAt
<1>0. TypeOK /\ IdleHoldsNothing /\ RefsNamed /\ RefsAccounted /\ NamesHeld
    BY DEF BufferInv
<1>1. ASSUME NEW count \in 0..MaxCount, CallAllocate(a, count)
      PROVE  BufferInv'
    <2>1. TypeOK'
        BY <1>0, <1>1, BufferAssumption
           DEF CallAllocate, TypeOK, DrmTypeOK, drmVars, clientVars, Calls, NoCall
    <2>2. \A b \in AllocThreads : call'[b].bufs = call[b].bufs
        BY <1>0, <1>1 DEF CallAllocate, TypeOK, Calls, NoCall, IdleHoldsNothing
    <2>3. IdleHoldsNothing'
        BY <1>0, <1>1 DEF CallAllocate, TypeOK, Calls, NoCall, IdleHoldsNothing
    <2> QED
        BY <1>1, <2>1, <2>2, <2>3, HoldersUnchanged DEF CallAllocate, clientVars, BufferInv
<1>3. CASE EndAllocate(a)
    <2>1. TypeOK'
        <3>1. call[a] \in Calls
            BY <1>0 DEF TypeOK
        <3>2. [NoCall EXCEPT !.bufs = call[a].bufs, !.at = IF call[a].err THEN "free" ELSE "reply"]
                  \in Calls
            BY <3>1, NoCallType DEF Calls
        <3>3. call' \in [AllocThreads -> Calls]
            BY <1>0, <1>3, <3>2 DEF EndAllocate, TypeOK
        <3> QED
            BY <1>0, <1>3, <3>3 DEF EndAllocate, TypeOK, DrmTypeOK, drmVars, clientVars
    <2>2. (\A b \in AllocThreads : call'[b].bufs = call[b].bufs) /\ IdleHoldsNothing'
        BY <1>0, <1>3 DEF EndAllocate, TypeOK, Calls, NoCall, IdleHoldsNothing
    <2> QED
        BY <1>3, <2>1, <2>2, HoldersUnchanged DEF EndAllocate, clientVars, BufferInv
<1>4. CASE Reply(a)
    <2>1. TypeOK'
        BY <1>0, <1>4 DEF Reply, TypeOK, DrmTypeOK, drmVars, Calls
    <2>2. (\A b \in AllocThreads : call'[b].bufs = call[b].bufs) /\ IdleHoldsNothing'
        BY <1>0, <1>4 DEF Reply, TypeOK, Calls, IdleHoldsNothing
    <2> QED
        BY <1>4, <2>1, <2>2, HoldersUnchanged DEF Reply, BufferInv
<1>5. CASE WakeUp(a)
    <2>1. TypeOK'
        BY <1>0, <1>5 DEF WakeUp, TypeOK, DrmTypeOK, drmVars, clientVars, Calls
    <2>2. (\A b \in AllocThreads : call'[b].bufs = call[b].bufs) /\ IdleHoldsNothing'
        BY <1>0, <1>5 DEF WakeUp, TypeOK, Calls, IdleHoldsNothing
    <2> QED
        BY <1>5, <2>1, <2>2, HoldersUnchanged DEF WakeUp, clientVars, BufferInv
<1>6. CASE EndCall(a)
    <2>1. TypeOK'
        BY <1>0, <1>6, BufferAssumption
           DEF EndCall, TypeOK, DrmTypeOK, drmVars, clientVars, Calls, NoCall
    <2>2. (\A b \in AllocThreads : call'[b].bufs = call[b].bufs) /\ IdleHoldsNothing'
        BY <1>0, <1>6 DEF EndCall, TypeOK, Calls, NoCall, IdleHoldsNothing
    <2> QED
        BY <1>6, <2>1, <2>2, HoldersUnchanged DEF EndCall, clientVars, BufferInv
<1>2. CASE AllocateOne(a)
    <2>1. CASE call' = [call EXCEPT ![a].err = TRUE] /\ UNCHANGED <<buffers, named, refs>>
        <3>1. TypeOK'
            <4>1. call' \in [AllocThreads -> Calls]
                BY <1>0, <2>1 DEF TypeOK, Calls
            <4> QED
                BY <1>0, <1>2, <2>1, <4>1
                   DEF AllocateOne, NewBuffer, TypeOK, DrmTypeOK, drmVars, clientVars
        <3>2. (\A b \in AllocThreads : call'[b].bufs = call[b].bufs) /\ IdleHoldsNothing'
            BY <1>0, <2>1 DEF TypeOK, Calls, IdleHoldsNothing
        <3> QED
            BY <1>2, <2>1, <3>1, <3>2, HoldersUnchanged DEF AllocateOne, NewBuffer, clientVars, BufferInv
    <2>2. ASSUME NEW n \in Names, NEW differs \in BOOLEAN,
                 refs[n] = 0, buffers < MaxBuffers, buffers' = buffers + 1,
                 named' = [named EXCEPT ![n] = buffers'],
                 refs' = [refs EXCEPT ![n] = 1],
                 call' = [call EXCEPT ![a].bufs = @ \cup {<<n, buffers'>>},
                                      ![a].err = differs]
          PROVE  BufferInv'
        <3> DEFINE buf == <<n, buffers'>>
        <3>1. buffers' \in Buffers /\ buf \in RawHandles
            BY <1>0, <2>2, BufferAssumption DEF TypeOK, Buffers, RawHandles
        <3>2. /\ call'[a].bufs = call[a].bufs \cup {buf}
              /\ call'[a].at = call[a].at
              /\ \A b \in AllocThreads \ {a} : call'[b] = call[b]
            BY <1>0, <2>2 DEF TypeOK, Calls
        <3>3. call' \in [AllocThreads -> Calls]
            <4>1. call'[a] \in Calls
                BY <1>0, <2>2, <3>1 DEF TypeOK, Calls
            <4> QED
                BY <1>0, <2>2, <4>1 DEF TypeOK
        <3>4. TypeOK'
            <4>1. buffers' \in 0..MaxBuffers
                BY <3>1, BufferAssumption DEF Buffers
            <4>2. named' \in [Names -> 0..MaxBuffers]
                BY <1>0, <2>2, <4>1 DEF TypeOK
            <4>3. refs' \in [Names -> Nat]
                BY <1>0, <2>2 DEF TypeOK
            <4> QED
                BY <1>0, <1>2, <3>3, <4>1, <4>2, <4>3
                   DEF AllocateOne, NewBuffer, TypeOK, DrmTypeOK, drmVars, clientVars
        <3>5. CallRefs(n) = {} /\ Imports(n) = {}
            BY <2>2, FreeNameUnheld
        <3>6. \A b \in AllocThreads : \A x \in call[b].bufs : x[1] # n /\ x \in RawHandles
            BY <1>0, <3>5, CallRefsMembers DEF TypeOK, Calls
        <3>7. \A k \in Names : Cardinality(CallRefs(k)') =
                                  Cardinality(CallRefs(k)) + IF k = n THEN 1 ELSE 0
            <4>1. buf \notin call[a].bufs
                BY <3>6
            <4> HIDE DEF buf
            <4>2. \A k \in Names : Cardinality(CallRefs(k)') =
                                  Cardinality(CallRefs(k)) + IF k = buf[1] THEN 1 ELSE 0
                BY <1>0, <3>1, <3>2, <3>4, <4>1, GainCallRef
            <4> QED
                BY <4>2 DEF buf
        <3>8. \A k \in Names : Imports(k)' = Imports(k)
            BY <1>2, SameImports DEF AllocateOne, NewBuffer, clientVars
        <3>9. RefsAccounted'
            <4> SUFFICES ASSUME NEW k \in Names
                         PROVE  refs'[k] = Cardinality(CallRefs(k)') + Cardinality(Imports(k)')
                BY DEF RefsAccounted
            <4>1. refs'[k] = refs[k] + IF k = n THEN 1 ELSE 0
                BY <1>0, <2>2 DEF TypeOK
            <4> QED
                BY <1>0, <3>7, <3>8, <4>1, HoldersFinite DEF RefsAccounted
        <3>10. NamesHeld'
            <4>1. \A h \in Addresses : imported[h] # NoHandle => imported[h][1] \in Names \ {n}
                BY <1>0, <3>5 DEF Imports, TypeOK, RawHandles
            <4>2. \A k \in Names \ {n} : named'[k] = named[k]
                BY <1>0, <2>2 DEF TypeOK
            <4>3. named'[n] = buffers'
                BY <1>0, <2>2 DEF TypeOK
            <4>4. \A h \in Addresses : imported'[h] # NoHandle =>
                                          named'[imported'[h][1]] = imported'[h][2]
                BY <1>0, <1>2, <4>1, <4>2 DEF AllocateOne, NewBuffer, clientVars, NamesHeld
            <4>5. \A b \in AllocThreads : \A x \in call[b].bufs : named'[x[1]] = x[2]
                BY <1>0, <3>6, <4>2 DEF NamesHeld, RawHandles
            <4>6. \A b \in AllocThreads : \A x \in call'[b].bufs : named'[x[1]] = x[2]
                BY <3>2, <4>3, <4>5
            <4> QED
                BY <4>4, <4>6 DEF NamesHeld
        <3>11. RefsNamed'
            BY <1>0, <2>2, <3>1 DEF RefsNamed, TypeOK
        <3>12. IdleHoldsNothing'
            BY <1>0, <1>2, <3>2 DEF IdleHoldsNothing, AllocateOne, NewBuffer
        <3> QED
            BY <3>4, <3>9, <3>10, <3>11, <3>12 DEF BufferInv
    <2> QED
        BY <1>2, <2>1, <2>2 DEF AllocateOne, NewBuffer
<1>7. ASSUME NEW buf \in call[a].bufs, FreeOne(a, buf)
      PROVE  BufferInv'
    <2>1. buf \in RawHandles /\ buf[1] \in Names
        BY <1>0 DEF TypeOK, Calls, RawHandles
    <2>2. /\ call'[a].bufs = call[a].bufs \ {buf}
          /\ call'[a].at = "free"
          /\ \A b \in AllocThreads \ {a} : call'[b] = call[b]
          /\ call' \in [AllocThreads -> Calls]
        BY <1>0, <1>7 DEF FreeOne, TypeOK, Calls
    <2>3. <<a, buf>> \in CallRefs(buf[1])
        BY <1>0, <2>1, CallRefsMembers
    <2>4. refs[buf[1]] # 0
        BY <2>1, <2>3, FreeNameUnheld
    <2>5. refs' \in [Names -> Nat]
        BY <1>0, <1>7, <2>1, <2>4 DEF FreeOne, DropRef, TypeOK
    <2>6. TypeOK'
        BY <1>0, <1>7, <2>2, <2>5 DEF FreeOne, TypeOK, DrmTypeOK, drmVars, clientVars
    <2>7. \A k \in Names : Cardinality(CallRefs(k)) =
                              Cardinality(CallRefs(k)') + IF k = buf[1] THEN 1 ELSE 0
        BY <1>0, <2>1, <2>2, <2>6, LoseCallRef
    <2>8. \A k \in Names : Imports(k)' = Imports(k)
        BY <1>7, SameImports DEF FreeOne, clientVars
    <2>9. RefsAccounted'
        <3> SUFFICES ASSUME NEW k \in Names
                     PROVE  refs'[k] = Cardinality(CallRefs(k)') + Cardinality(Imports(k)')
            BY DEF RefsAccounted
        <3>1. refs[k] = refs'[k] + IF k = buf[1] THEN 1 ELSE 0
            BY <1>0, <1>7, <2>1 DEF FreeOne, DropRef, TypeOK
        <3>2. Cardinality(CallRefs(k)') \in Nat /\ Cardinality(Imports(k)') \in Nat
            BY <1>0, <2>6, <2>7, <2>8, HoldersFinite, FS_CardinalityType, CallRefsFiniteNext
        <3> QED
            BY <1>0, <2>5, <2>7, <2>8, <3>1, <3>2 DEF RefsAccounted
    <2>10. NamesHeld' /\ IdleHoldsNothing' /\ RefsNamed'
        BY <1>0, <1>7, <2>1, <2>2, <2>4
           DEF FreeOne, DropRef, clientVars, NamesHeld, IdleHoldsNothing, RefsNamed, TypeOK
    <2> QED
        BY <2>6, <2>9, <2>10 DEF BufferInv
<1> QED
    BY <1>1, <1>2, <1>3, <1>4, <1>5, <1>6, <1>7 DEF AllocStep

\* The service restarts.
LEMMA RestartKeeps ==
    ASSUME BufferInv, Restart
    PROVE  BufferInv'
<1>0. TypeOK /\ RefsNamed /\ RefsAccounted /\ NamesHeld
    BY DEF BufferInv
<1>1. \A n \in Names : /\ refs[n] - Cardinality(CallRefs(n)) = Cardinality(Imports(n))
                         /\ Cardinality(Imports(n)) \in Nat
                         /\ refs[n] >= Cardinality(Imports(n))
    BY <1>0, HoldersFinite DEF RefsAccounted
<1>2. refs' \in [Names -> Nat]
    BY <1>1 DEF Restart
<1>3. call' \in [AllocThreads -> Calls]
    BY NoCallType DEF Restart
<1>4. TypeOK'
    BY <1>0, <1>2, <1>3 DEF Restart, TypeOK, DrmTypeOK, drmVars, clientVars
<1>5. \A n \in Names : CallRefs(n)' = {} /\ Imports(n)' = Imports(n)
    <2>1. \A n \in Names : Imports(n)' = Imports(n)
        BY SameImports DEF Restart, clientVars
    <2>2. \A n \in Names : CallRefs(n)' = {}
        BY DEF Restart, CallRefs, NoCall
    <2> QED
        BY <2>1, <2>2
<1>6. RefsAccounted'
    <2> SUFFICES ASSUME NEW n \in Names
                 PROVE  refs'[n] = Cardinality(CallRefs(n)') + Cardinality(Imports(n)')
        BY DEF RefsAccounted
    <2>1. Cardinality(CallRefs(n)') = 0
        BY <1>5, FS_EmptySet
    <2>2. Cardinality(Imports(n)') = Cardinality(Imports(n))
        BY <1>5
    <2>3. refs'[n] = Cardinality(Imports(n))
        BY <1>1 DEF Restart
    <2> QED
        BY <1>1, <2>1, <2>2, <2>3
<1>7. RefsNamed'
    <2>1. \A n \in Names : refs'[n] > 0 => refs[n] > 0
        BY <1>0, <1>1 DEF Restart, TypeOK
    <2> QED
        BY <1>0, <2>1 DEF Restart, RefsNamed
<1>8. NamesHeld' /\ IdleHoldsNothing'
    BY <1>0 DEF Restart, clientVars, NamesHeld, IdleHoldsNothing, NoCall
<1> QED
    BY <1>4, <1>6, <1>7, <1>8 DEF BufferInv

\* Steps of the client's process that touch no reference.
LEMMA ClientStepKeeps ==
    ASSUME BufferInv, DrmTypeOK', UNCHANGED <<allocVars, refs, raw, imported>>,
           asked' \in [Mappers -> RawHandles \cup {NoHandle}]
    PROVE  BufferInv'
<1>1. TypeOK'
    BY DEF BufferInv, TypeOK, allocVars
<1>2. RefsNamed' /\ RefsAccounted' /\ NamesHeld'
    BY <1>1, HoldersUnchanged DEF allocVars
<1> QED
    BY <1>1, <1>2 DEF BufferInv, IdleHoldsNothing, allocVars

LEMMA RegisterKeeps ==
    ASSUME BufferInv, NEW m \in Mappers, Register(m)
    PROVE  BufferInv'
<1>0. TypeOK /\ RefsNamed /\ RefsAccounted /\ NamesHeld /\ IdleHoldsNothing
    BY DEF BufferInv
<1>1. DrmTypeOK'
    <2>1. used' \subseteq Drms \cup {NoDrm}
        BY <1>0 DEF Register, TypeOK, DrmTypeOK, ClientThreads
    <2> QED
        BY <1>0, <2>1 DEF Register, TypeOK, DrmTypeOK, Goto, Forget, ClientThreads
<1>2. asked' \in [Mappers -> RawHandles \cup {NoHandle}]
    BY <1>0 DEF Register, TypeOK
<1>3. CASE UNCHANGED <<refs, imported>>
    BY <1>1, <1>2, <1>3, ClientStepKeeps DEF Register
<1>4. ASSUME NEW h \in Addresses, NEW n \in Names,
             refs[n] > 0, imported[h] = NoHandle,
             refs' = [refs EXCEPT ![n] = @ + 1],
             imported' = [imported EXCEPT ![h] = <<n, named[n]>>]
      PROVE  BufferInv'
    <2> DEFINE handle == <<n, named[n]>>
    <2>1. handle \in RawHandles
        BY <1>0, <1>4 DEF RefsNamed, RawHandles
    <2>2. refs' \in [Names -> Nat]
        BY <1>0, <1>4 DEF TypeOK
    <2>3. imported' \in [Addresses -> RawHandles \cup {NoHandle}]
        BY <1>0, <1>4, <2>1 DEF TypeOK
    <2>4. TypeOK'
        BY <1>0, <1>1, <1>2, <2>2, <2>3 DEF Register, TypeOK, allocVars
    <2>5. \A k \in Names : CallRefs(k)' = CallRefs(k)
        BY <1>0, <2>4, SameCallRefs DEF Register, allocVars
    <2>6. \A k \in Names : Cardinality(Imports(k)') =
                              Cardinality(Imports(k)) + IF k = n THEN 1 ELSE 0
        <3> HIDE DEF handle
        <3>1. imported' = [imported EXCEPT ![h] = handle] /\ handle[1] = n
            BY <1>4 DEF handle
        <3> QED
            BY <1>0, <1>4, <2>1, <3>1, GainImport
    <2>7. RefsAccounted'
        <3> SUFFICES ASSUME NEW k \in Names
                     PROVE  refs'[k] = Cardinality(CallRefs(k)') + Cardinality(Imports(k)')
            BY DEF RefsAccounted
        <3>1. refs'[k] = refs[k] + IF k = n THEN 1 ELSE 0
            BY <1>0, <1>4 DEF TypeOK
        <3> QED
            BY <1>0, <2>5, <2>6, <3>1, HoldersFinite DEF RefsAccounted
    <2>8. NamesHeld'
        <3>1. \A g \in Addresses : imported'[g] = IF g = h THEN handle ELSE imported[g]
            BY <1>0, <1>4 DEF TypeOK
        <3> QED
            BY <1>0, <3>1 DEF NamesHeld, Register, allocVars
    <2>9. RefsNamed' /\ IdleHoldsNothing'
        BY <1>0, <1>4 DEF RefsNamed, IdleHoldsNothing, Register, allocVars, TypeOK
    <2> QED
        BY <2>4, <2>7, <2>8, <2>9 DEF BufferInv
<1> QED
    BY <1>3, <1>4 DEF Register

LEMMA FreeBufferKeeps ==
    ASSUME BufferInv, NEW m \in Mappers, NEW h \in Addresses, FreeBuffer(m, h)
    PROVE  BufferInv'
<1>0. TypeOK /\ RefsNamed /\ RefsAccounted /\ NamesHeld /\ IdleHoldsNothing
    BY DEF BufferInv
<1> DEFINE n == imported[h][1]
<1>1. n \in Names
    BY <1>0 DEF FreeBuffer, TypeOK, RawHandles
<1>2. h \in Imports(n)
    BY DEF FreeBuffer, Imports
<1>3. refs[n] # 0
    <2> HIDE DEF n
    <2> QED
        BY <1>1, <1>2, FreeNameUnheld
<1>4. refs' \in [Names -> Nat]
    BY <1>0, <1>1, <1>3 DEF FreeBuffer, DropRef, TypeOK
<1>5. TypeOK'
    BY <1>0, <1>4 DEF FreeBuffer, TypeOK, DrmTypeOK, drmVars, allocVars
<1>6. \A k \in Names : CallRefs(k)' = CallRefs(k)
    BY <1>0, <1>5, SameCallRefs DEF FreeBuffer, allocVars
<1>7. \A k \in Names : Cardinality(Imports(k)) =
                          Cardinality(Imports(k)') + IF k = n THEN 1 ELSE 0
    BY <1>0, LoseImport DEF FreeBuffer
<1>8. RefsAccounted'
    <2> SUFFICES ASSUME NEW k \in Names
                 PROVE  refs'[k] = Cardinality(CallRefs(k)') + Cardinality(Imports(k)')
        BY DEF RefsAccounted
    <2>1. refs[k] = refs'[k] + IF k = n THEN 1 ELSE 0
        BY <1>0, <1>1 DEF FreeBuffer, DropRef, TypeOK
    <2>2. IsFiniteSet(Imports(k)') /\ Cardinality(Imports(k)') \in Nat
        BY BufferAssumption, FS_Subset, FS_CardinalityType DEF Imports
    <2>3. Cardinality(CallRefs(k)) \in Nat /\ refs[k] = Cardinality(CallRefs(k)) + Cardinality(Imports(k))
        BY <1>0, HoldersFinite DEF RefsAccounted
    <2>4. refs'[k] \in Nat
        BY <1>4
    <2> HIDE DEF n
    <2> QED
        BY <1>6, <1>7, <2>1, <2>2, <2>3, <2>4
<1>9. NamesHeld' /\ RefsNamed' /\ IdleHoldsNothing'
    BY <1>0, <1>1, <1>3
       DEF FreeBuffer, DropRef, allocVars, NamesHeld, RefsNamed, IdleHoldsNothing, TypeOK
<1> QED
    BY <1>5, <1>8, <1>9 DEF BufferInv

LEMMA ExitKeeps ==
    ASSUME BufferInv, Exit
    PROVE  BufferInv'
<1>0. TypeOK /\ RefsNamed /\ RefsAccounted /\ NamesHeld /\ IdleHoldsNothing
    BY DEF BufferInv
<1>1. \A n \in Names : /\ refs[n] - Cardinality(Imports(n)) = Cardinality(CallRefs(n))
                         /\ Cardinality(CallRefs(n)) \in Nat
                         /\ refs[n] >= Cardinality(CallRefs(n))
    BY <1>0, HoldersFinite DEF RefsAccounted
<1>2. refs' \in [Names -> Nat]
    BY <1>1 DEF Exit
<1>3. TypeOK'
    BY <1>0, <1>2 DEF Exit, TypeOK, DrmTypeOK, drmVars, allocVars
<1>4. \A n \in Names : CallRefs(n)' = CallRefs(n)
    BY <1>0, <1>3, SameCallRefs DEF Exit, allocVars
<1>5. \A n \in Names : Imports(n)' = {}
    BY DEF Exit, Imports
<1>6. RefsAccounted'
    <2> SUFFICES ASSUME NEW n \in Names
                 PROVE  refs'[n] = Cardinality(CallRefs(n)') + Cardinality(Imports(n)')
        BY DEF RefsAccounted
    <2>1. Cardinality(Imports(n)') = 0
        BY <1>5, FS_EmptySet
    <2>2. Cardinality(CallRefs(n)') = Cardinality(CallRefs(n))
        BY <1>4
    <2>3. refs'[n] = Cardinality(CallRefs(n))
        BY <1>1 DEF Exit
    <2> QED
        BY <1>1, <2>1, <2>2, <2>3
<1>7. RefsNamed'
    <2>1. \A n \in Names : refs'[n] > 0 => refs[n] > 0
        BY <1>0, <1>1 DEF Exit, TypeOK
    <2> QED
        BY <1>0, <2>1 DEF Exit, RefsNamed, allocVars
<1>8. NamesHeld' /\ IdleHoldsNothing'
    BY <1>0 DEF Exit, allocVars, NamesHeld, IdleHoldsNothing
<1> QED
    BY <1>3, <1>6, <1>7, <1>8 DEF BufferInv

LEMMA BufferInvKept ==
    ASSUME BufferInv, [Next]_vars
    PROVE  BufferInv'
<1>1. CASE \E a \in AllocThreads :
               (\E count \in 0..MaxCount : CallAllocate(a, count)) \/ AllocStep(a)
    BY <1>1, AllocKeeps
<1>2. CASE Restart
    BY <1>2, RestartKeeps
<1>3. ASSUME NEW t \in ClientThreads, PerformerStep(t) \/ DrmInit(t),
             UNCHANGED <<allocVars, refs, clientVars>>
      PROVE  BufferInv'
    <2>1. DrmTypeOK'
        BY <1>3, DrmStepType DEF BufferInv, TypeOK
    <2> QED
        BY <1>3, <2>1, ClientStepKeeps DEF clientVars, BufferInv, TypeOK
<1>4. ASSUME NEW m \in Mappers, NEW handle \in raw \cup {NoHandle}, CallImport(m, handle)
      PROVE  BufferInv'
    <2>1. DrmTypeOK'
        BY <1>4 DEF CallImport, BufferInv, TypeOK, DrmTypeOK, drmVars, Goto, ClientThreads
    <2>2. asked' \in [Mappers -> RawHandles \cup {NoHandle}]
        BY <1>4 DEF CallImport, BufferInv, TypeOK
    <2> QED
        BY <1>4, <2>1, <2>2, ClientStepKeeps DEF CallImport
<1>5. CASE \E m \in Mappers : Register(m)
    BY <1>5, RegisterKeeps
<1>6. CASE \E m \in Mappers, h \in Addresses : FreeBuffer(m, h)
    BY <1>6, FreeBufferKeeps
<1>7. CASE Exit
    BY <1>7, ExitKeeps
<1>8. CASE UNCHANGED vars
    <2>1. DrmTypeOK'
        BY <1>8 DEF vars, drmVars, BufferInv, TypeOK, DrmTypeOK
    <2> QED
        BY <1>8, <2>1, ClientStepKeeps DEF vars, clientVars, BufferInv, TypeOK
<1> QED
    BY <1>1, <1>2, <1>3, <1>4, <1>5, <1>6, <1>7, <1>8 DEF Next, ClientThreads

LEMMA BufferInvariant == Spec => []BufferInv
BY InitBufferInv, BufferInvKept, PTL DEF Spec

\* The state of buffers, handles and drm objects keeps its type, for any number of
\* threads, names and buffers; no count of references goes below zero.
THEOREM TypeCorrect == Spec => []TypeOK
BY BufferInvariant, PTL DEF BufferInv

\* Allocator::allocate, Mapper::importBuffer and Mapper::freeBuffer account for every
\* reference, whichever step fails and whichever process dies.
THEOREM RefsAreAccounted == Spec => []RefsAccounted
BY BufferInvariant, PTL DEF BufferInv

\* A name that a call of the allocator or a client holds still stands for the buffer
\* it was made for, or imported as.
THEOREM NamesAreHeld == Spec => []NamesHeld
BY BufferInvariant, PTL DEF BufferInv

-----------------------------------------------------------------------------
(* The drm object.                                                         *)

\* A performer has the mutex from its test to the end of drm_init.
MutexHeld ==
    \A p \in Performers : pc[p] \in {"test", "create", "store", "tested"} => mutex = p

\* What a thread is about to store, it has created.
OwnStored ==
    \A t \in ClientThreads :
        /\ pc[t] = "create" => seen[t] = NoDrm
        /\ pc[t] = "store" /\ seen[t] # NoDrm => seen[t][1] = t

\* An object that turns up while a performer creates one is the mapper's.
OnlyMapperBeside ==
    \A p \in Performers : pc[p] \in {"create", "store"} /\ drm # NoDrm => drm[1] \in Mappers

\* Before an object is replaced, what was tested is what is there.
SeenIsDrm ==
    ~overwritten => \A t \in ClientThreads :
                        /\ pc[t] = "tested" /\ seen[t] # NoDrm => drm = seen[t]
                        /\ pc[t] = "getFd" => drm # NoDrm

DrmInv == DrmTypeOK /\ MutexHeld /\ OwnStored /\ OnlyMapperBeside /\ SeenIsDrm /\ OneDrm

LEMMA InitDrmInv == Init => DrmInv
<1>1. Init => DrmTypeOK
    BY InitBufferInv DEF BufferInv, TypeOK
<1> QED
    BY <1>1, ThreadAssumption
       DEF Init, DrmStart, DrmInv, MutexHeld, OwnStored, OnlyMapperBeside, SeenIsDrm, OneDrm,
           ClientThreads

\* One step of drm_init or drm_mod_perform.
LEMMA DrmInvStep ==
    ASSUME DrmInv, NEW t \in ClientThreads, DrmInit(t) \/ (t \in Performers /\ PerformerStep(t))
    PROVE  DrmInv'
<1>0. DrmTypeOK /\ DrmTypeOK'
    BY DrmStepType DEF DrmInv
<1> USE <1>0 DEF DrmInv, At, Goto, Forget, DrmInitFailed, drmVars
<1>1. CASE Perform(t)
    BY <1>1 DEF Perform, DrmTypeOK, ClientThreads, MutexHeld, OwnStored, OnlyMapperBeside,
                SeenIsDrm, OneDrm
<1>2. CASE t \in Performers /\ DrmLock(t)
    BY <1>2, ThreadAssumption
       DEF DrmLock, DrmTypeOK, ClientThreads, MutexHeld, OwnStored, OnlyMapperBeside,
           SeenIsDrm, OneDrm
<1>3. CASE DrmTest(t)
    BY <1>3 DEF DrmTest, DrmTypeOK, ClientThreads, MutexHeld, OwnStored, OnlyMapperBeside,
                SeenIsDrm, OneDrm
<1>4. CASE DrmCreate(t)
    <2>1. MutexHeld' /\ OnlyMapperBeside' /\ SeenIsDrm' /\ OneDrm'
        BY <1>4 DEF DrmCreate, DrmTypeOK, ClientThreads, MutexHeld, OnlyMapperBeside,
                    SeenIsDrm, OneDrm
    <2>2. OwnStored'
        BY <1>4 DEF DrmCreate, DrmTypeOK, OwnStored
    <2> QED
        BY <2>1, <2>2
<1>5. CASE DrmStore(t)
    <2>1. MutexHeld' /\ OwnStored'
        BY <1>5 DEF DrmStore, DrmTypeOK, ClientThreads, MutexHeld, OwnStored
    <2>2. OnlyMapperBeside'
        <3> SUFFICES ASSUME NEW p \in Performers, pc'[p] \in {"create", "store"}, drm' # NoDrm
                     PROVE  drm'[1] \in Mappers
            BY DEF OnlyMapperBeside
        <3>1. p # t /\ pc[p] = pc'[p]
            BY <1>5 DEF DrmStore, DrmTypeOK, ClientThreads
        <3>2. drm'[1] = t
            BY <1>5 DEF DrmStore, OwnStored
        <3>3. t \notin Performers
            BY <1>5, <3>1 DEF DrmStore, MutexHeld
        <3> QED
            BY <3>2, <3>3 DEF ClientThreads
    <2>3. SeenIsDrm' /\ OneDrm'
        <3> SUFFICES ASSUME ~overwritten'
                     PROVE  SeenIsDrm' /\ OneDrm'
            BY DEF SeenIsDrm, OneDrm
        <3>1. drm = NoDrm /\ ~overwritten
            BY <1>5 DEF DrmStore
        <3>2. used = {}
            BY <3>1, DrmAssumption DEF OneDrm
        <3> QED
            BY <1>5, <3>1, <3>2 DEF DrmStore, DrmTypeOK, SeenIsDrm, OneDrm
    <2> QED
        BY <2>1, <2>2, <2>3
<1>6. CASE DrmUnlock(t) /\ t \in Performers
    BY <1>6 DEF DrmUnlock, DrmTypeOK, ClientThreads, MutexHeld, OwnStored, OnlyMapperBeside,
                SeenIsDrm, OneDrm
<1>7. CASE GetDrmFd(t)
    BY <1>7 DEF GetDrmFd, DrmTypeOK, ClientThreads, MutexHeld, OwnStored, OnlyMapperBeside,
                SeenIsDrm, OneDrm
<1> QED
    BY <1>1, <1>2, <1>3, <1>4, <1>5, <1>6, <1>7 DEF PerformerStep, DrmInit

LEMMA DrmInvKept ==
    ASSUME TypeOK, TypeOK', DrmInv, [Next]_vars
    PROVE  DrmInv'
<1>0. DrmTypeOK /\ DrmTypeOK'
    BY DEF TypeOK
<1>1. CASE \E t \in ClientThreads : DrmInit(t) \/ (t \in Performers /\ PerformerStep(t))
    BY <1>1, DrmInvStep
<1>2. ASSUME NEW m \in Mappers, At(m, "idle"), Goto(m, "test"), UNCHANGED drmVars
      PROVE  DrmInv'
    BY <1>0, <1>2, ThreadAssumption
       DEF At, Goto, drmVars, DrmInv, DrmTypeOK, ClientThreads, MutexHeld, OwnStored,
           OnlyMapperBeside, SeenIsDrm, OneDrm
<1>3. ASSUME NEW m \in Mappers, Register(m)
      PROVE  DrmInv'
    <2>1. MutexHeld' /\ OwnStored' /\ OnlyMapperBeside' /\ SeenIsDrm'
        BY <1>0, <1>3, ThreadAssumption
           DEF Register, At, Goto, Forget, DrmInv, DrmTypeOK, ClientThreads, MutexHeld,
               OwnStored, OnlyMapperBeside, SeenIsDrm
    <2>2. OneDrm'
        BY <1>0, <1>3
           DEF Register, At, DrmInitFailed, DrmInv, DrmTypeOK, ClientThreads, SeenIsDrm, OneDrm
    <2> QED
        BY <1>0, <2>1, <2>2 DEF DrmInv
<1>4. CASE UNCHANGED <<drmVars, pc>>
    BY <1>0, <1>4
       DEF drmVars, DrmInv, MutexHeld, OwnStored, OnlyMapperBeside, SeenIsDrm, OneDrm
<1>5. CASE \E a \in AllocThreads :
               (\E count \in 0..MaxCount : CallAllocate(a, count)) \/ AllocStep(a)
    BY <1>4, <1>5 DEF CallAllocate, AllocStep, AllocateOne, NewBuffer, EndAllocate, Reply, WakeUp, FreeOne,
                      EndCall
<1> QED
    BY <1>1, <1>2, <1>3, <1>4, <1>5
       DEF Next, vars, ClientThreads, CallImport, FreeBuffer, Restart, Exit

LEMMA DrmInvariant == Spec => []DrmInv
<1>1. BufferInv => TypeOK
    BY DEF BufferInv
<1>2. TypeOK /\ TypeOK' /\ DrmInv /\ [Next]_vars => DrmInv'
    BY DrmInvKept
<1> QED
    BY <1>1, <1>2, InitDrmInv, BufferInvariant, PTL DEF Spec

\* As long as no object was replaced, all handles and fds of the process belong to
\* the one in mod->drm and nobody goes through a null one, for any number of threads.
THEOREM DrmIsOne == Spec => []OneDrm
BY DrmInvariant, PTL DEF DrmInv

\* The mutex of the gralloc module makes its users create the object once: only the
\* mapper's drm_init, which does not take it, replaces one or has one replaced.
THEOREM DrmIsKept == Spec => DrmKept
<1> DEFINE Kept == drm # NoDrm /\ drm' # drm =>
                       drm[1] \in Mappers \/ \E m \in Mappers : pc[m] = "store" /\ pc'[m] # "store"
<1>1. TypeOK /\ DrmInv /\ [Next]_vars => [Kept]_<<drm, pc>>
    <2> SUFFICES ASSUME TypeOK, DrmInv, [Next]_vars, drm # NoDrm, drm' # drm
                 PROVE  drm[1] \in Mappers \/ \E m \in Mappers : pc[m] = "store" /\ pc'[m] # "store"
        OBVIOUS
    <2>1. PICK t \in ClientThreads : DrmStore(t)
        BY DEF Next, vars, drmVars, allocVars, clientVars, ClientThreads, AllocStep, CallAllocate,
               AllocateOne, NewBuffer, EndAllocate, Reply, WakeUp, FreeOne, EndCall, Restart, PerformerStep,
               Perform, DrmLock, DrmInit, DrmTest, DrmCreate, DrmUnlock, GetDrmFd, CallImport,
               Register, FreeBuffer, Exit
    <2>2. pc[t] = "store" /\ pc'[t] = "tested"
        BY <2>1 DEF DrmStore, At, Goto, DrmInv, DrmTypeOK
    <2> QED
        BY <2>2 DEF DrmInv, OnlyMapperBeside, ClientThreads
<1>2. BufferInv => TypeOK
    BY DEF BufferInv
<1> QED
    BY <1>1, <1>2, BufferInvariant, DrmInvariant, PTL DEF Spec, DrmKept
=============================================================================
