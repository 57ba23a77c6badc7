---------------------------- MODULE BufferLifecycle ----------------------------
(***************************************************************************)
(* The life of a graphic buffer: the allocator service creates it, sends   *)
(* its handle to a client and frees it a millisecond later; the mapper in  *)
(* the client's process registers a clone of the handle, and frees it.     *)
(* The drm object of the client's process is DrmInit.                      *)
(*                                                                         *)
(* gralloc_drm is external.  A handle carries the global name of a buffer; *)
(* a name is valid while some process has a reference to the buffer, and   *)
(* is given to another buffer afterwards.                                  *)
(***************************************************************************)
EXTENDS DrmInit, FiniteSets

CONSTANTS
    AllocThreads,  \* binder threads of the allocator service
    Names,         \* names of buffers
    Addresses,     \* where a process keeps its cloned handles
    NoHandle,
    MaxCount,      \* bound of the model on the buffers of one call
    MaxBuffers     \* bound of the model on the buffers ever created

Buffers == 1..MaxBuffers
RawHandles == Names \X Buffers

ASSUME BufferAssumption ==
    /\ NoHandle \notin RawHandles
    /\ IsFiniteSet(Names) /\ IsFiniteSet(Addresses) /\ IsFiniteSet(AllocThreads)
    /\ MaxCount \in Nat /\ MaxBuffers \in Nat

VARIABLES
    buffers,       \* buffers created so far
    named,         \* the buffer a name stands for
    refs,          \* references to the buffer of a name, 0 if the name is free
    call,          \* what each binder thread of the allocator is doing
    raw,           \* handles the client has received
    asked,         \* the handle a mapper thread registers, NoHandle if it has no clone
    imported       \* the cloned handles of the client

allocVars == <<buffers, named, call>>
clientVars == <<raw, asked, imported>>
vars == <<drmVars, pc, allocVars, refs, clientVars>>

Calls == [at : {"idle", "allocate", "reply", "sleep", "free"}, count : 0..MaxCount,
          bufs : SUBSET RawHandles, err : BOOLEAN]
NoCall == [at |-> "idle", count |-> 0, bufs |-> {}, err |-> FALSE]

TypeOK ==
    /\ DrmTypeOK
    /\ buffers \in 0..MaxBuffers
    /\ named \in [Names -> 0..MaxBuffers]
    /\ refs \in [Names -> Nat]
    /\ call \in [AllocThreads -> Calls]
    /\ raw \subseteq RawHandles
    /\ asked \in [Mappers -> RawHandles \cup {NoHandle}]
    /\ imported \in [Addresses -> RawHandles \cup {NoHandle}]

Init ==
    /\ DrmStart
    /\ pc = [t \in ClientThreads |-> "idle"]
    /\ buffers = 0
    /\ named = [n \in Names |-> 0]
    /\ refs = [n \in Names |-> 0]
    /\ call = [a \in AllocThreads |-> NoCall]
    /\ raw = {}
    /\ asked = [m \in Mappers |-> NoHandle]
    /\ imported = [h \in Addresses |-> NoHandle]

-----------------------------------------------------------------------------
(* Allocator::allocate.                                                    *)

CallAt(a, point) == call[a].at = point
DropRef(n) == refs' = [refs EXCEPT ![n] = @ - 1]

\* A descriptor that does not decode is refused at once.
CallAllocate(a, count) ==
    /\ CallAt(a, "idle")
    /\ call' = [call EXCEPT ![a] = [NoCall EXCEPT !.at = "allocate", !.count = count]]
    /\ UNCHANGED <<drmVars, pc, buffers, named, refs, clientVars>>

\* drm_alloc makes a buffer with a free name and one reference, that of its handle.
NewBuffer(n) ==
    /\ refs[n] = 0 /\ buffers < MaxBuffers                      \* bound
    /\ buffers' = buffers + 1
    /\ named' = [named EXCEPT ![n] = buffers']
    /\ refs' = [refs EXCEPT ![n] = 1]

\* (mutant) A buffer with another stride is not kept.
AllocateOneDropsBuffer(a) ==
    LET c == call[a] IN
    /\ c.at = "allocate" /\ Cardinality(c.bufs) < c.count /\ ~c.err
    /\ \/ /\ call' = [call EXCEPT ![a].err = TRUE]
          /\ UNCHANGED <<buffers, named, refs>>
       \/ \E n \in Names, differs \in BOOLEAN :
              /\ NewBuffer(n)
              /\ differs => c.bufs # {}
              /\ call' = [call EXCEPT ![a] =
                            IF differs THEN [c EXCEPT !.err = TRUE]
                            ELSE [c EXCEPT !.bufs = @ \cup {<<n, buffers'>>}]]
    /\ UNCHANGED <<drmVars, pc, clientVars>>

\* One round of the loop: drm_alloc fails, or makes a buffer, which is kept also
\* when its stride differs from that of the first one.
AllocateOne(a) ==
    LET c == call[a] IN
    /\ c.at = "allocate" /\ Cardinality(c.bufs) < c.count /\ ~c.err
    /\ \/ /\ call' = [call EXCEPT ![a].err = TRUE]
          /\ UNCHANGED <<buffers, named, refs>>
       \/ \E n \in Names, differs \in BOOLEAN :
              /\ NewBuffer(n)
              /\ differs => c.bufs # {}
              /\ call' = [call EXCEPT ![a].bufs = @ \cup {<<n, buffers'>>},
                                      ![a].err = differs]
    /\ UNCHANGED <<drmVars, pc, clientVars>>

\* (mutant) The buffers of a failed call are forgotten.
EndAllocateForgets(a) ==
    LET c == call[a] IN
    /\ c.at = "allocate" /\ (c.err \/ Cardinality(c.bufs) = c.count)
    /\ call' = [call EXCEPT ![a] = IF c.err THEN NoCall ELSE [c EXCEPT !.at = "reply"]]
    /\ UNCHANGED <<drmVars, pc, buffers, named, refs, clientVars>>

\* After an error the buffers are freed and the client gets none.
EndAllocate(a) ==
    LET c == call[a] IN
    /\ c.at = "allocate" /\ (c.err \/ Cardinality(c.bufs) = c.count)
    /\ call' = [call EXCEPT ![a] = [NoCall EXCEPT !.bufs = c.bufs,
                                              !.at = IF c.err THEN "free" ELSE "reply"]]
    /\ UNCHANGED <<drmVars, pc, buffers, named, refs, clientVars>>

\* hidl_cb sends the handles; the thread then sleeps.
Reply(a) ==
    /\ CallAt(a, "reply")
    /\ raw' = raw \cup call[a].bufs
    /\ call' = [call EXCEPT ![a].at = "sleep"]
    /\ UNCHANGED <<drmVars, pc, buffers, named, refs, asked, imported>>

\* usleep(1000) is over.
WakeUp(a) ==
    /\ CallAt(a, "sleep")
    /\ call' = [call EXCEPT ![a].at = "free"]
    /\ UNCHANGED <<drmVars, pc, buffers, named, refs, clientVars>>

\* (mutant) A buffer is freed again until all are.
FreeOneTwice(a, buf) ==
    /\ CallAt(a, "free")
    /\ DropRef(buf[1])
    /\ \/ call' = [call EXCEPT ![a].bufs = @ \ {buf}]
       \/ refs[buf[1]] > 1 /\ UNCHANGED call
    /\ UNCHANGED <<drmVars, pc, buffers, named, clientVars>>

\* freeBuffers: drm_free of the buffers, one by one.
FreeOne(a, buf) ==
    /\ CallAt(a, "free")
    /\ DropRef(buf[1])
    /\ call' = [call EXCEPT ![a].bufs = @ \ {buf}]
    /\ UNCHANGED <<drmVars, pc, buffers, named, clientVars>>

EndCall(a) ==
    /\ CallAt(a, "free")
    /\ call[a].bufs = {}
    /\ call' = [call EXCEPT ![a] = NoCall]
    /\ UNCHANGED <<drmVars, pc, buffers, named, refs, clientVars>>

\* References of the calls to name n.
CallRefs(n) == UNION {{a} \X {buf \in call[a].bufs : buf[1] = n} : a \in AllocThreads}

\* The service dies, and is started again: the kernel takes back its references.
Restart ==
    /\ \E a \in AllocThreads : ~CallAt(a, "idle")
    /\ refs' = [n \in Names |-> refs[n] - Cardinality(CallRefs(n))]
    /\ call' = [a \in AllocThreads |-> NoCall]
    /\ UNCHANGED <<drmVars, pc, buffers, named, clientVars>>

-----------------------------------------------------------------------------
(* Mapper::importBuffer and Mapper::freeBuffer, and drm_mod_perform beside *)
(* them.  A null handle is refused at once.                                *)

\* native_handle_clone may fail; drm_register is called all the same.
CallImport(m, handle) ==
    /\ At(m, "idle")
    /\ asked' = [asked EXCEPT ![m] = handle]
    /\ Goto(m, "test")
    /\ UNCHANGED <<drmVars, allocVars, refs, raw, imported>>

\* The rest of drm_register.  The race on mod->drm leaves open whether the value tested
\* is used or the member read again; after an error the clone is closed and deleted.
Register(m) ==
    /\ At(m, "tested")
    /\ Goto(m, "idle")
    /\ asked' = [asked EXCEPT ![m] = NoHandle]
    /\ \/ DrmInitFailed(m) /\ UNCHANGED <<used, refs, imported>>
       \/ /\ ~DrmInitFailed(m)
          /\ \E d \in {drm, seen[m]} : used' = used \cup {d}
          /\ \/ UNCHANGED <<refs, imported>>
             \/ \E h \in Addresses, n \in Names :
                    /\ asked[m] # NoHandle /\ n = asked[m][1]
                    /\ refs[n] > 0 /\ imported[h] = NoHandle
                    /\ refs' = [refs EXCEPT ![n] = @ + 1]
                    /\ imported' = [imported EXCEPT ![h] = <<n, named[n]>>]
    /\ Forget(m)
    /\ UNCHANGED <<drm, drms, mutex, overwritten, allocVars, raw>>

\* The client frees a handle once, and not while another call works on it.
FreeBuffer(m, h) ==
    /\ At(m, "idle")
    /\ imported[h] # NoHandle
    /\ DropRef(imported[h][1])
    /\ imported' = [imported EXCEPT ![h] = NoHandle]
    /\ UNCHANGED <<drmVars, pc, allocVars, raw, asked>>

\* The handles of the client with name n.
Imports(n) == {h \in Addresses : imported[h] # NoHandle /\ imported[h][1] = n}

\* The process has crashed: the kernel takes back its references.
Exit ==
    /\ Crashed
    /\ \E h \in Addresses : imported[h] # NoHandle
    /\ refs' = [n \in Names |-> refs[n] - Cardinality(Imports(n))]
    /\ imported' = [h \in Addresses |-> NoHandle]
    /\ UNCHANGED <<drmVars, pc, allocVars, raw, asked>>

-----------------------------------------------------------------------------
AllocStep(a) ==
    \/ AllocateOne(a)
    \/ EndAllocate(a)
    \/ Reply(a)
    \/ WakeUp(a)
    \/ \E buf \in call[a].bufs : FreeOne(a, buf)
    \/ EndCall(a)

Next ==
    \/ \E a \in AllocThreads :
           \/ \E count \in 0..MaxCount : CallAllocate(a, count)
           \/ AllocStep(a)
    \/ Restart
    \/ /\ ~Crashed
       /\ \/ \E p \in Performers :
                 PerformerStep(p) /\ UNCHANGED <<allocVars, refs, clientVars>>
          \/ \E m \in Mappers :
                 \/ \E handle \in raw \cup {NoHandle} : CallImport(m, handle)
                 \/ DrmInit(m) /\ UNCHANGED <<allocVars, refs, clientVars>>
                 \/ Register(m)
                 \/ \E h \in Addresses : FreeBuffer(m, h)
    \/ Exit

\* A binder thread of the allocator that can go on does.
Spec == Init /\ [][Next]_vars /\ \A a \in AllocThreads : WF_vars(AllocStep(a))

-----------------------------------------------------------------------------
(* Properties.                                                             *)

\* Every reference to a buffer belongs to a call of the allocator that will drop it or
\* to a handle of the client: none is lost when the second buffer of a call cannot be
\* made or has another stride, when an import fails, or when a process dies.
RefsAccounted ==
    \A n \in Names : refs[n] = Cardinality(CallRefs(n)) + Cardinality(Imports(n))

\* A name is not given to another buffer while a call or a client holds it: what is
\* imported before the allocator frees it is the buffer that was sent, and stays it.
NamesHeld ==
    /\ \A a \in AllocThreads : \A buf \in call[a].bufs : named[buf[1]] = buf[2]
    /\ \A h \in Addresses : imported[h] # NoHandle => named[imported[h][1]] = imported[h][2]

\* The allocator lets go of every buffer, after success, failure or restart: a buffer
\* that no client imports goes away.
BufferReclaimed ==
    \A n \in Names : refs[n] > 0 ~> refs[n] = 0 \/ Imports(n) # {}
=============================================================================
