-------------------------- MODULE MCBufferLifecycle --------------------------
(***************************************************************************)
(* Two instances in one run: an allocator and one performer beside the     *)
(* mapper, and two performers beside the mapper in a client that is sent   *)
(* no buffer.  Together they have ten times as many states, and meet only  *)
(* in a crash of the client, which the first instance has.                 *)
(***************************************************************************)
EXTENDS BufferLifecycle

CONSTANT SecondPerformer

VARIABLE crowded   \* are there two performers, and no allocator?

MCInit == Init /\ crowded \in BOOLEAN

MCNext ==
    /\ Next
    /\ crowded => UNCHANGED allocVars
    /\ ~crowded => pc'[SecondPerformer] = pc[SecondPerformer]
    /\ UNCHANGED crowded

MCSpec ==
    /\ MCInit
    /\ [][MCNext]_<<vars, crowded>>
    /\ \A a \in AllocThreads : WF_vars(AllocStep(a))
=============================================================================
