------------------------------ MODULE MCMainThread ------------------------------
(* Who waits for whom: threads for the main thread, through its queue, and the    *)
(* main thread for the teardown of a runtime.  The models share no state: a        *)
(* behaviour is one of the two, and the other keeps its initial state.            *)
EXTENDS MainThreadQueue, HostTeardown

\* Two calls let a thread come back while an older batch is still in progress;
\* one call of the main thread's own is a post or a call in place from a task.
TwoCalls == [t \in Threads |-> IF t = Main THEN 1 ELSE 2]
TwoSurfaces == <<1, 11>>

VARIABLE part
parts == <<part, vars, teardownVars>>

InQueue(A) == part = "queue" /\ A /\ UNCHANGED <<part, teardownVars>>
InTeardown(A) == part = "teardown" /\ A /\ UNCHANGED <<part, vars>>

PartsInit == part \in {"queue", "teardown"} /\ Init /\ TeardownInit
PartsNext == InQueue(Next) \/ InTeardown(TeardownNext)

\* The fairness of MainThreadQueue's Spec and of TeardownSpec.
PartsSpec ==
  /\ PartsInit /\ [][PartsNext]_parts
  /\ WF_parts(InQueue(Drain)) /\ \A t \in Callers : WF_parts(InQueue(Return(t)))
  /\ WF_parts(InTeardown(MainStep)) /\ WF_parts(InTeardown(JSStep))
  /\ WF_parts(InTeardown(RunStorage)) /\ WF_parts(InTeardown(TeardownStep))
=================================================================================
