------------------------------- MODULE SyncCalls -------------------------------
(***************************************************************************)
(* What RNMainThreadQueue::run_sync promises the threads that call it,     *)
(* without its queue, its batches or its waits: work runs on the main      *)
(* thread, one piece at a time, while its caller is blocked; a shut door   *)
(* refuses, and what was already running is still reported as served.      *)
(***************************************************************************)
EXTENDS Naturals, FiniteSets

CONSTANT Callers

VARIABLES shut,    \* no work may start any more
          phase    \* what each caller's current request has come to

Phases == {"idle", "asked", "running", "served", "refused"}

Init == /\ shut = FALSE
        /\ phase = [t \in Callers |-> "idle"]

Move(t, from, to) == /\ phase[t] = from
                     /\ phase' = [phase EXCEPT ![t] = to]
                     /\ UNCHANGED shut

Ask(t) == Move(t, "idle", IF shut THEN "refused" ELSE "asked")

\* The main thread is one thread.
Run(t) == /\ ~shut
          /\ \A u \in Callers : phase[u] # "running"
          /\ Move(t, "asked", "running")

Serve(t) == Move(t, "running", "served")

Refuse(t) == shut /\ Move(t, "asked", "refused")

Leave(t) == \E p \in {"served", "refused"} : Move(t, p, "idle")

\* Shutting refuses some of those who asked at once; Refuse deals with the rest.
Shut == \E R \in SUBSET {t \in Callers : phase[t] = "asked"} :
          /\ shut' = TRUE
          /\ phase' = [t \in Callers |-> IF t \in R THEN "refused" ELSE phase[t]]

Next == Shut \/ \E t \in Callers :
                  Ask(t) \/ Run(t) \/ Serve(t) \/ Refuse(t) \/ Leave(t)

Spec == Init /\ [][Next]_<<shut, phase>>
================================================================================
