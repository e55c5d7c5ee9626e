--------------------------------- MODULE MCGame ---------------------------------
(* What the game and JavaScript ask of each other: evaluations and segments,       *)
(* alerts, input, and what is stored for the next start.  The models share no      *)
(* state: a behaviour is one of them, and the others keep their initial states.    *)
EXTENDS HostEvaluations, Alerts, GameServices, AsyncStorage

CONSTANTS home, shop

OneStartup == <<home>>   \* which the game may load too; shop comes from a pack

VARIABLE part
parts == <<part, evaluationVars, alertVars, inputVars, storageVars>>

InEvaluations(A) ==
  part = "evaluations" /\ A /\ UNCHANGED <<part, alertVars, inputVars, storageVars>>
InAlerts(A) == part = "alerts" /\ A /\ UNCHANGED <<part, evaluationVars, inputVars, storageVars>>
InInput(A) == part = "input" /\ A /\ UNCHANGED <<part, evaluationVars, alertVars, storageVars>>
InStorage(A) == part = "storage" /\ A /\ UNCHANGED <<part, evaluationVars, alertVars, inputVars>>

Init == /\ part \in {"evaluations", "alerts", "input", "storage"}
        /\ EvaluationsInit /\ AlertsInit /\ InputInit /\ StorageInit
        /\ part = "evaluations" \/ (metro /\ hasFile /\ files = Segments)
        /\ part = "storage" \/ disk.file = Absent
Next == \/ InEvaluations(EvaluationsNext)
        \/ InAlerts(AlertsNext) \/ InInput(InputNext)
        \/ InStorage(StorageNext)

\* The fairness of EvaluationsSpec.
Spec ==
  /\ Init /\ [][Next]_parts
  /\ WF_parts(InEvaluations(Frame)) /\ SF_parts(InEvaluations(Deliver))
  /\ SF_parts(InEvaluations(Flush)) /\ SF_parts(InEvaluations(BundleArrives))
  /\ \A g \in Generations : WF_parts(InEvaluations(RunTask(g)))
=================================================================================
