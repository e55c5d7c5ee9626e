------------------------------- MODULE MCServices -------------------------------
(* Native parts between JavaScript's thread and the main thread: mounting, sockets  *)
(* and Blobs.  The models share no state: a behaviour is one of them, and the      *)
(* others keep their initial states.                                              *)
EXTENDS Mounting, Sockets

VARIABLE part
parts == <<part, mountingVars, socketVars>>

InMounting(A) == part = "mounting" /\ A /\ UNCHANGED <<part, socketVars>>
InSockets(A) == part = "sockets" /\ A /\ UNCHANGED <<part, mountingVars>>

Init == part \in {"mounting", "sockets"} /\ MountingInit /\ SocketsInit
Next == InMounting(MountingNext) \/ InSockets(SocketsNext)

\* The fairness of MountingSpec, and SocketsFairness.  A behaviour has steps of one part
\* only, so a formula that joins two actions says the same of each.
Spec ==
  /\ Init /\ [][Next]_parts
  /\ WF_parts(InMounting(Drained) \/ InSockets(BlobRead \/ Poll)) /\ WF_parts(InSockets(Handle))
  /\ SF_parts(InSockets(MainCall)) /\ SF_parts(InSockets(BeginFrame))
  /\ \A s \in Sockets : SF_parts(InSockets(CloseTimeout(s)))
=================================================================================
