------------------------------ MODULE LocalPath ------------------------------
(***************************************************************************)
(* A message through LocalPolicyV2 and the ExperienceManager: the policy's *)
(* actions become proposals of full confidence (_to_proposal), and the     *)
(* manager, with no fallback of its own, resolves them.                    *)
(***************************************************************************)
EXTENDS LocalPolicyV2, PolicyPath

pathVars == <<vars, managerVars>>

PathInit == Init /\ Manager!Init

Plan == stage = "call" /\ PlanOne /\ UNCHANGED managerVars

Propose ==
    /\ pc = "planned"
    /\ HandOver(actions)
    /\ UNCHANGED vars

Accept == AcceptOne /\ UNCHANGED vars

Return == stage = "answered" /\ Manager!Return /\ Returned

PathNext == Plan \/ Propose \/ Accept \/ Return

PathSpec == PathInit /\ [][PathNext]_pathVars

-----------------------------------------------------------------------------
(* The policy returns pairs that a forget of the model has split; what      *)
(* reaches the engine is linked all the same.                               *)
LocalRoutedLinked == stage = "answered" => Linked(Routed)

(* The inductive invariant of the path: those of its two parts, and what    *)
(* the manager was handed is what the policy has planned.                   *)
PathInv ==
    /\ LocalInv
    /\ stage # "call" => Planned /\ proposals = Handed(actions)
    /\ Manager!ManagerInv
=============================================================================
