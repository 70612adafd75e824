------------------------------ MODULE PolicyPath ------------------------------
(***************************************************************************)
(* How the batch of a policy reaches the engine: every policy that plans   *)
(* for itself turns its actions into proposals that are well formed and of *)
(* full confidence (policy/rule_based.py, policy/local_v2.py), and the     *)
(* ExperienceManager, with no fallback, validates and resolves them.       *)
(***************************************************************************)
EXTENDS MemoryActions

VARIABLES stage, source, reason, proposals, position, validated, resolved, answer

managerVars == <<stage, source, reason, proposals, position, validated, resolved, answer>>

Manager == INSTANCE ExperienceManager
    WITH pc <- stage, next <- position, result <- resolved,
         HasFallback <- FALSE, MaxProposals <- 0

(* No reason of a fallback is Python's None.                                *)
ASSUME PathAssumption == None \notin Manager!Reasons

Handed(batch) == [k \in DOMAIN batch |-> [act |-> batch[k], valid |-> TRUE, confident |-> TRUE]]

HandOver(batch) ==
    /\ stage = "call"
    /\ proposals' = Handed(batch)
    /\ stage' = "validate"
    /\ UNCHANGED <<source, reason, position, validated, resolved, answer>>

AcceptOne ==
    \/ Manager!ValidateOne \/ Manager!ValidateDone
    \/ Manager!ResolveOne \/ Manager!ResolveDone
    \/ Manager!FilterOne \/ Manager!FilterDone
    \/ Manager!Answer

(* Creates of one content count as one: the manager keeps the first.        *)
Alike(x, y) == x = y \/ (IsCreate(x) /\ IsCreate(y) /\ x.content = y.content)

(* What the engine is handed. *)
Routed == Manager!Actions(answer)
=============================================================================
