-------------------------- MODULE ActionReplacement --------------------------
(***************************************************************************)
(* memory/action_replacement/: which planner create a verified             *)
(* supersession replaces, the plan of the rewrite, and the exact           *)
(* authorization of that plan.  The matcher compares by semantic identity, *)
(* the plan by content and by position: a supersession whose create the    *)
(* planner did not anticipate is refused rather than added beside it.      *)
(*                                                                         *)
(* pl is the plan built so far, n the number of its actions that are the   *)
(* planner's, s the actions of the transition.                             *)
(***************************************************************************)
EXTENDS MemoryIdentity

Seam == INSTANCE TransitionSeam WITH Grants <- "none", PlannerPrecedence <- FALSE

SupersedeBearing(s) ==
    \E j, k \in DOMAIN s : s[j].action = "supersede" /\ IsCreate(s[k])

FirstOf(s, action) == s[SelectInSeq(s, LAMBDA a : a.action = action)]

(* ActionReplacementPlanner._relation *)
RelationTo(act, create) == Relation[act.content][create.content]

(* Mutant: only a create of the same text is the transition's. *)
SameText(pl, n, s) ==
    {k \in Creates(pl) : k <= n /\ pl.acts[k].content = FirstOf(s, "create").content}

Candidates(pl, n, s) ==
    {k \in Creates(pl) : k <= n /\ RelationTo(pl.acts[k], FirstOf(s, "create")) \in DuplicateRelations}

(* Mutant: a create that replaces another memory is rewritten all the same. *)
AnyReplaced(pl, n, s) ==
    IF ~ SupersedeBearing(s) THEN "no_replacement_needed"
    ELSE IF Candidates(pl, n, s) = {} THEN "rejected_no_match" ELSE "replacement_ready"

(* _plan: exactly one outcome. *)
MatcherDecision(pl, n, s) ==
    IF ~ SupersedeBearing(s) THEN "no_replacement_needed"
    ELSE CASE Cardinality(Candidates(pl, n, s)) > 1 -> "rejected_multiple_matches"
           [] Candidates(pl, n, s) = {} -> "rejected_no_match"
           [] OTHER -> IF \E k \in Candidates(pl, n, s) :
                             pl.acts[k].replaces \notin {None, FirstOf(s, "supersede").memory_id}
                       THEN "rejected_unrelated_action" ELSE "replacement_ready"

Matched(pl, n, s) == CHOOSE k \in Candidates(pl, n, s) : TRUE

(* _validate_sequence *)
ValidSequence(s) ==
    /\ Len(s) = 2 /\ SupersedeBearing(s)
    /\ FirstOf(s, "create").replaces = FirstOf(s, "supersede").memory_id

AlreadyPresent(pl, n, s) ==
    \E k \in pl.ok : k <= n /\ pl.acts[k] = FirstOf(s, "create")

(* ReplacementPlanBuilder._build *)
PlanStatus(pl, n, s) ==
    IF MatcherDecision(pl, n, s) = "no_replacement_needed" THEN "no_replacement_needed"
    ELSE FirstCode(<<
        <<"rejected_matcher", MatcherDecision(pl, n, s) # "replacement_ready">>,
        <<"rejected_invalid_sequence", ~ ValidSequence(s)>>,
        <<"rejected_duplicate_insertion", AlreadyPresent(pl, n, s)>> >>, "plan_ready")

(* ReplacementBinding: what an authorization of the plan must repeat. *)
ReplacementBinding(pl, n, s, digest) ==
    [list |-> SubSeq(pl.acts, 1, n), occurrence |-> Matched(pl, n, s),
     inserted |-> s, before |-> digest]

(***************************************************************************)
(* _governed_replacement: ready, authorized and admissible against what    *)
(* survives, or the planner's list stays as it was.  The bounded runtime   *)
(* authority authorizes every ready plan; an operator, the ones listed.    *)
(* from is what the interaction read: its memories, their text, what the   *)
(* planner retires among them, and their digest.                           *)
(***************************************************************************)
GovernedReplacement(pl, n, s, runtime, operator, from) ==
    IF /\ PlanStatus(pl, n, s) = "plan_ready"
       /\ runtime \/ ReplacementBinding(pl, n, s, from.digest) \in operator
       /\ AllAdmissible(s, from.shown, from.text, from.retired,
                        Seam!Survivors(pl, Matched(pl, n, s)))
    THEN Seam!Project(pl, Matched(pl, n, s), s)
    ELSE pl
=============================================================================
