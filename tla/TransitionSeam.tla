--------------------------- MODULE TransitionSeam ---------------------------
(***************************************************************************)
(* How a verified transition reaches the engine's action list: translation *)
(* to existing actions, the planner-precedence guard and the authority     *)
(* (memory/transition_integration.py, memory/transition_authority.py), and *)
(* the governed replacement of a planner create, which suppresses that     *)
(* create and inserts the supersede/create pair in its place               *)
(* (memory/action_replacement/, engine/experience_engine.py).              *)
(***************************************************************************)
EXTENDS MemoryActions

CONSTANTS Grants,            \* "none", "static" or "runtime": see Authorized
          PlannerPrecedence  \* config.planner_precedence

ASSUME SeamAssumption ==
    /\ Grants \in {"none", "static", "runtime"}
    /\ PlannerPrecedence \in BOOLEAN

-----------------------------------------------------------------------------
(* translate_transition: the actions of one verified transition. *)
SupersedeExisting(m, c) == <<Supersede(m), Create(c, m)>>
ForgetExisting(m)       == <<Forget(m)>>
CreateNew(c)            == <<Create(c, None)>>

(* Everything a controller can have verified; <<>> when it proposes nothing. *)
Translations ==
    {<<>>} \cup {SupersedeExisting(m, c) : m \in Ids, c \in Contents}
           \cup {ForgetExisting(m) : m \in Ids}
           \cup {CreateNew(c) : c \in Contents}

(* infer_existing_transition: what a batch amounts to, if it is one thing. *)
InferredType(pl) ==
    IF Forgets(pl) # {} /\ Creates(pl) = {} THEN "forget_existing"
    ELSE IF Supersedes(pl) # {} /\ Creates(pl) # {} THEN "supersede_existing"
    ELSE IF Creates(pl) # {} /\ Forgets(pl) = {} THEN "create_new"
    ELSE None

InferredTarget(pl) ==
    CASE InferredType(pl) = "forget_existing" ->
             pl.acts[Min(Forgets(pl))].memory_id
      [] InferredType(pl) = "supersede_existing" ->
             pl.acts[Min(Supersedes(pl))].memory_id
      [] OTHER -> None

WellFormed(pl) ==
    \/ InferredType(pl) = "forget_existing"
    \/ /\ InferredType(pl) = "supersede_existing"
       /\ \E k \in Creates(pl) : pl.acts[k].replaces = InferredTarget(pl)

(* The planner-precedence guard of the adopted path. *)
PlannerAlreadyPerforms(pl, s) ==
    /\ WellFormed(pl)
    /\ InferredType(PlanOf(s)) = InferredType(pl)
    /\ InferredTarget(PlanOf(s)) = InferredTarget(pl)

(***************************************************************************)
(* "runtime" is the canonical composition: the bounded authority issues a  *)
(* receipt for a supersession or a forget whose target is active in the    *)
(* before-state.  "static" is an operator's authorization of any verified  *)
(* transition, with no replacement authorization.                          *)
(***************************************************************************)
Authorized(s, active) ==
    /\ Grants # "none"
    /\ \A k \in DOMAIN s : Retires(s[k]) => s[k].memory_id \in active
    /\ Grants = "runtime" => \E k \in DOMAIN s : Retires(s[k])

-----------------------------------------------------------------------------
(* ActionReplacementPlanner: the planner creates of the inserted meaning.   *)
(* Only the first n actions are the planner's; extraction comes after.      *)
MatchedCreates(pl, n, create) ==
    {k \in Creates(pl) : k <= n /\ Meaning[pl.acts[k].content] = Meaning[create.content]}

(* The matcher is ready and the plan builder accepts; k is the occurrence. *)
ReplacementReady(pl, n, s, k) ==
    /\ MatchedCreates(pl, n, s[2]) = {k}
    /\ pl.acts[k].replaces \in {None, s[1].memory_id}
    /\ \A j \in pl.ok : j <= n => pl.acts[j] # s[2]

(* Mutant: the supersede of the pair is lost. *)
ProjectCreateOnly(pl, k, s) ==
    [pl EXCEPT !.acts = [@ EXCEPT ![k] = s[2]]]

(* project_rewrite: the matched create gives its place to the two actions. *)
Project(pl, k, s) ==
    [acts |-> [j \in 1 .. Len(pl.acts) + 1 |->
                 CASE j < k     -> pl.acts[j]
                   [] j = k     -> s[1]
                   [] j = k + 1 -> s[2]
                   [] j > k + 1 -> pl.acts[j - 1]],
     ok   |-> {j \in pl.ok : j < k} \cup {k, k + 1}
                \cup {j + 1 : j \in {i \in pl.ok : i > k}}]

Survivors(pl, k) == [pl EXCEPT !.ok = @ \ {k}]

(* All or nothing: when anything fails the planner's list stays as it was. *)
GovernedReplacement(pl, n, s, shown, text, retired) ==
    IF \E k \in pl.ok :
           /\ ReplacementReady(pl, n, s, k)
           /\ AllAdmissible(s, shown, text, retired, Survivors(pl, k))
    THEN Project(pl, CHOOSE k \in pl.ok : ReplacementReady(pl, n, s, k), s)
    ELSE pl

(* _evaluate_transition in adopted mode. *)
WithTransition(pl, n, s, shown, active, text, retired) ==
    IF \/ ~ Authorized(s, active)
       \/ PlannerPrecedence /\ PlannerAlreadyPerforms(pl, s)
    THEN pl
    ELSE IF Grants = "runtime" /\ Supersedes(PlanOf(s)) # {}
         THEN GovernedReplacement(pl, n, s, shown, text, retired)
         ELSE AppendAdmissible(pl, s, shown, text, retired)
=============================================================================
