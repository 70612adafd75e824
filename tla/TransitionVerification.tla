----------------------- MODULE TransitionVerification -----------------------
(***************************************************************************)
(* TransitionVerifier (memory/transition_verification.py): a proposed      *)
(* transition is checked against a before-state, stage by stage, and the   *)
(* first check that fails decides; an accepted proposal comes with the     *)
(* inert descriptions of the actions it needs and with the projection of   *)
(* the state it leaves.                                                    *)
(*                                                                         *)
(* A before-state is [mem, complete]: mem maps an identifier to            *)
(* [text, status].  Reading[t].words are the surface forms that occur in a *)
(* text.                                                                   *)
(***************************************************************************)
EXTENDS MemoryIdentity

MutatingTypes == {"create_new", "supersede_existing", "scoped_coexistence", "forget_existing"}
NoopTypes == {"duplicate_noop", "semantic_duplicate_noop"}
RejectionTypes ==
    {"reject_forget_directive_as_creation", "reject_unsupported", "reject_ambiguous",
     "reject_temporary", "reject_question", "reject_hypothetical", "reject_unrelated"}
NonMutatingTypes == NoopTypes \cup RejectionTypes \cup {"shadow_only"}
TransitionTypes == MutatingTypes \cup NonMutatingTypes

EvidenceModes ==
    {"grounded_valid", "grounded_invalid", "ungrounded", "historical_oracle",
     "development_fixture", "unavailable", "unsupported"}
ProductionGrounded == {"grounded_valid"}
NonCanonicalModes  == {"historical_oracle", "development_fixture"}
Usable(mode) == mode \in ProductionGrounded \cup NonCanonicalModes

-----------------------------------------------------------------------------
(* BeforeStateSnapshot: memories are projected from their text alone. *)
ActiveIds(before) == {m \in DOMAIN before.mem : before.mem[m].status = "active"}
WithStatus(before, st) == {m \in DOMAIN before.mem : before.mem[m].status = st}

(* digest(): the content of the whole snapshot, no more and no less. *)
Digest(before) ==
    {<<m, before.mem[m].status, before.mem[m].text>> : m \in DOMAIN before.mem}

(***************************************************************************)
(* ProposedTransition.  targets, superseded and forgotten are tuples: a    *)
(* repeated identifier is one of the faults looked for.                    *)
(***************************************************************************)
CreatedRef == 0   \* "created:0"; a memory's identifier is a positive number

CreatedSpec(text, replaces, must) ==
    [ref |-> CreatedRef, text |-> text, replaces |-> replaces, must |-> must, scope |-> None]

Proposal(type, statement, mode) ==
    [type |-> type, statement |-> statement, mode |-> mode,
     targets |-> <<>>, created |-> <<>>, superseded |-> <<>>, forgotten |-> <<>>,
     preserved |-> {}, unchanged |-> {}, edges |-> {}, expected |-> None]

Elements(s) == {s[k] : k \in DOMAIN s}
Repeats(s)  == Cardinality(Elements(s)) < Len(s)

Deactivated(p) == Elements(p.superseded) \cup Elements(p.forgotten)
CreatedRefs(p) == {p.created[k].ref : k \in DOMAIN p.created}
Mutates(p)     == p.created # <<>> \/ Deactivated(p) # {}

(* The codes a check may refuse with; the four readings that are not durable *)
(* share one here, and so do the faults of a lineage edge.                  *)
RejectionReasons == {
    "unknown_transition_type", "duplicate_target_ids", "contradictory_lifecycle_sets",
    "created_ref_reused_as_target", "rejection_with_mutation", "noop_with_creation",
    "supersede_without_replacement", "forget_without_target", "forget_with_creation",
    "coexistence_supersedes_scope", "source_not_durable", "target_not_active",
    "target_unrelated", "target_scope_incompatible", "target_not_unique",
    "identity_ambiguous", "identity_relation_mismatch", "reactivation_forbidden",
    "unsupported_created_value", "unsupported_scope", "after_state_mismatch",
    "unrelated_memory_deactivated", "scoped_memory_lost", "preservation_not_proven",
    "lineage_invalid", "grounding_invalid", "grounding_required"}

ASSUME ReasonAssumption == None \notin RejectionReasons \cup {"active"}

-----------------------------------------------------------------------------
(* _check_structure *)
StructureChecks(p) == <<
    <<"unknown_transition_type", p.type \notin TransitionTypes>>,
    <<"duplicate_target_ids", \E s \in {p.superseded, p.forgotten, p.targets} : Repeats(s)>>,
    <<"contradictory_lifecycle_sets",
        \/ Elements(p.superseded) \cap Elements(p.forgotten) # {}
        \/ p.unchanged \cap Deactivated(p) # {}>>,
    <<"created_ref_reused_as_target",
        CreatedRefs(p) \cap (Deactivated(p) \cup Elements(p.targets)) # {}>>,
    <<"rejection_with_mutation", p.type \in RejectionTypes /\ Mutates(p)>>,
    <<"noop_with_creation", p.type \in NoopTypes /\ Mutates(p)>>,
    <<"supersede_without_replacement",
        p.type = "supersede_existing" /\ (p.superseded = <<>> \/ p.created = <<>>)>>,
    <<"forget_without_target", p.type = "forget_existing" /\ p.forgotten = <<>>>>,
    <<"forget_with_creation", p.type = "forget_existing" /\ p.created # <<>>>>,
    <<"coexistence_supersedes_scope",
        p.type = "scoped_coexistence" /\ p.superseded # <<>>>>,
    <<"contradictory_lifecycle_sets", p.type = "create_new" /\ Deactivated(p) # {}>> >>

StructureFault(p) == FirstCode(StructureChecks(p), None)

(* _relations: how the source statement relates to every active memory. *)
SourceRelations(p, before) ==
    IF p.statement = None THEN << >>
    ELSE [m \in ActiveIds(before) |->
            Relation[before.mem[m].text][p.statement]]

Relates(rel, m, r) == m \in DOMAIN rel /\ rel[m] = r

(* _check_source_durability; a directive to forget asserts nothing. *)
DurabilityFault(p, rel) ==
    IF /\ p.type \in MutatingTypes \ {"forget_existing"}
       /\ \E m \in DOMAIN rel : rel[m] \in NonDurableRelations
    THEN "source_not_durable" ELSE None

(* _check_targets *)
TargetStatus(before, m) == IF m \in DOMAIN before.mem THEN before.mem[m].status ELSE None

TargetChecks(p, before, rel) == <<
    <<"target_not_active", \E m \in Deactivated(p) : TargetStatus(before, m) # "active">>,
    <<"target_unrelated", \E m \in Deactivated(p) : Relates(rel, m, "unrelated")>>,
    <<"target_scope_incompatible",
        /\ p.type # "forget_existing"
        /\ \E m \in Deactivated(p) : Relates(rel, m, "scoped_coexistence")>>,
    <<"target_not_unique",
        \/ /\ p.type # "forget_existing"
           /\ \E m \in Deactivated(p) : Relates(rel, m, "ambiguous")
        \/ p.type = "supersede_existing" /\ Len(p.superseded) > 1>> >>

TargetFault(p, before, rel) == FirstCode(TargetChecks(p, before, rel), None)

(* _check_relation_match *)
RequiredRelations(type) ==
    CASE type \in NoopTypes              -> DuplicateRelations
      [] type = "supersede_existing"     -> {"current_state_conflict"}
      [] type = "scoped_coexistence"     -> {"scoped_coexistence"}
      [] OTHER                           -> {}

Observed(p, rel) ==
    LET named == IF p.targets # <<>> THEN Elements(p.targets)
                 ELSE IF p.superseded # <<>> THEN Elements(p.superseded) ELSE DOMAIN rel
    IN  {rel[m] : m \in DOMAIN rel \cap named}

RelationFault(p, rel) ==
    IF RequiredRelations(p.type) = {} \/ Observed(p, rel) = {} THEN None
    ELSE FirstCode(<<
        <<"identity_ambiguous", "ambiguous" \in Observed(p, rel)>>,
        <<"identity_relation_mismatch",
            Observed(p, rel) \cap RequiredRelations(p.type) = {}>> >>, None)

(* _check_lifecycle: what _check_targets has not refused already. *)
LifecycleFault(p, before) == FirstCode(<<
    <<"reactivation_forbidden",
        /\ p.expected # None
        /\ p.expected.active \cap (DOMAIN before.mem \ ActiveIds(before)) # {}>>,
    <<"created_ref_reused_as_target", CreatedRefs(p) \cap DOMAIN before.mem # {}>> >>, None)

(* _check_supported: values and scopes come from the words of the source. *)
SupportFault(p) ==
    IF p.statement = None THEN None
    ELSE FirstCode(<<
        <<"unsupported_created_value",
            \E k \in DOMAIN p.created :
                ~ (p.created[k].must \subseteq Reading[p.statement].words)>>,
        <<"unsupported_scope",
            \E k \in DOMAIN p.created :
                p.created[k].scope \notin Reading[p.statement].words \cup {None}>> >>, None)

-----------------------------------------------------------------------------
(* _project: the state the proposal leaves, were it applied. *)
ProjectedActive(p, before) == (ActiveIds(before) \ Deactivated(p)) \cup CreatedRefs(p)
ProjectedSuperseded(p, before) == WithStatus(before, "superseded") \cup Elements(p.superseded)
ProjectedForgotten(p, before)  == WithStatus(before, "forgotten") \cup Elements(p.forgotten)

(* _check_after_state: the expectation of the proposal, if it has one. *)
AfterStateFault(p, before) ==
    LET e == p.expected
        activeIds == IF e = None THEN {} ELSE e.active \cup e.created
    IN  IF /\ e # None
           /\ \/ activeIds # {} /\ activeIds # ProjectedActive(p, before)
              \/ ~ (e.superseded \subseteq ProjectedSuperseded(p, before))
              \/ ~ (e.forgotten \subseteq ProjectedForgotten(p, before))
              \/ e.noMutation /\ Mutates(p)
        THEN "after_state_mismatch" ELSE None

(* _check_preservation *)
PreservationFault(p, before, rel) == FirstCode(<<
    <<"unrelated_memory_deactivated",
        \E m \in Deactivated(p) : Relates(rel, m, "unrelated")>>,
    <<"scoped_memory_lost",
        \E m \in Deactivated(p) : Relates(rel, m, "scoped_coexistence")>>,
    <<"preservation_not_proven",
        \/ ~ (p.preserved \subseteq
                ProjectedActive(p, before) \cup ProjectedSuperseded(p, before)
                  \cup ProjectedForgotten(p, before))
        \/ ~ (p.unchanged \subseteq ProjectedActive(p, before))
        \/ /\ p.type \in NonMutatingTypes
           /\ ProjectedActive(p, before) # ActiveIds(before)>> >>, None)

(* _check_lineage: every edge goes from a superseded memory to a created one. *)
EdgeFault(p, before, rel, edge) ==
    \/ edge[1] = edge[2]
    \/ edge[2] \notin CreatedRefs(p)
    \/ TargetStatus(before, edge[1]) # "active"
    \/ Relates(rel, edge[1], "unrelated")
    \/ edge[1] \notin Elements(p.superseded)

LineageFault(p, before, rel) ==
    IF \/ p.type = "supersede_existing"
            /\ (p.edges = {} \/ \E edge \in p.edges : EdgeFault(p, before, rel, edge))
       \/ p.type \in NoopTypes \cup RejectionTypes /\ p.edges # {}
    THEN "lineage_invalid" ELSE None

-----------------------------------------------------------------------------
(* _action_specs: one inert description per memory, by kind of action. *)
SpecActions(p) == [supersede |-> p.superseded, forget |-> p.forgotten, create |-> p.created]
NoSpecs        == [supersede |-> <<>>, forget |-> <<>>, create |-> <<>>]

(* _eligibility: may it ever have canonical effect? *)
Eligible(p, before) ==
    /\ p.type \in MutatingTypes
    /\ p.mode \in ProductionGrounded
    /\ before.complete

StatusOf(fault) ==
    CASE fault = "unknown_transition_type" -> "unsupported"
      [] fault \in {"target_not_unique", "identity_ambiguous"} -> "ambiguous"
      [] OTHER -> "rejected"

Outcome(p, status, reason, eligible, specs) ==
    [type |-> p.type, status |-> status, reason |-> reason,
     eligible |-> eligible, specs |-> specs]

(* verify: the stages in order; a partial snapshot proves no preservation. *)
Faults(p, before, rel) == <<
    IF Usable(p.mode) THEN None
    ELSE IF p.mode = "grounded_invalid" THEN "grounding_invalid" ELSE "grounding_required",
    DurabilityFault(p, rel), TargetFault(p, before, rel), RelationFault(p, rel),
    LifecycleFault(p, before), SupportFault(p), AfterStateFault(p, before),
    PreservationFault(p, before, rel), LineageFault(p, before, rel)>>

Verdict(p, before, faults) ==
    IF \A k \in DOMAIN faults : faults[k] = None
    THEN Outcome(p, IF before.complete THEN "accepted" ELSE "shadow_only", None,
                 Eligible(p, before), SpecActions(p))
    ELSE LET fault == faults[SelectInSeq(faults, LAMBDA f : f # None)]
         IN  Outcome(p, StatusOf(fault), fault, FALSE, NoSpecs)

Verify(p, before) ==
    LET broken == StructureFault(p)
    IN  IF broken # None
        THEN Outcome(p, IF broken = "unknown_transition_type" THEN "unsupported"
                        ELSE "structurally_invalid", broken, FALSE, NoSpecs)
        ELSE Verdict(p, before, Faults(p, before, SourceRelations(p, before)))

Accepted(result) == result.status = "accepted"
=============================================================================
