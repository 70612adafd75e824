------------------------- MODULE UpdateIntelligence -------------------------
(***************************************************************************)
(* DeterministicUpdateController (memory/update_intelligence.py): what a   *)
(* statement intends, which active memory it is about, and the transition  *)
(* that follows, handed to the verifier.                                   *)
(*                                                                         *)
(* Reading[t].cues names the source patterns that match the text;          *)
(* Reading[t].old[p] are the values the replaced phrase of pattern p       *)
(* names; Reading[t].topic are the words of a request without a value.     *)
(***************************************************************************)
EXTENDS TransitionVerification

(* _INTENT_REJECTION: what the source alone decides. *)
IntentRejection ==
    [question |-> "reject_question", hypothetical |-> "reject_hypothetical",
     temporary_exception |-> "reject_temporary",
     historical_only |-> "reject_unsupported", task_request |-> "reject_unsupported"]

(* _replacement_pattern, most specific first; None when no form matches. *)
ReplacementIntent(cues, id) == FirstCode(<<
    <<"switched_from_to", "switched_from_to" \in cues>>,
    <<"instead_of_replacement", "instead_of" \in cues>>,
    <<"no_longer_now", "no_longer" \in cues /\ id.value # Unknown>>,
    <<"used_to_now", "used_to" \in cues /\ id.was # Unknown>>,
    <<"correction", "correction_lead" \in cues /\ id.value # Unknown>>,
    <<"direct_replacement", "now" \in cues /\ id.value # Unknown>> >>, None)

(* _classify. *)
IntentAs(cues, id, replacement) == FirstCode(<<
    <<"question", id.temporal = "question">>,
    <<"hypothetical", id.temporal = "hypothetical">>,
    <<"temporary_exception", id.temporal = "temporary">>,
    <<"negative_forget", "negative_forget" \in cues>>,
    <<"forget_directive", "affirmative_forget" \in cues>>,
    <<"historical_only", id.temporal = "historical">>,
    <<"task_request", "task_opener" \in cues /\ "standing" \notin cues>>,
    <<"valueless_update_request", "update_request" \in cues /\ id.value = Unknown>>,
    <<replacement, replacement # None>>,
    <<"durable_assertion", id.value # Unknown \/ "standing" \in cues>> >>,
    "temporary_exception")

Intent(cues, id) == IntentAs(cues, id, ReplacementIntent(cues, id))

IntentOf == [t \in Contents |-> Intent(Reading[t].cues, Identity[t])]

DurableIntents ==
    {"negative_forget", "switched_from_to", "instead_of_replacement", "no_longer_now",
     "used_to_now", "correction", "direct_replacement", "durable_assertion"}

(* The values the statement says it replaces; {} when it names none. *)
OldValues(t, id, intent) ==
    CASE intent = "switched_from_to"       -> Reading[t].old.switched_from_to
      [] intent = "instead_of_replacement" -> Reading[t].old.instead_of
      [] intent = "no_longer_now"          -> Reading[t].old.no_longer
      [] intent = "used_to_now"            -> {id.was}
      [] OTHER                             -> {}

-----------------------------------------------------------------------------
ActiveTexts(before) == [m \in ActiveIds(before) |-> before.mem[m].text]

(* _mentions_topic *)
Mentions(t, m) ==
    Reading[t].topic \cap (Reading[m].words \cup {Identity[m].attribute}) # {}

Target(status, id) == [status |-> status, id |-> id]

(* _resolve_target *)
TargetFor(t, before, found, intent) ==
    LET several  == SeveralConflicts(RelationsTo(t, ActiveTexts(before)))
        old      == OldValues(t, Identity[t], intent)
        matching == {m \in ActiveIds(before) : Mentions(t, before.mem[m].text)}
    IN  IF ActiveIds(before) = {} THEN Target("no_matching_target", None)
        ELSE IF intent = "valueless_update_request"
        THEN Target(IF Cardinality(matching) > 1 THEN "multiple_targets" ELSE "unsupported", None)
        ELSE CASE found.relation = "exact_duplicate" -> Target("exact_target", found.target)
               [] found.relation = "semantic_duplicate" -> Target("semantic_target", found.target)
               [] found.relation = "current_state_conflict" ->
                    Target(IF old # {} /\ Identity[before.mem[found.target].text].value \notin old
                           THEN "old_value_mismatch" ELSE "conflict_target", found.target)
               [] found.relation = "scoped_coexistence" -> Target("scoped_coexistence", None)
               [] found.relation = "unrelated" -> Target("unrelated_only", None)
               [] found.relation = "ambiguous" ->
                    Target(IF several THEN "multiple_targets" ELSE "identity_ambiguous", None)
               [] OTHER -> Target("unsupported", None)

TargetOf(t, before) ==
    TargetFor(t, before, Resolve(t, ActiveTexts(before)), IntentOf[t])

-----------------------------------------------------------------------------
(* The proposals: what is created, what is retired, what is promised. *)
Expectation(active, superseded, forgotten, created, noMutation) ==
    [active |-> active, superseded |-> superseded, forgotten |-> forgotten,
     created |-> created, noMutation |-> noMutation]

(* _noop and _rejection_proposal *)
KeepAll(type, t, mode, before) ==
    [Proposal(type, t, mode) EXCEPT
        !.preserved = ActiveIds(before), !.unchanged = ActiveIds(before),
        !.expected = Expectation(ActiveIds(before), {}, {}, {}, TRUE)]

(* _created_spec: a value that was established must occur in the source. *)
NewMemory(t, replaces) ==
    CreatedSpec(t, replaces, {Identity[t].form} \ {Unknown})

(* _supersede *)
SupersedeProposal(t, mode, before, m) ==
    LET others == ActiveIds(before) \ {m}
    IN  [Proposal("supersede_existing", t, mode) EXCEPT
            !.targets = <<m>>, !.superseded = <<m>>, !.created = <<NewMemory(t, m)>>,
            !.preserved = ActiveIds(before), !.unchanged = others,
            !.edges = {<<m, CreatedRef>>},
            !.expected = Expectation(others, {m}, {}, {CreatedRef}, FALSE)]

(* _coexist and _create *)
AddProposal(type, t, mode, before) ==
    [Proposal(type, t, mode) EXCEPT
        !.created = <<NewMemory(t, None)>>,
        !.preserved = ActiveIds(before), !.unchanged = ActiveIds(before),
        !.expected = Expectation(ActiveIds(before), {}, {}, {CreatedRef}, FALSE)]

(* _build; None when nothing durable was established. *)
UpdateFor(target, t, mode, before) ==
          CASE target.status = "exact_target" -> KeepAll("duplicate_noop", t, mode, before)
          [] target.status = "semantic_target" ->
               KeepAll("semantic_duplicate_noop", t, mode, before)
          [] target.status \in {"multiple_targets", "identity_ambiguous"} ->
               KeepAll("reject_ambiguous", t, mode, before)
          [] target.status \in {"old_value_mismatch", "unsupported"} ->
               KeepAll("reject_unsupported", t, mode, before)
          [] target.status = "conflict_target" -> SupersedeProposal(t, mode, before, target.id)
          [] target.status = "scoped_coexistence" ->
               AddProposal("scoped_coexistence", t, mode, before)
          [] target.status \in {"unrelated_only", "no_matching_target"} ->
               IF Identity[t].value = Unknown /\ IntentOf[t] \notin DurableIntents
               THEN None ELSE AddProposal("create_new", t, mode, before)

(***************************************************************************)
(* propose: a proposal with its verification, or an abstention.            *)
(***************************************************************************)
Abstain(intent, reason) ==
    [intent |-> intent, reason |-> reason, proposal |-> None, result |-> None]
Propose(intent, p, before) ==
    [intent |-> intent, reason |-> None, proposal |-> p, result |-> Verify(p, before)]

Proposing(intent, p, before) ==
    IF p = None THEN Abstain(intent, "identity_incomplete") ELSE Propose(intent, p, before)

UpdateOn(intent, t, mode, before) ==
        IF ~ Usable(mode) THEN Abstain("unsupported", "evidence_unusable")
        ELSE IF intent = "forget_directive" THEN Abstain(intent, "forget_directive_detected")
        ELSE Proposing(intent,
                       IF intent \in DOMAIN IntentRejection
                       THEN KeepAll(IntentRejection[intent], t, mode, before)
                       ELSE UpdateFor(TargetOf(t, before), t, mode, before), before)

ProposeUpdate(t, mode, before) == UpdateOn(IntentOf[t], t, mode, before)
=============================================================================
