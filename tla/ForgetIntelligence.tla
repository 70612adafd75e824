------------------------- MODULE ForgetIntelligence -------------------------
(***************************************************************************)
(* DeterministicForgetController (memory/forget_intelligence.py): is the   *)
(* statement a directive to forget, which one active memory does it name,  *)
(* and the transition that follows, handed to the verifier.                *)
(***************************************************************************)
EXTENDS ForgetTargets

(* _DIRECTIVE_REJECTION *)
DirectiveRejection ==
    [forget_capability_question |-> "reject_question",
     memory_inspection_question |-> "reject_question",
     hypothetical_forget |-> "reject_hypothetical",
     broad_forget |-> "reject_unsupported",
     quoted_third_party_forget |-> "reject_unsupported",
     current_turn_only_forget |-> "reject_temporary",
     unsupported_forget |-> "reject_unsupported",
     positive_assertion_with_forget_wording |-> "reject_forget_directive_as_creation"]

(* _classify: no reading may widen into a directive. *)
Undetected(detected, id) ==
    CASE detected = "question"     -> "forget_capability_question"
      [] detected = "hypothetical" -> "hypothetical_forget"
      [] detected = "quoted"       -> "quoted_third_party_forget"
      [] detected = "current_turn" -> "current_turn_only_forget"
      [] OTHER -> IF id.value # Unknown THEN "positive_assertion_with_forget_wording"
                  ELSE "unsupported_forget"

Directive(cues, id, detected) ==
    LET asksMemory == "memory_language" \in cues /\ id.temporal = "question"
    IN  FirstCode(<<
          <<"hypothetical_forget",
              /\ "memory_language" \in cues
              /\ id.temporal = "hypothetical" \/ "forget_hypothetical" \in cues>>,
          <<"forget_capability_question",
              asksMemory /\ "removal" \in cues /\ "inspection" \notin cues>>,
          <<"memory_inspection_question", asksMemory \/ "inspection" \in cues>>,
          <<"unrelated_source", detected \in ForgetIntents /\ "replacement_clause" \in cues>>,
          <<"unrelated_source",
              detected \notin ForgetIntents \cup {"negated"} /\ "memory_language" \notin cues>>,
          <<"negative_forget", detected = "negated">>,
          <<Undetected(detected, id), detected \notin ForgetIntents>>,
          <<"broad_forget", detected = "bulk" \/ "broad_topic" \in cues>> >>,
          "affirmative_targeted_forget")

DirectiveOf ==
    [t \in Contents |->
        Directive(Reading[t].cues, Identity[t], Detected(Reading[t].cues, Reading[t].parts))]

-----------------------------------------------------------------------------
(* Mutant: one of several resolved memories is forgotten. *)
AnyForgetTarget(t, before, found) ==
        IF found.outcome # "resolved" THEN Target(found.outcome, None)
        ELSE Target("resolved", CHOOSE x \in found.targets : TRUE)

(* _resolve and _match_kind: one target of the kind the request names. *)
ForgetTarget(t, before, found) ==
    LET m == CHOOSE x \in found.targets : TRUE
    IN  IF found.outcome # "resolved" THEN Target(found.outcome, None)
        ELSE IF found.targets # {m} THEN Target("ambiguous", None)
        ELSE IF Reading[t].hint \notin {None, Reading[before.mem[m].text].kind}
             THEN Target("ambiguous", None)
        ELSE Target("resolved", m)

(* _forget *)
ForgetProposal(t, mode, before, m) ==
    LET others == ActiveIds(before) \ {m}
    IN  [Proposal("forget_existing", t, mode) EXCEPT
            !.targets = <<m>>, !.forgotten = <<m>>,
            !.preserved = ActiveIds(before), !.unchanged = others,
            !.expected = Expectation(others, {}, {m}, {}, FALSE)]

(* _build *)
BuildForget(target, t, mode, before) ==
        IF target.status = "resolved" THEN ForgetProposal(t, mode, before, target.id)
        ELSE KeepAll(IF target.status \in {"ambiguous", "below_threshold"}
                     THEN "reject_ambiguous" ELSE "reject_unsupported", t, mode, before)

(* _negative_forget: it asserts what it names, and creates nothing here. *)
NegativeForget(t, mode, before) ==
    LET found == RelationsTo(t, ActiveTexts(before))
        same  == Bearers(found, DuplicateRelations)
    IN  IF same = {} THEN Abstain("negative_forget", "belongs_to_update_intelligence")
        ELSE Propose("negative_forget",
                     KeepAll(IF found[Min(same)] = "exact_duplicate" THEN "duplicate_noop"
                             ELSE "semantic_duplicate_noop", t, mode, before), before)

(* propose *)
ForgetOn(kind, t, mode, before) ==
        IF ~ Usable(mode) THEN Abstain("unsupported_forget", "evidence_unusable")
        ELSE IF kind = "unrelated_source" THEN Abstain(kind, "not_a_forget_source")
        ELSE IF kind = "negative_forget" THEN NegativeForget(t, mode, before)
        ELSE Propose(kind,
                     IF kind \in DOMAIN DirectiveRejection
                     THEN KeepAll(DirectiveRejection[kind], t, mode, before)
                     ELSE BuildForget(ForgetTarget(t, before, ResolveParts(t, before)), t, mode, before), before)

ProposeForget(t, mode, before) == ForgetOn(DirectiveOf[t], t, mode, before)
=============================================================================
