------------------------ MODULE TransitionCoordinator ------------------------
(***************************************************************************)
(* TransitionIntegrationCoordinator (memory/transition_integration.py) and *)
(* the bounded runtime authority (memory/transition_authority.py), at work *)
(* in the engine: one statement goes to one controller, its proposal is    *)
(* verified, translated to memory actions and compared with the receipts,  *)
(* and the engine appends the actions, rewrites the planner's with them,   *)
(* or leaves the planner's batch alone.                                    *)
(*                                                                         *)
(* One agent serves one user.  An interaction is one step: the engine runs *)
(* it without yielding, and interleavings are the subject of               *)
(* ExperienceEngine.  A receipt names the request by its session and the   *)
(* number of events so far; a restarted process counts from zero again,    *)
(* with the same session name and the same store.                          *)
(***************************************************************************)
EXTENDS ForgetIntelligence, ActionReplacement

CONSTANTS
    Statements,    \* what the user may say
    Noted,         \* the text the planner writes for a statement, or None
    Configs,       \* coordinator configurations an operator may deploy
    Stores,        \* sequences of texts an earlier process may have left
    MaxTurns,      \* interactions of a behaviour
    MaxMemories,
    MaxReceipts

ASSUME CoordinatorAssumption ==
    /\ None \notin Nat
    /\ Statements \subseteq Contents
    /\ Noted \in [Statements -> Contents \cup {None}]
    /\ \A s \in Stores : s \in Seq(Contents)
    /\ \A c \in Configs :
          c.mode \in {"disabled", "shadow", "candidate", "adopted", "verify_only"}

(* The seam of the engine speaks of the same memories and texts: those that *)
(* fit have an identifier there, and a note that the matcher takes for a    *)
(* duplicate of the statement is of one meaning with it there.              *)
ASSUME VocabularyShared ==
    /\ MaxMemories \in Nat /\ 1 .. MaxMemories \subseteq Ids
    /\ \A s \in Stores : Len(s) <= MaxMemories
    /\ \A t \in Statements :
          Noted[t] # None /\ Relation[Noted[t]][t] \in DuplicateRelations
              => Meaning[Noted[t]] = Meaning[t]

VARIABLES
    memory,      \* [text, status, replaces] in order of creation
    turns,
    history,     \* events of this process: half of a request's identifier
    config,      \* [mode, runtime, precedence]
    receipts,    \* transition authorizations the operator has issued
    rewrites,    \* replacement authorizations the operator has issued
    spent,       \* receipts, of either authority, that have had effect
    last         \* the last interaction: what was planned and decided

vars == <<memory, turns, history, config, receipts, rewrites, spent, last>>

Active   == {m \in DOMAIN memory : memory[m].status = "active"}
TextOf   == [m \in DOMAIN memory |-> memory[m].text]
Before   == [mem |-> [m \in Active |-> [text |-> memory[m].text, status |-> "active"]],
             complete |-> TRUE]

-----------------------------------------------------------------------------
(* translate_transition: the actions of a verified proposal, if any. *)
Translation(ok, acts, kind) == [ok |-> ok, acts |-> acts, kind |-> kind]
Untranslated == Translation(FALSE, <<>>, "")

(* Mutant: the replacement is created, the memory it replaces stays. *)
TranslateCreateOnly(p, r, before) ==
    IF p.type \in NonMutatingTypes THEN Translation(TRUE, <<>>, "none")
    ELSE IF Accepted(r) /\ r.specs.create # <<>>
    THEN Translation(TRUE, <<Create(r.specs.create[1].text, None)>>, "create")
    ELSE Untranslated

Translate(p, r, before) ==
    LET creates == r.specs.create
        retired == IF p.type = "forget_existing" THEN r.specs.forget ELSE r.specs.supersede
        lives   == retired # <<>> /\ retired[1] \in ActiveIds(before)
    IN  IF p.type \in NonMutatingTypes THEN Translation(TRUE, <<>>, "none")
        ELSE IF ~ Accepted(r) THEN Untranslated
        ELSE IF p.type \in {"create_new", "scoped_coexistence"} /\ creates # <<>>
        THEN Translation(TRUE, <<Create(creates[1].text, None)>>, "create")
        ELSE IF p.type = "supersede_existing" /\ creates # <<>> /\ lives
        THEN Translation(TRUE, <<Supersede(retired[1]),
                                 Create(creates[1].text, retired[1])>>, "supersede")
        ELSE IF p.type = "forget_existing" /\ creates = <<>> /\ lives
        THEN Translation(TRUE, <<Forget(retired[1])>>, "forget")
        ELSE Untranslated

(* _route: update first; forget only when update hands the statement over. *)
Routed(route, found) ==
    [route |-> route, proposal |-> found.proposal, result |-> found.result]

Handed(update, t, mode, before) ==
        IF update.reason = "forget_directive_detected"
        THEN Routed("forget", ProposeForget(t, mode, before))
        ELSE Routed(IF update.proposal = None THEN "abstained" ELSE "update", update)

Route(t, mode, before) == Handed(ProposeUpdate(t, mode, before), t, mode, before)

-----------------------------------------------------------------------------
(* Mutant: the request is trusted to identify what was reviewed. *)
BindingByRequest(request, t, mode, before, p, r, tr) ==
    [request |-> request, statement |-> t, mode |-> mode, before |-> {},
     proposal |-> p.type, result |-> r.status, kind |-> tr.kind, count |-> Len(tr.acts)]

(* expected_binding: everything a receipt must repeat. *)
BindingOf(request, t, mode, before, p, r, tr) ==
    [request |-> request, statement |-> t, mode |-> mode, before |-> Digest(before),
     proposal |-> p, result |-> r, kind |-> tr.kind, count |-> Len(tr.acts)]

(* _authorize_transition: one exact receipt for one bounded retirement. *)
RuntimeIssues(p, r, tr, before) ==
    LET targets == p.superseded \o p.forgotten
    IN  /\ p.type \in {"supersede_existing", "forget_existing"}
        /\ Accepted(r) /\ r.eligible /\ tr.ok
        /\ (p.type = "supersede_existing") = (p.forgotten = <<>>)
        /\ Len(targets) = 1
        /\ targets[1] \in ActiveIds(before)
        /\ CASE p.type = "supersede_existing" ->
                  /\ tr.kind = "supersede" /\ ValidSequence(tr.acts)
                  /\ FirstOf(tr.acts, "supersede").memory_id = targets[1]
             [] OTHER -> tr.kind = "forget" /\ Len(tr.acts) = 1 /\ p.created = <<>>

(* _authorize: verification first, then an exact match. *)
Authorization(binding, p, r, issued) == FirstCode(<<
    <<"proposal_not_verified", ~ Accepted(r)>>,
    <<"canonical_effect_ineligible", ~ r.eligible>>,
    <<"authorization_missing", issued = {}>>,
    <<"authorization_mismatch", binding \notin issued>> >>, "exact_match")

PerformedBy(pl, acts) ==
    /\ config.precedence
    /\ Seam!PlannerAlreadyPerforms(pl, acts)

(* The effect of evaluate on a proposal. *)
EffectOf(p, r, tr, pl, authorization) == FirstCode(<<
    <<"diagnostics_only", config.mode = "shadow">>,
    <<"candidate_only", config.mode = "candidate">>,
    <<"verified_existing_actions", tr.ok /\ PerformedBy(pl, tr.acts)>>,
    <<"authorization_denied", authorization # "exact_match">>,
    <<"translation_failed", ~ tr.ok>> >>, "action_added")

Decision(route, effect, p, r, acts, receipt) ==
    [route |-> route, effect |-> effect, proposal |-> p, result |-> r,
     acts |-> acts, receipt |-> receipt]

(* _verify_existing: the planner's batch as the one proposal it amounts to. *)
ExistingProposal(t, pl, before) ==
    LET type    == Seam!InferredType(pl)
        target  == Seam!InferredTarget(pl)
        hits    == {k \in Creates(pl) : pl.acts[k].replaces = target}
        k       == IF type = "supersede_existing" /\ hits # {} THEN Min(hits)
                   ELSE IF Creates(pl) = {} THEN 0 ELSE Min(Creates(pl))
        named   == IF target = None THEN <<>> ELSE <<target>>
        retires == type = "supersede_existing"
    IN  [Proposal(type, t, "grounded_valid") EXCEPT
            !.targets    = named,
            !.created    = IF k = 0 THEN <<>>
                           ELSE <<CreatedSpec(pl.acts[k].content, IF retires THEN target ELSE None, {})>>,
            !.superseded = IF retires THEN named ELSE <<>>,
            !.forgotten  = IF type = "forget_existing" THEN named ELSE <<>>,
            !.preserved  = ActiveIds(before),
            !.unchanged  = ActiveIds(before) \ {target},
            !.edges      = IF retires THEN {<<target, CreatedRef>>} ELSE {}]

VerifyOnly(t, pl, before) ==
    IF Seam!InferredType(pl) # None
    THEN LET p == ExistingProposal(t, pl, before)
         IN  Decision("not_invoked", "verified_existing_actions", p, Verify(p, before), <<>>, None)
    ELSE Decision("not_invoked", IF pl.ok = {} THEN "unchanged" ELSE "verified_existing_actions",
                  None, None, <<>>, None)

(* evaluate.  The runtime receipt is built from what it is compared with. *)
Concluded(found, effect, tr, binding) ==
    LET added == effect = "action_added"
    IN  Decision(found.route, effect, found.proposal, found.result,
                 IF added THEN tr.acts ELSE <<>>, IF added THEN binding ELSE None)

Authorized(found, pl, before, tr, binding) ==
    LET issued == receipts \cup
                  (IF config.runtime /\ RuntimeIssues(found.proposal, found.result, tr, before)
                   THEN {binding} ELSE {})
    IN  Concluded(found,
                  EffectOf(found.proposal, found.result, tr, pl,
                           Authorization(binding, found.proposal, found.result, issued)),
                  tr, binding)

Judged(t, found, pl, before, tr) ==
    Authorized(found, pl, before, tr,
               BindingOf(history, t, "grounded_valid", before, found.proposal, found.result, tr))

Proposed(t, found, pl, before) ==
    IF found.proposal = None
    THEN Decision(found.route, "diagnostics_only", None, None, <<>>, None)
    ELSE Judged(t, found, pl, before, Translate(found.proposal, found.result, before))

Evaluate(t, pl, before) ==
    IF config.mode = "disabled"
    THEN Decision("not_invoked", "unchanged", None, None, <<>>, None)
    ELSE IF config.mode = "verify_only" THEN VerifyOnly(t, pl, before)
    ELSE Proposed(t, Route(t, "grounded_valid", before), pl, before)

-----------------------------------------------------------------------------
(* The batches of a planner: silence, what it noted, or a retirement. *)
Batches(t) ==
    {<<>>} \cup
    (IF Noted[t] = None THEN {}
     ELSE {<<Create(Noted[t], None)>>}
            \cup {<<Supersede(m), Create(Noted[t], m)>> : m \in Active})
    \cup {<<Forget(m)>> : m \in Active}

(* _evaluate_transition: what is left of the list after the decision. *)
PlanAfter(pl, d, batch) ==
    LET retired == RetiredBy(batch, Active)
        n       == Len(pl.acts)
        from    == [shown |-> Active, text |-> TextOf, retired |-> retired,
                    digest |-> Digest(Before)]
    IN  IF d.acts = <<>> THEN pl
        ELSE IF (rewrites # {} \/ config.runtime) /\ SupersedeBearing(d.acts)
        THEN GovernedReplacement(pl, n, d.acts, config.runtime, rewrites, from)
        ELSE AppendAdmissible(pl, d.acts, Active, TextOf, retired)

(* _apply_memory_actions *)
Retire(mem, pl) ==
    [m \in DOMAIN mem |->
        LET hits == {k \in Retirements(pl) : pl.acts[k].memory_id = m}
        IN  IF hits = {} THEN mem[m]
            ELSE [mem[m] EXCEPT !.status =
                    IF pl.acts[Max(hits)].action = "forget" THEN "forgotten" ELSE "superseded"]]

(* Its third pass: the creates of the plan become memories, in their order. *)
Orders(mem, pl) ==
    {order \in [Len(mem) + 1 .. Len(mem) + Cardinality(Creates(pl)) -> Creates(pl)] :
        /\ \A m, n \in DOMAIN order : m < n => order[m] < order[n]
        /\ Creates(pl) = {order[m] : m \in DOMAIN order}}

Added(mem, pl, order) ==
    [m \in 1 .. Len(mem) + Cardinality(Creates(pl)) |->
        IF m <= Len(mem) THEN mem[m]
        ELSE [text |-> pl.acts[order[m]].content, status |-> "active",
              replaces |-> pl.acts[order[m]].replaces]]

FixedEvents == 9   \* events of an interaction that applies nothing

NoInteraction ==
    [statement |-> None, batch |-> <<>>, before |-> [mem |-> << >>, complete |-> TRUE],
     decision |-> Decision("not_invoked", "unchanged", None, None, <<>>, None),
     planned |-> PlanOf(<<>>), plan |-> PlanOf(<<>>)]

Stored(texts) ==
    [m \in DOMAIN texts |-> [text |-> texts[m], status |-> "active", replaces |-> None]]

Init ==
    /\ memory \in {Stored(s) : s \in Stores}
    /\ config \in Configs
    /\ turns = 0 /\ history = 0
    /\ receipts = {} /\ rewrites = {} /\ spent = {}
    /\ last = NoInteraction

Applied(t, batch, pl, d, after) ==
        /\ turns < MaxTurns
        /\ Len(memory) + Cardinality(Creates(after)) <= MaxMemories
        /\ \E order \in Orders(memory, after) :
              memory' = Added(Retire(memory, after), after, order)
        /\ turns' = turns + 1
        /\ history' = history + FixedEvents + Cardinality(after.ok)
        /\ spent' = IF after # pl THEN spent \cup {d.receipt} ELSE spent
        /\ last' = [statement |-> t, batch |-> batch, before |-> Before,
                    decision |-> d, planned |-> pl, plan |-> after]
        /\ UNCHANGED <<config, receipts, rewrites>>

Decided(t, batch, pl, d) == Applied(t, batch, pl, d, PlanAfter(pl, d, batch))
Planned(t, batch, pl)    == Decided(t, batch, pl, Evaluate(t, pl, Before))

Interact(t, batch) == Planned(t, batch, Admit(batch, Active, TextOf))

(* build_authorization: the operator reviews what t would do at the first   *)
(* request of a process, alone or in place of what the planner would note.  *)
Reviewed(t, found, tr) ==
    LET pl    == PlanOf(<<Create(Noted[t], None)>>)
        ready == /\ Noted[t] # None /\ PlanStatus(pl, 1, tr.acts) = "plan_ready"
    IN  /\ Cardinality(receipts) < MaxReceipts
        /\ found.proposal # None /\ found.result.eligible
        /\ receipts' = receipts \cup
              {BindingOf(0, t, "grounded_valid", Before, found.proposal, found.result, tr)}
        /\ rewrites' \in {rewrites, IF ready
                                    THEN rewrites \cup {ReplacementBinding(pl, 1, tr.acts, Digest(Before))}
                                    ELSE rewrites}
        /\ UNCHANGED <<memory, turns, spent>>

Examined(t, found) == Reviewed(t, found, Translate(found.proposal, found.result, Before))
Review(t)          == Examined(t, Route(t, "grounded_valid", Before))

(* The process is started again, with the receipts issued so far. *)
Restart ==
    /\ history' = 0
    /\ config' \in Configs
    /\ last' = NoInteraction

Deploy(t) == Review(t) /\ Restart
Reboot    == history # 0 /\ Restart /\ UNCHANGED <<memory, turns, receipts, rewrites, spent>>

Next ==
    \/ \E t \in Statements : \E batch \in Batches(t) : Interact(t, batch)
    \/ \E t \in Statements : Deploy(t)
    \/ Reboot

Spec == Init /\ [][Next]_vars

-----------------------------------------------------------------------------
(* What the last interaction did through the transition, and what it read. *)
Effective == last.plan # last.planned
Governing == last.decision.proposal
Retired(acts)    == {acts[k].memory_id : k \in {j \in DOMAIN acts : Retires(acts[j])}}
Superseded(acts) == {acts[k].memory_id : k \in {j \in DOMAIN acts : acts[j].action = "supersede"}}

(***************************************************************************)
(* A receipt that retires a memory has effect once: not at the next turn,  *)
(* not in a process started again with the same receipts and the same      *)
(* request numbers, not after the memories have changed                    *)
(* (expected_binding, transition_integration.py:1074-1103).                *)
(***************************************************************************)
RetireReceiptOnce ==
    [][ (last' # last /\ Effective' /\ Retired(last'.decision.acts) # {})
          => last'.decision.receipt \notin spent ]_vars

(* A controller that names something else: one field altered, or another    *)
(* target throughout, with no expectation that would give it away.          *)
Retargeted(p, m) ==
    IF p.type = "supersede_existing"
    THEN [p EXCEPT !.superseded = <<m>>, !.targets = <<m>>, !.edges = {<<m, CreatedRef>>},
                   !.unchanged = {}, !.expected = None]
    ELSE [p EXCEPT !.forgotten = <<m>>, !.targets = <<m>>, !.unchanged = {}, !.expected = None]

Deviations(p, before) ==
    LET named == {<<>>} \cup {<<m>> : m \in DOMAIN before.mem}
    IN  {p, [p EXCEPT !.created = <<>>], [p EXCEPT !.expected = None]}
            \cup {[p EXCEPT !.type = x] : x \in TransitionTypes}
            \cup {[p EXCEPT !.superseded = x] : x \in named}
            \cup {[p EXCEPT !.forgotten = x] : x \in named}
            \cup {Retargeted(p, m) : m \in DOMAIN before.mem}

SameSlotOrUnknown(a, b) ==
    KindsCompatible(a, b) /\ ~ Differ(a.subject, b.subject) /\ ~ Differ(a.attribute, b.attribute)

OtherScope(old, new) == old.scoped /\ new.scoped /\ old.scope # new.scope

Bounded(p, before) ==
    LET result  == Verify(p, before)
        acts    == Translate(p, result, before).acts
        said    == Identity[p.statement]
        held(m) == Identity[before.mem[m].text]
    IN  Accepted(result) =>
          /\ \A m, n \in Retired(acts) : m = n
          /\ Retired(acts) \subseteq DOMAIN before.mem
          /\ Durable(said) => \A m \in Retired(acts) :
                SameSlotOrUnknown(held(m), said) \/ held(m).surface = said.surface
          /\ \A m \in Superseded(acts) :
                /\ held(m).value # said.value
                /\ said.attribute # Unknown => ~ OtherScope(held(m), said)

(***************************************************************************)
(* Whatever the verifier accepts, be it the controllers' proposal or one   *)
(* altered in a field, its translation retires at most one memory, which   *)
(* was read; that of a durable statement is of the slot of the statement   *)
(* as far as both are known, and a supersession is of another value and,   *)
(* unless the statement leaves the slot unsaid, of no other scope          *)
(* (TransitionVerifier.verify, transition_verification.py:717-941, and     *)
(* translate_transition, transition_integration.py:524-630).               *)
(***************************************************************************)
AcceptedIsBounded ==
    Governing # None => \A p \in Deviations(Governing, last.before) : Bounded(p, last.before)

(***************************************************************************)
(* An adopted transition leaves the state the verifier projected: every    *)
(* memory that was active stays so unless the proposal or the planner      *)
(* retires it, a retired one is not active again, and what is created is   *)
(* what the planner and the proposal create, a planner create at most      *)
(* giving way to the proposal's (_project, transition_verification.py:     *)
(* 1247-1286, against translate_transition and _governed_replacement).     *)
(***************************************************************************)
EffectIsProjected ==
    Effective =>
        LET p       == Governing
            planned == {last.planned.acts[k].content : k \in Creates(last.planned)}
            new     == {memory[m].text : m \in {x \in Active : x \notin DOMAIN last.before.mem}}
            asked   == {p.created[k].text : k \in DOMAIN p.created}
        IN  /\ Active \cap DOMAIN last.before.mem =
                  (ProjectedActive(p, last.before) \cap DOMAIN memory)
                    \ Retired(last.planned.acts)
            /\ asked \subseteq new /\ new \subseteq planned \cup asked
            /\ Cardinality(planned \ new) <= Cardinality(asked)

(***************************************************************************)
(* With the bounded authority, a correction that was accepted takes        *)
(* effect when the planner notes it: the old memory is superseded, the     *)
(* new one replaces it and the planner's note does not stay beside it      *)
(* (authorize_replacement, transition_authority.py:284-304, and            *)
(* _governed_replacement).                                                 *)
(***************************************************************************)
CorrectionTakesEffect ==
    (/\ config.mode = "adopted" /\ config.runtime
     /\ Governing # None /\ last.decision.result.eligible
     /\ Governing.type = "supersede_existing"
     /\ last.batch = <<Create(Noted[last.statement], None)>>)
    => /\ memory[Governing.superseded[1]].status = "superseded"
       /\ \E m \in Active : /\ memory[m].text = last.statement
                             /\ memory[m].replaces = Governing.superseded[1]
       /\ Cardinality(Active) = Cardinality(DOMAIN last.before.mem)

(* Where the two lexicons agree: the planner's note of a statement is a     *)
(* duplicate of it to the matcher.                                          *)
NoteMatches(t) == Noted[t] # None => Relation[Noted[t]][t] \in DuplicateRelations

(***************************************************************************)
(* A retirement is never a guess: a supersession's target is the one       *)
(* active memory in conflict with the statement, and a forgotten memory is *)
(* the only one the first three parts of the request resolve to, each      *)
(* against all active memories (resolve_identity, identity.py:1300-1360, and           *)
(* ForgetTargetResolver.resolve, forget.py:290-345).                       *)
(***************************************************************************)
NeverAGuess ==
    LET t == last.statement
        conflicts == {m \in DOMAIN last.before.mem :
                        Relation[last.before.mem[m].text][t] = "current_state_conflict"}
        resolved  == UNION {ResolvePart(t, k, last.before, {}).targets :
                              k \in DOMAIN Reading[t].parts \cap 1 .. 3}
    IN  \A k \in DOMAIN last.decision.acts :
            /\ last.decision.acts[k].action = "supersede" =>
                  conflicts = {last.decision.acts[k].memory_id}
            /\ last.decision.acts[k].action = "forget" =>
                  resolved = {last.decision.acts[k].memory_id}

(***************************************************************************)
(* The seam ExperienceEngine is composed with allows what the coordinator  *)
(* does: an interaction applies the planner's plan, or one TransitionSeam  *)
(* derives from it for the actions of the transition                       *)
(* (_evaluate_transition, experience_engine.py:385-480).                   *)
(***************************************************************************)
Static  == INSTANCE TransitionSeam WITH Grants <- "static", PlannerPrecedence <- FALSE
Runtime == INSTANCE TransitionSeam WITH Grants <- "runtime", PlannerPrecedence <- FALSE

SeamCovers ==
    LET pl == last.planned
        shown == DOMAIN last.before.mem
        text == [m \in shown |-> last.before.mem[m].text]
        retired == RetiredBy(last.batch, shown)
        s == last.decision.acts
    IN  Effective =>
          /\ s \in Seam!Translations
          /\ last.plan \in {Static!WithTransition(pl, Len(pl.acts), s, shown, shown, text, retired),
                            Runtime!WithTransition(pl, Len(pl.acts), s, shown, shown, text, retired)}

(***************************************************************************)
(* A switch that names the value of the one active memory as the value it  *)
(* leaves is an update of that memory: "the new value always comes from    *)
(* the identity projection, never from the replaced clause"                *)
(* (update_intelligence.py:287-289).                                       *)
(***************************************************************************)
SwitchTakesNewValue ==
    LET t    == last.statement
        held == {m \in DOMAIN last.before.mem :
                   Identity[last.before.mem[m].text].value
                     \in Reading[t].old.switched_from_to}
    IN  (last.decision.route = "update" /\ IntentOf[t] = "switched_from_to"
         /\ Cardinality(DOMAIN last.before.mem) = 1 /\ held # {})
        => Deactivated(Governing) = held
=============================================================================
