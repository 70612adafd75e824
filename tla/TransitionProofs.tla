-------------------------- MODULE TransitionProofs --------------------------
(***************************************************************************)
(* Theorems about TransitionCoordinator, for every set of statements, every *)
(* reading of them by the patterns, every configuration and every memory an *)
(* earlier process may have left.                                          *)
(*                                                                         *)
(*   - VerifierIsBounded: whatever the verifier accepts is bounded; on     *)
(*     AcceptedProposalBounded, which follows its checks in order and      *)
(*     reads what an acceptance says of them;                              *)
(*   - RetirementNeverGuessed: the controllers retire what they resolved   *)
(*     alone; on Route, Evaluate and the scores of the forget resolver;    *)
(*   - TransitionProjected: what the plan leaves is what was projected; on *)
(*     the two ways a transition joins the plan (AppendedPlan,             *)
(*     RewrittenPlan) and the passes that apply it (AppliedMemory);        *)
(*   - ReceiptSpentOnce: a receipt that retired a memory has no effect     *)
(*     again; on SpentRetires, which is why the invariant is inductive;    *)
(*   - CoordinatorInSeam: the plan is one that TransitionSeam allows; on   *)
(*     the same two ways (SeamAppends, SeamReplaces) and MemoryFits;       *)
(*   - CorrectionApplied: an accepted correction takes effect when the     *)
(*     note is matched (NoteMatches); a conflict is alone (Unsaid), so the *)
(*     note is admitted and gives way (NoteIsMatched, CorrectedMemory).    *)
(***************************************************************************)
EXTENDS TransitionCoordinator, TLAPS, WellFoundedInduction, FiniteSetTheorems

LessThan == {pair \in Nat \X Nat : pair[1] < pair[2]}

LEMMA LessThanIsWellFounded == IsWellFoundedOn(LessThan, Nat)
  BY NatLessThanWellFounded, SMT DEF OpToRel, LessThan

LEMMA MinOfNaturals ==
    ASSUME NEW S \in SUBSET Nat, S # {}
    PROVE  Min(S) \in S /\ \A x \in S : Min(S) <= x
<1>1. PICK n \in S : \A x \in S : ~ (<<x, n>> \in LessThan)
  BY LessThanIsWellFounded, WFMin
<1>2. ASSUME NEW x \in S PROVE n <= x
  <2>1. x \in Nat /\ n \in Nat /\ ~ (<<x, n>> \in LessThan)
    BY <1>1, <1>2
  <2>2. ~ (x < n)
    BY <2>1 DEF LessThan
  <2>3. QED BY <2>1, <2>2
<1>3. QED BY <1>2 DEF Min

(* The first condition of a chain that holds decides.                       *)
LEMMA FirstCodeDecides ==
    ASSUME NEW n \in Nat, NEW chain, DOMAIN chain = 1 .. n, NEW default
    PROVE  \/ /\ \A k \in 1 .. n : ~ chain[k][2]
              /\ FirstCode(chain, default) = default
           \/ \E k \in 1 .. n :
                 /\ chain[k][2] /\ \A j \in 1 .. n : j < k => ~ chain[j][2]
                 /\ FirstCode(chain, default) = chain[k][1]
<1>1. CASE Failing(chain) = {}
  BY <1>1 DEF Failing, FirstCode
<1>2. CASE Failing(chain) # {}
  <2> DEFINE k == Min(Failing(chain))
  <2>1. Failing(chain) \in SUBSET Nat
    BY DEF Failing
  <2>2. k \in Failing(chain) /\ \A x \in Failing(chain) : k <= x
    BY <1>2, <2>1, MinOfNaturals
  <2>3. k \in 1 .. n /\ chain[k][2]
    BY <2>2 DEF Failing
  <2>4. ASSUME NEW j \in 1 .. n, j < k PROVE ~ chain[j][2]
    <3>1. j \notin Failing(chain)
      BY <2>2, <2>3, <2>4
    <3>2. QED BY <3>1 DEF Failing
  <2>5. FirstCode(chain, default) = chain[k][1]
    BY <1>2 DEF FirstCode
  <2>6. QED BY <2>3, <2>4, <2>5
<1>3. QED BY <1>1, <1>2

(* A chain whose codes all differ from its default: it passes only when no   *)
(* condition holds.                                                         *)
LEMMA ChainPassed ==
    ASSUME NEW n \in Nat, NEW chain, DOMAIN chain = 1 .. n, NEW default,
           \A k \in 1 .. n : chain[k][1] # default,
           FirstCode(chain, default) = default
    PROVE  \A k \in 1 .. n : ~ chain[k][2]
  BY FirstCodeDecides

-----------------------------------------------------------------------------
(* How two statements relate.                                               *)
Temporals == {"question", "hypothetical", "temporary", "historical", "current"}

LEMMA TemporalReading ==
    ASSUME NEW marks
    PROVE  Temporal(marks) \in Temporals
<1> DEFINE chain == [k \in DOMAIN NonDurable |-> <<NonDurable[k], NonDurable[k] \in marks>>]
<1>1. DOMAIN chain = 1 .. 4
  BY DEF NonDurable
<1>2. ASSUME NEW k \in 1 .. 4 PROVE chain[k][1] \in Temporals
  <2>1. k \in DOMAIN NonDurable /\ k \in {1, 2, 3, 4}
    BY DEF NonDurable
  <2>2. chain[k] = <<NonDurable[k], NonDurable[k] \in marks>>
    BY <2>1
  <2>3. NonDurable[k] \in Temporals
    BY <2>1 DEF NonDurable, Temporals
  <2>4. QED BY <2>2, <2>3
<1> HIDE DEF chain
<1>3. \/ /\ \A k \in 1 .. 4 : ~ chain[k][2]
         /\ FirstCode(chain, "current") = "current"
      \/ \E k \in 1 .. 4 :
            /\ chain[k][2] /\ \A j \in 1 .. 4 : j < k => ~ chain[j][2]
            /\ FirstCode(chain, "current") = chain[k][1]
  <2>1. 4 \in Nat
    OBVIOUS
  <2>2. QED BY <1>1, <2>1, FirstCodeDecides, Zenon
<1>4. FirstCode(chain, "current") \in Temporals
  BY <1>2, <1>3 DEF Temporals
<1>5. QED BY <1>4 DEF Temporal, chain

LEMMA IdentityTemporal ==
    ASSUME NEW t \in Contents
    PROVE  Identity[t].temporal \in Temporals
<1>1. Identity[t] = Project(Reading[t])
  BY DEF Identity
<1>2. Project(Reading[t]).temporal = Temporal(Marks(Reading[t]))
  BY DEF Project, Placed
<1>3. QED BY <1>1, <1>2, TemporalReading

LEMMA ComparisonCases ==
    ASSUME NEW old, NEW new, new.temporal \in Temporals
    PROVE  /\ Compare(old, new) \in Relations
           /\ Durable(new) /\ Compare(old, new) # "unrelated"
                => SameSlotOrUnknown(old, new) \/ old.surface = new.surface
           /\ Compare(old, new) = "current_state_conflict"
                => /\ old.value # new.value
                   /\ new.attribute # Unknown => ~ OtherScope(old, new)
<1> DEFINE chain == Comparisons(old, new)
           code  == FirstCode(chain, ByValue(old, new))
<1>1. DOMAIN chain = 1 .. 9
  BY DEF Comparisons
<1>2. code = Compare(old, new)
  BY DEF Compare
<1> HIDE DEF chain
<1>3. \/ (\A k \in 1 .. 9 : ~ chain[k][2]) /\ code = ByValue(old, new)
      \/ \E k \in 1 .. 9 :
            /\ chain[k][2] /\ \A j \in 1 .. 9 : j < k => ~ chain[j][2]
            /\ code = chain[k][1]
  <2>1. 9 \in Nat
    OBVIOUS
  <2>2. QED BY <1>1, <2>1, FirstCodeDecides, Zenon
<1>4. /\ chain[1][1] = "exact_duplicate" /\ chain[3][1] = "unrelated"
      /\ chain[4][1] = "unrelated" /\ chain[5][1] = "ambiguous"
      /\ chain[6][1] = ByValue(old, new) /\ chain[7][1] = "ambiguous"
      /\ chain[8][1] = "scoped_coexistence" /\ chain[9][1] = "ambiguous"
  BY DEF chain, Comparisons
<1>5. /\ chain[1][2] => old.surface = new.surface
      /\ chain[2][2] <=> ~ Durable(new)
      /\ chain[3][2] <=> ~ KindsCompatible(old, new)
      /\ chain[4][2] <=> (Differ(old.subject, new.subject)
                           \/ Differ(old.attribute, new.attribute))
      /\ chain[6][2] => new.attribute = Unknown
      /\ chain[8][2] <=> ScopeRelation(old, new) = "disjoint"
      /\ chain[9][2] <=> ScopeRelation(old, new) = "overlapping"
  BY DEF chain, Comparisons
<1>6. chain[2][2] => chain[2][1] \in NonDurableRelations
  BY DEF chain, Comparisons, Durable, NonDurableRelations, NonDurableRelation, Temporals
<1>7. ByValue(old, new) \in {"semantic_duplicate", "current_state_conflict"}
      /\ (ByValue(old, new) = "current_state_conflict" => old.value # new.value)
  BY DEF ByValue
<1>8. code \in Relations
  BY <1>3, <1>4, <1>6, <1>7 DEF Relations
<1>9. ASSUME Durable(new), code # "unrelated"
      PROVE  SameSlotOrUnknown(old, new) \/ old.surface = new.surface
  <2>1. CASE chain[1][2]
    BY <2>1, <1>5
  <2>2. CASE ~ chain[1][2]
    <3>1. ~ chain[3][2] /\ ~ chain[4][2]
      BY <1>3, <1>4, <1>5, <1>9, <2>2
    <3>2. QED BY <3>1, <1>5 DEF SameSlotOrUnknown
  <2>3. QED BY <2>1, <2>2
<1>10. ASSUME code = "current_state_conflict"
       PROVE  /\ old.value # new.value
              /\ new.attribute # Unknown => ~ OtherScope(old, new)
  <2>1. \/ (\A k \in 1 .. 9 : ~ chain[k][2]) /\ code = ByValue(old, new)
        \/ chain[6][2] /\ code = ByValue(old, new)
    BY <1>3, <1>4, <1>6, <1>10 DEF NonDurableRelations, NonDurableRelation
  <2>2. old.value # new.value
    BY <2>1, <1>7, <1>10
  <2>3. ASSUME new.attribute # Unknown PROVE ~ OtherScope(old, new)
    <3>1. ~ chain[8][2] /\ ~ chain[9][2]
      BY <2>1, <2>3, <1>5
    <3>2. QED BY <3>1, <1>5 DEF ScopeRelation, OtherScope
  <2>4. QED BY <2>2, <2>3
<1>11. QED BY <1>2, <1>8, <1>9, <1>10

-----------------------------------------------------------------------------
(* What passes the verifier.                                                *)
LEMMA StructureHolds ==
    ASSUME NEW p, StructureFault(p) = None
    PROVE  /\ p.type = "supersede_existing" => p.superseded # <<>> /\ p.created # <<>>
           /\ p.type = "create_new" => Deactivated(p) = {}
<1> DEFINE chain == StructureChecks(p)
<1>1. DOMAIN chain = 1 .. 11 /\ 11 \in Nat
  BY DEF StructureChecks
<1>2. /\ chain[1][1] \in RejectionReasons /\ chain[2][1] \in RejectionReasons /\ chain[3][1] \in RejectionReasons
      /\ chain[4][1] \in RejectionReasons /\ chain[5][1] \in RejectionReasons /\ chain[6][1] \in RejectionReasons
      /\ chain[7][1] \in RejectionReasons /\ chain[8][1] \in RejectionReasons /\ chain[9][1] \in RejectionReasons
      /\ chain[10][1] \in RejectionReasons /\ chain[11][1] \in RejectionReasons
  BY DEF StructureChecks, RejectionReasons
<1>3. FirstCode(chain, None) = None
  BY DEF StructureFault
<1>4. /\ chain[7][2] <=> /\ p.type = "supersede_existing"
                         /\ p.superseded = <<>> \/ p.created = <<>>
      /\ chain[11][2] <=> p.type = "create_new" /\ Deactivated(p) # {}
  BY DEF StructureChecks
<1> HIDE DEF chain
<1>5. \A k \in 1 .. 11 : chain[k][1] # None
  <2> SUFFICES ASSUME NEW k \in 1 .. 11 PROVE chain[k][1] # None
    OBVIOUS
  <2>1. k \in {1, 2, 3, 4, 5, 6, 7, 8, 9, 10, 11}
    OBVIOUS
  <2>2. QED BY <2>1, <1>2, ReasonAssumption
<1>6. \A k \in 1 .. 11 : ~ chain[k][2]
  BY <1>1, <1>3, <1>5, ChainPassed, Zenon
<1>7. ~ chain[7][2] /\ ~ chain[11][2]
  BY <1>6
<1>8. QED BY <1>4, <1>7

LEMMA TargetsHold ==
    ASSUME NEW p, NEW before, NEW rel, TargetFault(p, before, rel) = None
    PROVE  /\ \A m \in Deactivated(p) : TargetStatus(before, m) = "active"
           /\ \A m \in Deactivated(p) : ~ Relates(rel, m, "unrelated")
           /\ p.type = "supersede_existing" => ~ (Len(p.superseded) > 1)
<1> DEFINE chain == TargetChecks(p, before, rel)
<1>1. DOMAIN chain = 1 .. 4 /\ 4 \in Nat
  BY DEF TargetChecks
<1>2. /\ chain[1][1] \in RejectionReasons /\ chain[2][1] \in RejectionReasons
      /\ chain[3][1] \in RejectionReasons /\ chain[4][1] \in RejectionReasons
  BY DEF TargetChecks, RejectionReasons
<1>3. FirstCode(chain, None) = None
  BY DEF TargetFault
<1>4. /\ chain[1][2] <=> \E m \in Deactivated(p) : TargetStatus(before, m) # "active"
      /\ chain[2][2] <=> \E m \in Deactivated(p) : Relates(rel, m, "unrelated")
      /\ p.type = "supersede_existing" /\ Len(p.superseded) > 1 => chain[4][2]
  BY DEF TargetChecks
<1> HIDE DEF chain
<1>5. \A k \in 1 .. 4 : chain[k][1] # None
  <2> SUFFICES ASSUME NEW k \in 1 .. 4 PROVE chain[k][1] # None
    OBVIOUS
  <2>1. k \in {1, 2, 3, 4}
    OBVIOUS
  <2>2. QED BY <2>1, <1>2, ReasonAssumption
<1>6. \A k \in 1 .. 4 : ~ chain[k][2]
  BY <1>1, <1>3, <1>5, ChainPassed, Zenon
<1>7. ~ chain[1][2] /\ ~ chain[2][2] /\ ~ chain[4][2]
  BY <1>6
<1>8. QED BY <1>4, <1>7

LEMMA RelationHolds ==
    ASSUME NEW p, NEW rel, RelationFault(p, rel) = None, p.type = "supersede_existing"
    PROVE  Observed(p, rel) = {} \/ "current_state_conflict" \in Observed(p, rel)
<1> DEFINE chain == <<
        <<"identity_ambiguous", "ambiguous" \in Observed(p, rel)>>,
        <<"identity_relation_mismatch",
            Observed(p, rel) \cap RequiredRelations(p.type) = {}>> >>
<1>1. RequiredRelations(p.type) = {"current_state_conflict"}
  BY DEF RequiredRelations, NoopTypes
<1>2. SUFFICES ASSUME Observed(p, rel) # {}
               PROVE  "current_state_conflict" \in Observed(p, rel)
  OBVIOUS
<1>3. FirstCode(chain, None) = None
  BY <1>1, <1>2 DEF RelationFault
<1>4. DOMAIN chain = 1 .. 2 /\ 2 \in Nat
  OBVIOUS
<1>5. chain[1][1] \in RejectionReasons /\ chain[2][1] \in RejectionReasons
  BY DEF RejectionReasons
<1>6. chain[2][2] <=> Observed(p, rel) \cap RequiredRelations(p.type) = {}
  OBVIOUS
<1> HIDE DEF chain
<1>7. \A k \in 1 .. 2 : chain[k][1] # None
  <2> SUFFICES ASSUME NEW k \in 1 .. 2 PROVE chain[k][1] # None
    OBVIOUS
  <2>1. k \in {1, 2}
    OBVIOUS
  <2>2. QED BY <2>1, <1>5, ReasonAssumption
<1>8. \A k \in 1 .. 2 : ~ chain[k][2]
  BY <1>3, <1>4, <1>7, ChainPassed, Zenon
<1>9. ~ chain[2][2]
  BY <1>8
<1>10. QED BY <1>1, <1>6, <1>9

LEMMA AcceptedPasses ==
    ASSUME NEW p, NEW before, NEW rel, rel = SourceRelations(p, before),
           Accepted(Verify(p, before))
    PROVE  /\ StructureFault(p) = None /\ DurabilityFault(p, rel) = None
           /\ TargetFault(p, before, rel) = None /\ RelationFault(p, rel) = None
           /\ LineageFault(p, before, rel) = None
           /\ Verify(p, before).specs = SpecActions(p)
<1>1. StructureFault(p) = None
  BY DEF Verify, Outcome, Accepted
<1> DEFINE faults == Faults(p, before, rel)
<1>2. Verify(p, before) = Verdict(p, before, faults)
  BY <1>1 DEF Verify
<1>3. DOMAIN faults = 1 .. 9
  BY DEF Faults
<1>4. /\ faults[2] = DurabilityFault(p, rel) /\ faults[3] = TargetFault(p, before, rel)
      /\ faults[4] = RelationFault(p, rel) /\ faults[9] = LineageFault(p, before, rel)
  BY DEF Faults
<1> HIDE DEF faults
<1>5. \A k \in DOMAIN faults : faults[k] = None
  BY <1>2 DEF Verdict, Outcome, Accepted, StatusOf
<1>6. Verify(p, before).specs = SpecActions(p)
  BY <1>2, <1>5 DEF Verdict, Outcome
<1>7. QED BY <1>1, <1>3, <1>4, <1>5, <1>6

-----------------------------------------------------------------------------
(* What a verified proposal is translated to.                               *)
LEMMA TranslationCases ==
    ASSUME NEW p, NEW r, NEW before, NEW tr, tr = Translate(p, r, before)
    PROVE  \/ tr.acts = <<>> /\ tr.kind \in {"", "none"}
           \/ /\ p.type \in {"create_new", "scoped_coexistence"} /\ Accepted(r)
              /\ r.specs.create # <<>>
              /\ tr.acts = <<Create(r.specs.create[1].text, None)>> /\ tr.kind = "create"
           \/ /\ p.type = "supersede_existing" /\ Accepted(r)
              /\ r.specs.create # <<>> /\ r.specs.supersede # <<>>
              /\ r.specs.supersede[1] \in ActiveIds(before)
              /\ tr.acts = <<Supersede(r.specs.supersede[1]),
                             Create(r.specs.create[1].text, r.specs.supersede[1])>>
              /\ tr.kind = "supersede"
           \/ /\ p.type = "forget_existing" /\ Accepted(r)
              /\ r.specs.forget # <<>> /\ r.specs.forget[1] \in ActiveIds(before)
              /\ tr.acts = <<Forget(r.specs.forget[1])>> /\ tr.kind = "forget"
<1> DEFINE creates == r.specs.create
           retired == IF p.type = "forget_existing" THEN r.specs.forget ELSE r.specs.supersede
           lives   == retired # <<>> /\ retired[1] \in ActiveIds(before)
<1>1. CASE p.type \in NonMutatingTypes
  BY <1>1 DEF Translate, Translation
<1>2. CASE p.type \notin NonMutatingTypes /\ ~ Accepted(r)
  BY <1>2 DEF Translate, Untranslated, Translation
<1>3. CASE p.type \notin NonMutatingTypes /\ Accepted(r)
  <2>1. CASE p.type \in {"create_new", "scoped_coexistence"} /\ creates # <<>>
    BY <1>3, <2>1 DEF Translate, Translation
  <2>2. CASE p.type = "supersede_existing" /\ creates # <<>> /\ lives
    BY <1>3, <2>2 DEF Translate, Translation
  <2>3. CASE p.type = "forget_existing" /\ creates = <<>> /\ lives
    BY <1>3, <2>3 DEF Translate, Translation
  <2>4. CASE /\ ~ (p.type \in {"create_new", "scoped_coexistence"} /\ creates # <<>>)
             /\ ~ (p.type = "supersede_existing" /\ creates # <<>> /\ lives)
             /\ ~ (p.type = "forget_existing" /\ creates = <<>> /\ lives)
    BY <1>3, <2>4 DEF Translate, Untranslated, Translation
  <2>5. QED BY <2>1, <2>2, <2>3, <2>4
<1>4. QED BY <1>1, <1>2, <1>3

LEMMA RetiringActions ==
    ASSUME NEW m, NEW c, NEW x
    PROVE  /\ ~ Retires(Create(c, x)) /\ Create(c, x).action # "supersede"
           /\ Retires(Supersede(m)) /\ Supersede(m).action = "supersede"
           /\ Retires(Forget(m)) /\ Forget(m).action # "supersede"
           /\ Supersede(m).memory_id = m /\ Forget(m).memory_id = m
  BY DEF Create, Supersede, Forget, Retires, RetireActions

LEMMA RetiredByPair ==
    ASSUME NEW s, NEW m, NEW c, NEW x, s = <<Supersede(m), Create(c, x)>>
    PROVE  Retired(s) = {m} /\ Superseded(s) = {m}
<1>1. DOMAIN s = {1, 2} /\ s[1] = Supersede(m) /\ s[2] = Create(c, x)
  OBVIOUS
<1>2. /\ {j \in DOMAIN s : Retires(s[j])} = {1}
      /\ {j \in DOMAIN s : s[j].action = "supersede"} = {1}
  BY <1>1, RetiringActions
<1>3. QED BY <1>1, <1>2, RetiringActions DEF Retired, Superseded

LEMMA RetiredByForget ==
    ASSUME NEW s, NEW m, s = <<Forget(m)>>
    PROVE  Retired(s) = {m} /\ Superseded(s) = {}
<1>1. DOMAIN s = {1} /\ s[1] = Forget(m)
  OBVIOUS
<1>2. /\ {j \in DOMAIN s : Retires(s[j])} = {1}
      /\ {j \in DOMAIN s : s[j].action = "supersede"} = {}
  BY <1>1, RetiringActions
<1>3. QED BY <1>1, <1>2, RetiringActions DEF Retired, Superseded

LEMMA RetiredByNone ==
    ASSUME NEW s, NEW c, NEW x, s = <<>> \/ s = <<Create(c, x)>>
    PROVE  Retired(s) = {} /\ Superseded(s) = {}
<1>1. \A j \in DOMAIN s : s[j] = Create(c, x)
  OBVIOUS
<1>2. /\ {j \in DOMAIN s : Retires(s[j])} = {}
      /\ {j \in DOMAIN s : s[j].action = "supersede"} = {}
  BY <1>1, RetiringActions
<1>3. QED BY <1>2 DEF Retired, Superseded

-----------------------------------------------------------------------------
(* The bound on what is accepted, for every proposal whose lineage edges    *)
(* start from its one target (TransitionVerifier.verify).                   *)
Readable(before) == \A m \in DOMAIN before.mem : before.mem[m].text \in Contents

Pointed(p) ==
    /\ p.superseded \in Seq(Nat) /\ p.forgotten \in Seq(Nat)
    /\ p.statement \in Contents
    /\ \A edge \in p.edges : p.targets = <<edge[1]>>

LEMMA RetiredIsNamed ==
    ASSUME NEW p, NEW r, NEW before, Pointed(p), r.specs = SpecActions(p),
           NEW m \in Retired(Translate(p, r, before).acts)
    PROVE  /\ m \in Deactivated(p) /\ m \in ActiveIds(before)
           /\ Retired(Translate(p, r, before).acts) = {m}
           /\ m \in Superseded(Translate(p, r, before).acts)
                => p.type = "supersede_existing" /\ Accepted(r) /\ m = p.superseded[1]
<1>1. PICK tr : tr = Translate(p, r, before)
  OBVIOUS
<1>2. PICK old, gone, text : /\ old = p.superseded[1] /\ gone = p.forgotten[1]
                             /\ text = p.created[1].text
  OBVIOUS
<1>3. /\ r.specs.supersede = p.superseded /\ r.specs.forget = p.forgotten
      /\ r.specs.create = p.created
  BY DEF SpecActions
<1>4. \/ tr.acts = <<>>
      \/ tr.acts = <<Create(text, None)>>
      \/ /\ p.type = "supersede_existing" /\ Accepted(r)
         /\ p.superseded # <<>> /\ old \in ActiveIds(before)
         /\ tr.acts = <<Supersede(old), Create(text, old)>>
      \/ /\ p.forgotten # <<>> /\ gone \in ActiveIds(before)
         /\ tr.acts = <<Forget(gone)>>
  <2>1. \/ tr.acts = <<>>
        \/ tr.acts = <<Create(r.specs.create[1].text, None)>>
        \/ /\ p.type = "supersede_existing" /\ Accepted(r)
           /\ r.specs.supersede # <<>> /\ r.specs.supersede[1] \in ActiveIds(before)
           /\ tr.acts = <<Supersede(r.specs.supersede[1]),
                          Create(r.specs.create[1].text, r.specs.supersede[1])>>
        \/ /\ r.specs.forget # <<>> /\ r.specs.forget[1] \in ActiveIds(before)
           /\ tr.acts = <<Forget(r.specs.forget[1])>>
    BY <1>1, TranslationCases, ZenonT(30)
  <2>2. QED BY <1>2, <1>3, <2>1
<1>5. m \in Retired(tr.acts)
  BY <1>1
<1>6. ASSUME NEW s \in Seq(Nat), s # <<>> PROVE s[1] \in Elements(s)
  BY <1>6 DEF Elements
<1>7. CASE tr.acts = <<>> \/ tr.acts = <<Create(text, None)>>
  BY <1>5, <1>7, RetiredByNone
<1>8. CASE /\ p.type = "supersede_existing" /\ Accepted(r)
           /\ p.superseded # <<>> /\ old \in ActiveIds(before)
           /\ tr.acts = <<Supersede(old), Create(text, old)>>
  <2>1. Retired(tr.acts) = {old}
    BY <1>8, RetiredByPair
  <2>2. old \in Elements(p.superseded)
    BY <1>2, <1>6, <1>8 DEF Pointed
  <2>3. m = old
    BY <1>5, <2>1
  <2>4. QED BY <1>1, <1>2, <1>8, <2>1, <2>2, <2>3 DEF Deactivated
<1>9. CASE /\ p.forgotten # <<>> /\ gone \in ActiveIds(before)
           /\ tr.acts = <<Forget(gone)>>
  <2>1. Retired(tr.acts) = {gone} /\ Superseded(tr.acts) = {}
    BY <1>9, RetiredByForget
  <2>2. gone \in Elements(p.forgotten)
    BY <1>2, <1>6, <1>9 DEF Pointed
  <2>3. m = gone
    BY <1>5, <2>1
  <2>4. QED BY <1>1, <1>9, <2>1, <2>2, <2>3 DEF Deactivated
<1>10. QED BY <1>4, <1>7, <1>8, <1>9

LEMMA SupersededIsConflict ==
    ASSUME NEW p, NEW before, NEW rel, NEW m, Pointed(p),
           p.type = "supersede_existing", rel = SourceRelations(p, before),
           StructureFault(p) = None, TargetFault(p, before, rel) = None,
           RelationFault(p, rel) = None, LineageFault(p, before, rel) = None,
           m = p.superseded[1]
    PROVE  m \in DOMAIN rel /\ rel[m] = "current_state_conflict"
<1>1. p.superseded \in Seq(Nat) /\ p.superseded # <<>> /\ ~ (Len(p.superseded) > 1)
  BY StructureHolds, TargetsHold DEF Pointed
<1>2. Elements(p.superseded) = {m}
  <2>1. DOMAIN p.superseded = {1}
    BY <1>1
  <2>2. QED BY <2>1 DEF Elements
<1>3. p.edges # {} /\ \A edge \in p.edges : ~ EdgeFault(p, before, rel, edge)
  BY ReasonAssumption DEF LineageFault, RejectionReasons
<1>4. PICK edge \in p.edges : edge[1] \in Elements(p.superseded)
  BY <1>3 DEF EdgeFault
<1>5. p.targets = <<m>>
  BY <1>2, <1>4 DEF Pointed
<1>6. Elements(p.targets) = {m} /\ p.targets # <<>>
  BY <1>5 DEF Elements
<1>7. Observed(p, rel) = {rel[n] : n \in DOMAIN rel \cap {m}}
  BY <1>6 DEF Observed
<1>8. m \in DOMAIN rel
  <2>1. TargetStatus(before, m) = "active"
    BY <1>2, TargetsHold DEF Deactivated
  <2>2. p.statement # None
    BY VocabularyAssumption DEF Pointed
  <2>3. m \in ActiveIds(before)
    <3>1. CASE m \in DOMAIN before.mem
      BY <2>1, <3>1 DEF TargetStatus, ActiveIds
    <3>2. CASE m \notin DOMAIN before.mem
      BY <2>1, <3>2, ReasonAssumption DEF TargetStatus
    <3>3. QED BY <3>1, <3>2
  <2>4. QED BY <2>2, <2>3 DEF SourceRelations
<1>9. "current_state_conflict" \in Observed(p, rel)
  BY <1>7, <1>8, RelationHolds
<1>10. QED BY <1>7, <1>8, <1>9

(***************************************************************************)
(* Of any proposal and any memories, however the controllers come by them: *)
(* what the verifier accepts, translated, retires at most one memory, one  *)
(* that was read, of the statement's slot as far as both are known, and    *)
(* supersedes only another value of no other scope                         *)
(* (TransitionVerifier.verify, transition_verification.py, and             *)
(* translate_transition, transition_integration.py).                       *)
(***************************************************************************)
THEOREM AcceptedProposalBounded ==
    ASSUME NEW p, NEW before, Pointed(p), Readable(before)
    PROVE  Bounded(p, before)
<1>1. PICK result : result = Verify(p, before)
  OBVIOUS
<1>2. PICK rel : rel = SourceRelations(p, before)
  OBVIOUS
<1>3. PICK said : said = Identity[p.statement]
  OBVIOUS
<1>4. SUFFICES ASSUME Accepted(result)
      PROVE  /\ \A m, n \in Retired(Translate(p, result, before).acts) : m = n
             /\ Retired(Translate(p, result, before).acts) \subseteq DOMAIN before.mem
             /\ Durable(said) => \A m \in Retired(Translate(p, result, before).acts) :
                   \/ SameSlotOrUnknown(Identity[before.mem[m].text], said)
                   \/ Identity[before.mem[m].text].surface = said.surface
             /\ \A m \in Superseded(Translate(p, result, before).acts) :
                   /\ Identity[before.mem[m].text].value # said.value
                   /\ said.attribute # Unknown => ~ OtherScope(Identity[before.mem[m].text], said)
  BY <1>1, <1>3 DEF Bounded
<1>5. /\ StructureFault(p) = None /\ DurabilityFault(p, rel) = None
      /\ TargetFault(p, before, rel) = None /\ RelationFault(p, rel) = None
      /\ LineageFault(p, before, rel) = None
      /\ result.specs = SpecActions(p)
  BY <1>1, <1>2, <1>4, AcceptedPasses
<1>6. p.statement \in Contents /\ p.statement # None
  BY VocabularyAssumption DEF Pointed
<1>7. said.temporal \in Temporals
  BY <1>3, <1>6, IdentityTemporal
<1>8. ASSUME NEW m \in ActiveIds(before)
      PROVE  /\ m \in DOMAIN rel
             /\ rel[m] = Compare(Identity[before.mem[m].text], said)
  <2>1. m \in DOMAIN rel /\ rel[m] = Relation[before.mem[m].text][p.statement]
    BY <1>2, <1>6 DEF SourceRelations
  <2>2. before.mem[m].text \in Contents
    BY DEF Readable, ActiveIds
  <2>3. QED BY <1>3, <1>6, <2>1, <2>2 DEF Relation
<1>9. ASSUME NEW m \in Retired(Translate(p, result, before).acts)
      PROVE  /\ m \in Deactivated(p) /\ m \in ActiveIds(before)
             /\ Retired(Translate(p, result, before).acts) = {m}
             /\ m \in Superseded(Translate(p, result, before).acts)
                  => p.type = "supersede_existing" /\ m = p.superseded[1]
  BY <1>5, RetiredIsNamed
<1>10. ASSUME NEW m \in Retired(Translate(p, result, before).acts), Durable(said)
       PROVE  \/ SameSlotOrUnknown(Identity[before.mem[m].text], said)
              \/ Identity[before.mem[m].text].surface = said.surface
  <2>1. rel[m] # "unrelated"
    BY <1>5, <1>8, <1>9, TargetsHold DEF Relates
  <2>2. QED BY <1>7, <1>8, <1>9, <1>10, <2>1, ComparisonCases
<1>11. ASSUME NEW m \in Superseded(Translate(p, result, before).acts)
       PROVE  /\ Identity[before.mem[m].text].value # said.value
              /\ said.attribute # Unknown => ~ OtherScope(Identity[before.mem[m].text], said)
  <2>1. m \in Retired(Translate(p, result, before).acts)
    BY <1>11 DEF Superseded, Retired, Retires, RetireActions
  <2>2. p.type = "supersede_existing" /\ m = p.superseded[1] /\ m \in ActiveIds(before)
    BY <1>9, <1>11, <2>1
  <2>3. rel[m] = "current_state_conflict"
    BY <1>2, <1>5, <2>2, SupersededIsConflict
  <2>4. QED BY <1>7, <1>8, <2>2, <2>3, ComparisonCases
<1>12. \A m, n \in Retired(Translate(p, result, before).acts) : m = n
  BY <1>9
<1>13. Retired(Translate(p, result, before).acts) \subseteq DOMAIN before.mem
  BY <1>9 DEF ActiveIds
<1>14. QED BY <1>10, <1>11, <1>12, <1>13

-----------------------------------------------------------------------------
(* The proposals of the controllers, and what is altered in one.            *)
Fields == {"type", "statement", "mode", "targets", "created", "superseded", "forgotten",
           "preserved", "unchanged", "edges", "expected"}

Shaped(p) ==
    /\ Pointed(p) /\ DOMAIN p = Fields
    /\ p.type # "supersede_existing" => p.edges = {}

LEMMA DeviationsPointed ==
    ASSUME NEW p, NEW before, Shaped(p), DOMAIN before.mem \subseteq Nat,
           NEW q \in Deviations(p, before)
    PROVE  Pointed(q)
<1>1. /\ p.superseded \in Seq(Nat) /\ p.forgotten \in Seq(Nat) /\ p.statement \in Contents
      /\ \A edge \in p.edges : p.targets = <<edge[1]>>
      /\ DOMAIN p = Fields /\ (p.type # "supersede_existing" => p.edges = {})
  BY DEF Shaped, Pointed
<1>2. ASSUME NEW x \in {<<>>} \cup {<<m>> : m \in DOMAIN before.mem}
      PROVE  x \in Seq(Nat)
  <2>1. CASE x = <<>>
    BY <2>1
  <2>2. CASE \E m \in DOMAIN before.mem : x = <<m>>
    <3>1. PICK m \in Nat : x = <<m>>
      BY <2>2
    <3>2. QED BY <3>1
  <2>3. QED BY <1>2, <2>1, <2>2
<1>3. CASE \/ q = p
           \/ q = [p EXCEPT !.created = <<>>]
           \/ q = [p EXCEPT !.expected = None]
           \/ \E x \in TransitionTypes : q = [p EXCEPT !.type = x]
  <2>1. /\ q.superseded = p.superseded /\ q.forgotten = p.forgotten
        /\ q.statement = p.statement /\ q.edges = p.edges /\ q.targets = p.targets
    BY <1>1, <1>3 DEF Fields
  <2>2. QED BY <1>1, <2>1 DEF Pointed
<1>4. CASE \E x \in {<<>>} \cup {<<m>> : m \in DOMAIN before.mem} :
              q = [p EXCEPT !.superseded = x]
  <2>1. PICK x \in {<<>>} \cup {<<m>> : m \in DOMAIN before.mem} :
             q = [p EXCEPT !.superseded = x]
    BY <1>4
  <2>2. /\ q.superseded = x /\ q.forgotten = p.forgotten
        /\ q.statement = p.statement /\ q.edges = p.edges /\ q.targets = p.targets
    BY <1>1, <2>1 DEF Fields
  <2>3. QED BY <1>1, <1>2, <2>2 DEF Pointed
<1>5. CASE \E x \in {<<>>} \cup {<<m>> : m \in DOMAIN before.mem} :
              q = [p EXCEPT !.forgotten = x]
  <2>1. PICK x \in {<<>>} \cup {<<m>> : m \in DOMAIN before.mem} :
             q = [p EXCEPT !.forgotten = x]
    BY <1>5
  <2>2. /\ q.superseded = p.superseded /\ q.forgotten = x
        /\ q.statement = p.statement /\ q.edges = p.edges /\ q.targets = p.targets
    BY <1>1, <2>1 DEF Fields
  <2>3. QED BY <1>1, <1>2, <2>2 DEF Pointed
<1>6. CASE \E m \in DOMAIN before.mem : q = Retargeted(p, m)
  <2>1. PICK m \in DOMAIN before.mem : q = Retargeted(p, m)
    BY <1>6
  <2>2. <<m>> \in Seq(Nat)
    OBVIOUS
  <2>3. CASE p.type = "supersede_existing"
    <3>1. /\ q.superseded = <<m>> /\ q.forgotten = p.forgotten
          /\ q.statement = p.statement /\ q.edges = {<<m, CreatedRef>>} /\ q.targets = <<m>>
      BY <1>1, <2>1, <2>3 DEF Fields, Retargeted
    <3>2. QED BY <1>1, <2>2, <3>1 DEF Pointed
  <2>4. CASE p.type # "supersede_existing"
    <3>1. /\ q.superseded = p.superseded /\ q.forgotten = <<m>>
          /\ q.statement = p.statement /\ q.edges = {}
      BY <1>1, <2>1, <2>4 DEF Fields, Retargeted
    <3>2. QED BY <1>1, <2>2, <3>1 DEF Pointed
  <2>5. QED BY <2>3, <2>4
<1>7. QED BY <1>3, <1>4, <1>5, <1>6 DEF Deviations

LEMMA ProposalsShaped ==
    ASSUME NEW t \in Contents, NEW mode, NEW before, NEW type, type # "supersede_existing",
           NEW m \in Nat
    PROVE  /\ Shaped(KeepAll(type, t, mode, before))
           /\ Shaped(AddProposal(type, t, mode, before))
           /\ Shaped(SupersedeProposal(t, mode, before, m))
           /\ Shaped(ForgetProposal(t, mode, before, m))
<1>1. <<>> \in Seq(Nat) /\ <<m>> \in Seq(Nat)
  OBVIOUS
<1>2. Shaped(KeepAll(type, t, mode, before))
  BY <1>1 DEF KeepAll, Proposal, Shaped, Pointed, Fields
<1>3. Shaped(AddProposal(type, t, mode, before))
  BY <1>1 DEF AddProposal, Proposal, Shaped, Pointed, Fields
<1>4. Shaped(SupersedeProposal(t, mode, before, m))
  <2>1. PICK p : p = SupersedeProposal(t, mode, before, m)
    OBVIOUS
  <2>2. /\ p.type = "supersede_existing" /\ p.superseded = <<m>> /\ p.forgotten = <<>>
        /\ p.statement = t /\ p.targets = <<m>> /\ DOMAIN p = Fields
    BY <2>1 DEF SupersedeProposal, Proposal, Fields
  <2>3. p.edges = {<<m, CreatedRef>>}
    BY <2>1 DEF SupersedeProposal, Proposal
  <2>4. Pointed(p)
    BY <1>1, <2>2, <2>3 DEF Pointed
  <2>5. QED BY <2>1, <2>2, <2>4 DEF Shaped
<1>5. Shaped(ForgetProposal(t, mode, before, m))
  BY <1>1 DEF ForgetProposal, Proposal, Shaped, Pointed, Fields
<1>6. QED BY <1>2, <1>3, <1>4, <1>5

-----------------------------------------------------------------------------
(* The memory a statement is in conflict with.                              *)
LEMMA BestConflict ==
    ASSUME NEW found, DOMAIN found \subseteq Nat,
           \A m \in DOMAIN found : found[m] \in Relations,
           Best(found).relation = "current_state_conflict"
    PROVE  /\ Bearers(found, {"current_state_conflict"}) = {Best(found).target}
           /\ Bearers(found, DuplicateRelations) = {}
<1> DEFINE conflicts == Bearers(found, {"current_state_conflict"})
           fleeting  == Bearers(found, NonDurableRelations)
           borne     == {k \in DOMAIN Precedence : Bearers(found, {Precedence[k]}) # {}}
<1>1. DOMAIN Precedence = 1 .. 6
  BY DEF Precedence
<1>2. fleeting = {}
  <2>1. SUFFICES ASSUME fleeting # {} PROVE FALSE
    OBVIOUS
  <2>2. Min(fleeting) \in fleeting
    <3>1. fleeting \in SUBSET Nat
      BY DEF Bearers
    <3>2. QED BY <2>1, <3>1, MinOfNaturals
  <2>3. found[Min(fleeting)] \in NonDurableRelations
    BY <2>2 DEF Bearers
  <2>4. Best(found).relation = found[Min(fleeting)]
    BY <2>1 DEF Best, Resolved
  <2>5. QED BY <2>3, <2>4 DEF NonDurableRelations, NonDurableRelation
<1>3. DOMAIN found # {}
  BY <1>2 DEF Best, Resolved
<1>4. ~ SeveralConflicts(found)
  BY <1>2, <1>3 DEF Best, Resolved
<1>5. Best(found) = Bearing(found, Strongest(found))
  BY <1>2, <1>3, <1>4 DEF Best
<1>6. Strongest(found) = "current_state_conflict"
  BY <1>5 DEF Bearing, Resolved
<1>7. borne \in SUBSET Nat /\ borne # {}
  <2>1. PICK m \in DOMAIN found : found[m] \in Relations
    BY <1>3
  <2>2. found[m] \notin NonDurableRelations
    BY <1>2 DEF Bearers
  <2>3. \E k \in 1 .. 6 : Precedence[k] = found[m]
    <3>1. found[m] \in {"exact_duplicate", "semantic_duplicate", "current_state_conflict",
                        "scoped_coexistence", "ambiguous", "unrelated"}
      BY <2>1, <2>2 DEF Relations
    <3>2. /\ Precedence[1] = "exact_duplicate" /\ Precedence[2] = "semantic_duplicate"
          /\ Precedence[3] = "current_state_conflict" /\ Precedence[4] = "scoped_coexistence"
          /\ Precedence[5] = "ambiguous" /\ Precedence[6] = "unrelated"
      BY DEF Precedence
    <3>3. 1 \in 1 .. 6 /\ 2 \in 1 .. 6 /\ 3 \in 1 .. 6 /\ 4 \in 1 .. 6 /\ 5 \in 1 .. 6 /\ 6 \in 1 .. 6
      OBVIOUS
    <3>4. PICK relation : relation = found[m]
      OBVIOUS
    <3>5. PICK order : order = Precedence
      OBVIOUS
    <3>6. relation \in {order[1], order[2], order[3], order[4], order[5], order[6]}
      BY <3>1, <3>2, <3>4, <3>5
    <3>7. \E k \in 1 .. 6 : order[k] = relation
      BY <3>3, <3>6
    <3>8. QED BY <3>4, <3>5, <3>7
  <2>4. PICK k \in 1 .. 6 : Precedence[k] = found[m]
    BY <2>3
  <2>5. m \in Bearers(found, {Precedence[k]})
    BY <2>1, <2>4 DEF Bearers
  <2>6. k \in borne
    BY <1>1, <2>4, <2>5
  <2>7. borne \subseteq 1 .. 6
    BY <1>1
  <2> HIDE DEF borne
  <2>8. QED BY <2>6, <2>7
<1>8. Min(borne) \in borne
  BY <1>7, MinOfNaturals
<1>9. conflicts # {}
  BY <1>6, <1>8 DEF Strongest
<1>10. Min(conflicts) \in conflicts
  <2>1. conflicts \in SUBSET Nat
    BY DEF Bearers
  <2>2. QED BY <1>9, <2>1, MinOfNaturals
<1>11. Best(found).target = Min(conflicts)
  BY <1>5, <1>6 DEF Bearing, Resolved, Targetable
<1>12. \A m \in conflicts : m = Min(conflicts)
  BY <1>4, <1>10 DEF SeveralConflicts
<1>13. Bearers(found, DuplicateRelations) = {}
  <2>1. PICK first, order : first = Min(borne) /\ order = Precedence
    OBVIOUS
  <2>2. first \in 1 .. 6 /\ order[first] = "current_state_conflict"
    BY <1>1, <1>6, <1>8, <2>1 DEF Strongest
  <2>3. /\ order[1] = "exact_duplicate" /\ order[2] = "semantic_duplicate"
        /\ order[3] = "current_state_conflict" /\ order[4] = "scoped_coexistence"
        /\ order[5] = "ambiguous" /\ order[6] = "unrelated"
    BY <2>1 DEF Precedence
  <2>4. first = 3
    BY <2>2, <2>3
  <2>5. 1 \notin borne /\ 2 \notin borne
    <3> HIDE DEF borne
    <3>1. \A x \in borne : first <= x
      BY <1>7, <2>1, MinOfNaturals
    <3>2. QED BY <2>4, <3>1
  <2>6. Bearers(found, {order[1]}) = {} /\ Bearers(found, {order[2]}) = {}
    BY <1>1, <2>1, <2>5
  <2>7. \A m \in DOMAIN found : found[m] # order[1] /\ found[m] # order[2]
    BY <2>6 DEF Bearers
  <2>8. QED BY <2>3, <2>7 DEF Bearers, DuplicateRelations
<1>14. QED BY <1>10, <1>11, <1>12, <1>13

ConflictsOf(t, before) ==
    {m \in ActiveIds(before) : Relation[before.mem[m].text][t] = "current_state_conflict"}

(* No active memory says it already.                                        *)
Unsaid(t, before) ==
    \A m \in ActiveIds(before) : Relation[before.mem[m].text][t] \notin DuplicateRelations

LEMMA TargetOfConflict ==
    ASSUME NEW t \in Contents, NEW before, Readable(before), ActiveIds(before) \subseteq Nat,
           TargetOf(t, before).status = "conflict_target"
    PROVE  ConflictsOf(t, before) = {TargetOf(t, before).id} /\ Unsaid(t, before)
<1>1. PICK found : found = RelationsTo(t, ActiveTexts(before))
  OBVIOUS
<1>2. Resolve(t, ActiveTexts(before)) = Best(found)
  BY <1>1 DEF Resolve
<1>3. /\ Best(found).relation = "current_state_conflict"
      /\ TargetOf(t, before).id = Best(found).target
  BY <1>2 DEF TargetOf, TargetFor, Target
<1>4. DOMAIN found = ActiveIds(before)
      /\ \A m \in ActiveIds(before) : found[m] = Relation[before.mem[m].text][t]
  BY <1>1 DEF RelationsTo, ActiveTexts
<1>5. ASSUME NEW m \in ActiveIds(before) PROVE found[m] \in Relations
  <2>1. before.mem[m].text \in Contents
    BY DEF Readable, ActiveIds
  <2>2. found[m] = Compare(Identity[before.mem[m].text], Identity[t])
    BY <1>4, <2>1 DEF Relation
  <2>3. QED BY <2>1, <2>2, IdentityTemporal, ComparisonCases
<1>6. /\ Bearers(found, {"current_state_conflict"}) = {Best(found).target}
      /\ Bearers(found, DuplicateRelations) = {}
  BY <1>3, <1>4, <1>5, BestConflict
<1>7. Unsaid(t, before)
  BY <1>4, <1>6 DEF Unsaid, Bearers
<1>8. QED BY <1>3, <1>4, <1>6, <1>7 DEF ConflictsOf, Bearers

Statuses == {"no_matching_target", "multiple_targets", "unsupported", "exact_target",
             "semantic_target", "old_value_mismatch", "conflict_target",
             "scoped_coexistence", "unrelated_only", "identity_ambiguous"}

LEMMA TargetStatuses ==
    ASSUME NEW t, NEW before
    PROVE  TargetOf(t, before).status \in Statuses
  BY DEF TargetOf, TargetFor, Target, Statuses

-----------------------------------------------------------------------------
(* The memory a request to forget names.                                    *)
LEMMA SubsetCardinality ==
    ASSUME NEW S, IsFiniteSet(S), NEW T \in SUBSET S
    PROVE  Cardinality(T) \in 0 .. Cardinality(S) /\ Cardinality(S) \in Nat
  BY FS_Subset, FS_CardinalityType

LEMMA ScoreBounded ==
    ASSUME NEW part, IsFiniteSet(part.tokens), IsFiniteSet(part.entities)
    PROVE  \E bound \in Nat : \A m : Score(part, m) \in 0 .. bound
<1> DEFINE E == Cardinality(part.entities)
           K == Cardinality(part.tokens)
<1>1. E \in Nat /\ K \in Nat
  BY FS_CardinalityType
<1>2. ASSUME NEW m PROVE Score(part, m) \in 0 .. 135 + 20 * E + 6 * K
  <2>1. PICK e : e = Cardinality(part.entities \cap Reading[m].named)
    OBVIOUS
  <2>2. PICK l : l = Cardinality(LexicalHits(part, m))
    OBVIOUS
  <2>3. e \in 0 .. E
    BY <2>1, SubsetCardinality
  <2>4. l \in 0 .. K
    <3>1. LexicalHits(part, m) \in SUBSET part.tokens
      BY DEF LexicalHits
    <3>2. QED BY <2>2, <3>1, SubsetCardinality
  <2>5. PICK a, b, c, d, f, g :
           /\ a = Weight("exact", part.tokens = Reading[m].tokens)
           /\ b = Weight("attribute", AttributeHit(part, Identity[m]))
           /\ c = Weight("value", AnyMatch(part.tokens, WordsOf(Identity[m].value)))
           /\ d = Weight("scope", AnyMatch(part.tokens, WordsOf(Identity[m].scope)))
           /\ f = Weight("kind", part.kind = Identity[m].kind)
           /\ g = Weight("coverage", part.tokens # {} /\ LexicalHits(part, m) = part.tokens)
    OBVIOUS
  <2>6. /\ a \in {0, 50} /\ b \in {0, 20} /\ c \in {0, 15} /\ d \in {0, 10}
        /\ f \in {0, 5} /\ g \in {0, 15}
    BY <2>5 DEF Weight, ForgetWeight
  <2>7. Score(part, m) = a + b + c + d + 20 * e + f + 6 * l + g
    BY <2>1, <2>2, <2>5 DEF Score, ForgetWeight
  <2>8. QED BY <1>1, <2>3, <2>4, <2>6, <2>7
<1>3. 135 + 20 * E + 6 * K \in Nat
  BY <1>1
<1>4. QED BY <1>2, <1>3

Rated(score, S) == \E bound \in Nat : \A m \in S : score[m] \in 0 .. bound

LEMMA TopExists ==
    ASSUME NEW S, S # {}, NEW score, Rated(score, S)
    PROVE  \E m \in S : \A n \in S : score[n] <= score[m]
<1>1. PICK bound \in Nat : \A m \in S : score[m] \in 0 .. bound
  BY DEF Rated
<1> DEFINE gaps == {bound - score[m] : m \in S}
<1>2. gaps \in SUBSET Nat /\ gaps # {}
  BY <1>1
<1>3. Min(gaps) \in gaps /\ \A x \in gaps : Min(gaps) <= x
  BY <1>2, MinOfNaturals
<1>4. PICK m \in S : Min(gaps) = bound - score[m]
  BY <1>3
<1>5. ASSUME NEW n \in S PROVE score[n] <= score[m]
  <2>1. bound - score[m] <= bound - score[n]
    BY <1>3, <1>4
  <2>2. score[m] \in 0 .. bound /\ score[n] \in 0 .. bound
    BY <1>1
  <2>3. QED BY <2>1, <2>2
<1>6. QED BY <1>5

(* What resolves, resolves to the one best candidate by the margin.         *)
LEMMA BestByMargin ==
    ASSUME NEW before, NEW positive, NEW score, Rated(score, positive),
           NEW found, found = BestOf(before, score, positive)
    PROVE  \/ found.outcome # "resolved" /\ found.targets = {}
           \/ \E x \in positive :
                 /\ found.outcome = "resolved" /\ found.targets = {x}
                 /\ score[x] >= MinScore
                 /\ \A m \in positive \ {x} : score[x] - score[m] >= MinMargin
<1>1. CASE positive = {}
  BY <1>1 DEF BestOf, Found
<1>2. CASE positive # {}
  <2> DEFINE top == CHOOSE m \in positive : \A n \in positive : score[n] <= score[m]
  <2>1. top \in positive
    BY <1>2, TopExists
  <2> HIDE DEF top
  <2>2. found = IF score[top] < MinScore THEN Found("below_threshold", {})
                ELSE IF \E m \in positive \ {top} : score[top] - score[m] < MinMargin
                     THEN Found("ambiguous", {})
                ELSE Found("resolved", {top})
    BY <1>2 DEF BestOf, top
  <2>3. \A m \in positive : score[m] \in Int
    BY DEF Rated
  <2>4. QED BY <2>1, <2>2, <2>3 DEF Found, MinScore, MinMargin
<1>3. QED BY <1>1, <1>2

LEMMA BestIsOne ==
    ASSUME NEW before, NEW positive, NEW score, Rated(score, positive)
    PROVE  \/ /\ BestOf(before, score, positive).outcome # "resolved"
              /\ BestOf(before, score, positive).targets = {}
           \/ \E x \in positive : BestOf(before, score, positive).targets = {x}
<1>1. PICK found : found = BestOf(before, score, positive)
  OBVIOUS
<1>2. QED BY <1>1, BestByMargin

LEMMA BestIsIndependent ==
    ASSUME NEW before, NEW positive, NEW score, Rated(score, positive), NEW taken, NEW x,
           BestOf(before, score, positive).targets = {x}, x \notin taken
    PROVE  BestOf(before, score, positive \ taken).targets = {x}
<1>1. PICK alone : alone = BestOf(before, score, positive)
  OBVIOUS
<1>2. PICK left : left = positive \ taken
  OBVIOUS
<1>3. /\ x \in positive /\ score[x] >= MinScore
      /\ \A m \in positive \ {x} : score[x] - score[m] >= MinMargin
  BY <1>1, BestByMargin
<1>4. x \in left /\ left \subseteq positive /\ Rated(score, left)
  BY <1>2, <1>3 DEF Rated
<1> DEFINE top == CHOOSE m \in left : \A n \in left : score[n] <= score[m]
<1>5. top \in left /\ \A n \in left : score[n] <= score[top]
  <2>1. \E m \in left : \A n \in left : score[n] <= score[m]
    BY <1>4, TopExists
  <2>2. QED BY <2>1
<1> HIDE DEF top
<1>6. top = x
  <2>1. score[x] <= score[top] /\ score[x] \in Int /\ score[top] \in Int
    BY <1>4, <1>5 DEF Rated
  <2>2. QED BY <1>3, <1>4, <1>5, <2>1 DEF MinMargin
<1>7. BestOf(before, score, left) =
        IF score[top] < MinScore THEN Found("below_threshold", {})
        ELSE IF \E m \in left \ {top} : score[top] - score[m] < MinMargin
             THEN Found("ambiguous", {})
        ELSE Found("resolved", {top})
  BY <1>4 DEF BestOf, top
<1>8. ~ (score[top] < MinScore)
  BY <1>3, <1>4, <1>6 DEF MinScore, Rated
<1>9. ~ \E m \in left \ {top} : score[top] - score[m] < MinMargin
  BY <1>3, <1>4, <1>6 DEF MinMargin, Rated
<1>10. BestOf(before, score, left).targets = {x}
  BY <1>6, <1>7, <1>8, <1>9 DEF Found
<1>11. QED BY <1>2, <1>10

PartsRead(t) == DOMAIN Reading[t].parts \cap 1 .. 3
Alone(t, k, before) == ResolvePart(t, k, before, {}).targets

LEMMA PartResolution ==
    ASSUME NEW t \in Contents, NEW before, Readable(before), NEW taken,
           NEW k \in DOMAIN Reading[t].parts
    PROVE  /\ ResolvePart(t, k, before, taken).targets # {}
                => \E x \in ActiveIds(before) \ taken :
                      ResolvePart(t, k, before, taken).targets = {x}
           /\ \A x : Alone(t, k, before) = {x} /\ x \notin taken
                       => ResolvePart(t, k, before, taken).targets = {x}
           /\ ResolvePart(t, k, before, taken).outcome = "resolved"
                => ResolvePart(t, k, before, taken).targets # {}
<1> DEFINE part == Reading[t].parts[k]
<1>1. PICK bound \in Nat : \A m : Score(part, m) \in 0 .. bound
  BY PartsAssumption, ScoreBounded
<1>2. PICK score : score = [m \in DOMAIN before.mem |-> ScoreOf[t][k][before.mem[m].text]]
  OBVIOUS
<1>3. ASSUME NEW m \in ActiveIds(before) PROVE score[m] \in 0 .. bound
  <2>1. m \in DOMAIN before.mem /\ before.mem[m].text \in Contents
    BY DEF ActiveIds, Readable
  <2>2. score[m] = Score(part, before.mem[m].text)
    BY <1>2, <2>1 DEF ScoreOf
  <2>3. QED BY <1>1, <2>2
<1>4. PICK all : all = {m \in ActiveIds(before) : score[m] > 0}
  OBVIOUS
<1>5. ASSUME NEW old
      PROVE  ResolvePart(t, k, before, old) = BestOf(before, score, all \ old)
  <2>1. {m \in ActiveIds(before) \ old : score[m] > 0} = all \ old
    BY <1>4
  <2>2. QED BY <1>2, <2>1 DEF ResolvePart, Scored
<1>6. \A m \in all : m \in ActiveIds(before) /\ score[m] \in 0 .. bound
  BY <1>3, <1>4
<1>7. Alone(t, k, before) = BestOf(before, score, all).targets
  <2>1. all \ {} = all
    OBVIOUS
  <2>2. QED BY <1>5, <2>1 DEF Alone
<1>8. PICK left, found : left = all \ taken /\ found = BestOf(before, score, left)
  OBVIOUS
<1>9. \/ found.outcome # "resolved" /\ found.targets = {}
      \/ \E x \in left : found.targets = {x}
  <2>1. Rated(score, left)
    BY <1>1, <1>6, <1>8 DEF Rated
  <2>2. \/ /\ BestOf(before, score, left).outcome # "resolved"
           /\ BestOf(before, score, left).targets = {}
        \/ \E x \in left : BestOf(before, score, left).targets = {x}
    BY <2>1, BestIsOne
  <2>3. QED BY <1>8, <2>2
<1>10. ASSUME NEW x, Alone(t, k, before) = {x}, x \notin taken
       PROVE  found.targets = {x}
  <2>1. Rated(score, all)
    BY <1>1, <1>6 DEF Rated
  <2>2. BestOf(before, score, all).targets = {x}
    BY <1>7, <1>10
  <2>3. BestOf(before, score, all \ taken).targets = {x}
    BY <1>10, <2>1, <2>2, BestIsIndependent
  <2>4. QED BY <1>8, <2>3
<1>11. ResolvePart(t, k, before, taken) = found
  BY <1>5, <1>8
<1>12. left \subseteq ActiveIds(before) \ taken
  BY <1>6, <1>8
<1>13. QED BY <1>9, <1>10, <1>11, <1>12

LEMMA ForgetIsUnique ==
    ASSUME NEW t \in Contents, NEW before, Readable(before), NEW m,
           ResolveParts(t, before).outcome = "resolved",
           ResolveParts(t, before).targets = {m}
    PROVE  /\ m \in ActiveIds(before)
           /\ UNION {Alone(t, k, before) : k \in PartsRead(t)} = {m}
<1>1. PICK n \in Nat : n = Len(Reading[t].parts) /\ DOMAIN Reading[t].parts = 1 .. n
  BY PartsAssumption
<1>2. CASE n = 1
  <2>1. ResolveParts(t, before) = ResolvePart(t, 1, before, {})
    BY <1>1, <1>2 DEF ResolveParts
  <2>2. 1 \in DOMAIN Reading[t].parts /\ PartsRead(t) = {1}
    BY <1>1, <1>2 DEF PartsRead
  <2>3. Alone(t, 1, before) = {m}
    BY <2>1 DEF Alone
  <2>4. m \in ActiveIds(before)
    BY <2>2, <2>3, PartResolution DEF Alone
  <2>5. QED BY <2>2, <2>3, <2>4
<1>3. CASE n # 1
  <2>1. PICK t1, t2, t3 : /\ t1 = Taking(t, 1, before, {})
                          /\ t2 = Taking(t, 2, before, t1)
                          /\ t3 = Taking(t, 3, before, t2)
    OBVIOUS
  <2>2. t3 = {m}
    BY <1>1, <1>3, <2>1 DEF ResolveParts, Found
  <2>3. \A k \in {1, 2, 3} : k \in PartsRead(t) <=> k <= n
    BY <1>1 DEF PartsRead
  <2>4. PartsRead(t) \subseteq {1, 2, 3} /\ PartsRead(t) \subseteq DOMAIN Reading[t].parts
    BY DEF PartsRead
  <2>5. ASSUME NEW k \in {1, 2, 3}, NEW taken
        PROVE  Taking(t, k, before, taken) =
                 IF k \in PartsRead(t) THEN taken \cup ResolvePart(t, k, before, taken).targets
                 ELSE taken
    BY <1>1, <2>3 DEF Taking
  <2>6. t1 \subseteq t2 /\ t2 \subseteq t3
    BY <2>1, <2>5
  <2>7. ASSUME NEW k \in PartsRead(t), NEW taken, NEW x \in Alone(t, k, before)
        PROVE  x \in taken \cup ResolvePart(t, k, before, taken).targets
    <3>1. Alone(t, k, before) = {x}
      BY <2>4, <2>7, PartResolution DEF Alone
    <3>2. QED BY <2>4, <3>1, PartResolution
  <2>8. ASSUME NEW k \in PartsRead(t), NEW x \in Alone(t, k, before)
        PROVE  x = m
    <3>1. \A taken : x \in taken \cup ResolvePart(t, k, before, taken).targets
      BY <2>7
    <3>2. k \in {1, 2, 3}
      BY <2>4
    <3>3. CASE k = 1
      BY <2>1, <2>2, <2>5, <2>6, <3>1, <3>3
    <3>4. CASE k = 2
      BY <2>1, <2>2, <2>5, <2>6, <3>1, <3>4
    <3>5. CASE k = 3
      BY <2>1, <2>2, <2>5, <2>6, <3>1, <3>5
    <3>6. QED BY <3>2, <3>3, <3>4, <3>5
  <2>9. \E k \in PartsRead(t) : m \in Alone(t, k, before)
    <3>1. ASSUME NEW k \in {1, 2, 3}, NEW taken, taken \subseteq {m}, m \notin taken,
                 m \in Taking(t, k, before, taken)
          PROVE  k \in PartsRead(t) /\ m \in Alone(t, k, before)
      <4>1. taken = {}
        BY <3>1
      <4>2. QED BY <2>5, <3>1, <4>1 DEF Alone
    <3>2. CASE m \in t1
      BY <2>1, <3>1, <3>2
    <3>3. CASE m \notin t1 /\ m \in t2
      BY <2>1, <2>2, <2>6, <3>1, <3>3
    <3>4. CASE m \notin t2
      BY <2>1, <2>2, <2>6, <3>1, <3>4
    <3>5. QED BY <3>2, <3>3, <3>4
  <2>10. PICK k \in PartsRead(t) : m \in Alone(t, k, before)
    BY <2>9
  <2>11. m \in ActiveIds(before)
    BY <2>4, <2>10, PartResolution DEF Alone
  <2>12. QED BY <2>8, <2>10, <2>11
<1>4. QED BY <1>2, <1>3

-----------------------------------------------------------------------------
(* The transitions a controller can propose for a statement.                *)
Grounded == "grounded_valid"

Proposable(t, before, p) ==
    \/ \E type \in NonMutatingTypes : p = KeepAll(type, t, Grounded, before)
    \/ \E type \in {"create_new", "scoped_coexistence"} :
          p = AddProposal(type, t, Grounded, before)
    \/ \E m \in ActiveIds(before) :
          /\ ConflictsOf(t, before) = {m} /\ Unsaid(t, before)
          /\ p = SupersedeProposal(t, Grounded, before, m)
    \/ \E m \in ActiveIds(before) :
          /\ UNION {Alone(t, k, before) : k \in PartsRead(t)} = {m}
          /\ p = ForgetProposal(t, Grounded, before, m)

Sound(found, t, before) ==
    found.proposal # None =>
        /\ Proposable(t, before, found.proposal)
        /\ found.result = Verify(found.proposal, before)

LEMMA ProposeSound ==
    ASSUME NEW t, NEW before, NEW intent, NEW p, Proposable(t, before, p)
    PROVE  Sound(Propose(intent, p, before), t, before)
  BY DEF Propose, Sound

LEMMA AbstainSound ==
    ASSUME NEW t, NEW before, NEW intent, NEW reason
    PROVE  Sound(Abstain(intent, reason), t, before)
  BY DEF Abstain, Sound

LEMMA KeepAllProposable ==
    ASSUME NEW t, NEW before, NEW type \in NonMutatingTypes
    PROVE  Proposable(t, before, KeepAll(type, t, Grounded, before))
  BY DEF Proposable

LEMMA UpdateForProposable ==
    ASSUME NEW t \in Contents, NEW before, Readable(before), ActiveIds(before) \subseteq Nat,
           NEW p, p = UpdateFor(TargetOf(t, before), t, Grounded, before), p # None
    PROVE  Proposable(t, before, p)
<1>1. PICK target : target = TargetOf(t, before)
  OBVIOUS
<1>2. target.status \in Statuses
  BY <1>1, TargetStatuses
<1>3. CASE target.status = "conflict_target"
  <2>1. p = SupersedeProposal(t, Grounded, before, target.id)
    BY <1>1, <1>3 DEF UpdateFor
  <2>2. ConflictsOf(t, before) = {target.id} /\ Unsaid(t, before)
    BY <1>1, <1>3, TargetOfConflict
  <2>3. target.id \in ActiveIds(before)
    BY <2>2 DEF ConflictsOf
  <2>4. QED BY <2>1, <2>2, <2>3 DEF Proposable
<1>4. CASE target.status \in {"scoped_coexistence", "unrelated_only", "no_matching_target"}
  <2>1. \/ p = AddProposal("scoped_coexistence", t, Grounded, before)
        \/ p = AddProposal("create_new", t, Grounded, before)
    BY <1>1, <1>4 DEF UpdateFor
  <2>2. QED BY <2>1 DEF Proposable
<1>5. CASE target.status \in {"exact_target", "semantic_target", "multiple_targets",
                             "identity_ambiguous", "old_value_mismatch", "unsupported"}
  <2>1. \E type \in {"duplicate_noop", "semantic_duplicate_noop", "reject_ambiguous",
                     "reject_unsupported"} : p = KeepAll(type, t, Grounded, before)
    BY <1>1, <1>5 DEF UpdateFor
  <2>2. QED BY <2>1, KeepAllProposable DEF NonMutatingTypes, NoopTypes, RejectionTypes
<1>6. QED BY <1>2, <1>3, <1>4, <1>5 DEF Statuses

LEMMA UpdateSound ==
    ASSUME NEW t \in Contents, NEW before, Readable(before), ActiveIds(before) \subseteq Nat
    PROVE  Sound(ProposeUpdate(t, Grounded, before), t, before)
<1>1. PICK intent : intent = IntentOf[t]
  OBVIOUS
<1>2. PICK p : p = IF intent \in DOMAIN IntentRejection
                   THEN KeepAll(IntentRejection[intent], t, Grounded, before)
                   ELSE UpdateFor(TargetOf(t, before), t, Grounded, before)
  OBVIOUS
<1>3. p # None => Proposable(t, before, p)
  <2>1. CASE intent \in DOMAIN IntentRejection
    <3>1. IntentRejection[intent] \in NonMutatingTypes
      BY <2>1 DEF IntentRejection, NonMutatingTypes, RejectionTypes
    <3>2. QED BY <1>2, <2>1, <3>1, KeepAllProposable
  <2>2. CASE intent \notin DOMAIN IntentRejection
    BY <1>2, <2>2, UpdateForProposable
  <2>3. QED BY <2>1, <2>2
<1>4. Sound(Proposing(intent, p, before), t, before)
  BY <1>3, ProposeSound, AbstainSound DEF Proposing
<1>5. \/ ProposeUpdate(t, Grounded, before) = Proposing(intent, p, before)
      \/ \E reason : ProposeUpdate(t, Grounded, before) = Abstain(intent, reason)
      \/ \E reason : ProposeUpdate(t, Grounded, before) = Abstain("unsupported", reason)
  BY <1>1, <1>2 DEF ProposeUpdate, UpdateOn
<1>6. QED BY <1>4, <1>5, AbstainSound

LEMMA ForgetBuilt ==
    ASSUME NEW t \in Contents, NEW before, Readable(before), NEW target,
           target = ForgetTarget(t, before, ResolveParts(t, before))
    PROVE  Proposable(t, before, BuildForget(target, t, Grounded, before))
<1>1. PICK found : found = ResolveParts(t, before)
  OBVIOUS
<1>2. CASE target.status = "resolved"
  <2>1. PICK m : m = target.id
    OBVIOUS
  <2>2. found.outcome = "resolved" /\ found.targets = {m}
    BY <1>1, <1>2, <2>1 DEF ForgetTarget, Target
  <2>3. m \in ActiveIds(before) /\ UNION {Alone(t, k, before) : k \in PartsRead(t)} = {m}
    BY <1>1, <2>2, ForgetIsUnique
  <2>4. BuildForget(target, t, Grounded, before) = ForgetProposal(t, Grounded, before, m)
    BY <1>2, <2>1 DEF BuildForget
  <2>5. QED BY <2>3, <2>4 DEF Proposable
<1>3. CASE target.status # "resolved"
  <2>1. \E type \in {"reject_ambiguous", "reject_unsupported"} :
            BuildForget(target, t, Grounded, before) = KeepAll(type, t, Grounded, before)
    BY <1>3 DEF BuildForget
  <2>2. QED BY <2>1, KeepAllProposable DEF NonMutatingTypes, RejectionTypes
<1>4. QED BY <1>2, <1>3

LEMMA ForgetSound ==
    ASSUME NEW t \in Contents, NEW before, Readable(before)
    PROVE  Sound(ProposeForget(t, Grounded, before), t, before)
<1>1. PICK kind : kind = DirectiveOf[t]
  OBVIOUS
<1>2. Sound(NegativeForget(t, Grounded, before), t, before)
  <2>1. \A type \in NoopTypes : Proposable(t, before, KeepAll(type, t, Grounded, before))
    BY KeepAllProposable DEF NonMutatingTypes
  <2>2. Proposable(t, before, KeepAll("duplicate_noop", t, Grounded, before))
        /\ Proposable(t, before, KeepAll("semantic_duplicate_noop", t, Grounded, before))
    BY <2>1 DEF NoopTypes
  <2>3. \/ \E intent, reason : NegativeForget(t, Grounded, before) = Abstain(intent, reason)
        \/ \E intent : NegativeForget(t, Grounded, before) =
             Propose(intent, KeepAll("duplicate_noop", t, Grounded, before), before)
        \/ \E intent : NegativeForget(t, Grounded, before) =
             Propose(intent, KeepAll("semantic_duplicate_noop", t, Grounded, before), before)
    BY DEF NegativeForget
  <2>4. QED BY <2>2, <2>3, ProposeSound, AbstainSound
<1>3. PICK target : target = ForgetTarget(t, before, ResolveParts(t, before))
  OBVIOUS
<1>4. PICK p : p = IF kind \in DOMAIN DirectiveRejection
                   THEN KeepAll(DirectiveRejection[kind], t, Grounded, before)
                   ELSE BuildForget(target, t, Grounded, before)
  OBVIOUS
<1>5. Proposable(t, before, p)
  <2>1. CASE kind \in DOMAIN DirectiveRejection
    <3>1. DirectiveRejection[kind] \in NonMutatingTypes
      BY <2>1 DEF DirectiveRejection, NonMutatingTypes, RejectionTypes
    <3>2. QED BY <1>4, <2>1, <3>1, KeepAllProposable
  <2>2. CASE kind \notin DOMAIN DirectiveRejection
    BY <1>3, <1>4, <2>2, ForgetBuilt
  <2>3. QED BY <2>1, <2>2
<1>6. \/ \E intent, reason : ProposeForget(t, Grounded, before) = Abstain(intent, reason)
      \/ ProposeForget(t, Grounded, before) = NegativeForget(t, Grounded, before)
      \/ ProposeForget(t, Grounded, before) = Propose(kind, p, before)
  BY <1>1, <1>3, <1>4 DEF ProposeForget, ForgetOn
<1>7. QED BY <1>2, <1>5, <1>6, ProposeSound, AbstainSound

LEMMA RouteSound ==
    ASSUME NEW t \in Contents, NEW before, Readable(before), ActiveIds(before) \subseteq Nat
    PROVE  Sound(Route(t, Grounded, before), t, before)
<1>1. PICK update, forget : /\ update = ProposeUpdate(t, Grounded, before)
                            /\ forget = ProposeForget(t, Grounded, before)
  OBVIOUS
<1>2. Sound(update, t, before) /\ Sound(forget, t, before)
  BY <1>1, UpdateSound, ForgetSound
<1>3. \E found \in {update, forget} :
          /\ Route(t, Grounded, before).proposal = found.proposal
          /\ Route(t, Grounded, before).result = found.result
  BY <1>1 DEF Route, Handed, Routed
<1>4. QED BY <1>2, <1>3 DEF Sound

LEMMA ProposableShaped ==
    ASSUME NEW t \in Contents, NEW before, NEW p, Proposable(t, before, p),
           ActiveIds(before) \subseteq Nat
    PROVE  Shaped(p)
<1>1. "supersede_existing" \notin NonMutatingTypes
  BY DEF NonMutatingTypes, NoopTypes, RejectionTypes
<1>2. 0 \in Nat
  OBVIOUS
<1>3. CASE \E type \in NonMutatingTypes : p = KeepAll(type, t, Grounded, before)
  BY <1>1, <1>2, <1>3, ProposalsShaped
<1>4. CASE \E type \in {"create_new", "scoped_coexistence"} :
              p = AddProposal(type, t, Grounded, before)
  <2>1. PICK type : type # "supersede_existing" /\ p = AddProposal(type, t, Grounded, before)
    BY <1>4
  <2>2. QED BY <1>2, <2>1, ProposalsShaped
<1>5. CASE \E m \in ActiveIds(before) : p = SupersedeProposal(t, Grounded, before, m)
  <2>1. PICK m \in Nat : p = SupersedeProposal(t, Grounded, before, m)
    BY <1>5
  <2>2. PICK type : type # "supersede_existing"
    OBVIOUS
  <2>3. /\ Shaped(KeepAll(type, t, Grounded, before))
        /\ Shaped(AddProposal(type, t, Grounded, before))
        /\ Shaped(SupersedeProposal(t, Grounded, before, m))
        /\ Shaped(ForgetProposal(t, Grounded, before, m))
    BY <2>2, ProposalsShaped
  <2>4. QED BY <2>1, <2>3
<1>6. CASE \E m \in ActiveIds(before) : p = ForgetProposal(t, Grounded, before, m)
  <2>1. PICK m \in Nat : p = ForgetProposal(t, Grounded, before, m)
    BY <1>6
  <2>2. PICK type : type # "supersede_existing"
    OBVIOUS
  <2>3. /\ Shaped(KeepAll(type, t, Grounded, before))
        /\ Shaped(AddProposal(type, t, Grounded, before))
        /\ Shaped(SupersedeProposal(t, Grounded, before, m))
        /\ Shaped(ForgetProposal(t, Grounded, before, m))
    BY <2>2, ProposalsShaped
  <2>4. QED BY <2>1, <2>3
<1>7. QED BY <1>3, <1>4, <1>5, <1>6 DEF Proposable

-----------------------------------------------------------------------------
(* What an interaction decides.                                             *)
BoundTo(t, before, d) ==
    LET tr == Translate(d.proposal, d.result, before)
    IN  /\ d.acts = tr.acts
        /\ d.receipt = BindingOf(history, t, Grounded, before, d.proposal, d.result, tr)

LEMMA ConcludedCases ==
    ASSUME NEW found, NEW effect, NEW tr, NEW binding,
           NEW d, d = Concluded(found, effect, tr, binding)
    PROVE  /\ d.proposal = found.proposal /\ d.result = found.result
           /\ d.acts # <<>> => d.acts = tr.acts /\ d.receipt = binding
  BY DEF Concluded, Decision

LEMMA EvaluateCases ==
    ASSUME NEW t \in Contents, NEW pl, NEW before, Readable(before),
           ActiveIds(before) \subseteq Nat, NEW d, d = Evaluate(t, pl, before)
    PROVE  \/ d.proposal = None /\ d.acts = <<>>
           \/ /\ Seam!InferredType(pl) # None /\ d.acts = <<>>
              /\ d.proposal = ExistingProposal(t, pl, before)
           \/ /\ Proposable(t, before, d.proposal)
              /\ d.result = Verify(d.proposal, before)
              /\ d.acts # <<>> => BoundTo(t, before, d)
<1>1. CASE config.mode = "disabled"
  BY <1>1 DEF Evaluate, Decision
<1>2. CASE config.mode # "disabled" /\ config.mode = "verify_only"
  <2>1. d = VerifyOnly(t, pl, before)
    BY <1>2 DEF Evaluate
  <2>2. QED BY <2>1 DEF VerifyOnly, Decision
<1>3. CASE config.mode # "disabled" /\ config.mode # "verify_only"
  <2>1. PICK found : found = Route(t, Grounded, before)
    OBVIOUS
  <2>2. d = Proposed(t, found, pl, before)
    BY <1>3, <2>1 DEF Evaluate, Grounded
  <2>3. Sound(found, t, before)
    BY <2>1, RouteSound
  <2>4. CASE found.proposal = None
    BY <2>2, <2>4 DEF Proposed, Decision
  <2>5. CASE found.proposal # None
    <3>1. PICK tr : tr = Translate(found.proposal, found.result, before)
      OBVIOUS
    <3>2. PICK binding : binding = BindingOf(history, t, Grounded, before,
                                             found.proposal, found.result, tr)
      OBVIOUS
    <3>3. PICK effect : d = Concluded(found, effect, tr, binding)
      BY <2>2, <2>5, <3>1, <3>2 DEF Proposed, Judged, Authorized, Grounded
    <3>4. /\ d.proposal = found.proposal /\ d.result = found.result
          /\ d.acts # <<>> => d.acts = tr.acts /\ d.receipt = binding
      BY <3>3, ConcludedCases
    <3>5. d.acts # <<>> => BoundTo(t, before, d)
      BY <3>1, <3>2, <3>4 DEF BoundTo
    <3>6. QED BY <2>3, <2>5, <3>4, <3>5 DEF Sound
  <2>6. QED BY <2>4, <2>5
<1>4. QED BY <1>1, <1>2, <1>3

(* The actions of a proposal that has effect: what it creates is the        *)
(* statement, what it retires is what it names.                             *)
Pair(m, t) == <<Supersede(m), Create(t, m)>>

Enacts(t, before, p, kind, s) ==
    \/ /\ s = <<Create(t, None)>> /\ kind = "create"
       /\ Deactivated(p) = {} /\ {p.created[k].text : k \in DOMAIN p.created} = {t}
    \/ \E m \in ActiveIds(before) :
          /\ s = Pair(m, t) /\ kind = "supersede"
          /\ ConflictsOf(t, before) = {m}
          /\ Deactivated(p) = {m} /\ {p.created[k].text : k \in DOMAIN p.created} = {t}
    \/ \E m \in ActiveIds(before) :
          /\ s = <<Forget(m)>> /\ kind = "forget"
          /\ UNION {Alone(t, k, before) : k \in PartsRead(t)} = {m}
          /\ Deactivated(p) = {m} /\ {p.created[k].text : k \in DOMAIN p.created} = {}

LEMMA KeepAllFields ==
    ASSUME NEW type, NEW t, NEW before
    PROVE  KeepAll(type, t, Grounded, before).type = type
  BY DEF KeepAll, Proposal

LEMMA AddFields ==
    ASSUME NEW type, NEW t, NEW before, NEW p, p = AddProposal(type, t, Grounded, before)
    PROVE  /\ p.type = type /\ p.superseded = <<>> /\ p.forgotten = <<>>
           /\ p.created = <<NewMemory(t, None)>>
  BY DEF AddProposal, Proposal

LEMMA SupersedeFields ==
    ASSUME NEW t, NEW before, NEW m, NEW p, p = SupersedeProposal(t, Grounded, before, m)
    PROVE  /\ p.type = "supersede_existing" /\ p.superseded = <<m>> /\ p.forgotten = <<>>
           /\ p.created = <<NewMemory(t, m)>>
  BY DEF SupersedeProposal, Proposal

LEMMA ForgetFields ==
    ASSUME NEW t, NEW before, NEW m, NEW p, p = ForgetProposal(t, Grounded, before, m)
    PROVE  /\ p.type = "forget_existing" /\ p.superseded = <<>> /\ p.forgotten = <<m>>
           /\ p.created = <<>>
  BY DEF ForgetProposal, Proposal

LEMMA NewMemoryText ==
    ASSUME NEW t, NEW m
    PROVE  NewMemory(t, m).text = t
  BY DEF NewMemory, CreatedSpec

LEMMA SingleElements ==
    ASSUME NEW x
    PROVE  Elements(<<x>>) = {x} /\ Elements(<<>>) = {} /\ DOMAIN <<x>> = {1} /\ DOMAIN <<>> = {}
  BY DEF Elements

LEMMA EffectEnacts ==
    ASSUME NEW t \in Contents, NEW before, NEW p, Proposable(t, before, p),
           NEW r, r = Verify(p, before), NEW tr, tr = Translate(p, r, before), tr.acts # <<>>
    PROVE  Enacts(t, before, p, tr.kind, tr.acts)
<1>1. /\ p.type \notin NonMutatingTypes
      /\ Accepted(r)
  BY TranslationCases DEF Translate, Translation, Untranslated
<1>2. r.specs = SpecActions(p)
  <2>1. PICK rel : rel = SourceRelations(p, before)
    OBVIOUS
  <2>2. QED BY <1>1, <2>1, AcceptedPasses
<1>3. /\ r.specs.create = p.created /\ r.specs.supersede = p.superseded
      /\ r.specs.forget = p.forgotten
  BY <1>2 DEF SpecActions
<1>4. ~ \E type \in NonMutatingTypes : p = KeepAll(type, t, Grounded, before)
  BY <1>1, KeepAllFields
<1>5. CASE \E type \in {"create_new", "scoped_coexistence"} :
              p = AddProposal(type, t, Grounded, before)
  <2>1. PICK type \in {"create_new", "scoped_coexistence"} :
             p = AddProposal(type, t, Grounded, before)
    BY <1>5
  <2>2. PICK spec : spec = NewMemory(t, None)
    OBVIOUS
  <2>3. /\ p.type = type /\ p.superseded = <<>> /\ p.forgotten = <<>>
        /\ p.created = <<spec>> /\ spec.text = t
    BY <2>1, <2>2, AddFields, NewMemoryText
  <2>4. tr.acts = <<Create(t, None)>> /\ tr.kind = "create"
    BY <1>1, <1>3, <2>1, <2>3 DEF Translate, Translation
  <2>5. Deactivated(p) = {}
    BY <2>3, SingleElements DEF Deactivated
  <2>6. {p.created[k].text : k \in DOMAIN p.created} = {t}
    BY <2>3
  <2>7. QED BY <2>4, <2>5, <2>6 DEF Enacts
<1>6. CASE \E m \in ActiveIds(before) :
              ConflictsOf(t, before) = {m} /\ p = SupersedeProposal(t, Grounded, before, m)
  <2>1. PICK m \in ActiveIds(before) :
             ConflictsOf(t, before) = {m} /\ p = SupersedeProposal(t, Grounded, before, m)
    BY <1>6
  <2>2. PICK spec : spec = NewMemory(t, m)
    OBVIOUS
  <2>3. /\ p.type = "supersede_existing" /\ p.superseded = <<m>> /\ p.forgotten = <<>>
        /\ p.created = <<spec>> /\ spec.text = t
    BY <2>1, <2>2, SupersedeFields, NewMemoryText
  <2>4. tr.acts = Pair(m, t) /\ tr.kind = "supersede"
    BY <1>1, <1>3, <2>1, <2>3 DEF Translate, Translation, Pair
  <2>5. Deactivated(p) = {m}
    BY <2>3, SingleElements DEF Deactivated
  <2>6. {p.created[k].text : k \in DOMAIN p.created} = {t}
    BY <2>3
  <2>7. QED BY <2>1, <2>4, <2>5, <2>6 DEF Enacts
<1>7. CASE \E m \in ActiveIds(before) :
              /\ UNION {Alone(t, k, before) : k \in PartsRead(t)} = {m}
              /\ p = ForgetProposal(t, Grounded, before, m)
  <2>1. PICK m \in ActiveIds(before) :
              /\ UNION {Alone(t, k, before) : k \in PartsRead(t)} = {m}
              /\ p = ForgetProposal(t, Grounded, before, m)
    BY <1>7
  <2>2. /\ p.type = "forget_existing" /\ p.superseded = <<>> /\ p.forgotten = <<m>>
        /\ p.created = <<>>
    BY <2>1, ForgetFields
  <2>3. tr.acts = <<Forget(m)>> /\ tr.kind = "forget"
    BY <1>1, <1>3, <2>1, <2>2 DEF Translate, Translation
  <2>4. Deactivated(p) = {m}
    BY <2>2, SingleElements DEF Deactivated
  <2>5. {p.created[k].text : k \in DOMAIN p.created} = {}
    BY <2>2
  <2>6. QED BY <2>1, <2>3, <2>4, <2>5 DEF Enacts
<1>8. QED BY <1>4, <1>5, <1>6, <1>7 DEF Proposable

-----------------------------------------------------------------------------
(* Plans, by what they perform.                                             *)
Acts ==
    [action : {"create"}, memory_id : {None}, content : Contents, replaces : Nat \cup {None}]
      \cup
    [action : RetireActions, memory_id : Nat, content : {None}, replaces : {None}]

PlanOK(pl) == pl.acts \in Seq(Acts) /\ pl.ok \subseteq DOMAIN pl.acts

Performed(pl) == {pl.acts[k] : k \in pl.ok}
Lost(pl)      == {a.memory_id : a \in {x \in Performed(pl) : Retires(x)}}
Written(pl)   == {a.content : a \in {x \in Performed(pl) : IsCreate(x)}}

LEMMA RetirementsTyped ==
    ASSUME NEW m \in Nat
    PROVE  Supersede(m) \in Acts /\ Forget(m) \in Acts
  BY DEF Supersede, Forget, Acts, RetireActions

LEMMA ActionsTyped ==
    ASSUME NEW c \in Contents, NEW m \in Nat
    PROVE  /\ Create(c, m) \in Acts /\ Create(c, None) \in Acts
           /\ Supersede(m) \in Acts /\ Forget(m) \in Acts
<1>1. Create(c, m) \in Acts /\ Create(c, None) \in Acts
  BY DEF Create, Acts
<1>2. QED BY <1>1, RetirementsTyped

LEMMA ActionFields ==
    ASSUME NEW a \in Acts
    PROVE  /\ IsCreate(a) => a.content \in Contents /\ a.replaces \in Nat \cup {None}
           /\ Retires(a) => a.memory_id \in Nat
           /\ IsCreate(a) <=> ~ Retires(a)
  BY DEF Acts, IsCreate, Retires, RetireActions

LEMMA AppendedPlan ==
    ASSUME NEW pl, PlanOK(pl), NEW s \in Seq(Acts), NEW q,
           q = [acts |-> pl.acts \o s,
                ok   |-> pl.ok \cup (Len(pl.acts) + 1 .. Len(pl.acts) + Len(s))]
    PROVE  PlanOK(q) /\ Performed(q) = Performed(pl) \cup Elements(s)
<1>1. PICK acts \in Seq(Acts) : acts = pl.acts
  BY DEF PlanOK
<1>2. PICK ok : ok = pl.ok
  OBVIOUS
<1>3. ok \subseteq 1 .. Len(acts)
  BY <1>1, <1>2 DEF PlanOK
<1>4. q.acts = acts \o s /\ q.ok = ok \cup (Len(acts) + 1 .. Len(acts) + Len(s))
  BY <1>1, <1>2
<1>5. acts \o s \in Seq(Acts) /\ Len(acts \o s) = Len(acts) + Len(s)
  OBVIOUS
<1>6. \A k \in 1 .. Len(acts) : (acts \o s)[k] = acts[k]
  OBVIOUS
<1>7. \A k \in 1 .. Len(s) : (acts \o s)[Len(acts) + k] = s[k]
  OBVIOUS
<1>8. PlanOK(q)
  BY <1>3, <1>4, <1>5 DEF PlanOK
<1>9. Performed(q) \subseteq Performed(pl) \cup Elements(s)
  <2>1. ASSUME NEW k \in q.ok PROVE q.acts[k] \in Performed(pl) \cup Elements(s)
    <3>1. CASE k \in ok
      BY <1>1, <1>2, <1>3, <1>4, <1>6, <3>1 DEF Performed
    <3>2. CASE k \notin ok
      <4>1. PICK j \in 1 .. Len(s) : k = Len(acts) + j
        <5>1. k - Len(acts) \in 1 .. Len(s) /\ k = Len(acts) + (k - Len(acts))
          BY <1>4, <3>2
        <5>2. QED BY <5>1
      <4>2. q.acts[k] = s[j]
        BY <1>4, <1>7, <4>1
      <4>3. j \in DOMAIN s
        OBVIOUS
      <4>4. QED BY <4>2, <4>3 DEF Elements
    <3>3. QED BY <3>1, <3>2
  <2>2. QED BY <2>1 DEF Performed
<1>10. Performed(pl) \subseteq Performed(q)
  BY <1>1, <1>2, <1>3, <1>4, <1>6 DEF Performed
<1>11. Elements(s) \subseteq Performed(q)
  <2>1. ASSUME NEW j \in DOMAIN s PROVE s[j] \in Performed(q)
    <3>1. j \in 1 .. Len(s) /\ Len(acts) + j \in q.ok
      BY <1>4
    <3>2. q.acts[Len(acts) + j] = s[j]
      BY <1>4, <1>7, <3>1
    <3>3. QED BY <3>1, <3>2 DEF Performed
  <2>2. QED BY <2>1 DEF Elements
<1>12. QED BY <1>8, <1>9, <1>10, <1>11

LEMMA RewrittenPlan ==
    ASSUME NEW pl, PlanOK(pl), NEW k \in pl.ok, NEW s, s[1] \in Acts, s[2] \in Acts,
           NEW q, q = Seam!Project(pl, k, s)
    PROVE  PlanOK(q) /\ Performed(q) = {pl.acts[j] : j \in pl.ok \ {k}} \cup {s[1], s[2]}
<1> DEFINE n == Len(pl.acts)
<1>1. /\ pl.acts \in Seq(Acts) /\ n \in Nat /\ DOMAIN pl.acts = 1 .. n
      /\ pl.ok \subseteq 1 .. n /\ k \in 1 .. n
      /\ \A j \in 1 .. n : pl.acts[j] \in Acts
  BY DEF PlanOK
<1>2. /\ DOMAIN q.acts = 1 .. n + 1
      /\ q.acts[k] = s[1] /\ q.acts[k + 1] = s[2]
      /\ \A j \in 1 .. n + 1 : j < k => q.acts[j] = pl.acts[j]
      /\ \A j \in 1 .. n + 1 : j > k + 1 => q.acts[j] = pl.acts[j - 1]
  BY <1>1 DEF Seam!Project
<1>3. q.ok = {j \in pl.ok : j < k} \cup {k, k + 1}
                \cup {j + 1 : j \in {i \in pl.ok : i > k}}
  BY DEF Seam!Project
<1>4. \A j \in 1 .. n + 1 : q.acts[j] \in Acts
  <2> TAKE j \in 1 .. n + 1
  <2>1. j < k \/ j = k \/ j = k + 1 \/ (j > k + 1 /\ j - 1 \in 1 .. n)
    BY <1>1
  <2>2. j < k => j \in 1 .. n
    BY <1>1
  <2>3. QED BY <2>1, <2>2, <1>1, <1>2
<1>5. q.acts \in Seq(Acts)
  <2> DEFINE G(j) == CASE j < k     -> pl.acts[j]
                       [] j = k     -> s[1]
                       [] j = k + 1 -> s[2]
                       [] j > k + 1 -> pl.acts[j - 1]
  <2>1. q.acts = [j \in 1 .. n + 1 |-> G(j)]
    BY DEF Seam!Project
  <2>2. \A j \in 1 .. n + 1 : G(j) \in Acts
    BY <2>1, <1>4
  <2> HIDE DEF G
  <2>3. QED BY <2>1, <2>2, <1>1
<1>6. q.ok \subseteq 1 .. n + 1
  BY <1>1, <1>3
<1>7. PlanOK(q)
  BY <1>2, <1>5, <1>6 DEF PlanOK
<1>8. ASSUME NEW j \in pl.ok, j # k PROVE pl.acts[j] \in Performed(q)
  <2>1. CASE j < k
    <3>1. j \in 1 .. n + 1
      BY <1>1
    <3>2. q.acts[j] = pl.acts[j]
      BY <1>2, <2>1, <3>1
    <3>3. j \in q.ok
      BY <1>3, <2>1
    <3>4. QED BY <3>2, <3>3 DEF Performed
  <2>2. CASE j > k
    <3>1. j + 1 \in 1 .. n + 1 /\ j + 1 > k + 1 /\ (j + 1) - 1 = j
      BY <2>2, <1>1
    <3>2. j + 1 \in q.ok
      BY <2>2, <1>3
    <3>3. q.acts[j + 1] = pl.acts[(j + 1) - 1]
      BY <3>1, <1>2
    <3>4. q.acts[j + 1] = pl.acts[j]
      BY <3>1, <3>3
    <3>5. QED BY <3>2, <3>4 DEF Performed
  <2>3. QED BY <2>1, <2>2, <1>1, <1>8
<1>9. {s[1], s[2]} \subseteq Performed(q)
  <2>1. k \in q.ok /\ k + 1 \in q.ok
    BY <1>3
  <2>2. QED BY <1>2, <2>1 DEF Performed
<1>10. ASSUME NEW i \in q.ok
       PROVE  q.acts[i] \in {pl.acts[j] : j \in pl.ok \ {k}} \cup {s[1], s[2]}
  <2>1. CASE i \in pl.ok /\ i < k
    <3>1. i \in 1 .. n + 1 /\ i < k /\ i \in pl.ok \ {k}
      BY <1>1, <2>1
    <3>2. q.acts[i] = pl.acts[i]
      BY <1>2, <3>1
    <3>3. QED BY <3>1, <3>2
  <2>2. CASE i \in {k, k + 1}
    BY <1>2, <2>2
  <2>3. CASE \E j \in pl.ok : j > k /\ i = j + 1
    <3>1. PICK j \in pl.ok : j > k /\ i = j + 1
      BY <2>3
    <3>2. i \in 1 .. n + 1 /\ i > k + 1 /\ i - 1 = j
      BY <1>1, <3>1
    <3>3. q.acts[i] = pl.acts[i - 1]
      BY <1>2, <3>2
    <3>4. q.acts[i] = pl.acts[j] /\ j # k
      BY <1>1, <3>1, <3>2, <3>3
    <3>5. QED BY <3>4
  <2>4. QED BY <1>3, <2>1, <2>2, <2>3
<1>11. Performed(q) \subseteq {pl.acts[j] : j \in pl.ok \ {k}} \cup {s[1], s[2]}
  BY <1>10 DEF Performed
<1>12. QED BY <1>7, <1>8, <1>9, <1>11

(* A ready plan: the matcher found a create it may replace, and the one to  *)
(* insert is not there already.                                             *)
LEMMA ReadyMeans ==
    ASSUME NEW pl, NEW n, NEW s, PlanStatus(pl, n, s) = "plan_ready"
    PROVE  /\ SupersedeBearing(s) /\ Matched(pl, n, s) \in Candidates(pl, n, s)
           /\ \A k \in Candidates(pl, n, s) :
                 pl.acts[k].replaces \in {None, FirstOf(s, "supersede").memory_id}
           /\ \A j \in pl.ok : j <= n => pl.acts[j] # FirstOf(s, "create")
<1> DEFINE chain == <<
        <<"rejected_matcher", MatcherDecision(pl, n, s) # "replacement_ready">>,
        <<"rejected_invalid_sequence", ~ ValidSequence(s)>>,
        <<"rejected_duplicate_insertion", AlreadyPresent(pl, n, s)>> >>
<1>1. FirstCode(chain, "plan_ready") = "plan_ready"
  BY DEF PlanStatus
<1>2. DOMAIN chain = 1 .. 3 /\ 3 \in Nat
  OBVIOUS
<1>3. /\ chain[1][1] = "rejected_matcher" /\ chain[2][1] = "rejected_invalid_sequence"
      /\ chain[3][1] = "rejected_duplicate_insertion"
      /\ chain[1][2] <=> MatcherDecision(pl, n, s) # "replacement_ready"
      /\ chain[3][2] <=> AlreadyPresent(pl, n, s)
  OBVIOUS
<1> HIDE DEF chain
<1>4. \A k \in 1 .. 3 : chain[k][1] # "plan_ready"
  BY <1>3
<1>5. \A k \in 1 .. 3 : ~ chain[k][2]
  BY <1>1, <1>2, <1>4, ChainPassed, Zenon
<1>6. MatcherDecision(pl, n, s) = "replacement_ready" /\ ~ AlreadyPresent(pl, n, s)
  BY <1>3, <1>5
<1>7. /\ SupersedeBearing(s) /\ Candidates(pl, n, s) # {}
      /\ ~ \E k \in Candidates(pl, n, s) :
              pl.acts[k].replaces \notin {None, FirstOf(s, "supersede").memory_id}
  BY <1>6 DEF MatcherDecision
<1>8. Matched(pl, n, s) \in Candidates(pl, n, s)
  BY <1>7 DEF Matched
<1>9. QED BY <1>6, <1>7, <1>8 DEF AlreadyPresent

LEMMA AfterCases ==
    ASSUME NEW pl, NEW d, NEW batch, NEW after, after = PlanAfter(pl, d, batch), after # pl
    PROVE  /\ d.acts # <<>>
           /\ \/ after = [acts |-> pl.acts \o d.acts,
                          ok |-> pl.ok \cup (Len(pl.acts) + 1 .. Len(pl.acts) + Len(d.acts))]
              \/ /\ SupersedeBearing(d.acts)
                 /\ \E k \in Creates(pl) : after = Seam!Project(pl, k, d.acts)
<1>1. PICK retired, from : after = IF d.acts = <<>> THEN pl
        ELSE IF (rewrites # {} \/ config.runtime) /\ SupersedeBearing(d.acts)
        THEN GovernedReplacement(pl, Len(pl.acts), d.acts, config.runtime, rewrites, from)
        ELSE AppendAdmissible(pl, d.acts, Active, TextOf, retired)
  BY DEF PlanAfter
<1>2. d.acts # <<>>
  BY <1>1
<1>3. CASE after = AppendAdmissible(pl, d.acts, Active, TextOf, retired)
  BY <1>2, <1>3 DEF AppendAdmissible
<1>4. CASE /\ SupersedeBearing(d.acts)
           /\ after = GovernedReplacement(pl, Len(pl.acts), d.acts, config.runtime,
                                          rewrites, from)
  <2>1. /\ PlanStatus(pl, Len(pl.acts), d.acts) = "plan_ready"
        /\ after = Seam!Project(pl, Matched(pl, Len(pl.acts), d.acts), d.acts)
    BY <1>4 DEF GovernedReplacement
  <2>2. Matched(pl, Len(pl.acts), d.acts) \in Candidates(pl, Len(pl.acts), d.acts)
    BY <2>1, ReadyMeans
  <2>3. Matched(pl, Len(pl.acts), d.acts) \in Creates(pl)
    BY <2>2 DEF Candidates
  <2>4. QED BY <1>2, <1>4, <2>1, <2>3
<1>5. QED BY <1>1, <1>2, <1>3, <1>4

LEMMA PairEffects ==
    ASSUME NEW m, NEW t
    PROVE  /\ Elements(Pair(m, t)) = {Supersede(m), Create(t, m)}
           /\ Pair(m, t)[1] = Supersede(m) /\ Pair(m, t)[2] = Create(t, m)
<1>1. DOMAIN Pair(m, t) = {1, 2} /\ Pair(m, t)[1] = Supersede(m) /\ Pair(m, t)[2] = Create(t, m)
  BY DEF Pair
<1>2. QED BY <1>1 DEF Elements

(* A plan that performs more retires and creates more.                      *)
RetiredIn(S) == {a.memory_id : a \in {x \in S : Retires(x)}}
CreatedIn(S) == {a.content : a \in {x \in S : IsCreate(x)}}

LEMMA CreateEffects ==
    ASSUME NEW t, NEW x, NEW S, S = {Create(t, x)}
    PROVE  RetiredIn(S) = {} /\ CreatedIn(S) = {t}
<1>1. PICK a : a = Create(t, x)
  OBVIOUS
<1>2. ~ Retires(a) /\ IsCreate(a) /\ a.content = t
  BY <1>1 DEF Retires, IsCreate, RetireActions, Create
<1>3. {y \in {a} : Retires(y)} = {} /\ {y \in {a} : IsCreate(y)} = {a}
  BY <1>2
<1>4. QED BY <1>1, <1>2, <1>3 DEF RetiredIn, CreatedIn

LEMMA ForgetEffects ==
    ASSUME NEW m, NEW S, S = {Forget(m)}
    PROVE  RetiredIn(S) = {m} /\ CreatedIn(S) = {}
<1>1. PICK a : a = Forget(m)
  OBVIOUS
<1>2. Retires(a) /\ ~ IsCreate(a) /\ a.memory_id = m
  BY <1>1 DEF Retires, IsCreate, RetireActions, Forget
<1>3. {y \in {a} : Retires(y)} = {a} /\ {y \in {a} : IsCreate(y)} = {}
  BY <1>2
<1>4. QED BY <1>1, <1>2, <1>3 DEF RetiredIn, CreatedIn

LEMMA SupersedeEffects ==
    ASSUME NEW t, NEW m
    PROVE  /\ RetiredIn({Supersede(m), Create(t, m)}) = {m}
           /\ CreatedIn({Supersede(m), Create(t, m)}) = {t}
<1>1. PICK a, b : a = Supersede(m) /\ b = Create(t, m)
  OBVIOUS
<1>2. /\ Retires(a) /\ ~ IsCreate(a) /\ a.memory_id = m
      /\ ~ Retires(b) /\ IsCreate(b) /\ b.content = t
  BY <1>1 DEF Retires, IsCreate, RetireActions, Supersede, Create
<1>3. {y \in {a, b} : Retires(y)} = {a} /\ {y \in {a, b} : IsCreate(y)} = {b}
  BY <1>2
<1>4. RetiredIn({a, b}) = {m} /\ CreatedIn({a, b}) = {t}
  BY <1>2, <1>3 DEF RetiredIn, CreatedIn
<1>5. QED BY <1>1, <1>4

LEMMA LostWith ==
    ASSUME NEW q, NEW pl, NEW new, NEW S, S \subseteq Performed(pl),
           \A a \in Performed(pl) \ S : IsCreate(a), Performed(q) = S \cup new
    PROVE  Lost(q) = Lost(pl) \cup RetiredIn(new)
<1>1. \A a : IsCreate(a) => ~ Retires(a)
  BY DEF IsCreate, Retires, RetireActions
<1>2. {x \in Performed(q) : Retires(x)} =
        {x \in Performed(pl) : Retires(x)} \cup {x \in new : Retires(x)}
  BY <1>1
<1>3. QED BY <1>2 DEF Lost, RetiredIn

LEMMA WrittenWith ==
    ASSUME NEW q, NEW pl, NEW new, NEW S, S \subseteq Performed(pl), Performed(q) = S \cup new
    PROVE  /\ CreatedIn(new) \subseteq Written(q)
           /\ Written(q) \subseteq Written(pl) \cup CreatedIn(new)
           /\ Written(pl) \ Written(q) \subseteq
                {a.content : a \in Performed(pl) \ S}
<1>1. \A a \in Performed(q) : a \in S \/ a \in new
  OBVIOUS
<1>2. QED BY <1>1 DEF Written, CreatedIn

Outgrown(pl, after, gone, asked) ==
    /\ PlanOK(after)
    /\ Lost(after) = Lost(pl) \cup gone
    /\ asked \subseteq Written(after) /\ Written(after) \subseteq Written(pl) \cup asked
    /\ \E x : Written(pl) \ Written(after) \subseteq {x}
    /\ asked = {} => Written(pl) \subseteq Written(after)

LEMMA OutgrownByAppend ==
    ASSUME NEW pl, PlanOK(pl), NEW s \in Seq(Acts), NEW q,
           q = [acts |-> pl.acts \o s,
                ok   |-> pl.ok \cup (Len(pl.acts) + 1 .. Len(pl.acts) + Len(s))],
           NEW gone, gone = RetiredIn(Elements(s)), NEW asked, asked = CreatedIn(Elements(s))
    PROVE  Outgrown(pl, q, gone, asked)
<1>1. PlanOK(q) /\ Performed(q) = Performed(pl) \cup Elements(s)
  BY AppendedPlan
<1>2. PICK S, new : S = Performed(pl) /\ new = Elements(s)
  OBVIOUS
<1>3. S \subseteq Performed(pl) /\ Performed(q) = S \cup new /\ Performed(pl) \ S = {}
  BY <1>1, <1>2
<1>4. Lost(q) = Lost(pl) \cup gone
  <2>1. \A a \in Performed(pl) \ S : IsCreate(a)
    BY <1>3
  <2>2. Lost(q) = Lost(pl) \cup RetiredIn(new)
    BY <1>3, <2>1, LostWith
  <2>3. QED BY <1>2, <2>2
<1>5. /\ asked \subseteq Written(q) /\ Written(q) \subseteq Written(pl) \cup asked
      /\ Written(pl) \ Written(q) \subseteq {a.content : a \in Performed(pl) \ S}
  BY <1>2, <1>3, WrittenWith
<1>6. Written(pl) \ Written(q) = {}
  BY <1>3, <1>5
<1>7. QED BY <1>1, <1>4, <1>5, <1>6 DEF Outgrown

LEMMA OutgrownByRewrite ==
    ASSUME NEW pl, PlanOK(pl), NEW k \in Creates(pl), NEW m \in Nat, NEW t \in Contents,
           NEW q, q = Seam!Project(pl, k, Pair(m, t))
    PROVE  Outgrown(pl, q, {m}, {t})
<1>1. PICK s, S, new : /\ s = Pair(m, t) /\ new = {Supersede(m), Create(t, m)}
                       /\ S = {pl.acts[j] : j \in pl.ok \ {k}}
  OBVIOUS
<1>2. s[1] = Supersede(m) /\ s[2] = Create(t, m) /\ s[1] \in Acts /\ s[2] \in Acts
  BY <1>1, PairEffects, ActionsTyped
<1>3. k \in pl.ok /\ IsCreate(pl.acts[k])
  BY DEF Creates
<1>4. PlanOK(q) /\ Performed(q) = S \cup new
  BY <1>1, <1>2, <1>3, RewrittenPlan
<1>5. S \subseteq Performed(pl) /\ \A a \in Performed(pl) \ S : a = pl.acts[k]
  BY <1>1 DEF Performed
<1>6. \A a \in Performed(pl) \ S : IsCreate(a)
  BY <1>3, <1>5
<1>7. Lost(q) = Lost(pl) \cup RetiredIn(new)
  BY <1>4, <1>5, <1>6, LostWith
<1>8. RetiredIn(new) = {m} /\ CreatedIn(new) = {t}
  <2>1. RetiredIn({Supersede(m), Create(t, m)}) = {m}
    BY SupersedeEffects, Zenon
  <2>2. CreatedIn({Supersede(m), Create(t, m)}) = {t}
    BY SupersedeEffects, Zenon
  <2>3. new = {Supersede(m), Create(t, m)}
    BY <1>1
  <2>4. QED BY <2>1, <2>2, <2>3, Zenon
<1>9. /\ CreatedIn(new) \subseteq Written(q)
      /\ Written(q) \subseteq Written(pl) \cup CreatedIn(new)
      /\ Written(pl) \ Written(q) \subseteq {a.content : a \in Performed(pl) \ S}
  BY <1>4, <1>5, WrittenWith
<1>10. Written(pl) \ Written(q) \subseteq {pl.acts[k].content}
  BY <1>5, <1>9
<1>11. QED BY <1>4, <1>7, <1>8, <1>9, <1>10 DEF Outgrown

LEMMA PlanEffect ==
    ASSUME NEW t \in Contents, NEW before, ActiveIds(before) \subseteq Nat, NEW p, NEW kind,
           NEW pl, PlanOK(pl), NEW d, NEW batch, Enacts(t, before, p, kind, d.acts),
           NEW after, after = PlanAfter(pl, d, batch), after # pl
    PROVE  Outgrown(pl, after, Deactivated(p), {p.created[k].text : k \in DOMAIN p.created})
<1>1. PICK s, asked, gone : /\ s = d.acts /\ gone = Deactivated(p)
                            /\ asked = {p.created[k].text : k \in DOMAIN p.created}
  OBVIOUS
<1>2. \/ after = [acts |-> pl.acts \o s,
                  ok |-> pl.ok \cup (Len(pl.acts) + 1 .. Len(pl.acts) + Len(s))]
      \/ /\ SupersedeBearing(s)
         /\ \E k \in Creates(pl) : after = Seam!Project(pl, k, s)
  <2>1. \/ after = [acts |-> pl.acts \o d.acts,
                    ok |-> pl.ok \cup (Len(pl.acts) + 1 .. Len(pl.acts) + Len(d.acts))]
        \/ /\ SupersedeBearing(d.acts)
           /\ \E k \in Creates(pl) : after = Seam!Project(pl, k, d.acts)
    BY AfterCases, ZenonT(30)
  <2>2. s = d.acts
    BY <1>1
  <2>3. QED BY <2>1, <2>2, Zenon
<1>3. CASE s = <<Create(t, None)>> /\ gone = {} /\ asked = {t}
  <2>1. s \in Seq(Acts)
    BY <1>3, ActionsTyped
  <2>2. Elements(s) = {Create(t, None)}
    BY <1>3, SingleElements
  <2>3. gone = RetiredIn(Elements(s)) /\ asked = CreatedIn(Elements(s))
    BY <1>3, <2>2, CreateEffects
  <2>4. ~ SupersedeBearing(s)
    BY <1>3, RetiringActions DEF SupersedeBearing
  <2>5. QED BY <1>1, <1>2, <2>1, <2>3, <2>4, OutgrownByAppend
<1>4. CASE \E m \in ActiveIds(before) : s = Pair(m, t) /\ gone = {m} /\ asked = {t}
  <2>1. PICK m \in Nat : s = Pair(m, t) /\ gone = {m} /\ asked = {t}
    BY <1>4
  <2>2. s \in Seq(Acts)
    BY <2>1, ActionsTyped DEF Pair
  <2>3. Elements(s) = {Supersede(m), Create(t, m)}
    BY <2>1, PairEffects
  <2>4. gone = RetiredIn(Elements(s)) /\ asked = CreatedIn(Elements(s))
    BY <2>1, <2>3, SupersedeEffects
  <2>5. CASE after = [acts |-> pl.acts \o s,
                      ok |-> pl.ok \cup (Len(pl.acts) + 1 .. Len(pl.acts) + Len(s))]
    BY <1>1, <2>2, <2>4, <2>5, OutgrownByAppend
  <2>6. CASE \E k \in Creates(pl) : after = Seam!Project(pl, k, s)
    BY <1>1, <2>1, <2>6, OutgrownByRewrite
  <2>7. QED BY <1>2, <2>5, <2>6
<1>5. CASE \E m \in ActiveIds(before) : s = <<Forget(m)>> /\ gone = {m} /\ asked = {}
  <2>1. PICK m \in Nat : s = <<Forget(m)>> /\ gone = {m} /\ asked = {}
    BY <1>5
  <2>2. s \in Seq(Acts)
    BY <2>1, ActionsTyped
  <2>3. Elements(s) = {Forget(m)}
    BY <2>1, SingleElements
  <2>4. gone = RetiredIn(Elements(s)) /\ asked = CreatedIn(Elements(s))
    BY <2>1, <2>3, ForgetEffects
  <2>5. ~ SupersedeBearing(s)
    BY <2>1, RetiringActions DEF SupersedeBearing
  <2>6. QED BY <1>1, <1>2, <2>2, <2>4, <2>5, OutgrownByAppend
<1>6. QED BY <1>1, <1>3, <1>4, <1>5 DEF Enacts

-----------------------------------------------------------------------------
(* The memories, and what an interaction makes of them.                     *)
MemoryOf == [text : Contents, status : {"active", "superseded", "forgotten"},
             replaces : Nat \cup {None}]

MemoryOK == memory \in Seq(MemoryOf)

LEMMA ReadState ==
    ASSUME MemoryOK
    PROVE  /\ Active \subseteq DOMAIN memory /\ Active \subseteq Nat
           /\ DOMAIN Before.mem = Active /\ ActiveIds(Before) = Active
           /\ Readable(Before)
           /\ \A m \in Active : Before.mem[m].text = memory[m].text
           /\ Digest(Before) = {<<m, "active", memory[m].text>> : m \in Active}
<1>1. Active \subseteq DOMAIN memory /\ Active \subseteq Nat
  BY DEF MemoryOK, Active
<1>2. ASSUME NEW m \in Active PROVE memory[m].text \in Contents
  <2>1. memory[m] \in MemoryOf
    BY <1>1 DEF MemoryOK
  <2>2. QED BY <2>1 DEF MemoryOf
<1>3. PICK mem : mem = Before.mem
  OBVIOUS
<1>4. mem = [m \in Active |-> [text |-> memory[m].text, status |-> "active"]]
  BY <1>3 DEF Before
<1>5. /\ DOMAIN mem = Active
      /\ \A m \in Active : mem[m].text = memory[m].text /\ mem[m].status = "active"
  BY <1>4
<1>6. ActiveIds(Before) = Active
  BY <1>3, <1>5 DEF ActiveIds
<1>7. Readable(Before)
  BY <1>2, <1>3, <1>5 DEF Readable
<1>8. Digest(Before) = {<<m, "active", memory[m].text>> : m \in Active}
  BY <1>3, <1>5 DEF Digest
<1>9. QED BY <1>1, <1>3, <1>5, <1>6, <1>7, <1>8

LEMMA LostAt ==
    ASSUME NEW pl
    PROVE  /\ Lost(pl) = {pl.acts[k].memory_id : k \in Retirements(pl)}
           /\ Written(pl) = {pl.acts[k].content : k \in Creates(pl)}
  BY DEF Lost, Written, Performed, Retirements, Creates

LEMMA BatchTyped ==
    ASSUME MemoryOK, NEW t \in Statements, NEW batch \in Batches(t)
    PROVE  /\ batch \in Seq(Acts)
           /\ \A k \in DOMAIN batch : Retires(batch[k]) => batch[k].memory_id \in Active
<1>1. Noted[t] = None \/ Noted[t] \in Contents
  BY CoordinatorAssumption
<1>2. Active \subseteq Nat
  BY ReadState
<1>3. CASE batch = <<>>
  BY <1>3
<1>4. CASE Noted[t] \in Contents /\ batch = <<Create(Noted[t], None)>>
  <2>1. batch \in Seq(Acts)
    BY <1>4, ActionsTyped
  <2>2. QED BY <1>4, <2>1, RetiringActions
<1>5. CASE \E m \in Active : Noted[t] \in Contents /\ batch = <<Supersede(m), Create(Noted[t], m)>>
  <2>1. PICK m \in Active : Noted[t] \in Contents /\ batch = <<Supersede(m), Create(Noted[t], m)>>
    BY <1>5
  <2>2. Supersede(m) \in Acts /\ Create(Noted[t], m) \in Acts
    BY <1>2, <2>1, ActionsTyped
  <2>3. /\ DOMAIN batch = {1, 2} /\ batch[1] = Supersede(m) /\ batch[2] = Create(Noted[t], m)
    BY <2>1
  <2>4. batch \in Seq(Acts)
    BY <2>1, <2>2
  <2>5. QED BY <2>3, <2>4, RetiringActions
<1>6. CASE \E m \in Active : batch = <<Forget(m)>>
  <2>1. PICK m \in Active : batch = <<Forget(m)>>
    BY <1>6
  <2>2. Forget(m) \in Acts
    BY <1>2, RetirementsTyped
  <2>3. batch \in Seq(Acts) /\ DOMAIN batch = {1} /\ batch[1] = Forget(m)
    BY <2>1, <2>2
  <2>4. QED BY <2>3, RetiringActions
<1>7. QED BY <1>1, <1>3, <1>4, <1>5, <1>6 DEF Batches

LEMMA BatchPlanned ==
    ASSUME MemoryOK, NEW t \in Statements, NEW batch \in Batches(t),
           NEW pl, pl = Admit(batch, Active, TextOf)
    PROVE  PlanOK(pl) /\ pl.acts = batch /\ Lost(pl) = Retired(batch)
<1>1. pl.acts = batch /\ pl.ok \subseteq DOMAIN batch
  BY DEF Admit
<1>2. PlanOK(pl)
  BY <1>1, BatchTyped DEF PlanOK
<1>3. ASSUME NEW k \in DOMAIN batch, Retires(batch[k]) PROVE k \in pl.ok
  <2>1. ~ IsCreate(batch[k]) /\ batch[k].memory_id \in Active
    BY <1>3, BatchTyped DEF IsCreate, Retires, RetireActions
  <2>2. ~ Rejected(batch[k], Active, TextOf, RetiredBy(batch, Active))
    BY <2>1 DEF Rejected, TargetNotActive, DuplicateOfActive
  <2>3. QED BY <2>2 DEF Admit
<1>4. Retirements(pl) = {k \in DOMAIN batch : Retires(batch[k])}
  BY <1>1, <1>3 DEF Retirements
<1>5. Lost(pl) = Retired(batch)
  BY <1>1, <1>4, LostAt DEF Retired
<1>6. QED BY <1>1, <1>2, <1>5

LEMMA RetireKeeps ==
    ASSUME NEW mem \in Seq(MemoryOf), NEW pl, NEW m \in DOMAIN mem
    PROVE  /\ Retire(mem, pl)[m] \in MemoryOf
           /\ Retire(mem, pl)[m].text = mem[m].text
           /\ Retire(mem, pl)[m].status = "active" <=>
                 mem[m].status = "active" /\ m \notin Lost(pl)
<1>1. PICK hits, old, new : /\ hits = {k \in Retirements(pl) : pl.acts[k].memory_id = m}
                            /\ old = mem[m] /\ new = Retire(mem, pl)[m]
  OBVIOUS
<1>2. old \in MemoryOf
  BY <1>1
<1>3. hits = {} <=> m \notin Lost(pl)
  BY <1>1, LostAt
<1>4. CASE hits = {}
  <2>1. new = old
    BY <1>1, <1>4 DEF Retire
  <2>2. QED BY <1>1, <1>2, <1>3, <1>4, <2>1
<1>5. CASE hits # {}
  <2>1. PICK st \in {"forgotten", "superseded"} : new = [old EXCEPT !.status = st]
    BY <1>1, <1>5 DEF Retire
  <2>2. new \in MemoryOf /\ new.text = old.text /\ new.status = st
    BY <1>2, <2>1 DEF MemoryOf
  <2>3. QED BY <1>1, <1>3, <1>5, <2>1, <2>2
<1>6. QED BY <1>4, <1>5

LEMMA CreatesCounted ==
    ASSUME NEW pl, PlanOK(pl)
    PROVE  Cardinality(Creates(pl)) \in Nat
<1>1. PICK n \in Nat : pl.ok \subseteq 1 .. n
  BY DEF PlanOK
<1>2. Creates(pl) \subseteq 1 .. n /\ IsFiniteSet(1 .. n)
  BY <1>1, FS_Interval DEF Creates
<1>3. QED BY <1>2, FS_Subset, FS_CardinalityType

LEMMA AppliedMemory ==
    ASSUME MemoryOK, NEW pl, PlanOK(pl), NEW order \in Orders(memory, pl),
           NEW mem, mem = Added(Retire(memory, pl), pl, order)
    PROVE  /\ mem \in Seq(MemoryOf)
           /\ DOMAIN memory \subseteq DOMAIN mem
           /\ \A m \in DOMAIN memory :
                 /\ mem[m].text = memory[m].text
                 /\ mem[m].status = "active" <=> memory[m].status = "active" /\ m \notin Lost(pl)
           /\ \A m \in DOMAIN mem \ DOMAIN memory : mem[m].status = "active"
           /\ {mem[m].text : m \in DOMAIN mem \ DOMAIN memory} = Written(pl)
<1>1. PICK n, c, kept : n = Len(memory) /\ c = Cardinality(Creates(pl)) /\ kept = Retire(memory, pl)
  OBVIOUS
<1>2. n \in Nat /\ c \in Nat /\ DOMAIN memory = 1 .. n
  BY <1>1, CreatesCounted DEF MemoryOK
<1>3. DOMAIN kept = 1 .. n /\ \A m \in 1 .. n : kept[m] \in MemoryOf
  <2>1. DOMAIN kept = 1 .. n
    BY <1>1, <1>2 DEF Retire
  <2>2. \A m \in DOMAIN memory : Retire(memory, pl)[m] \in MemoryOf
    BY RetireKeeps DEF MemoryOK
  <2>3. QED BY <1>1, <1>2, <2>1, <2>2
<1>4. Len(kept) = n
  <2>1. kept \in [1 .. n -> MemoryOf]
    <3>1. kept = [m \in 1 .. n |-> kept[m]]
      BY <1>1, <1>2 DEF Retire
    <3>2. QED BY <1>3, <3>1
  <2>2. QED BY <1>2, <2>1
<1>5. /\ order \in [n + 1 .. n + c -> Creates(pl)]
      /\ Creates(pl) = {order[m] : m \in n + 1 .. n + c}
  BY <1>1 DEF Orders
<1>6. mem = [m \in 1 .. n + c |->
               IF m <= n THEN kept[m]
               ELSE [text |-> pl.acts[order[m]].content, status |-> "active",
                     replaces |-> pl.acts[order[m]].replaces]]
  BY <1>1, <1>4 DEF Added
<1>7. DOMAIN mem = 1 .. n + c
  BY <1>6
<1>8. \A m \in 1 .. n : mem[m] = kept[m]
  BY <1>2, <1>6
<1>9. ASSUME NEW m \in n + 1 .. n + c
      PROVE  /\ mem[m].text = pl.acts[order[m]].content /\ mem[m].status = "active"
             /\ mem[m] \in MemoryOf
  <2>1. PICK k, a : k = order[m] /\ a = pl.acts[k]
    OBVIOUS
  <2>2. k \in Creates(pl)
    BY <1>5, <2>1
  <2>3. a \in Acts /\ IsCreate(a)
    BY <2>1, <2>2 DEF Creates, PlanOK
  <2>4. a.content \in Contents /\ a.replaces \in Nat \cup {None}
    BY <2>3, ActionFields
  <2>5. mem[m] = [text |-> a.content, status |-> "active", replaces |-> a.replaces]
    BY <1>2, <1>6, <2>1
  <2>6. QED BY <2>1, <2>4, <2>5 DEF MemoryOf
<1>10. mem \in Seq(MemoryOf)
  <2>1. \A m \in 1 .. n + c : mem[m] \in MemoryOf
    BY <1>2, <1>3, <1>8, <1>9
  <2>2. mem \in [1 .. n + c -> MemoryOf]
    <3>1. mem = [m \in 1 .. n + c |-> mem[m]]
      BY <1>6
    <3>2. QED BY <2>1, <3>1
  <2>3. n + c \in Nat
    BY <1>2
  <2>4. QED BY <2>2, <2>3
<1>11. \A m \in DOMAIN memory :
          /\ mem[m].text = memory[m].text
          /\ mem[m].status = "active" <=> memory[m].status = "active" /\ m \notin Lost(pl)
  BY <1>1, <1>2, <1>8, RetireKeeps DEF MemoryOK
<1>12. DOMAIN mem \ DOMAIN memory = n + 1 .. n + c
  BY <1>2, <1>7
<1>13. {mem[m].text : m \in n + 1 .. n + c} = Written(pl)
  <2>1. Written(pl) = {pl.acts[k].content : k \in Creates(pl)}
    BY LostAt
  <2>2. \A m \in n + 1 .. n + c : mem[m].text \in Written(pl)
    BY <1>5, <1>9, <2>1
  <2>3. \A k \in Creates(pl) : \E m \in n + 1 .. n + c : mem[m].text = pl.acts[k].content
    BY <1>5, <1>9
  <2>4. QED BY <2>1, <2>2, <2>3
<1>14. DOMAIN memory \subseteq DOMAIN mem
  BY <1>2, <1>7
<1>15. QED BY <1>9, <1>10, <1>11, <1>12, <1>13, <1>14

-----------------------------------------------------------------------------
(* What a planner's batch amounts to, in verify_only mode, is such a        *)
(* proposal too.                                                            *)
LEMMA InferredCases ==
    ASSUME NEW pl, Seam!InferredType(pl) # None
    PROVE  \/ /\ Seam!InferredType(pl) = "forget_existing" /\ Forgets(pl) # {}
              /\ Seam!InferredTarget(pl) = pl.acts[Min(Forgets(pl))].memory_id
           \/ /\ Seam!InferredType(pl) = "supersede_existing" /\ Supersedes(pl) # {}
              /\ Seam!InferredTarget(pl) = pl.acts[Min(Supersedes(pl))].memory_id
           \/ /\ Seam!InferredType(pl) = "create_new"
<1>1. /\ Seam!Forgets(pl) = Forgets(pl) /\ Seam!Supersedes(pl) = Supersedes(pl)
      /\ Seam!Creates(pl) = Creates(pl)
  BY DEF Seam!Forgets, Seam!Supersedes, Seam!Creates, Forgets, Supersedes, Creates,
         Seam!IsCreate, IsCreate
<1>2. CASE Forgets(pl) # {} /\ Creates(pl) = {}
  <2>1. Seam!InferredType(pl) = "forget_existing"
    BY <1>1, <1>2 DEF Seam!InferredType
  <2>2. Seam!InferredTarget(pl) = pl.acts[Min(Forgets(pl))].memory_id
    BY <1>1, <2>1 DEF Seam!InferredTarget, Seam!Min, Min
  <2>3. QED BY <1>2, <2>1, <2>2
<1>3. CASE ~ (Forgets(pl) # {} /\ Creates(pl) = {}) /\ Supersedes(pl) # {} /\ Creates(pl) # {}
  <2>1. Seam!InferredType(pl) = "supersede_existing"
    BY <1>1, <1>3 DEF Seam!InferredType
  <2>2. Seam!InferredTarget(pl) = pl.acts[Min(Supersedes(pl))].memory_id
    BY <1>1, <2>1 DEF Seam!InferredTarget, Seam!Min, Min
  <2>3. QED BY <1>3, <2>1, <2>2
<1>4. CASE /\ ~ (Forgets(pl) # {} /\ Creates(pl) = {})
           /\ ~ (Supersedes(pl) # {} /\ Creates(pl) # {})
  BY <1>1, <1>4 DEF Seam!InferredType
<1>5. QED BY <1>2, <1>3, <1>4

LEMMA FirstRetired ==
    ASSUME NEW pl, PlanOK(pl), NEW S, S # {}, S \subseteq Retirements(pl)
    PROVE  pl.acts[Min(S)].memory_id \in Nat
<1>1. Retirements(pl) \subseteq DOMAIN pl.acts /\ DOMAIN pl.acts \subseteq Nat
  BY DEF PlanOK, Retirements
<1>2. Min(S) \in S
  <2>1. S \in SUBSET Nat
    BY <1>1
  <2>2. QED BY <2>1, MinOfNaturals
<1>3. PICK k : k = Min(S)
  OBVIOUS
<1>4. k \in DOMAIN pl.acts /\ Retires(pl.acts[k])
  BY <1>1, <1>2, <1>3 DEF Retirements
<1>5. pl.acts[k] \in Acts
  BY <1>4 DEF PlanOK
<1>6. QED BY <1>3, <1>4, <1>5, ActionFields

LEMMA ExistingShaped ==
    ASSUME NEW t \in Contents, NEW pl, PlanOK(pl), NEW before,
           Seam!InferredType(pl) # None,
           NEW p, p = ExistingProposal(t, pl, before)
    PROVE  Shaped(p)
<1>1. PICK type : type = Seam!InferredType(pl)
  OBVIOUS
<1>2. PICK target : target = Seam!InferredTarget(pl)
  OBVIOUS
<1>3. PICK named : named = IF target = None THEN <<>> ELSE <<target>>
  OBVIOUS
<1>4. /\ DOMAIN p = Fields /\ p.type = type /\ p.statement = t /\ p.targets = named
      /\ p.superseded = IF type = "supersede_existing" THEN named ELSE <<>>
      /\ p.forgotten = IF type = "forget_existing" THEN named ELSE <<>>
      /\ p.edges = IF type = "supersede_existing" THEN {<<target, CreatedRef>>} ELSE {}
  <2>1. PICK created, preserved, unchanged :
           p = [Proposal(type, t, "grounded_valid") EXCEPT
                  !.targets    = named,
                  !.created    = created,
                  !.superseded = IF type = "supersede_existing" THEN named ELSE <<>>,
                  !.forgotten  = IF type = "forget_existing" THEN named ELSE <<>>,
                  !.preserved  = preserved,
                  !.unchanged  = unchanged,
                  !.edges      = IF type = "supersede_existing"
                                 THEN {<<target, CreatedRef>>} ELSE {}]
    BY <1>1, <1>2, <1>3, ZenonT(60) DEF ExistingProposal
  <2>2. PICK base : base = Proposal(type, t, "grounded_valid")
    OBVIOUS
  <2>3. DOMAIN base = Fields /\ base.type = type /\ base.statement = t
    BY <2>2 DEF Proposal, Fields
  <2>4. PICK superseded, forgotten, edges :
           /\ superseded = IF type = "supersede_existing" THEN named ELSE <<>>
           /\ forgotten = IF type = "forget_existing" THEN named ELSE <<>>
           /\ edges = IF type = "supersede_existing" THEN {<<target, CreatedRef>>} ELSE {}
    OBVIOUS
  <2>5. p = [base EXCEPT !.targets = named, !.created = created, !.superseded = superseded,
                         !.forgotten = forgotten, !.preserved = preserved,
                         !.unchanged = unchanged, !.edges = edges]
    BY <2>1, <2>2, <2>4
  <2>6. /\ DOMAIN p = Fields /\ p.type = type /\ p.statement = t /\ p.targets = named
        /\ p.superseded = superseded /\ p.forgotten = forgotten /\ p.edges = edges
    BY <2>3, <2>5 DEF Fields
  <2>7. QED BY <2>4, <2>6
<1>5. Forgets(pl) \subseteq Retirements(pl) /\ Supersedes(pl) \subseteq Retirements(pl)
  BY DEF Forgets, Supersedes, Retirements, Retires, RetireActions
<1>6. \/ type \in {"forget_existing", "supersede_existing"} /\ target \in Nat
      \/ type = "create_new"
  <2>1. Seam!InferredType(pl) = "forget_existing" =>
            \/ Forgets(pl) = {}
            \/ pl.acts[Min(Forgets(pl))].memory_id \in Nat
    BY <1>5, FirstRetired
  <2>2. Supersedes(pl) = {} \/ pl.acts[Min(Supersedes(pl))].memory_id \in Nat
    BY <1>5, FirstRetired
  <2>3. QED BY <1>1, <1>2, <2>1, <2>2, InferredCases
<1>7. CASE type = "create_new"
  <2>1. <<>> \in Seq(Nat)
    OBVIOUS
  <2>2. p.superseded = <<>> /\ p.forgotten = <<>> /\ p.edges = {}
    BY <1>4, <1>7
  <2>3. QED BY <1>4, <1>7, <2>1, <2>2 DEF Shaped, Pointed
<1>8. CASE type = "forget_existing" /\ target \in Nat
  <2>1. named = <<target>>
    BY <1>3, <1>8, CoordinatorAssumption
  <2>2. <<>> \in Seq(Nat) /\ <<target>> \in Seq(Nat)
    BY <1>8
  <2>3. QED BY <1>4, <1>8, <2>1, <2>2 DEF Shaped, Pointed
<1>9. CASE type = "supersede_existing" /\ target \in Nat
  <2>1. named = <<target>>
    BY <1>3, <1>9, CoordinatorAssumption
  <2>2. <<>> \in Seq(Nat) /\ <<target>> \in Seq(Nat)
    BY <1>9
  <2>3. /\ p.superseded = <<target>> /\ p.forgotten = <<>> /\ p.targets = <<target>>
        /\ p.edges = {<<target, CreatedRef>>}
    BY <1>4, <1>9, <2>1
  <2>4. Pointed(p)
    BY <1>4, <2>2, <2>3 DEF Pointed
  <2>5. QED BY <1>4, <1>9, <2>3, <2>4 DEF Shaped
<1>10. QED BY <1>6, <1>7, <1>8, <1>9

-----------------------------------------------------------------------------
(* One interaction.                                                         *)
LEMMA RefsOfCreated ==
    ASSUME NEW t, NEW before, NEW p, Proposable(t, before, p)
    PROVE  CreatedRefs(p) \subseteq {0}
<1>1. \/ p.created = <<>>
      \/ \E x : p.created = <<NewMemory(t, x)>>
  <2>1. \A type : KeepAll(type, t, Grounded, before).created = <<>>
    BY DEF KeepAll, Proposal
  <2>2. QED BY <2>1, AddFields, SupersedeFields, ForgetFields DEF Proposable
<1>2. CASE p.created = <<>>
  BY <1>2 DEF CreatedRefs
<1>3. CASE \E x : p.created = <<NewMemory(t, x)>>
  <2>1. PICK x, spec : spec = NewMemory(t, x) /\ p.created = <<spec>>
    BY <1>3
  <2>2. spec.ref = 0
    BY <2>1 DEF NewMemory, CreatedSpec, CreatedRef
  <2>3. QED BY <2>1, <2>2 DEF CreatedRefs
<1>4. QED BY <1>1, <1>2, <1>3

LEMMA DecisionShaped ==
    ASSUME MemoryOK, NEW t \in Statements, NEW pl, PlanOK(pl),
           NEW d, d = Evaluate(t, pl, Before), d.proposal # None
    PROVE  Shaped(d.proposal)
<1>1. t \in Contents
  BY CoordinatorAssumption
<1>2. Readable(Before) /\ ActiveIds(Before) \subseteq Nat
  BY ReadState
<1>3. \/ /\ Seam!InferredType(pl) # None
         /\ d.proposal = ExistingProposal(t, pl, Before)
      \/ Proposable(t, Before, d.proposal)
  BY <1>1, <1>2, EvaluateCases
<1>4. QED BY <1>1, <1>2, <1>3, ExistingShaped, ProposableShaped

LEMMA DecisionEnacts ==
    ASSUME MemoryOK, NEW t \in Statements, NEW pl,
           NEW d, d = Evaluate(t, pl, Before), d.acts # <<>>
    PROVE  /\ Enacts(t, Before, d.proposal, d.receipt.kind, d.acts)
           /\ CreatedRefs(d.proposal) \subseteq {0}
           /\ d.receipt.before = Digest(Before)
<1>1. t \in Contents
  BY CoordinatorAssumption
<1>2. Readable(Before) /\ ActiveIds(Before) \subseteq Nat
  BY ReadState
<1>3. /\ Proposable(t, Before, d.proposal)
      /\ d.result = Verify(d.proposal, Before)
      /\ BoundTo(t, Before, d)
  BY <1>1, <1>2, EvaluateCases
<1>4. PICK p, r, tr, receipt : /\ p = d.proposal /\ r = d.result /\ receipt = d.receipt
                               /\ tr = Translate(d.proposal, d.result, Before)
  OBVIOUS
<1>5. d.acts = tr.acts /\ receipt = BindingOf(history, t, Grounded, Before, p, r, tr)
  BY <1>3, <1>4 DEF BoundTo
<1>6. receipt.kind = tr.kind /\ receipt.before = Digest(Before)
  BY <1>5 DEF BindingOf
<1>7. Enacts(t, Before, p, tr.kind, tr.acts)
  <2>1. Proposable(t, Before, p) /\ r = Verify(p, Before) /\ tr = Translate(p, r, Before)
    BY <1>3, <1>4
  <2>2. tr.acts # <<>>
    BY <1>5
  <2>3. QED BY <1>1, <2>1, <2>2, EffectEnacts
<1>8. CreatedRefs(p) \subseteq {0}
  BY <1>3, <1>4, RefsOfCreated
<1>9. QED BY <1>4, <1>5, <1>6, <1>7, <1>8

Led(t, batch, pl, d, after) ==
    /\ PlanOK(pl) /\ Lost(pl) = Retired(pl.acts)
    /\ d = Evaluate(t, pl, Before)
    /\ PlanOK(after)
    /\ after # pl => /\ d.acts # <<>>
                     /\ Outgrown(pl, after, Deactivated(d.proposal),
                                 {d.proposal.created[k].text : k \in DOMAIN d.proposal.created})
    /\ \E order \in Orders(memory, after) :
          memory' = Added(Retire(memory, after), after, order)
    /\ spent' = IF after # pl THEN spent \cup {d.receipt} ELSE spent
    /\ last' = [statement |-> t, batch |-> batch, before |-> Before,
                decision |-> d, planned |-> pl, plan |-> after]
    /\ turns' = turns + 1 /\ config' = config
    /\ history' = history + FixedEvents + Cardinality(after.ok)

LEMMA InteractShape ==
    ASSUME MemoryOK, NEW t \in Statements, NEW batch \in Batches(t), Interact(t, batch)
    PROVE  \E pl, d, after : Led(t, batch, pl, d, after)
<1>1. PICK pl : pl = Admit(batch, Active, TextOf)
  OBVIOUS
<1>2. PICK d : d = Evaluate(t, pl, Before)
  OBVIOUS
<1>3. PICK after : after = PlanAfter(pl, d, batch)
  OBVIOUS
<1>4. Applied(t, batch, pl, d, after)
  BY <1>1, <1>2, <1>3 DEF Interact, Planned, Decided
<1>5. PlanOK(pl) /\ Lost(pl) = Retired(pl.acts)
  BY <1>1, BatchPlanned
<1>6. ASSUME after # pl
      PROVE  /\ d.acts # <<>>
             /\ Outgrown(pl, after, Deactivated(d.proposal),
                         {d.proposal.created[k].text : k \in DOMAIN d.proposal.created})
  <2>1. d.acts # <<>>
    BY <1>3, <1>6, AfterCases
  <2>2. PICK p, kind, before : p = d.proposal /\ kind = d.receipt.kind /\ before = Before
    OBVIOUS
  <2>3. Enacts(t, before, p, kind, d.acts)
    BY <1>2, <2>1, <2>2, DecisionEnacts
  <2>4. t \in Contents /\ ActiveIds(before) \subseteq Nat
    BY <2>2, ReadState, CoordinatorAssumption
  <2>5. Outgrown(pl, after, Deactivated(p), {p.created[k].text : k \in DOMAIN p.created})
    BY <1>3, <1>5, <1>6, <2>3, <2>4, PlanEffect
  <2>6. QED BY <2>1, <2>2, <2>5
<1>7. PlanOK(after)
  BY <1>5, <1>6 DEF Outgrown
<1>8. Led(t, batch, pl, d, after)
  BY <1>2, <1>4, <1>5, <1>6, <1>7 DEF Applied, Led
<1>9. QED BY <1>8

-----------------------------------------------------------------------------
(* The inductive invariant.  A receipt that had effect is remembered with   *)
(* what it was issued for: the memory it retired was active then, under the *)
(* text it still has, and is not active since.  No request can repeat that  *)
(* receipt, because its digest lists the memory among the active ones.      *)
SpentRetires ==
    \A r \in spent : r.kind \in {"supersede", "forget"} =>
        \E m \in DOMAIN memory : /\ <<m, "active", memory[m].text>> \in r.before
                                 /\ memory[m].status # "active"

CoordinatorTypeOK ==
    MemoryOK /\ turns \in Nat /\ history \in Nat /\ config \in Configs

CoordinatorInv ==
    /\ CoordinatorTypeOK /\ SpentRetires
    /\ AcceptedIsBounded /\ NeverAGuess /\ EffectIsProjected

(* Without an interaction the three statements about the last one are idle. *)
LEMMA NothingDecided ==
    /\ NoInteraction.decision.proposal = None /\ NoInteraction.decision.acts = <<>>
    /\ NoInteraction.plan = NoInteraction.planned
  BY DEF NoInteraction, Decision

LEMMA NothingHappened ==
    ASSUME last = NoInteraction
    PROVE  AcceptedIsBounded /\ NeverAGuess /\ EffectIsProjected
<1>1. last.decision.proposal = None /\ last.decision.acts = <<>> /\ last.plan = last.planned
  BY NothingDecided
<1>2. AcceptedIsBounded
  BY <1>1 DEF AcceptedIsBounded, Governing
<1>3. NeverAGuess
  BY <1>1 DEF NeverAGuess
<1>4. EffectIsProjected
  BY <1>1 DEF EffectIsProjected, Effective
<1>5. QED BY <1>2, <1>3, <1>4

LEMMA StoredOK ==
    ASSUME NEW s \in Stores
    PROVE  Stored(s) \in Seq(MemoryOf)
<1>1. s \in Seq(Contents)
  BY CoordinatorAssumption
<1>2. PICK n \in Nat : n = Len(s) /\ DOMAIN s = 1 .. n
  BY <1>1
<1>3. \A m \in 1 .. n : s[m] \in Contents
  BY <1>1, <1>2
<1>4. Stored(s) = [m \in 1 .. n |-> [text |-> s[m], status |-> "active", replaces |-> None]]
  BY <1>2 DEF Stored
<1>5. \A m \in 1 .. n : [text |-> s[m], status |-> "active", replaces |-> None] \in MemoryOf
  BY <1>3 DEF MemoryOf
<1>6. Stored(s) \in [1 .. n -> MemoryOf]
  BY <1>4, <1>5
<1>7. QED BY <1>2, <1>6

LEMMA InitInv == Init => CoordinatorInv
<1>1. SUFFICES ASSUME Init PROVE CoordinatorInv
  OBVIOUS
<1>2. CoordinatorTypeOK
  BY <1>1, StoredOK DEF Init, CoordinatorTypeOK, MemoryOK
<1>3. SpentRetires
  BY <1>1 DEF Init, SpentRetires
<1>4. AcceptedIsBounded /\ NeverAGuess /\ EffectIsProjected
  BY <1>1, NothingHappened DEF Init
<1>5. QED BY <1>2, <1>3, <1>4 DEF CoordinatorInv

(* A restart keeps the memories and forgets the interaction.                *)
LEMMA RestartInv ==
    ASSUME CoordinatorInv, Restart, memory' = memory, turns' = turns, spent' = spent
    PROVE  CoordinatorInv'
<1>1. CoordinatorTypeOK'
  BY DEF CoordinatorInv, CoordinatorTypeOK, MemoryOK, Restart
<1>2. SpentRetires'
  BY DEF CoordinatorInv, SpentRetires
<1>3. /\ last'.decision.proposal = None /\ last'.decision.acts = <<>>
      /\ last'.plan = last'.planned
  BY NothingDecided DEF Restart
<1>4. AcceptedIsBounded'
  BY <1>3 DEF AcceptedIsBounded, Governing
<1>5. NeverAGuess'
  BY <1>3 DEF NeverAGuess
<1>6. EffectIsProjected'
  BY <1>3 DEF EffectIsProjected, Effective
<1>7. QED BY <1>1, <1>2, <1>4, <1>5, <1>6 DEF CoordinatorInv

-----------------------------------------------------------------------------
(* What an interaction makes of the memories: none is lost, none changes    *)
(* its text, none comes back.                                               *)
LEMMA InteractMemory ==
    ASSUME MemoryOK, NEW after, PlanOK(after),
           \E order \in Orders(memory, after) :
              memory' = Added(Retire(memory, after), after, order)
    PROVE  /\ MemoryOK'
           /\ DOMAIN memory \subseteq DOMAIN memory'
           /\ \A m \in DOMAIN memory :
                 /\ memory'[m].text = memory[m].text
                 /\ memory'[m].status = "active" <=>
                       memory[m].status = "active" /\ m \notin Lost(after)
           /\ \A m \in DOMAIN memory' \ DOMAIN memory : memory'[m].status = "active"
           /\ {memory'[m].text : m \in DOMAIN memory' \ DOMAIN memory} = Written(after)
<1>1. PICK order \in Orders(memory, after) :
         memory' = Added(Retire(memory, after), after, order)
  OBVIOUS
<1>2. PICK mem : mem = memory'
  OBVIOUS
<1>3. /\ mem \in Seq(MemoryOf)
      /\ DOMAIN memory \subseteq DOMAIN mem
      /\ \A m \in DOMAIN memory :
            /\ mem[m].text = memory[m].text
            /\ mem[m].status = "active" <=> memory[m].status = "active" /\ m \notin Lost(after)
      /\ \A m \in DOMAIN mem \ DOMAIN memory : mem[m].status = "active"
      /\ {mem[m].text : m \in DOMAIN mem \ DOMAIN memory} = Written(after)
  BY <1>1, <1>2, AppliedMemory
<1>4. QED BY <1>2, <1>3 DEF MemoryOK

LEMMA ActiveAfter ==
    ASSUME MemoryOK, NEW after, PlanOK(after),
           \E order \in Orders(memory, after) :
              memory' = Added(Retire(memory, after), after, order)
    PROVE  /\ Active' \cap Active = Active \ Lost(after)
           /\ {memory'[m].text : m \in Active' \ Active} = Written(after)
           /\ 0 \notin DOMAIN memory' /\ Active \subseteq DOMAIN memory'
<1>1. /\ MemoryOK' /\ DOMAIN memory \subseteq DOMAIN memory'
      /\ \A m \in DOMAIN memory :
            memory'[m].status = "active" <=> memory[m].status = "active" /\ m \notin Lost(after)
      /\ \A m \in DOMAIN memory' \ DOMAIN memory : memory'[m].status = "active"
      /\ {memory'[m].text : m \in DOMAIN memory' \ DOMAIN memory} = Written(after)
  BY InteractMemory
<1>2. Active' = {m \in DOMAIN memory' : memory'[m].status = "active"}
  BY DEF Active
<1>3. Active = {m \in DOMAIN memory : memory[m].status = "active"}
  BY DEF Active
<1>4. Active' \cap Active = Active \ Lost(after)
  BY <1>1, <1>2, <1>3
<1>5. Active' \ Active = DOMAIN memory' \ DOMAIN memory
  BY <1>1, <1>2, <1>3
<1>6. 0 \notin DOMAIN memory'
  <2>1. memory' \in Seq(MemoryOf)
    BY <1>1 DEF MemoryOK
  <2>2. PICK n \in Nat : DOMAIN memory' = 1 .. n
    BY <2>1
  <2>3. QED BY <2>2
<1>7. QED BY <1>1, <1>3, <1>4, <1>5, <1>6

(* A receipt is spent with what it was issued for.                          *)
LEMMA NoReceiptWithoutTarget ==
    ASSUME NEW t, NEW p, NEW kind, NEW s, Enacts(t, Before, p, kind, s)
    PROVE  kind \in {"supersede", "forget"} =>
              \E m \in ActiveIds(Before) : Deactivated(p) = {m}
  BY DEF Enacts

LEMMA InteractSpends ==
    ASSUME CoordinatorInv, NEW t \in Statements, NEW batch \in Batches(t), Interact(t, batch)
    PROVE  SpentRetires'
<1>1. MemoryOK
  BY DEF CoordinatorInv, CoordinatorTypeOK
<1>2. PICK pl, d, after : Led(t, batch, pl, d, after)
  BY <1>1, InteractShape
<1>3. PlanOK(after) /\ d = Evaluate(t, pl, Before)
  BY <1>2 DEF Led
<1>4. after # pl => /\ d.acts # <<>>
                    /\ Outgrown(pl, after, Deactivated(d.proposal),
                                {d.proposal.created[k].text : k \in DOMAIN d.proposal.created})
  BY <1>2 DEF Led
<1>5. /\ \E order \in Orders(memory, after) :
            memory' = Added(Retire(memory, after), after, order)
      /\ spent' = IF after # pl THEN spent \cup {d.receipt} ELSE spent
  BY <1>2 DEF Led
<1>6. /\ DOMAIN memory \subseteq DOMAIN memory'
      /\ \A m \in DOMAIN memory :
            /\ memory'[m].text = memory[m].text
            /\ memory'[m].status = "active" <=>
                  memory[m].status = "active" /\ m \notin Lost(after)
  BY <1>1, <1>3, <1>5, InteractMemory
<1>7. ASSUME NEW r \in spent, r.kind \in {"supersede", "forget"}
      PROVE  \E m \in DOMAIN memory' : /\ <<m, "active", memory'[m].text>> \in r.before
                                       /\ memory'[m].status # "active"
  <2>1. PICK m \in DOMAIN memory : /\ <<m, "active", memory[m].text>> \in r.before
                                   /\ memory[m].status # "active"
    BY <1>7 DEF CoordinatorInv, SpentRetires
  <2>2. QED BY <1>6, <2>1
<1>8. ASSUME after # pl, d.receipt.kind \in {"supersede", "forget"}
      PROVE  \E m \in DOMAIN memory' : /\ <<m, "active", memory'[m].text>> \in d.receipt.before
                                       /\ memory'[m].status # "active"
  <2>1. d.acts # <<>>
    BY <1>4, <1>8
  <2>2. /\ Enacts(t, Before, d.proposal, d.receipt.kind, d.acts)
        /\ d.receipt.before = Digest(Before)
    BY <1>1, <1>3, <2>1, DecisionEnacts
  <2>3. PICK m \in ActiveIds(Before) : Deactivated(d.proposal) = {m}
    BY <1>8, <2>2, NoReceiptWithoutTarget
  <2>4. /\ m \in DOMAIN memory /\ <<m, "active", memory[m].text>> \in Digest(Before)
    BY <1>1, <2>3, ReadState
  <2>5. m \in Lost(after)
    BY <1>4, <1>8, <2>3 DEF Outgrown
  <2>6. QED BY <1>6, <2>2, <2>4, <2>5
<1>9. \A r \in spent' : r \in spent \/ (after # pl /\ r = d.receipt)
  BY <1>5
<1>10. QED BY <1>7, <1>8, <1>9 DEF SpentRetires

(***************************************************************************)
(* The step of RetireReceiptOnce: a receipt that is spent again would      *)
(* name, as active, a memory that is not.                                  *)
(***************************************************************************)
LEMMA InteractReceipt ==
    ASSUME CoordinatorInv, NEW t \in Statements, NEW batch \in Batches(t), Interact(t, batch),
           Effective', Retired(last'.decision.acts) # {}
    PROVE  last'.decision.receipt \notin spent
<1>1. MemoryOK
  BY DEF CoordinatorInv, CoordinatorTypeOK
<1>2. PICK pl, d, after : Led(t, batch, pl, d, after)
  BY <1>1, InteractShape
<1>3. /\ d = Evaluate(t, pl, Before) /\ last'.decision = d /\ d.acts # <<>>
  <2>1. d.acts = <<>> => Retired(d.acts) = {}
    BY DEF Retired
  <2>2. d = Evaluate(t, pl, Before) /\ last'.decision = d
    BY <1>2 DEF Led
  <2>3. QED BY <2>1, <2>2
<1>4. /\ Enacts(t, Before, d.proposal, d.receipt.kind, d.acts)
      /\ d.receipt.before = Digest(Before)
  BY <1>1, <1>3, DecisionEnacts
<1>5. d.receipt.kind \in {"supersede", "forget"}
  <2>1. Retired(<<Create(t, None)>>) = {}
    BY DEF Retired, Create, Retires, RetireActions
  <2>2. Retired(d.acts) # {}
    BY <1>3
  <2>3. QED BY <1>4, <2>1, <2>2 DEF Enacts
<1>6. SUFFICES ASSUME d.receipt \in spent PROVE FALSE
  BY <1>3
<1>7. PICK m \in DOMAIN memory : /\ <<m, "active", memory[m].text>> \in Digest(Before)
                                 /\ memory[m].status # "active"
  BY <1>4, <1>5, <1>6 DEF CoordinatorInv, SpentRetires
<1>8. m \in Active
  BY <1>1, <1>7, ReadState
<1>9. QED BY <1>7, <1>8 DEF Active

-----------------------------------------------------------------------------
(* The statements about an interaction hold after it.                       *)
LEMMA InteractBounded ==
    ASSUME MemoryOK, NEW t \in Statements, NEW batch \in Batches(t), Interact(t, batch)
    PROVE  AcceptedIsBounded'
<1>1. PICK pl, d, after : Led(t, batch, pl, d, after)
  BY InteractShape
<1>2. /\ d = Evaluate(t, pl, Before) /\ PlanOK(pl)
      /\ last'.decision = d /\ last'.before = Before
  BY <1>1 DEF Led
<1>3. PICK p, before : p = d.proposal /\ before = Before
  OBVIOUS
<1>4. Readable(before) /\ DOMAIN before.mem \subseteq Nat
  BY <1>3, ReadState
<1>5. ASSUME p # None, NEW q \in Deviations(p, before)
      PROVE  Bounded(q, before)
  <2>1. Shaped(p)
    BY <1>2, <1>3, <1>5, DecisionShaped
  <2>2. Pointed(q)
    BY <1>4, <1>5, <2>1, DeviationsPointed
  <2>3. QED BY <1>4, <2>2, AcceptedProposalBounded
<1>6. last'.decision.proposal = p /\ last'.before = before
  BY <1>2, <1>3
<1>7. QED BY <1>5, <1>6 DEF AcceptedIsBounded, Governing

LEMMA InteractGuesses ==
    ASSUME MemoryOK, NEW t \in Statements, NEW batch \in Batches(t), Interact(t, batch)
    PROVE  NeverAGuess'
<1>1. PICK pl, d, after : Led(t, batch, pl, d, after)
  BY InteractShape
<1>2. /\ d = Evaluate(t, pl, Before)
      /\ last'.decision = d /\ last'.before = Before /\ last'.statement = t
  BY <1>1 DEF Led
<1>3. PICK p, s, kind, before, conflicts, resolved :
         /\ p = d.proposal /\ s = d.acts /\ kind = d.receipt.kind /\ before = Before
         /\ conflicts = {m \in DOMAIN before.mem :
                           Relation[before.mem[m].text][t] = "current_state_conflict"}
         /\ resolved = UNION {ResolvePart(t, k, before, {}).targets :
                                k \in DOMAIN Reading[t].parts \cap 1 .. 3}
  OBVIOUS
<1>4. conflicts = ConflictsOf(t, before)
  <2>1. DOMAIN before.mem = ActiveIds(before)
    BY <1>3, ReadState
  <2>2. QED BY <1>3, <2>1 DEF ConflictsOf
<1>5. resolved = UNION {Alone(t, k, before) : k \in PartsRead(t)}
  BY <1>3 DEF Alone, PartsRead
<1>6. ASSUME NEW k \in DOMAIN s
      PROVE  /\ s[k].action = "supersede" => conflicts = {s[k].memory_id}
             /\ s[k].action = "forget" => resolved = {s[k].memory_id}
  <2>1. Enacts(t, before, p, kind, s)
    BY <1>2, <1>3, <1>6, DecisionEnacts
  <2>2. CASE s = <<Create(t, None)>>
    BY <1>6, <2>2 DEF Create
  <2>3. CASE \E m : s = Pair(m, t) /\ ConflictsOf(t, before) = {m}
    <3>1. PICK m : s = <<Supersede(m), Create(t, m)>> /\ conflicts = {m}
      BY <1>4, <2>3 DEF Pair
    <3>2. k = 1 \/ k = 2
      BY <1>6, <3>1
    <3>3. s[1] = Supersede(m) /\ s[2] = Create(t, m)
      BY <3>1
    <3>4. QED BY <3>1, <3>2, <3>3 DEF Supersede, Create
  <2>4. CASE \E m : s = <<Forget(m)>> /\ UNION {Alone(t, j, before) : j \in PartsRead(t)} = {m}
    <3>1. PICK m : s = <<Forget(m)>> /\ resolved = {m}
      BY <1>5, <2>4
    <3>2. k = 1 /\ s[1] = Forget(m)
      BY <1>6, <3>1
    <3>3. QED BY <3>1, <3>2 DEF Forget
  <2>5. QED BY <2>1, <2>2, <2>3, <2>4 DEF Enacts
<1>7. last'.decision.acts = s /\ last'.before = before /\ last'.statement = t
  BY <1>2, <1>3
<1>8. conflicts = {m \in DOMAIN last'.before.mem :
                     Relation[last'.before.mem[m].text][last'.statement]
                       = "current_state_conflict"}
  BY <1>3, <1>7
<1>9. resolved = UNION {ResolvePart(last'.statement, k, last'.before, {}).targets :
                          k \in DOMAIN Reading[last'.statement].parts \cap 1 .. 3}
  BY <1>3, <1>7
<1>10. QED BY <1>6, <1>7, <1>8, <1>9 DEF NeverAGuess

LEMMA InteractProjects ==
    ASSUME MemoryOK, NEW t \in Statements, NEW batch \in Batches(t), Interact(t, batch)
    PROVE  EffectIsProjected'
<1>1. PICK pl, d, after : Led(t, batch, pl, d, after)
  BY InteractShape
<1>2. /\ d = Evaluate(t, pl, Before) /\ PlanOK(pl) /\ PlanOK(after)
      /\ Lost(pl) = Retired(pl.acts)
      /\ \E order \in Orders(memory, after) :
            memory' = Added(Retire(memory, after), after, order)
  BY <1>1 DEF Led
<1>3. /\ last'.decision = d /\ last'.before = Before
      /\ last'.planned = pl /\ last'.plan = after
  BY <1>1 DEF Led
<1>4. SUFFICES ASSUME after # pl PROVE EffectIsProjected'
  BY <1>3 DEF EffectIsProjected, Effective
<1>5. PICK p, gone, asked : /\ p = d.proposal /\ gone = Deactivated(d.proposal)
                            /\ asked = {d.proposal.created[k].text :
                                          k \in DOMAIN d.proposal.created}
  OBVIOUS
<1>6. d.acts # <<>> /\ Outgrown(pl, after, gone, asked)
  BY <1>1, <1>4, <1>5 DEF Led
<1>7. Enacts(t, Before, p, d.receipt.kind, d.acts) /\ CreatedRefs(p) \subseteq {0}
  BY <1>2, <1>5, <1>6, DecisionEnacts
<1>8. asked = {} \/ asked = {t}
  BY <1>5, <1>7 DEF Enacts
<1>9. PICK planned, new : planned = Written(pl) /\ new = Written(after)
  OBVIOUS
<1>10. /\ asked \subseteq new /\ new \subseteq planned \cup asked
       /\ \E x : planned \ new \subseteq {x}
       /\ asked = {} => planned \subseteq new
  BY <1>6, <1>9 DEF Outgrown
<1>11. Cardinality(planned \ new) <= Cardinality(asked)
  <2>1. CASE asked = {}
    <3>1. planned \ new = {}
      BY <1>10, <2>1
    <3>2. QED BY <2>1, <3>1, FS_EmptySet
  <2>2. CASE asked = {t}
    <3>1. Cardinality(asked) = 1
      BY <2>2, FS_Singleton
    <3>2. PICK x : planned \ new \subseteq {x}
      BY <1>10
    <3>3. IsFiniteSet({x}) /\ Cardinality({x}) = 1
      BY FS_Singleton
    <3>4. Cardinality(planned \ new) <= Cardinality({x})
      BY <3>2, <3>3, FS_Subset
    <3>5. QED BY <3>1, <3>3, <3>4
  <2>3. QED BY <1>8, <2>1, <2>2
<1>12. /\ Active' \cap Active = Active \ Lost(after)
       /\ {memory'[m].text : m \in Active' \ Active} = new
       /\ 0 \notin DOMAIN memory' /\ Active \subseteq DOMAIN memory'
  BY <1>2, <1>9, ActiveAfter
<1>13. DOMAIN Before.mem = Active /\ ActiveIds(Before) = Active
  BY ReadState
<1>14. ProjectedActive(p, Before) = (Active \ gone) \cup CreatedRefs(p)
  BY <1>5, <1>13 DEF ProjectedActive
<1>15. Active' \cap DOMAIN Before.mem =
          (ProjectedActive(p, Before) \cap DOMAIN memory') \ Retired(pl.acts)
  <2>1. Lost(after) = Retired(pl.acts) \cup gone
    BY <1>2, <1>6 DEF Outgrown
  <2>2. QED BY <1>7, <1>12, <1>13, <1>14, <2>1
<1>16. planned = {pl.acts[k].content : k \in Creates(pl)}
  BY <1>9, LostAt
<1>17. new = {memory'[m].text : m \in {x \in Active' : x \notin DOMAIN Before.mem}}
  <2>1. {x \in Active' : x \notin DOMAIN Before.mem} = Active' \ Active
    BY <1>13
  <2>2. QED BY <1>12, <2>1
<1>18. asked = {p.created[k].text : k \in DOMAIN p.created}
  BY <1>5
<1>19. last'.decision.proposal = p
  BY <1>3, <1>5
<1>20. planned = {last'.planned.acts[k].content : k \in Creates(last'.planned)}
  BY <1>3, <1>16
<1>21. new = {memory'[m].text : m \in {x \in Active' : x \notin DOMAIN last'.before.mem}}
  BY <1>3, <1>17
<1>22. asked = {last'.decision.proposal.created[k].text :
                  k \in DOMAIN last'.decision.proposal.created}
  BY <1>18, <1>19
<1>23. Active' \cap DOMAIN last'.before.mem =
          (ProjectedActive(last'.decision.proposal, last'.before) \cap DOMAIN memory')
            \ Retired(last'.planned.acts)
  BY <1>3, <1>15, <1>19
<1>24. asked \subseteq new /\ new \subseteq planned \cup asked
  BY <1>10
<1>25. QED BY <1>11, <1>20, <1>21, <1>22, <1>23, <1>24 DEF EffectIsProjected, Governing

-----------------------------------------------------------------------------
LEMMA EventsCounted ==
    ASSUME NEW pl, PlanOK(pl)
    PROVE  Cardinality(pl.ok) \in Nat
<1>1. PICK n \in Nat : pl.ok \subseteq 1 .. n
  BY DEF PlanOK
<1>2. IsFiniteSet(1 .. n)
  BY FS_Interval
<1>3. QED BY <1>1, <1>2, FS_Subset, FS_CardinalityType

LEMMA InteractTyped ==
    ASSUME CoordinatorTypeOK, NEW t \in Statements, NEW batch \in Batches(t), Interact(t, batch)
    PROVE  CoordinatorTypeOK'
<1>1. MemoryOK
  BY DEF CoordinatorTypeOK
<1>2. PICK pl, d, after : Led(t, batch, pl, d, after)
  BY <1>1, InteractShape
<1>3. /\ PlanOK(after) /\ turns' = turns + 1 /\ config' = config
      /\ history' = history + FixedEvents + Cardinality(after.ok)
      /\ \E order \in Orders(memory, after) :
            memory' = Added(Retire(memory, after), after, order)
  BY <1>2 DEF Led
<1>4. MemoryOK'
  BY <1>1, <1>3, InteractMemory
<1>5. turns' \in Nat /\ history' \in Nat /\ config' \in Configs
  BY <1>3, EventsCounted DEF CoordinatorTypeOK, FixedEvents
<1>6. QED BY <1>4, <1>5 DEF CoordinatorTypeOK

LEMMA ProjectedIdle ==
    ASSUME EffectIsProjected, memory' = memory, last' = last, Active' = Active
    PROVE  EffectIsProjected'
<1>1. SUFFICES ASSUME Effective PROVE EffectIsProjected'
  BY DEF EffectIsProjected, Effective
<1>2. PICK planned, new, asked :
         /\ planned = {last.planned.acts[k].content : k \in Creates(last.planned)}
         /\ new = {memory[m].text : m \in {x \in Active : x \notin DOMAIN last.before.mem}}
         /\ asked = {last.decision.proposal.created[k].text :
                       k \in DOMAIN last.decision.proposal.created}
  OBVIOUS
<1>3. /\ Active \cap DOMAIN last.before.mem =
            (ProjectedActive(last.decision.proposal, last.before) \cap DOMAIN memory)
              \ Retired(last.planned.acts)
      /\ asked \subseteq new /\ new \subseteq planned \cup asked
      /\ Cardinality(planned \ new) <= Cardinality(asked)
  BY <1>1, <1>2 DEF EffectIsProjected, Governing
<1>4. Active' \cap DOMAIN last'.before.mem =
            (ProjectedActive(last'.decision.proposal, last'.before) \cap DOMAIN memory')
              \ Retired(last'.planned.acts)
  BY <1>3
<1>5. /\ planned = {last'.planned.acts[k].content : k \in Creates(last'.planned)}
      /\ asked = {last'.decision.proposal.created[k].text :
                    k \in DOMAIN last'.decision.proposal.created}
  BY <1>2
<1>6. new = {memory'[m].text : m \in {x \in Active' : x \notin DOMAIN last'.before.mem}}
  BY <1>2
<1>7. QED BY <1>3, <1>4, <1>5, <1>6 DEF EffectIsProjected, Governing

LEMMA NextInv == CoordinatorInv /\ [Next]_vars => CoordinatorInv'
<1>1. SUFFICES ASSUME CoordinatorInv, [Next]_vars PROVE CoordinatorInv'
  OBVIOUS
<1>2. ASSUME NEW t \in Statements, NEW batch \in Batches(t), Interact(t, batch)
      PROVE  CoordinatorInv'
  <2>1. CoordinatorTypeOK /\ MemoryOK
    BY <1>1 DEF CoordinatorInv, CoordinatorTypeOK
  <2>2. CoordinatorTypeOK'
    BY <1>2, <2>1, InteractTyped
  <2>3. SpentRetires'
    BY <1>1, <1>2, InteractSpends
  <2>4. AcceptedIsBounded' /\ NeverAGuess' /\ EffectIsProjected'
    BY <1>2, <2>1, InteractBounded, InteractGuesses, InteractProjects
  <2>5. QED BY <2>2, <2>3, <2>4 DEF CoordinatorInv
<1>3. ASSUME NEW t \in Statements, Deploy(t) PROVE CoordinatorInv'
  <2>1. Restart /\ memory' = memory /\ turns' = turns /\ spent' = spent
    BY <1>3 DEF Deploy, Review, Examined, Reviewed
  <2>2. QED BY <1>1, <2>1, RestartInv
<1>4. CASE Reboot
  <2>1. Restart /\ memory' = memory /\ turns' = turns /\ spent' = spent
    BY <1>4 DEF Reboot
  <2>2. QED BY <1>1, <2>1, RestartInv
<1>5. CASE UNCHANGED vars
  <2>1. /\ memory' = memory /\ turns' = turns /\ history' = history /\ config' = config
        /\ spent' = spent /\ last' = last
    BY <1>5 DEF vars
  <2>2. CoordinatorTypeOK' /\ SpentRetires'
    BY <1>1, <2>1 DEF CoordinatorInv, CoordinatorTypeOK, MemoryOK, SpentRetires
  <2>3. Active' = Active
    BY <2>1 DEF Active
  <2>4. AcceptedIsBounded' /\ NeverAGuess'
    BY <1>1, <2>1 DEF CoordinatorInv, AcceptedIsBounded, NeverAGuess, Governing
  <2>5. EffectIsProjected'
    BY <1>1, <2>1, <2>3, ProjectedIdle DEF CoordinatorInv
  <2>6. QED BY <2>2, <2>4, <2>5 DEF CoordinatorInv
<1>6. QED BY <1>1, <1>2, <1>3, <1>4, <1>5 DEF Next

(***************************************************************************)
(* The inductive invariant, in every reachable state: the memories keep    *)
(* their shape, a spent receipt is remembered with a memory that is no     *)
(* longer active, and the last interaction is bounded, resolved and        *)
(* projected (TransitionIntegrationCoordinator.evaluate,                   *)
(* transition_integration.py, and _evaluate_transition,                    *)
(* experience_engine.py).                                                  *)
(***************************************************************************)
THEOREM CoordinatorInvariant == Spec => []CoordinatorInv
<1>1. QED BY InitInv, NextInv, PTL DEF Spec

(***************************************************************************)
(* Every memory has a text, one of the three statuses and at most one      *)
(* memory it replaces; the counters that name a request are numbers        *)
(* (MemoryEntry, and TransitionRequest built in _evaluate_transition).     *)
(***************************************************************************)
THEOREM CoordinatorTypeCorrect == Spec => []CoordinatorTypeOK
<1>1. CoordinatorInv => CoordinatorTypeOK
  BY DEF CoordinatorInv
<1>2. QED BY <1>1, CoordinatorInvariant, PTL

(***************************************************************************)
(* In every reachable state, what the verifier accepts of the last         *)
(* proposal or of any deviation from it retires at most one memory, one    *)
(* that was read, of the statement's slot as far as both are known, and    *)
(* supersedes only another value of no other scope                         *)
(* (TransitionVerifier.verify, transition_verification.py).                *)
(***************************************************************************)
THEOREM VerifierIsBounded == Spec => []AcceptedIsBounded
<1>1. CoordinatorInv => AcceptedIsBounded
  BY DEF CoordinatorInv
<1>2. QED BY <1>1, CoordinatorInvariant, PTL

(***************************************************************************)
(* In every reachable state, the memory a transition supersedes is the     *)
(* only one in conflict with the statement, and the one it forgets the     *)
(* only one the request resolves to (resolve_identity, identity.py, and    *)
(* ForgetTargetResolver.resolve, forget.py).                               *)
(***************************************************************************)
THEOREM RetirementNeverGuessed == Spec => []NeverAGuess
<1>1. CoordinatorInv => NeverAGuess
  BY DEF CoordinatorInv
<1>2. QED BY <1>1, CoordinatorInvariant, PTL

(***************************************************************************)
(* In every reachable state, the active memories after an adopted          *)
(* transition are the ones the verifier projected, less what the planner   *)
(* itself retires, and every create is asked for by one of the two         *)
(* (_project, transition_verification.py, against _governed_replacement    *)
(* and _apply_memory_actions, experience_engine.py).                       *)
(***************************************************************************)
THEOREM TransitionProjected == Spec => []EffectIsProjected
<1>1. CoordinatorInv => EffectIsProjected
  BY DEF CoordinatorInv
<1>2. QED BY <1>1, CoordinatorInvariant, PTL

(***************************************************************************)
(* A receipt that retires a memory has effect at most once, whatever       *)
(* restarts, deployments and turns come between (expected_binding and      *)
(* _authorize, transition_integration.py).                                 *)
(***************************************************************************)
THEOREM ReceiptSpentOnce == Spec => RetireReceiptOnce
<1>1. ASSUME CoordinatorInv, [Next]_vars, last' # last, Effective',
             Retired(last'.decision.acts) # {}
      PROVE  last'.decision.receipt \notin spent
  <2>1. ASSUME NEW t \in Statements, NEW batch \in Batches(t), Interact(t, batch)
        PROVE  last'.decision.receipt \notin spent
    BY <1>1, <2>1, InteractReceipt
  <2>2. ~ Restart
    BY <1>1, NothingDecided DEF Restart, Effective
  <2>3. QED BY <1>1, <2>1, <2>2 DEF Next, Deploy, Reboot, vars
<1>2. CoordinatorInv /\ [Next]_vars
        => [ (last' # last /\ Effective' /\ Retired(last'.decision.acts) # {})
              => last'.decision.receipt \notin spent ]_vars
  BY <1>1
<1>3. QED BY <1>2, CoordinatorInvariant, PTL DEF Spec, RetireReceiptOnce

(***************************************************************************)
(* A memory is never removed, its text never altered, and a retired one    *)
(* never active again (_apply_memory_actions, experience_engine.py).       *)
(***************************************************************************)
NothingRevived ==
    [][ \A m \in DOMAIN memory : /\ m \in DOMAIN memory'
                                 /\ memory'[m].text = memory[m].text
                                 /\ memory[m].status # "active"
                                      => memory'[m].status # "active" ]_vars

(***************************************************************************)
(* No step of the engine, the operator or a restart removes a memory,      *)
(* alters its text or makes a retired one active again, on which the       *)
(* receipts' digests rely (_apply_memory_actions, experience_engine.py).   *)
(***************************************************************************)
THEOREM MemoriesOnlyRetired == Spec => NothingRevived
<1>1. ASSUME CoordinatorInv, [Next]_vars
      PROVE  \A m \in DOMAIN memory : /\ m \in DOMAIN memory'
                                      /\ memory'[m].text = memory[m].text
                                      /\ memory[m].status # "active"
                                           => memory'[m].status # "active"
  <2>1. MemoryOK
    BY <1>1 DEF CoordinatorInv, CoordinatorTypeOK
  <2>2. ASSUME NEW t \in Statements, NEW batch \in Batches(t), Interact(t, batch)
        PROVE  \A m \in DOMAIN memory : /\ m \in DOMAIN memory'
                                        /\ memory'[m].text = memory[m].text
                                        /\ memory[m].status # "active"
                                             => memory'[m].status # "active"
    <3>1. PICK pl, d, after : Led(t, batch, pl, d, after)
      BY <2>1, <2>2, InteractShape
    <3>2. /\ PlanOK(after)
          /\ \E order \in Orders(memory, after) :
                memory' = Added(Retire(memory, after), after, order)
      BY <3>1 DEF Led
    <3>3. /\ DOMAIN memory \subseteq DOMAIN memory'
          /\ \A m \in DOMAIN memory :
                /\ memory'[m].text = memory[m].text
                /\ memory'[m].status = "active" <=>
                      memory[m].status = "active" /\ m \notin Lost(after)
      BY <2>1, <3>2, InteractMemory
    <3>4. QED BY <3>3
  <2>3. CASE memory' = memory
    BY <2>3
  <2>4. (\E t \in Statements : Deploy(t)) \/ Reboot \/ UNCHANGED vars => memory' = memory
    BY DEF Deploy, Review, Examined, Reviewed, Reboot, vars
  <2>5. QED BY <1>1, <2>2, <2>3, <2>4 DEF Next
<1>2. CoordinatorInv /\ [Next]_vars
        => [ \A m \in DOMAIN memory : /\ m \in DOMAIN memory'
                                      /\ memory'[m].text = memory[m].text
                                      /\ memory[m].status # "active"
                                           => memory'[m].status # "active" ]_vars
  BY <1>1
<1>3. QED BY <1>2, CoordinatorInvariant, PTL DEF Spec, NothingRevived

-----------------------------------------------------------------------------
(* The seam the engine is composed with admits what the coordinator admits: *)
(* its text of a memory is read for the memories that are shown.            *)
LEMMA SeamAdmits ==
    ASSUME NEW s, NEW shown, NEW text, NEW read, \A m \in shown : text[m] = read[m],
           NEW retired, NEW pl
    PROVE  /\ AllAdmissible(s, shown, text, retired, pl)
                  <=> Static!AllAdmissible(s, shown, read, retired, pl)
           /\ AllAdmissible(s, shown, text, retired, pl)
                  <=> Runtime!AllAdmissible(s, shown, read, retired, pl)
<1>1. \A c : Matching(c, shown, text) = Matching(c, shown, read)
  BY DEF Matching
<1>2. AllAdmissible(s, shown, text, retired, pl) <=> AllAdmissible(s, shown, read, retired, pl)
  BY <1>1 DEF AllAdmissible, ControllerRejected, Rejected, DuplicateOfActive
<1>3. AllAdmissible(s, shown, read, retired, pl) <=> Static!AllAdmissible(s, shown, read, retired, pl)
  BY DEF AllAdmissible, ControllerRejected, Rejected, DuplicateOfActive, TargetNotActive, Matching,
         DuplicateOfPlanned, Creates, IsCreate, Retires, RetireActions,
         Static!AllAdmissible, Static!ControllerRejected, Static!Rejected,
         Static!DuplicateOfActive, Static!TargetNotActive, Static!Matching,
         Static!DuplicateOfPlanned, Static!Creates, Static!IsCreate, Static!Retires,
         Static!RetireActions
<1>4. AllAdmissible(s, shown, read, retired, pl) <=> Runtime!AllAdmissible(s, shown, read, retired, pl)
  BY DEF AllAdmissible, ControllerRejected, Rejected, DuplicateOfActive, TargetNotActive, Matching,
         DuplicateOfPlanned, Creates, IsCreate, Retires, RetireActions,
         Runtime!AllAdmissible, Runtime!ControllerRejected, Runtime!Rejected,
         Runtime!DuplicateOfActive, Runtime!TargetNotActive, Runtime!Matching,
         Runtime!DuplicateOfPlanned, Runtime!Creates, Runtime!IsCreate, Runtime!Retires,
         Runtime!RetireActions
<1>5. QED BY <1>2, <1>3, <1>4

(* The first of its kind in a pair.                                         *)
LEMMA FirstOfPair ==
    ASSUME NEW m, NEW t
    PROVE  /\ FirstOf(Pair(m, t), "create") = Create(t, m)
           /\ FirstOf(Pair(m, t), "supersede") = Supersede(m)
<1>1. PICK s : s = Pair(m, t)
  OBVIOUS
<1>2. /\ Len(s) = 2 /\ s[1] = Supersede(m) /\ s[2] = Create(t, m)
  BY <1>1 DEF Pair
<1>3. s[1].action = "supersede" /\ s[2].action = "create"
  BY <1>2 DEF Supersede, Create
<1>4. {i \in 1 .. Len(s) : s[i].action = "create"} = {2}
  BY <1>2, <1>3
<1>5. {i \in 1 .. Len(s) : s[i].action = "supersede"} = {1}
  BY <1>2, <1>3
<1>6. Min({2}) = 2 /\ Min({1}) = 1
  BY DEF Min
<1>7. FirstOf(s, "create") = s[2]
  BY <1>4, <1>6 DEF FirstOf, SelectInSeq
<1>8. FirstOf(s, "supersede") = s[1]
  BY <1>5, <1>6 DEF FirstOf, SelectInSeq
<1>9. QED BY <1>1, <1>2, <1>7, <1>8

(* A batch creates at most one memory, of the note.                         *)
LEMMA OneNote ==
    ASSUME NEW t \in Statements, NEW batch \in Batches(t), NEW pl, pl.acts = batch,
           pl.ok \subseteq DOMAIN batch
    PROVE  /\ \A j, k \in Creates(pl) : j = k
           /\ \A k \in Creates(pl) : Noted[t] # None /\ pl.acts[k].content = Noted[t]
           /\ Creates(pl) \subseteq 1 .. Len(pl.acts)
<1>1. CASE batch = <<>>
  BY <1>1 DEF Creates
<1>2. CASE Noted[t] # None /\ batch = <<Create(Noted[t], None)>>
  BY <1>2 DEF Creates, Create
<1>3. CASE \E m \in Active : Noted[t] # None /\ batch = <<Supersede(m), Create(Noted[t], m)>>
  BY <1>3 DEF Creates, IsCreate, Create, Supersede
<1>4. CASE \E m \in Active : batch = <<Forget(m)>>
  BY <1>4 DEF Creates, IsCreate, Forget
<1>5. QED BY <1>1, <1>2, <1>3, <1>4 DEF Batches

(* What the coordinator rewrites, the seam rewrites.                        *)
LEMMA SeamRewrites ==
    ASSUME NEW t \in Statements, NEW pl, \A j, k \in Creates(pl) : j = k,
           \A k \in Creates(pl) : Noted[t] # None /\ pl.acts[k].content = Noted[t],
           NEW m, NEW s, s = Pair(m, t), NEW n, PlanStatus(pl, n, s) = "plan_ready",
           NEW k, k = Matched(pl, n, s)
    PROVE  /\ k \in pl.ok /\ Runtime!ReplacementReady(pl, n, s, k)
           /\ \A j \in pl.ok : Runtime!ReplacementReady(pl, n, s, j) => j = k
<1>1. s[1] = Supersede(m) /\ s[2] = Create(t, m)
  BY PairEffects
<1>2. FirstOf(s, "supersede") = s[1] /\ FirstOf(s, "create") = s[2]
  BY <1>1, FirstOfPair
<1>3. /\ k \in Candidates(pl, n, s)
      /\ pl.acts[k].replaces \in {None, s[1].memory_id}
      /\ \A j \in pl.ok : j <= n => pl.acts[j] # s[2]
  BY <1>2, ReadyMeans
<1>4. /\ k \in Creates(pl) /\ k <= n
      /\ Relation[pl.acts[k].content][s[2].content] \in DuplicateRelations
  BY <1>2, <1>3 DEF Candidates, RelationTo
<1>5. s[2].content = t /\ pl.acts[k].content = Noted[t] /\ Noted[t] # None
  BY <1>1, <1>4 DEF Create
<1>6. Meaning[pl.acts[k].content] = Meaning[s[2].content]
  BY <1>4, <1>5, VocabularyShared
<1>7. Runtime!Creates(pl) = Creates(pl)
  BY DEF Runtime!Creates, Creates, Runtime!IsCreate, IsCreate
<1>8. Runtime!MatchedCreates(pl, n, s[2]) = {k}
  BY <1>4, <1>6, <1>7 DEF Runtime!MatchedCreates
<1>9. k \in pl.ok
  BY <1>4 DEF Creates
<1>10. QED BY <1>3, <1>8, <1>9 DEF Runtime!ReplacementReady

(* What may join a plan, and when the seam lets it in.                      *)
Joining(t, shown, s) ==
    \/ s = <<Create(t, None)>>
    \/ \E m \in shown : s = Pair(m, t)
    \/ \E m \in shown : s = <<Forget(m)>>

LEMMA JoiningIsAuthorized ==
    ASSUME NEW t, NEW shown, NEW s, Joining(t, shown, s)
    PROVE  /\ Static!Authorized(s, shown)
           /\ SupersedeBearing(s) => \E m \in shown : s = Pair(m, t)
           /\ \A m \in shown : s = Pair(m, t) => /\ Runtime!Authorized(s, shown)
                                                 /\ Runtime!Supersedes(Runtime!PlanOf(s)) # {}
<1>1. \A k \in DOMAIN s : Static!Retires(s[k]) => s[k].memory_id \in shown
  BY DEF Joining, Pair, Static!Retires, Static!RetireActions, Create, Supersede, Forget
<1>2. Static!Authorized(s, shown)
  BY <1>1 DEF Static!Authorized
<1>3. SupersedeBearing(s) => \E m \in shown : s = Pair(m, t)
  BY DEF Joining, SupersedeBearing, IsCreate, Create, Forget
<1>4. ASSUME NEW m \in shown, s = Pair(m, t)
      PROVE  Runtime!Authorized(s, shown) /\ Runtime!Supersedes(Runtime!PlanOf(s)) # {}
  <2>1. DOMAIN s = {1, 2} /\ s[1] = Supersede(m) /\ s[2] = Create(t, m)
    BY <1>4 DEF Pair
  <2>2. /\ Runtime!Retires(s[1]) /\ s[1].memory_id = m /\ s[1].action = "supersede"
        /\ ~ Runtime!Retires(s[2])
    BY <2>1 DEF Runtime!Retires, Runtime!RetireActions, Create, Supersede
  <2>3. Runtime!Authorized(s, shown)
    BY <1>4, <2>1, <2>2 DEF Runtime!Authorized
  <2>4. 1 \in Runtime!Supersedes(Runtime!PlanOf(s))
    BY <2>1, <2>2 DEF Runtime!Supersedes, Runtime!PlanOf
  <2>5. QED BY <2>3, <2>4
<1>5. QED BY <1>2, <1>3, <1>4

LEMMA JoiningIsTranslation ==
    ASSUME NEW t \in Contents, NEW shown \in SUBSET Ids, NEW s, Joining(t, shown, s)
    PROVE  s \in Seam!Translations
<1>1. CASE s = <<Create(t, None)>>
  BY <1>1 DEF Seam!Translations, Seam!CreateNew, Seam!Create, Create
<1>2. CASE \E m \in shown : s = Pair(m, t)
  BY <1>2 DEF Seam!Translations, Seam!SupersedeExisting, Seam!Supersede, Seam!Create, Pair,
              Supersede, Create
<1>3. CASE \E m \in shown : s = <<Forget(m)>>
  BY <1>3 DEF Seam!Translations, Seam!ForgetExisting, Seam!Forget, Forget
<1>4. QED BY <1>1, <1>2, <1>3 DEF Joining

(* What an interaction makes of the planner's plan is what the seam makes   *)
(* of it with one of its two authorities.                                   *)
Allowed(batch, before, pl, s, plan) ==
    LET shown   == DOMAIN before.mem
        text    == [m \in shown |-> before.mem[m].text]
        retired == RetiredBy(batch, shown)
        n       == Len(pl.acts)
    IN  /\ s \in Seam!Translations
        /\ plan \in {Static!WithTransition(pl, n, s, shown, shown, text, retired),
                     Runtime!WithTransition(pl, n, s, shown, shown, text, retired)}

LEMMA SeamAppends ==
    ASSUME NEW pl, NEW n, NEW s, NEW t, NEW shown, Joining(t, shown, s),
           NEW text, NEW read, \A m \in shown : text[m] = read[m], NEW retired
    PROVE  Static!WithTransition(pl, n, s, shown, shown, read, retired)
               = AppendAdmissible(pl, s, shown, text, retired)
<1>1. Static!Authorized(s, shown)
  BY JoiningIsAuthorized
<1>2. Static!WithTransition(pl, n, s, shown, shown, read, retired)
          = Static!AppendAdmissible(pl, s, shown, read, retired)
  BY <1>1 DEF Static!WithTransition
<1>3. Static!AllAdmissible(s, shown, read, retired, pl) <=> AllAdmissible(s, shown, text, retired, pl)
  BY SeamAdmits
<1>4. QED BY <1>2, <1>3 DEF Static!AppendAdmissible, AppendAdmissible

LEMMA SeamReplaces ==
    ASSUME NEW t \in Statements, NEW pl, \A j, k \in Creates(pl) : j = k,
           \A k \in Creates(pl) : Noted[t] # None /\ pl.acts[k].content = Noted[t],
           NEW shown, NEW s, Joining(t, shown, s), SupersedeBearing(s),
           NEW text, NEW read, \A m \in shown : text[m] = read[m], NEW retired, NEW n,
           NEW runtime, NEW operator, NEW from, from.shown = shown, from.text = text,
           from.retired = retired,
           GovernedReplacement(pl, n, s, runtime, operator, from) # pl
    PROVE  Runtime!WithTransition(pl, n, s, shown, shown, read, retired)
               = GovernedReplacement(pl, n, s, runtime, operator, from)
<1>1. PICK m \in shown : s = Pair(m, t)
  BY JoiningIsAuthorized
<1>2. Runtime!Authorized(s, shown) /\ Runtime!Supersedes(Runtime!PlanOf(s)) # {}
  BY <1>1, JoiningIsAuthorized
<1>3. Runtime!WithTransition(pl, n, s, shown, shown, read, retired)
          = Runtime!GovernedReplacement(pl, n, s, shown, read, retired)
  BY <1>2 DEF Runtime!WithTransition
<1>4. PICK k : k = Matched(pl, n, s)
  OBVIOUS
<1>5. /\ PlanStatus(pl, n, s) = "plan_ready"
      /\ AllAdmissible(s, shown, text, retired, Seam!Survivors(pl, k))
      /\ GovernedReplacement(pl, n, s, runtime, operator, from) = Seam!Project(pl, k, s)
  BY <1>4 DEF GovernedReplacement
<1>6. /\ k \in pl.ok /\ Runtime!ReplacementReady(pl, n, s, k)
      /\ \A j \in pl.ok : Runtime!ReplacementReady(pl, n, s, j) => j = k
  BY <1>1, <1>4, <1>5, SeamRewrites
<1>7. Runtime!Survivors(pl, k) = Seam!Survivors(pl, k)
  BY DEF Runtime!Survivors, Seam!Survivors
<1>8. Runtime!AllAdmissible(s, shown, read, retired, Runtime!Survivors(pl, k))
  BY <1>5, <1>7, SeamAdmits
<1>9. (CHOOSE j \in pl.ok : Runtime!ReplacementReady(pl, n, s, j)) = k
  BY <1>6
<1>10. Runtime!GovernedReplacement(pl, n, s, shown, read, retired) = Runtime!Project(pl, k, s)
  BY <1>6, <1>8, <1>9 DEF Runtime!GovernedReplacement
<1>11. Runtime!Project(pl, k, s) = Seam!Project(pl, k, s)
  BY DEF Runtime!Project, Seam!Project
<1>12. QED BY <1>3, <1>5, <1>10, <1>11

(* The memories fit, so each of those read has an identifier.               *)
MemoryFits == Len(memory) <= MaxMemories

LEMMA PlanIsAllowed ==
    ASSUME MemoryOK, MemoryFits, NEW t \in Statements, NEW batch \in Batches(t),
           NEW pl, pl = Admit(batch, Active, TextOf),
           NEW d, d = Evaluate(t, pl, Before),
           NEW after, after = PlanAfter(pl, d, batch), after # pl
    PROVE  Allowed(batch, Before, pl, d.acts, after)
<1>1. d.acts # <<>>
  BY AfterCases
<1>2. t \in Contents
  BY CoordinatorAssumption
<1>3. DOMAIN Before.mem = Active /\ ActiveIds(Before) = Active
  BY ReadState
<1>4. PICK s : s = d.acts
  OBVIOUS
<1>5. Joining(t, Active, s)
  BY <1>1, <1>3, <1>4, DecisionEnacts DEF Enacts, Joining
<1>6. Active \in SUBSET Ids
  BY ReadState, VocabularyShared DEF MemoryOK, MemoryFits
<1>7. s \in Seam!Translations
  BY <1>2, <1>5, <1>6, JoiningIsTranslation
<1>8. PICK n, retired, text, read :
         /\ n = Len(pl.acts) /\ retired = RetiredBy(batch, Active) /\ text = TextOf
         /\ read = [m \in Active |-> Before.mem[m].text]
  OBVIOUS
<1>9. \A m \in Active : text[m] = read[m]
  BY <1>8, ReadState DEF TextOf
<1>10. PICK from : /\ from.shown = Active /\ from.text = text /\ from.retired = retired
                   /\ after = IF s = <<>> THEN pl
                              ELSE IF (rewrites # {} \/ config.runtime) /\ SupersedeBearing(s)
                              THEN GovernedReplacement(pl, n, s, config.runtime, rewrites, from)
                              ELSE AppendAdmissible(pl, s, Active, text, retired)
  <2>1. PICK from : from = [shown |-> Active, text |-> TextOf, retired |-> RetiredBy(batch, Active),
                            digest |-> Digest(Before)]
    OBVIOUS
  <2>2. from.shown = Active /\ from.text = text /\ from.retired = retired
    BY <1>8, <2>1
  <2>3. QED BY <1>4, <1>8, <2>1, <2>2 DEF PlanAfter
<1>11. /\ \A j, k \in Creates(pl) : j = k
       /\ \A k \in Creates(pl) : Noted[t] # None /\ pl.acts[k].content = Noted[t]
  <2>1. pl.acts = batch /\ pl.ok \subseteq DOMAIN batch
    BY DEF Admit
  <2>2. QED BY <2>1, OneNote
<1>12. \/ after = Static!WithTransition(pl, n, s, Active, Active, read, retired)
       \/ after = Runtime!WithTransition(pl, n, s, Active, Active, read, retired)
  <2>1. CASE after = AppendAdmissible(pl, s, Active, text, retired)
    BY <1>5, <1>9, <2>1, SeamAppends
  <2>2. CASE /\ SupersedeBearing(s)
             /\ after = GovernedReplacement(pl, n, s, config.runtime, rewrites, from)
    <3>1. PICK shown, runtime, operator :
             shown = Active /\ runtime = config.runtime /\ operator = rewrites
      OBVIOUS
    <3>2. GovernedReplacement(pl, n, s, runtime, operator, from) # pl
      BY <2>2, <3>1
    <3>3. Joining(t, shown, s) /\ \A m \in shown : text[m] = read[m]
      BY <1>5, <1>9, <3>1
    <3>4. from.shown = shown /\ from.text = text /\ from.retired = retired
      BY <1>10, <3>1
    <3>5. Runtime!WithTransition(pl, n, s, shown, shown, read, retired)
              = GovernedReplacement(pl, n, s, runtime, operator, from)
      BY <1>11, <2>2, <3>2, <3>3, <3>4, SeamReplaces
    <3>6. QED BY <2>2, <3>1, <3>5
  <2>3. QED BY <1>1, <1>4, <1>10, <2>1, <2>2
<1>13. QED BY <1>3, <1>4, <1>7, <1>8, <1>12 DEF Allowed

FitInv == MemoryFits /\ SeamCovers

LEMMA InteractFits ==
    ASSUME MemoryOK, MemoryFits, NEW t \in Statements, NEW batch \in Batches(t),
           Interact(t, batch)
    PROVE  MemoryFits' /\ SeamCovers'
<1>1. PICK pl : pl = Admit(batch, Active, TextOf)
  OBVIOUS
<1>2. PICK d : d = Evaluate(t, pl, Before)
  OBVIOUS
<1>3. PICK after : after = PlanAfter(pl, d, batch)
  OBVIOUS
<1>4. Applied(t, batch, pl, d, after)
  BY <1>1, <1>2, <1>3 DEF Interact, Planned, Decided
<1>5. MemoryFits'
  <2>1. PICK order : memory' = Added(Retire(memory, after), after, order)
    BY <1>4 DEF Applied
  <2>2. PICK n, c : n = Len(memory) /\ c = Cardinality(Creates(after))
    OBVIOUS
  <2>3. n \in Nat /\ n + c <= MaxMemories /\ DOMAIN memory = 1 .. n
    BY <1>4, <2>2 DEF Applied, MemoryOK
  <2>4. PICK pl2, d2, after2 : Led(t, batch, pl2, d2, after2)
    BY InteractShape
  <2>5. PlanOK(after)
    BY <1>4, <2>4 DEF Led, Applied
  <2>6. c \in Nat
    BY <2>2, <2>5, CreatesCounted
  <2>7. Len(Retire(memory, after)) = n
    BY <2>3 DEF Retire
  <2>8. DOMAIN memory' = 1 .. n + c
    BY <2>1, <2>2, <2>7 DEF Added
  <2>9. Len(memory') = n + c
    BY <2>1, <2>2, <2>3, <2>6, <2>7, <2>8 DEF Added
  <2>10. QED BY <2>3, <2>9 DEF MemoryFits
<1>6. /\ last'.batch = batch /\ last'.before = Before /\ last'.decision = d
      /\ last'.planned = pl /\ last'.plan = after
  BY <1>4 DEF Applied
<1>7. after # pl => Allowed(batch, Before, pl, d.acts, after)
  BY <1>1, <1>2, <1>3, PlanIsAllowed
<1>8. SeamCovers'
  BY <1>6, <1>7 DEF SeamCovers, Effective, Allowed
<1>9. QED BY <1>5, <1>8

LEMMA FitInit == Init => FitInv
<1> SUFFICES ASSUME Init PROVE FitInv
  OBVIOUS
<1>1. PICK s \in Stores : memory = Stored(s)
  BY DEF Init
<1>2. Len(s) <= MaxMemories /\ s \in Seq(Contents)
  BY VocabularyShared, CoordinatorAssumption
<1>3. Len(memory) = Len(s)
  BY <1>1, <1>2 DEF Stored
<1>4. SeamCovers
  BY NothingDecided DEF Init, SeamCovers, Effective
<1>5. QED BY <1>2, <1>3, <1>4 DEF FitInv, MemoryFits

LEMMA FitStep == CoordinatorInv /\ FitInv /\ [Next]_vars => FitInv'
<1> SUFFICES ASSUME CoordinatorInv, FitInv, [Next]_vars PROVE FitInv'
  OBVIOUS
<1>1. MemoryOK /\ MemoryFits
  BY DEF CoordinatorInv, CoordinatorTypeOK, FitInv
<1>2. ASSUME NEW t \in Statements, NEW batch \in Batches(t), Interact(t, batch) PROVE FitInv'
  BY <1>1, <1>2, InteractFits DEF FitInv
<1>3. ASSUME Restart, memory' = memory PROVE FitInv'
  <2>1. last'.plan = last'.planned
    BY <1>3, NothingDecided DEF Restart
  <2>2. QED BY <1>1, <1>3, <2>1 DEF FitInv, MemoryFits, SeamCovers, Effective
<1>4. CASE \E t \in Statements : Deploy(t)
  BY <1>3, <1>4 DEF Deploy, Review, Examined, Reviewed
<1>5. CASE Reboot
  BY <1>3, <1>5 DEF Reboot
<1>6. CASE UNCHANGED vars
  BY <1>6 DEF vars, FitInv, MemoryFits, SeamCovers, Effective
<1>7. QED BY <1>2, <1>4, <1>5, <1>6 DEF Next

(***************************************************************************)
(* In every reachable state, what the coordinator made of the planner's    *)
(* plan is what TransitionSeam makes of it for the same actions, with an   *)
(* operator's authority or the bounded one: the engine's seam covers the   *)
(* coordinator (_evaluate_transition, experience_engine.py).               *)
(***************************************************************************)
THEOREM CoordinatorInSeam == Spec => []SeamCovers
<1>1. FitInv => SeamCovers
  BY DEF FitInv
<1>2. QED BY <1>1, FitInit, FitStep, CoordinatorInvariant, PTL DEF Spec

-----------------------------------------------------------------------------
(* A statement is a duplicate of itself.                                    *)
LEMMA SelfDuplicate ==
    ASSUME NEW t \in Contents
    PROVE  Relation[t][t] \in DuplicateRelations
<1>1. PICK id : id = Identity[t]
  OBVIOUS
<1>2. Relation[t][t] = Compare(id, id)
  BY <1>1 DEF Relation
<1> DEFINE chain == Comparisons(id, id)
<1>3. DOMAIN chain = 1 .. 9 /\ 9 \in Nat /\ 1 \in 1 .. 9
  BY DEF Comparisons
<1>4. chain[1][1] = "exact_duplicate"
  BY DEF Comparisons
<1>5. chain[1][2]
  BY DEF Comparisons, KindsCompatible
<1>6. Compare(id, id) = FirstCode(chain, ByValue(id, id))
  BY DEF Compare
<1> HIDE DEF chain
<1>7. FirstCode(chain, ByValue(id, id)) = chain[1][1]
  <2>1. \/ /\ \A k \in 1 .. 9 : ~ chain[k][2]
           /\ FirstCode(chain, ByValue(id, id)) = ByValue(id, id)
        \/ \E k \in 1 .. 9 :
              /\ chain[k][2] /\ \A j \in 1 .. 9 : j < k => ~ chain[j][2]
              /\ FirstCode(chain, ByValue(id, id)) = chain[k][1]
    BY <1>3, FirstCodeDecides, Zenon
  <2>2. PICK k \in 1 .. 9 :
              /\ \A j \in 1 .. 9 : j < k => ~ chain[j][2]
              /\ FirstCode(chain, ByValue(id, id)) = chain[k][1]
    BY <1>3, <1>5, <2>1
  <2>3. k = 1
    BY <1>3, <1>5, <2>2
  <2>4. QED BY <2>2, <2>3
<1>8. QED BY <1>2, <1>4, <1>6, <1>7 DEF DuplicateRelations

(* What may have effect was accepted.                                       *)
LEMMA EligibleIsAccepted ==
    ASSUME NEW p, NEW before, NEW r, r = Verify(p, before), r.eligible
    PROVE  Accepted(r)
<1>1. PICK faults : faults = Faults(p, before, SourceRelations(p, before))
  OBVIOUS
<1>2. r = Verdict(p, before, faults)
  BY <1>1 DEF Verify, Outcome
<1>3. \A k \in DOMAIN faults : faults[k] = None
  <2>1. SUFFICES ASSUME ~ (\A k \in DOMAIN faults : faults[k] = None) PROVE FALSE
    OBVIOUS
  <2>2. PICK fault : r = Outcome(p, StatusOf(fault), fault, FALSE, NoSpecs)
    BY <1>2, <2>1 DEF Verdict
  <2>3. QED BY <2>2 DEF Outcome
<1>4. r = Outcome(p, IF before.complete THEN "accepted" ELSE "shadow_only", None,
                  Eligible(p, before), SpecActions(p))
  BY <1>2, <1>3 DEF Verdict
<1>5. /\ r.status = IF before.complete THEN "accepted" ELSE "shadow_only"
      /\ r.eligible = Eligible(p, before)
  BY <1>4 DEF Outcome
<1>6. before.complete
  BY <1>5 DEF Eligible
<1>7. QED BY <1>5, <1>6 DEF Accepted

-----------------------------------------------------------------------------
(* The plan of a batch that notes one thing.                                *)
Noting(pl, note) == pl.acts = <<Create(note, None)>> /\ pl.ok = {1}

LEMMA NotingIsNoTransition ==
    ASSUME NEW pl, NEW note, Noting(pl, note), NEW s
    PROVE  ~ PerformedBy(pl, s)
<1>1. \A k \in pl.ok : pl.acts[k] = Create(note, None)
  BY DEF Noting
<1>2. Create(note, None).action = "create"
  BY DEF Create
<1>3. Seam!Forgets(pl) = {} /\ Seam!Supersedes(pl) = {} /\ Seam!Creates(pl) # {}
  BY <1>1, <1>2 DEF Seam!Forgets, Seam!Supersedes, Seam!Creates, Seam!IsCreate, Noting
<1>4. Seam!InferredType(pl) = "create_new"
  BY <1>3 DEF Seam!InferredType
<1>5. ~ Seam!WellFormed(pl)
  BY <1>4 DEF Seam!WellFormed
<1>6. QED BY <1>5 DEF PerformedBy, Seam!PlannerAlreadyPerforms

(* The bounded authority issues the receipt of a supersession and the       *)
(* decision adds its actions.                                               *)
LEMMA PairIsIssued ==
    ASSUME NEW t, NEW before, NEW m \in ActiveIds(before),
           NEW p, p = SupersedeProposal(t, Grounded, before, m),
           NEW r, Accepted(r), r.eligible,
           NEW tr, tr = Translation(TRUE, Pair(m, t), "supersede")
    PROVE  RuntimeIssues(p, r, tr, before)
<1>1. /\ p.type = "supersede_existing" /\ p.superseded = <<m>> /\ p.forgotten = <<>>
  BY SupersedeFields
<1>2. tr.ok /\ tr.acts = Pair(m, t) /\ tr.kind = "supersede"
  BY DEF Translation
<1>3. /\ FirstOf(tr.acts, "create") = Create(t, m)
      /\ FirstOf(tr.acts, "supersede") = Supersede(m)
  BY <1>2, FirstOfPair
<1>4. Supersede(m).memory_id = m /\ Create(t, m).replaces = m
  BY DEF Supersede, Create
<1>5. SupersedeBearing(tr.acts) /\ Len(tr.acts) = 2
  <2>1. PICK s : s = tr.acts
    OBVIOUS
  <2>2. DOMAIN s = {1, 2} /\ Len(s) = 2 /\ s[1] = Supersede(m) /\ s[2] = Create(t, m)
    BY <1>2, <2>1 DEF Pair
  <2>3. s[1].action = "supersede" /\ IsCreate(s[2])
    BY <2>2 DEF Supersede, Create, IsCreate
  <2>4. QED BY <2>1, <2>2, <2>3 DEF SupersedeBearing
<1>6. ValidSequence(tr.acts)
  BY <1>3, <1>4, <1>5 DEF ValidSequence
<1>7. PICK targets : targets = p.superseded \o p.forgotten /\ targets = <<m>>
  <2>1. <<m>> \in Seq({m}) /\ <<>> \in Seq({m})
    OBVIOUS
  <2>2. <<m>> \o <<>> = <<m>>
    BY <2>1
  <2>3. QED BY <1>1, <2>2, Zenon
<1>8. Len(targets) = 1 /\ targets[1] = m
  BY <1>7
<1>9. FirstOf(tr.acts, "supersede").memory_id = targets[1]
  BY <1>3, <1>4, <1>8
<1>10. (p.type = "supersede_existing") = (p.forgotten = <<>>)
  BY <1>1
<1>11. targets[1] \in ActiveIds(before)
  BY <1>8
<1>12. QED BY <1>1, <1>2, <1>6, <1>7, <1>8, <1>9, <1>10, <1>11 DEF RuntimeIssues

LEMMA AuthorizedExactly ==
    ASSUME NEW p, NEW r, Accepted(r), r.eligible, NEW issued, NEW binding \in issued
    PROVE  Authorization(binding, p, r, issued) = "exact_match"
<1> DEFINE chain == <<
    <<"proposal_not_verified", ~ Accepted(r)>>,
    <<"canonical_effect_ineligible", ~ r.eligible>>,
    <<"authorization_missing", issued = {}>>,
    <<"authorization_mismatch", binding \notin issued>> >>
<1>1. DOMAIN chain = 1 .. 4 /\ 4 \in Nat
  OBVIOUS
<1>2. ~ chain[1][2] /\ ~ chain[2][2] /\ ~ chain[3][2] /\ ~ chain[4][2]
  OBVIOUS
<1>3. Authorization(binding, p, r, issued) = FirstCode(chain, "exact_match")
  BY DEF Authorization
<1> HIDE DEF chain
<1>4. \A k \in 1 .. 4 : ~ chain[k][2]
  <2>1. \A k \in 1 .. 4 : k = 1 \/ k = 2 \/ k = 3 \/ k = 4
    OBVIOUS
  <2>2. QED BY <1>2, <2>1
<1>5. \/ /\ \A k \in 1 .. 4 : ~ chain[k][2]
         /\ FirstCode(chain, "exact_match") = "exact_match"
      \/ \E k \in 1 .. 4 :
            /\ chain[k][2] /\ \A j \in 1 .. 4 : j < k => ~ chain[j][2]
            /\ FirstCode(chain, "exact_match") = chain[k][1]
  BY <1>1, FirstCodeDecides, Zenon
<1>6. QED BY <1>3, <1>4, <1>5

LEMMA AddedWhenAuthorized ==
    ASSUME config.mode = "adopted", NEW p, NEW r, NEW tr, tr.ok, NEW pl, ~ PerformedBy(pl, tr.acts)
    PROVE  EffectOf(p, r, tr, pl, "exact_match") = "action_added"
<1> DEFINE chain == <<
    <<"diagnostics_only", config.mode = "shadow">>,
    <<"candidate_only", config.mode = "candidate">>,
    <<"verified_existing_actions", tr.ok /\ PerformedBy(pl, tr.acts)>>,
    <<"authorization_denied", "exact_match" # "exact_match">>,
    <<"translation_failed", ~ tr.ok>> >>
<1>1. DOMAIN chain = 1 .. 5 /\ 5 \in Nat
  OBVIOUS
<1>2. ~ chain[1][2] /\ ~ chain[2][2] /\ ~ chain[3][2] /\ ~ chain[4][2] /\ ~ chain[5][2]
  OBVIOUS
<1>3. EffectOf(p, r, tr, pl, "exact_match") = FirstCode(chain, "action_added")
  BY DEF EffectOf
<1> HIDE DEF chain
<1>4. \A k \in 1 .. 5 : ~ chain[k][2]
  <2>1. \A k \in 1 .. 5 : k = 1 \/ k = 2 \/ k = 3 \/ k = 4 \/ k = 5
    OBVIOUS
  <2>2. QED BY <1>2, <2>1
<1>5. PICK checks : checks = chain
  OBVIOUS
<1>6. DOMAIN checks = 1 .. 5 /\ \A k \in 1 .. 5 : ~ checks[k][2]
  BY <1>1, <1>4, <1>5
<1>7. FirstCode(checks, "action_added") = "action_added"
  BY <1>1, <1>6, FirstCodeDecides
<1>8. QED BY <1>3, <1>5, <1>7

(* The proposals that supersede, and what a verified one is translated to.  *)
LEMMA CorrectionSound ==
    ASSUME NEW t, NEW before, NEW p, Proposable(t, before, p), p.type = "supersede_existing"
    PROVE  \E m \in ActiveIds(before) :
              /\ ConflictsOf(t, before) = {m} /\ Unsaid(t, before)
              /\ p = SupersedeProposal(t, Grounded, before, m)
<1>1. "supersede_existing" \notin NonMutatingTypes
  BY DEF NonMutatingTypes, NoopTypes, RejectionTypes
<1>2. \A type \in NonMutatingTypes : p # KeepAll(type, t, Grounded, before)
  BY <1>1, KeepAllFields
<1>3. \A type \in {"create_new", "scoped_coexistence"} : p # AddProposal(type, t, Grounded, before)
  BY AddFields
<1>4. \A m \in ActiveIds(before) : p # ForgetProposal(t, Grounded, before, m)
  BY ForgetFields
<1>5. QED BY <1>2, <1>3, <1>4 DEF Proposable

LEMMA CorrectionTranslated ==
    ASSUME NEW t, NEW before, NEW m \in ActiveIds(before),
           NEW p, p = SupersedeProposal(t, Grounded, before, m),
           NEW r, r = Verify(p, before), Accepted(r)
    PROVE  Translate(p, r, before) = Translation(TRUE, Pair(m, t), "supersede")
<1>1. r.specs = SpecActions(p)
  <2>1. PICK rel : rel = SourceRelations(p, before)
    OBVIOUS
  <2>2. QED BY <2>1, AcceptedPasses
<1>2. /\ r.specs.create = p.created /\ r.specs.supersede = p.superseded
      /\ r.specs.forget = p.forgotten
  BY <1>1 DEF SpecActions
<1>3. PICK spec : spec = NewMemory(t, m)
  OBVIOUS
<1>4. /\ p.type = "supersede_existing" /\ p.superseded = <<m>> /\ p.forgotten = <<>>
      /\ p.created = <<spec>> /\ spec.text = t
  BY <1>3, SupersedeFields, NewMemoryText
<1>5. "supersede_existing" \notin NonMutatingTypes
  BY DEF NonMutatingTypes, NoopTypes, RejectionTypes
<1>6. PICK creates, retired : creates = r.specs.create /\ retired = r.specs.supersede
  OBVIOUS
<1>7. /\ creates # <<>> /\ creates[1].text = t
      /\ retired # <<>> /\ retired[1] = m
  BY <1>2, <1>4, <1>6
<1>8. Translate(p, r, before)
        = Translation(TRUE, <<Supersede(retired[1]), Create(creates[1].text, retired[1])>>,
                      "supersede")
  BY <1>4, <1>5, <1>6, <1>7 DEF Translate
<1>9. QED BY <1>7, <1>8 DEF Pair

LEMMA CorrectionProposed ==
    ASSUME NEW t \in Contents, NEW before, Readable(before), ActiveIds(before) \subseteq Nat,
           config.mode = "adopted", NEW pl, NEW d, d = Evaluate(t, pl, before),
           d.proposal # None, d.proposal.type = "supersede_existing", d.result.eligible
    PROVE  \E found : \E m \in ActiveIds(before) :
              /\ found = Route(t, Grounded, before) /\ d = Proposed(t, found, pl, before)
              /\ found.proposal = d.proposal /\ found.result = d.result
              /\ d.result = Verify(d.proposal, before) /\ Accepted(d.result)
              /\ ConflictsOf(t, before) = {m} /\ Unsaid(t, before)
              /\ d.proposal = SupersedeProposal(t, Grounded, before, m)
<1>1. PICK found : found = Route(t, Grounded, before)
  OBVIOUS
<1>2. d = Proposed(t, found, pl, before)
  BY <1>1 DEF Evaluate, Grounded
<1>3. Sound(found, t, before)
  BY <1>1, RouteSound
<1>4. found.proposal # None
  BY <1>2 DEF Proposed, Decision
<1>5. d.proposal = found.proposal /\ d.result = found.result
  <2>1. PICK tr : tr = Translate(found.proposal, found.result, before)
    OBVIOUS
  <2>2. PICK binding : binding = BindingOf(history, t, Grounded, before,
                                           found.proposal, found.result, tr)
    OBVIOUS
  <2>3. PICK effect : d = Concluded(found, effect, tr, binding)
    BY <1>2, <1>4, <2>1, <2>2 DEF Proposed, Judged, Authorized, Grounded
  <2>4. QED BY <2>3, ConcludedCases
<1>6. Proposable(t, before, d.proposal) /\ d.result = Verify(d.proposal, before)
  BY <1>3, <1>4, <1>5 DEF Sound
<1>7. Accepted(d.result)
  BY <1>6, EligibleIsAccepted
<1>8. PICK m \in ActiveIds(before) :
              /\ ConflictsOf(t, before) = {m} /\ Unsaid(t, before)
              /\ d.proposal = SupersedeProposal(t, Grounded, before, m)
  BY <1>6, CorrectionSound
<1>9. QED BY <1>1, <1>2, <1>5, <1>6, <1>7, <1>8

(* A correction the bounded authority sees is added to the plan.            *)
LEMMA CorrectionDecided ==
    ASSUME config.mode = "adopted", config.runtime,
           NEW t, NEW before, NEW m \in ActiveIds(before), NEW note, NEW pl, Noting(pl, note),
           NEW found, NEW p, p = found.proposal, p = SupersedeProposal(t, Grounded, before, m),
           p # None, NEW r, r = found.result, r = Verify(p, before), Accepted(r), r.eligible
    PROVE  Proposed(t, found, pl, before).acts = Pair(m, t)
<1>1. PICK tr : tr = Translation(TRUE, Pair(m, t), "supersede")
  OBVIOUS
<1>2. Translate(p, r, before) = tr
  BY <1>1, CorrectionTranslated
<1>3. tr.ok /\ tr.acts = Pair(m, t)
  BY <1>1 DEF Translation
<1>4. PICK binding : binding = BindingOf(history, t, "grounded_valid", before, p, r, tr)
  OBVIOUS
<1>5. RuntimeIssues(p, r, tr, before)
  BY <1>1, PairIsIssued
<1>6. PICK issued : issued = receipts \cup {binding}
  OBVIOUS
<1>7. Authorization(binding, p, r, issued) = "exact_match"
  BY <1>6, AuthorizedExactly
<1>8. ~ PerformedBy(pl, tr.acts)
  BY NotingIsNoTransition
<1>9. EffectOf(p, r, tr, pl, "exact_match") = "action_added"
  BY <1>3, <1>8, AddedWhenAuthorized
<1>10. Proposed(t, found, pl, before) = Authorized(found, pl, before, tr, binding)
  BY <1>2, <1>4 DEF Proposed, Judged
<1>11. Authorized(found, pl, before, tr, binding) = Concluded(found, "action_added", tr, binding)
  BY <1>5, <1>6, <1>7, <1>9 DEF Authorized
<1>12. QED BY <1>3, <1>10, <1>11 DEF Concluded, Decision

-----------------------------------------------------------------------------
(* What such a decision does to a plan of one note that says the same.      *)
LEMMA NoteIsAdmitted ==
    ASSUME MemoryOK, NEW t, NEW note, Relation[note][t] \in DuplicateRelations,
           Unsaid(t, Before), NEW batch, batch = <<Create(note, None)>>
    PROVE  Noting(Admit(batch, Active, TextOf), note)
<1>1. \A m \in Active : memory[m].text # note
  <2>1. ActiveIds(Before) = Active /\ \A m \in Active : Before.mem[m].text = memory[m].text
    BY ReadState
  <2>2. QED BY <2>1 DEF Unsaid
<1>2. Matching(note, Active, TextOf) = {}
  BY <1>1, ReadState DEF Matching, TextOf
<1>3. PICK act : act = Create(note, None)
  OBVIOUS
<1>4. ~ Retires(act) /\ act.content = note
  BY <1>3 DEF Create, Retires, RetireActions
<1>5. ~ Rejected(act, Active, TextOf, RetiredBy(batch, Active))
  BY <1>2, <1>4 DEF Rejected, TargetNotActive, DuplicateOfActive
<1>6. DOMAIN batch = {1} /\ batch[1] = act
  BY <1>3
<1>7. QED BY <1>3, <1>5, <1>6 DEF Noting, Admit

LEMMA NoteIsMatched ==
    ASSUME NEW t, NEW note, Relation[note][t] \in DuplicateRelations, NEW m \in Nat,
           NEW pl, Noting(pl, note), NEW s, s = Pair(m, t)
    PROVE  PlanStatus(pl, 1, s) = "plan_ready" /\ Matched(pl, 1, s) = 1
<1>1. /\ FirstOf(s, "create") = Create(t, m) /\ FirstOf(s, "supersede") = Supersede(m)
  BY FirstOfPair
<1>2. /\ Create(t, m).content = t /\ Create(t, m).replaces = m /\ Supersede(m).memory_id = m
  BY DEF Create, Supersede
<1>3. PICK act : act = Create(note, None) /\ pl.acts[1] = act
  BY DEF Noting
<1>4. act.content = note /\ act.replaces = None /\ IsCreate(act)
  BY <1>3 DEF Create, IsCreate
<1>5. Creates(pl) = {1}
  BY <1>3, <1>4 DEF Creates, Noting
<1>6. Candidates(pl, 1, s) = {1}
  BY <1>1, <1>2, <1>3, <1>4, <1>5 DEF Candidates, RelationTo
<1>7. Matched(pl, 1, s) = 1
  BY <1>6 DEF Matched
<1>8. SupersedeBearing(s) /\ Len(s) = 2
  <2>1. DOMAIN s = {1, 2} /\ Len(s) = 2 /\ s[1] = Supersede(m) /\ s[2] = Create(t, m)
    BY DEF Pair
  <2>2. s[1].action = "supersede" /\ IsCreate(s[2])
    BY <2>1 DEF Supersede, Create, IsCreate
  <2>3. QED BY <2>1, <2>2 DEF SupersedeBearing
<1>9. MatcherDecision(pl, 1, s) = "replacement_ready"
  <2>1. Cardinality(Candidates(pl, 1, s)) = 1
    BY <1>6, FS_Singleton
  <2>2. ~ (Cardinality(Candidates(pl, 1, s)) > 1) /\ Candidates(pl, 1, s) # {}
    BY <1>6, <2>1
  <2>3. ~ \E k \in Candidates(pl, 1, s) :
             pl.acts[k].replaces \notin {None, FirstOf(s, "supersede").memory_id}
    BY <1>3, <1>4, <1>6
  <2>4. QED BY <1>8, <2>2, <2>3 DEF MatcherDecision
<1>10. ValidSequence(s)
  BY <1>1, <1>2, <1>8 DEF ValidSequence
<1>11. ~ AlreadyPresent(pl, 1, s)
  <2>1. act # Create(t, m)
    BY <1>2, <1>4, CoordinatorAssumption
  <2>2. QED BY <1>1, <1>3, <2>1 DEF AlreadyPresent, Noting
<1>12. PlanStatus(pl, 1, s) = "plan_ready"
  <2> DEFINE chain == <<
        <<"rejected_matcher", MatcherDecision(pl, 1, s) # "replacement_ready">>,
        <<"rejected_invalid_sequence", ~ ValidSequence(s)>>,
        <<"rejected_duplicate_insertion", AlreadyPresent(pl, 1, s)>> >>
  <2>1. DOMAIN chain = 1 .. 3 /\ 3 \in Nat
    OBVIOUS
  <2>2. ~ chain[1][2] /\ ~ chain[2][2] /\ ~ chain[3][2]
    BY <1>9, <1>10, <1>11
  <2>3. PlanStatus(pl, 1, s) = FirstCode(chain, "plan_ready")
    BY <1>9 DEF PlanStatus
  <2> HIDE DEF chain
  <2>4. \A k \in 1 .. 3 : ~ chain[k][2]
    <3>1. \A k \in 1 .. 3 : k = 1 \/ k = 2 \/ k = 3
      OBVIOUS
    <3>2. QED BY <2>2, <3>1
  <2>5. FirstCode(chain, "plan_ready") = "plan_ready"
    BY <2>1, <2>4, FirstCodeDecides
  <2>6. QED BY <2>3, <2>5
<1>13. QED BY <1>7, <1>12

LEMMA CorrectionPlanned ==
    ASSUME MemoryOK, config.runtime, NEW t \in Contents, NEW note,
           Relation[note][t] \in DuplicateRelations, Unsaid(t, Before), NEW m \in Active,
           NEW batch, batch = <<Create(note, None)>>, NEW pl, Noting(pl, note),
           NEW d, d.acts = Pair(m, t)
    PROVE  PlanAfter(pl, d, batch) = Seam!Project(pl, 1, Pair(m, t))
<1>1. PICK s, retired : s = Pair(m, t) /\ retired = RetiredBy(batch, Active)
  OBVIOUS
<1>2. /\ DOMAIN s = {1, 2} /\ s[1] = Supersede(m) /\ s[2] = Create(t, m) /\ s # <<>>
  BY <1>1 DEF Pair
<1>3. /\ s[1].action = "supersede" /\ s[1].memory_id = m /\ Retires(s[1]) /\ ~ IsCreate(s[1])
      /\ IsCreate(s[2]) /\ ~ Retires(s[2]) /\ s[2].content = t
  BY <1>2 DEF Supersede, Create, IsCreate, Retires, RetireActions
<1>4. SupersedeBearing(s)
  BY <1>2, <1>3 DEF SupersedeBearing
<1>5. m \in Nat
  BY ReadState
<1>6. PlanStatus(pl, 1, s) = "plan_ready" /\ Matched(pl, 1, s) = 1
  BY <1>1, <1>5, NoteIsMatched
<1>7. Matching(t, Active, TextOf) = {}
  <2>1. ActiveIds(Before) = Active /\ \A x \in Active : Before.mem[x].text = memory[x].text
    BY ReadState
  <2>2. \A x \in Active : memory[x].text # t
    BY <2>1, SelfDuplicate DEF Unsaid
  <2>3. QED BY <2>2, ReadState DEF Matching, TextOf
<1>8. Creates(Seam!Survivors(pl, 1)) = {}
  BY DEF Seam!Survivors, Creates, Noting
<1>9. AllAdmissible(s, Active, TextOf, retired, Seam!Survivors(pl, 1))
  <2>1. ~ ControllerRejected(s[1], Active, TextOf, retired, Seam!Survivors(pl, 1))
    BY <1>3 DEF ControllerRejected, Rejected, TargetNotActive, DuplicateOfActive, DuplicateOfPlanned
  <2>2. ~ ControllerRejected(s[2], Active, TextOf, retired, Seam!Survivors(pl, 1))
    BY <1>3, <1>7, <1>8
       DEF ControllerRejected, Rejected, TargetNotActive, DuplicateOfActive, DuplicateOfPlanned
  <2>3. QED BY <1>2, <2>1, <2>2 DEF AllAdmissible
<1>10. Len(pl.acts) = 1
  BY DEF Noting
<1>11. PICK from : /\ from.shown = Active /\ from.text = TextOf /\ from.retired = retired
                   /\ PlanAfter(pl, d, batch) = GovernedReplacement(pl, 1, s, TRUE, rewrites, from)
  <2>1. PICK from : from = [shown |-> Active, text |-> TextOf, retired |-> retired,
                            digest |-> Digest(Before)]
    OBVIOUS
  <2>2. /\ from.shown = Active /\ from.text = TextOf /\ from.retired = retired
    BY <2>1
  <2>3. PlanAfter(pl, d, batch) = GovernedReplacement(pl, 1, s, config.runtime, rewrites, from)
    BY <1>1, <1>2, <1>4, <1>10, <2>1 DEF PlanAfter
  <2>4. GovernedReplacement(pl, 1, s, config.runtime, rewrites, from)
          = GovernedReplacement(pl, 1, s, TRUE, rewrites, from)
    BY DEF GovernedReplacement
  <2>5. QED BY <2>2, <2>3, <2>4
<1>12. QED BY <1>1, <1>6, <1>9, <1>11 DEF GovernedReplacement

(* The rewritten plan supersedes the old memory and creates the new one.    *)
LEMMA CorrectedPlan ==
    ASSUME NEW pl, NEW note, Noting(pl, note), NEW m, NEW t,
           NEW q, q = Seam!Project(pl, 1, Pair(m, t))
    PROVE  /\ q.acts[1] = Supersede(m) /\ q.acts[2] = Create(t, m)
           /\ Retirements(q) = {1} /\ Creates(q) = {2}
<1>1. PICK s : s = Pair(m, t)
  OBVIOUS
<1>2. s[1] = Supersede(m) /\ s[2] = Create(t, m)
  BY <1>1 DEF Pair
<1>3. Len(pl.acts) = 1 /\ pl.ok = {1}
  BY DEF Noting
<1>4. q.acts = [j \in 1 .. 2 |-> CASE j < 1     -> pl.acts[j]
                                   [] j = 1     -> s[1]
                                   [] j = 1 + 1 -> s[2]
                                   [] j > 1 + 1 -> pl.acts[j - 1]]
  BY <1>1, <1>3 DEF Seam!Project
<1>5. q.acts[1] = s[1] /\ q.acts[2] = s[2]
  BY <1>4
<1>6. q.ok = {1, 2}
  BY <1>3 DEF Seam!Project
<1>7. /\ Retires(q.acts[1]) /\ ~ IsCreate(q.acts[1])
      /\ IsCreate(q.acts[2]) /\ ~ Retires(q.acts[2])
  BY <1>2, <1>5 DEF Supersede, Create, IsCreate, Retires, RetireActions
<1>8. Retirements(q) = {1} /\ Creates(q) = {2}
  BY <1>6, <1>7 DEF Retirements, Creates
<1>9. QED BY <1>2, <1>5, <1>8

LEMMA CorrectedMemory ==
    ASSUME MemoryOK, NEW m \in Active, NEW t, NEW q,
           q.acts[1] = Supersede(m), q.acts[2] = Create(t, m),
           Retirements(q) = {1}, Creates(q) = {2}, NEW order \in Orders(memory, q),
           NEW mem, mem = Added(Retire(memory, q), q, order), NEW n, n = Len(memory)
    PROVE  /\ n \in Nat /\ DOMAIN memory = 1 .. n /\ DOMAIN mem = 1 .. n + 1
           /\ mem[m].status = "superseded"
           /\ \A x \in DOMAIN memory : x # m => mem[x] = memory[x]
           /\ mem[n + 1] = [text |-> t, status |-> "active", replaces |-> m]
<1>1. n \in Nat /\ DOMAIN memory = 1 .. n /\ m \in 1 .. n
  BY ReadState DEF MemoryOK
<1>2. PICK kept : kept = Retire(memory, q)
  OBVIOUS
<1>3. DOMAIN kept = 1 .. n
  BY <1>1, <1>2 DEF Retire
<1>4. /\ Supersede(m).memory_id = m /\ Supersede(m).action = "supersede"
      /\ Create(t, m).content = t /\ Create(t, m).replaces = m
  BY DEF Supersede, Create
<1>5. ASSUME NEW x \in 1 .. n PROVE x # m => kept[x] = memory[x]
  <2>1. x # m => {k \in Retirements(q) : q.acts[k].memory_id = x} = {}
    BY <1>4
  <2>2. QED BY <1>1, <1>2, <2>1 DEF Retire
<1>6. kept[m].status = "superseded"
  <2>1. {k \in Retirements(q) : q.acts[k].memory_id = m} = {1}
    BY <1>4
  <2>2. Max({1}) = 1
    BY DEF Max
  <2>3. PICK old : old = memory[m]
    OBVIOUS
  <2>4. old \in MemoryOf
    BY <1>1, <2>3 DEF MemoryOK
  <2>5. kept[m] = [old EXCEPT !.status = "superseded"]
    BY <1>1, <1>2, <1>4, <2>1, <2>2, <2>3 DEF Retire
  <2>6. QED BY <2>4, <2>5 DEF MemoryOf
<1>7. Len(kept) = n
  <2>1. kept = [x \in 1 .. n |-> kept[x]]
    BY <1>1, <1>2 DEF Retire
  <2>2. QED BY <1>1, <2>1, <1>3
<1>8. Cardinality(Creates(q)) = 1
  BY FS_Singleton
<1>9. order[n + 1] = 2
  <2>1. order \in [n + 1 .. n + 1 -> {2}]
    BY <1>8 DEF Orders
  <2>2. n + 1 \in n + 1 .. n + 1
    BY <1>1
  <2>3. QED BY <2>1, <2>2
<1>10. mem = [x \in 1 .. n + 1 |->
                IF x <= n THEN kept[x]
                ELSE [text |-> q.acts[order[x]].content, status |-> "active",
                      replaces |-> q.acts[order[x]].replaces]]
  BY <1>2, <1>7, <1>8 DEF Added
<1>11. \A x \in 1 .. n : mem[x] = kept[x]
  BY <1>1, <1>10
<1>12. mem[n + 1] = [text |-> t, status |-> "active", replaces |-> m]
  BY <1>1, <1>4, <1>9, <1>10
<1>13. QED BY <1>1, <1>5, <1>6, <1>10, <1>11, <1>12

(* As many memories are active as before.                                   *)
LEMMA OneForOne ==
    ASSUME NEW n \in Nat, NEW S \in SUBSET (1 .. n), NEW m \in S
    PROVE  Cardinality((S \ {m}) \cup {n + 1}) = Cardinality(S)
<1>1. IsFiniteSet(S)
  <2>1. 1 \in Int /\ n \in Int
    OBVIOUS
  <2>2. IsFiniteSet(1 .. n)
    BY <2>1, FS_Interval
  <2>3. QED BY <2>2, FS_Subset
<1>2. /\ IsFiniteSet(S \ {m}) /\ Cardinality(S \ {m}) = Cardinality(S) - 1
      /\ Cardinality(S) \in Nat
  BY <1>1, FS_RemoveElement, FS_CardinalityType
<1>3. n + 1 \notin S \ {m}
  OBVIOUS
<1>4. Cardinality((S \ {m}) \cup {n + 1}) = Cardinality(S \ {m}) + 1
  BY <1>2, <1>3, FS_AddElement
<1>5. QED BY <1>1, <1>2, <1>4

-----------------------------------------------------------------------------
(* An interaction that is a correction.                                     *)
LEMMA InteractCorrects ==
    ASSUME MemoryOK, NEW t \in Statements, NEW batch \in Batches(t), Interact(t, batch),
           NoteMatches(t)
    PROVE  CorrectionTakesEffect'
<1>1. PICK pl : pl = Admit(batch, Active, TextOf)
  OBVIOUS
<1>2. PICK d : d = Evaluate(t, pl, Before)
  OBVIOUS
<1>3. PICK after : after = PlanAfter(pl, d, batch)
  OBVIOUS
<1>4. Applied(t, batch, pl, d, after)
  BY <1>1, <1>2, <1>3 DEF Interact, Planned, Decided
<1>5. /\ last'.statement = t /\ last'.batch = batch /\ last'.before = Before
      /\ last'.decision = d /\ config' = config
  BY <1>4 DEF Applied
<1>6. SUFFICES ASSUME config.mode = "adopted", config.runtime, d.proposal # None,
                      d.result.eligible, d.proposal.type = "supersede_existing",
                      batch = <<Create(Noted[t], None)>>
               PROVE  /\ memory'[d.proposal.superseded[1]].status = "superseded"
                      /\ \E m \in Active' : /\ memory'[m].text = t
                                            /\ memory'[m].replaces = d.proposal.superseded[1]
                      /\ Cardinality(Active') = Cardinality(DOMAIN Before.mem)
  BY <1>5 DEF CorrectionTakesEffect, Governing
<1>7. PICK note : note = Noted[t]
  OBVIOUS
<1>8. Relation[note][t] \in DuplicateRelations
  <2>1. Create(Noted[t], None).action = "create" /\ \A m : Forget(m).action # "create"
    BY DEF Create, Forget
  <2>2. batch # <<>> /\ \A m : batch # <<Forget(m)>>
    BY <1>6, <2>1
  <2>3. Noted[t] # None
    BY <2>2 DEF Batches
  <2>4. QED BY <1>7, <2>3 DEF NoteMatches
<1>9. /\ t \in Contents /\ Readable(Before) /\ ActiveIds(Before) = Active /\ Active \subseteq Nat
  BY ReadState, CoordinatorAssumption
<1>10. PICK found : \E m \in Active :
              /\ d = Proposed(t, found, pl, Before)
              /\ found.proposal = d.proposal /\ found.result = d.result
              /\ d.result = Verify(d.proposal, Before) /\ Accepted(d.result)
              /\ Unsaid(t, Before)
              /\ d.proposal = SupersedeProposal(t, Grounded, Before, m)
  <2>1. PICK before : before = Before
    OBVIOUS
  <2>2. /\ Readable(before) /\ ActiveIds(before) \subseteq Nat
        /\ d = Evaluate(t, pl, before)
    BY <1>2, <1>9, <2>1
  <2>3. PICK found : \E m \in ActiveIds(before) :
              /\ found = Route(t, Grounded, before) /\ d = Proposed(t, found, pl, before)
              /\ found.proposal = d.proposal /\ found.result = d.result
              /\ d.result = Verify(d.proposal, before) /\ Accepted(d.result)
              /\ ConflictsOf(t, before) = {m} /\ Unsaid(t, before)
              /\ d.proposal = SupersedeProposal(t, Grounded, before, m)
    BY <1>6, <1>9, <2>2, CorrectionProposed
  <2>4. QED BY <1>9, <2>1, <2>3
<1>11. PICK m \in Active :
              /\ d = Proposed(t, found, pl, Before)
              /\ found.proposal = d.proposal /\ found.result = d.result
              /\ d.result = Verify(d.proposal, Before) /\ Accepted(d.result)
              /\ Unsaid(t, Before)
              /\ d.proposal = SupersedeProposal(t, Grounded, Before, m)
  BY <1>10
<1>12. Noting(pl, note)
  BY <1>1, <1>6, <1>7, <1>8, <1>11, NoteIsAdmitted
<1>13. PICK before : before = Before
  OBVIOUS
<1>14. d.acts = Pair(m, t)
  <2>1. PICK p, r : p = d.proposal /\ r = d.result
    OBVIOUS
  <2>2. /\ p = found.proposal /\ p = SupersedeProposal(t, Grounded, before, m) /\ p # None
        /\ r = found.result /\ r = Verify(p, before) /\ Accepted(r) /\ r.eligible
    BY <1>6, <1>11, <1>13, <2>1
  <2>3. m \in ActiveIds(before)
    BY <1>9, <1>13
  <2>4. Proposed(t, found, pl, before).acts = Pair(m, t)
    BY <1>6, <1>12, <2>2, <2>3, CorrectionDecided
  <2>5. QED BY <1>11, <1>13, <2>4
<1>15. after = Seam!Project(pl, 1, Pair(m, t))
  BY <1>3, <1>6, <1>7, <1>8, <1>9, <1>11, <1>12, <1>14, CorrectionPlanned
<1>16. /\ after.acts[1] = Supersede(m) /\ after.acts[2] = Create(t, m)
       /\ Retirements(after) = {1} /\ Creates(after) = {2}
  BY <1>12, <1>15, CorrectedPlan
<1>17. PICK n, mem : n = Len(memory) /\ mem = memory'
  OBVIOUS
<1>18. PICK order \in Orders(memory, after) : mem = Added(Retire(memory, after), after, order)
  BY <1>4, <1>17 DEF Applied
<1>19. /\ n \in Nat /\ DOMAIN memory = 1 .. n /\ DOMAIN mem = 1 .. n + 1
       /\ mem[m].status = "superseded"
       /\ \A x \in DOMAIN memory : x # m => mem[x] = memory[x]
       /\ mem[n + 1] = [text |-> t, status |-> "active", replaces |-> m]
  BY <1>16, <1>17, <1>18, CorrectedMemory
<1>20. d.proposal.superseded[1] = m
  <2>1. PICK p : p = d.proposal
    OBVIOUS
  <2>2. p.superseded = <<m>>
    BY <1>11, <2>1, SupersedeFields
  <2>3. QED BY <2>1, <2>2
<1>21. Active' = (Active \ {m}) \cup {n + 1}
  <2>1. Active' = {x \in DOMAIN mem : mem[x].status = "active"}
    BY <1>17 DEF Active
  <2>2. Active = {x \in 1 .. n : memory[x].status = "active"}
    BY <1>19 DEF Active
  <2>3. mem[n + 1].status = "active" /\ n + 1 \in 1 .. n + 1 /\ 1 .. n + 1 = (1 .. n) \cup {n + 1}
    BY <1>19
  <2>4. \A x \in 1 .. n : mem[x].status = "active" <=> x # m /\ memory[x].status = "active"
    BY <1>19
  <2>5. QED BY <1>19, <2>1, <2>2, <2>3, <2>4
<1>22. Cardinality(Active') = Cardinality(DOMAIN Before.mem)
  <2>1. PICK S : S = Active
    OBVIOUS
  <2>2. S \in SUBSET (1 .. n) /\ m \in S
    BY <1>19, <2>1, ReadState
  <2>3. Cardinality((S \ {m}) \cup {n + 1}) = Cardinality(S)
    BY <1>19, <2>2, OneForOne
  <2>4. QED BY <1>21, <2>1, <2>3, ReadState
<1>23. QED BY <1>17, <1>19, <1>20, <1>21, <1>22

CorrectsInv == NoteMatches(last.statement) => CorrectionTakesEffect

LEMMA NothingCorrected ==
    ASSUME last = NoInteraction
    PROVE  CorrectionTakesEffect
  BY NothingDecided DEF CorrectionTakesEffect, Governing

LEMMA CorrectsStep == CoordinatorInv /\ CorrectsInv /\ [Next]_vars => CorrectsInv'
<1> SUFFICES ASSUME CoordinatorInv, CorrectsInv, [Next]_vars PROVE CorrectsInv'
  OBVIOUS
<1>1. MemoryOK
  BY DEF CoordinatorInv, CoordinatorTypeOK
<1>2. ASSUME NEW t \in Statements, NEW batch \in Batches(t), Interact(t, batch) PROVE CorrectsInv'
  <2>1. last'.statement = t
    BY <1>2 DEF Interact, Planned, Decided, Applied
  <2>2. QED BY <1>1, <1>2, <2>1, InteractCorrects DEF CorrectsInv, NoteMatches
<1>3. ASSUME Restart PROVE CorrectsInv'
  <2>1. last'.decision.proposal = None
    BY <1>3, NothingDecided DEF Restart
  <2>2. QED BY <2>1 DEF CorrectsInv, CorrectionTakesEffect, Governing
<1>4. CASE \E t \in Statements : Deploy(t)
  BY <1>3, <1>4 DEF Deploy
<1>5. CASE Reboot
  BY <1>3, <1>5 DEF Reboot
<1>6. CASE UNCHANGED vars
  BY <1>6 DEF vars, CorrectsInv, CorrectionTakesEffect, NoteMatches, Governing, Active
<1>7. QED BY <1>2, <1>4, <1>5, <1>6 DEF Next

(***************************************************************************)
(* In every reachable state, when what the planner notes of the last       *)
(* statement is a duplicate of it to the matcher, a correction that was    *)
(* accepted under the bounded authority has taken effect: one memory for   *)
(* the other, and the note in the place of neither                         *)
(* (_governed_replacement, experience_engine.py).                          *)
(***************************************************************************)
THEOREM CorrectionApplied ==
    Spec => [](NoteMatches(last.statement) => CorrectionTakesEffect)
<1>1. Init => CorrectsInv
  BY NothingCorrected DEF Init, CorrectsInv
<1>2. CorrectsInv => (NoteMatches(last.statement) => CorrectionTakesEffect)
  BY DEF CorrectsInv
<1>3. QED BY <1>1, <1>2, CorrectsStep, CoordinatorInvariant, PTL DEF Spec
=============================================================================
