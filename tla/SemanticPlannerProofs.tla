----------------------- MODULE SemanticPlannerProofs -----------------------
(***************************************************************************)
(* Proofs about the planners: for every message, every set of memories and *)
(* every choice of keys and identities, the batch is Linked, which is what *)
(* the engine's model assumes of a policy with PairedReplacements.         *)
(***************************************************************************)
EXTENDS PathInvariant, PolicyPathProofs

LEMMA ActionTypes ==
    ASSUME NEW i \in Ids, NEW c \in Contents, NEW r \in Ids \cup {None}
    PROVE  /\ Create(c, r) \in MemoryAction /\ IsCreate(Create(c, r))
           /\ Create(c, r).replaces = r /\ ~ Retires(Create(c, r))
           /\ Supersede(i) \in MemoryAction /\ ~ IsCreate(Supersede(i))
           /\ Forget(i) \in MemoryAction /\ ~ IsCreate(Forget(i))
           /\ Supersede(i).memory_id = i /\ Forget(i).memory_id = i
  BY DEF MemoryAction, Create, Supersede, Forget, IsCreate, Retires, RetireActions

LEMMA ActionShape ==
    ASSUME NEW act \in MemoryAction
    PROVE  /\ IsCreate(act) <=> ~ Retires(act)
           /\ IsCreate(act) => act.content \in Contents /\ act.replaces \in Ids \cup {None}
           /\ Retires(act) => act.memory_id \in Ids
           /\ act.action = "supersede" => ~ IsCreate(act)
  BY DEF MemoryAction, IsCreate, Retires, RetireActions

(* Extending a linked batch.                                                *)
LEMMA LinkedAppend ==
    ASSUME NEW s \in Seq(MemoryAction), NEW act \in MemoryAction, Linked(s),
           IsCreate(act) => act.replaces = None
    PROVE  Linked(Append(s, act))
<1> DEFINE t == Append(s, act)
<1>1. /\ DOMAIN t = 1 .. Len(s) + 1 /\ DOMAIN s = 1 .. Len(s) /\ Len(s) \in Nat
      /\ \A k \in DOMAIN s : t[k] = s[k]
      /\ t[Len(s) + 1] = act
  OBVIOUS
<1>2. ASSUME NEW k \in DOMAIN t, IsCreate(t[k]), t[k].replaces # None
      PROVE  \E j \in DOMAIN t : t[j] = Supersede(t[k].replaces)
  <2>1. k \in DOMAIN s /\ t[k] = s[k]
    BY <1>1, <1>2
  <2>2. PICK j \in DOMAIN s : s[j] = Supersede(s[k].replaces)
    BY <2>1, <1>2 DEF Linked
  <2>3. QED BY <1>1, <2>1, <2>2
<1>3. QED BY <1>2 DEF Linked

LEMMA LinkedPair ==
    ASSUME NEW s \in Seq(MemoryAction), NEW i \in Ids, NEW c \in Contents, Linked(s)
    PROVE  Linked(s \o <<Supersede(i), Create(c, i)>>)
<1> DEFINE t == s \o <<Supersede(i), Create(c, i)>>
<1>1. /\ DOMAIN t = 1 .. Len(s) + 2 /\ DOMAIN s = 1 .. Len(s) /\ Len(s) \in Nat
      /\ \A k \in DOMAIN s : t[k] = s[k]
      /\ t[Len(s) + 1] = Supersede(i) /\ t[Len(s) + 2] = Create(c, i)
  OBVIOUS
<1>2. ASSUME NEW k \in DOMAIN t, IsCreate(t[k]), t[k].replaces # None
      PROVE  \E j \in DOMAIN t : t[j] = Supersede(t[k].replaces)
  <2>1. CASE k \in DOMAIN s
    <3>1. PICK j \in DOMAIN s : s[j] = Supersede(s[k].replaces)
      BY <1>1, <1>2, <2>1 DEF Linked
    <3>2. QED BY <1>1, <2>1, <3>1
  <2>2. CASE k = Len(s) + 1
    BY <1>1, <1>2, <2>2, ActionTypes
  <2>3. CASE k = Len(s) + 2
    <3>1. t[k].replaces = i
      BY <1>1, <2>3, ActionTypes
    <3>2. Len(s) + 1 \in DOMAIN t
      BY <1>1
    <3>3. QED BY <1>1, <3>1, <3>2
  <2>4. QED BY <1>1, <2>1, <2>2, <2>3
<1>3. QED BY <1>2 DEF Linked

(* Extending a batch that only names memories that were read.               *)
LEMMA TargetsAppend ==
    ASSUME NEW s \in Seq(MemoryAction), NEW act \in MemoryAction, TargetsRead(s),
           Retires(act) => act.memory_id \in Read,
           IsCreate(act) => act.replaces \in Read \cup {None}
    PROVE  TargetsRead(Append(s, act))
<1> DEFINE t == Append(s, act)
<1>1. /\ DOMAIN t = 1 .. Len(s) + 1 /\ DOMAIN s = 1 .. Len(s) /\ Len(s) \in Nat
      /\ \A k \in DOMAIN s : t[k] = s[k]
      /\ t[Len(s) + 1] = act
  OBVIOUS
<1>2. \A k \in DOMAIN t : k \in DOMAIN s \/ t[k] = act
  BY <1>1
<1>3. QED BY <1>1, <1>2 DEF TargetsRead

LEMMA TargetsPair ==
    ASSUME NEW s \in Seq(MemoryAction), NEW i \in Read, i \in Ids,
           NEW c \in Contents, TargetsRead(s)
    PROVE  TargetsRead(s \o <<Supersede(i), Create(c, i)>>)
<1> DEFINE t == Append(Append(s, Supersede(i)), Create(c, i))
<1>1. /\ Supersede(i) \in MemoryAction /\ Create(c, i) \in MemoryAction
      /\ Supersede(i).memory_id = i /\ Create(c, i).replaces = i
      /\ ~ IsCreate(Supersede(i)) /\ ~ Retires(Create(c, i))
  BY ActionTypes
<1>2. TargetsRead(Append(s, Supersede(i))) /\ Append(s, Supersede(i)) \in Seq(MemoryAction)
  BY <1>1, TargetsAppend
<1>3. TargetsRead(t)
  BY <1>1, <1>2, TargetsAppend
<1>4. s \o <<Supersede(i), Create(c, i)>> = t
  BY <1>1
<1>5. QED BY <1>3, <1>4

-----------------------------------------------------------------------------
(* The loops of the rules: only the batch grows.                            *)
RulesPCs == {"forget", "preferences", "statements", "planned"}

LEMMA RulesFrame ==
    ASSUME PlannerInv, pc \in RulesPCs, pc' \in RulesPCs,
           UNCHANGED <<inputs, entry, result>>,
           next' \in Nat \ {0}, seen' \subseteq Contents, superseded' \subseteq Ids,
           pc' = "planned" => next' = 1,
           actions' \in Seq(MemoryAction), Linked(actions'), TargetsRead(actions')
    PROVE  PlannerInv'
<1>1. /\ existing' = existing /\ preferences' = preferences /\ statements' = statements
      /\ entry' = entry /\ result' = result
  BY DEF inputs
<1>2. result = <<>>
  BY DEF PlannerInv, Rewriting, RulesPCs
<1>3. TypeOK'
  BY <1>1 DEF PlannerInv, TypeOK, PlannerTypeOK, PlannerPCs, RulesPCs
<1>4. Read' = Read
  BY <1>1 DEF Read
<1>5. TargetsRead(actions)' /\ TargetsRead(result)'
  BY <1>1, <1>2, <1>4 DEF TargetsRead, PlannerInv
<1>6. RulesLinked'
  BY DEF RulesLinked
<1>7. VetoUnlinks' /\ SlotsKeepPairs' /\ RevisionSupersedes'
  BY DEF VetoUnlinks, SlotsKeepPairs, RevisionSupersedes, Rewriting, RulesPCs
<1>8. QED BY <1>1, <1>2, <1>3, <1>5, <1>6, <1>7 DEF PlannerInv, Rewriting, RulesPCs

(* One statement keeps the batch of the rules what it is. *)
LEMMA RememberGood ==
    ASSUME PlannerInv, NEW c \in Contents, NEW spared, Remember(c, spared)
    PROVE  /\ actions' \in Seq(MemoryAction) /\ superseded' \subseteq Ids
           /\ Linked(actions') /\ TargetsRead(actions')
<1>1. /\ actions \in Seq(MemoryAction) /\ superseded \subseteq Ids
      /\ existing \in Seq(Memories) /\ Linked(actions) /\ TargetsRead(actions)
  BY DEF PlannerInv, TypeOK, PlannerTypeOK, RulesLinked
<1>2. CASE actions' = Append(actions, Create(c, None)) /\ UNCHANGED superseded
  <2>1. /\ Create(c, None) \in MemoryAction /\ Create(c, None).replaces = None
        /\ ~ Retires(Create(c, None))
    BY DEF MemoryAction, Create, Retires, RetireActions
  <2>2. QED BY <1>1, <1>2, <2>1, LinkedAppend, TargetsAppend
<1>3. ASSUME NEW k \in Conflicts(c, spared),
             actions' = actions \o <<Supersede(existing[k].id), Create(c, existing[k].id)>>,
             superseded' = superseded \cup {existing[k].id}
      PROVE  /\ actions' \in Seq(MemoryAction) /\ superseded' \subseteq Ids
             /\ Linked(actions') /\ TargetsRead(actions')
  <2>1. k \in DOMAIN existing
    BY DEF Conflicts
  <2>2. existing[k] \in Memories
    BY <1>1, <2>1
  <2>3. existing[k].id \in Ids /\ existing[k].id \in Read
    BY <2>1, <2>2 DEF Memories, Read
  <2>4. Supersede(existing[k].id) \in MemoryAction /\ Create(c, existing[k].id) \in MemoryAction
    BY <2>3, ActionTypes
  <2>5. actions' \in Seq(MemoryAction)
    BY <1>1, <1>3, <2>4
  <2>6. QED BY <1>1, <1>3, <2>3, <2>5, LinkedPair, TargetsPair
<1>4. QED BY <1>2, <1>3 DEF Remember

LEMMA RulesGood ==
    ASSUME PlannerInv, Rules, ~ Asked
    PROVE  PlannerInv'
<1>1. /\ actions \in Seq(MemoryAction) /\ superseded \subseteq Ids /\ next \in Nat \ {0}
      /\ existing \in Seq(Memories) /\ Linked(actions) /\ TargetsRead(actions)
      /\ seen \subseteq Contents
      /\ preferences \in Seq(Contents) /\ statements \in Seq(Contents)
  BY DEF PlannerInv, TypeOK, PlannerTypeOK, RulesLinked
<1>2. UNCHANGED <<entry, result>>
  BY DEF Rules
<1>3. CASE ForgetOne
  <2>1. PICK i \in Read : actions' = Append(actions, Forget(i))
    BY <1>3 DEF ForgetOne
  <2>2. i \in Ids
    <3>1. PICK k \in DOMAIN existing : i = existing[k].id
      BY <2>1 DEF Read
    <3>2. existing[k] \in Memories
      BY <1>1
    <3>3. QED BY <3>1, <3>2 DEF Memories
  <2>3. /\ Forget(i) \in MemoryAction /\ ~ IsCreate(Forget(i)) /\ Forget(i).memory_id = i
    BY <2>2 DEF MemoryAction, Forget, IsCreate, RetireActions
  <2>4. Linked(actions') /\ TargetsRead(actions') /\ actions' \in Seq(MemoryAction)
    BY <1>1, <2>1, <2>3, LinkedAppend, TargetsAppend
  <2>5. QED BY <1>1, <1>2, <1>3, <2>4, RulesFrame DEF ForgetOne, RulesPCs
<1>4. CASE ForgetsDone \/ PreferencesDone \/ StatementsDone
  BY <1>1, <1>2, <1>4, RulesFrame DEF ForgetsDone, PreferencesDone, StatementsDone, RulesPCs
<1>5. CASE PreferenceOne
  <2>1. preferences[next] \in Contents
    BY <1>1, <1>5 DEF PreferenceOne
  <2>2. Linked(actions') /\ TargetsRead(actions') /\ actions' \in Seq(MemoryAction)
          /\ superseded' \subseteq Ids
    BY <1>1, <1>5, <2>1, RememberGood DEF PreferenceOne
  <2>3. next' \in Nat \ {0} /\ seen' \subseteq Contents
    BY <1>1, <1>5 DEF PreferenceOne
  <2>4. QED BY <1>2, <1>5, <2>2, <2>3, RulesFrame DEF PreferenceOne, RulesPCs
<1>6. CASE StatementOne
  <2>1. statements[next] \in Contents
    BY <1>1, <1>6 DEF StatementOne
  <2>2. Linked(actions') /\ TargetsRead(actions') /\ actions' \in Seq(MemoryAction)
          /\ superseded' \subseteq Ids
    BY <1>1, <1>6, <2>1, RememberGood DEF StatementOne
  <2>3. next' \in Nat \ {0} /\ seen' \subseteq Contents
    BY <1>1, <1>6, <2>1, PlannerAssumption DEF StatementOne
  <2>4. QED BY <1>2, <1>6, <2>2, <2>3, RulesFrame DEF StatementOne, RulesPCs
<1>7. QED BY <1>3, <1>4, <1>5, <1>6 DEF Rules, PlannerStep

-----------------------------------------------------------------------------
(* What a step of the rewriting needs to know of the state before it.       *)
LEMMA Facts ==
    ASSUME PlannerInv
    PROVE  /\ actions \in Seq(MemoryAction) /\ result \in Seq(MemoryAction)
           /\ existing \in Seq(Memories) /\ superseded \subseteq Ids /\ seen \subseteq Contents
           /\ preferences \in Seq(Contents) /\ statements \in Seq(Contents)
           /\ next \in Nat \ {0} /\ entry \in Nat \ {0}
           /\ Linked(actions) /\ TargetsRead(actions) /\ TargetsRead(result)
           /\ next \notin DOMAIN actions => \A j \in DOMAIN actions : j < next
           /\ entry \notin DOMAIN existing => \A j \in DOMAIN existing : j < entry
<1>1. /\ actions \in Seq(MemoryAction) /\ existing \in Seq(Memories)
      /\ next \in Nat \ {0} /\ entry \in Nat \ {0}
  BY DEF PlannerInv, TypeOK, PlannerTypeOK
<1>2. next \notin DOMAIN actions => \A j \in DOMAIN actions : j < next
  BY <1>1
<1>3. entry \notin DOMAIN existing => \A j \in DOMAIN existing : j < entry
  BY <1>1
<1>4. QED BY <1>1, <1>2, <1>3 DEF PlannerInv, TypeOK, PlannerTypeOK, RulesLinked

LEMMA AppendHas ==
    ASSUME NEW s \in Seq(MemoryAction), NEW act \in MemoryAction, NEW t, t = Append(s, act)
    PROVE  /\ t \in Seq(MemoryAction)
           /\ \A k \in DOMAIN s : k \in DOMAIN t /\ t[k] = s[k]
           /\ \E k \in DOMAIN t : t[k] = act
           /\ \A k \in DOMAIN t : (k \in DOMAIN s /\ t[k] = s[k]) \/ t[k] = act
<1>1. /\ t \in Seq(MemoryAction)
      /\ DOMAIN t = 1 .. Len(s) + 1 /\ DOMAIN s = 1 .. Len(s) /\ Len(s) \in Nat
      /\ \A k \in DOMAIN s : t[k] = s[k]
      /\ t[Len(s) + 1] = act
  OBVIOUS
<1>2. Len(s) + 1 \in DOMAIN t /\ \A k \in DOMAIN t : k \in DOMAIN s \/ k = Len(s) + 1
  BY <1>1
<1>3. QED BY <1>1, <1>2

LEMMA EmptyBatch ==
    /\ <<>> \in Seq(MemoryAction) /\ Linked(<<>>) /\ TargetsRead(<<>>) /\ TargetsRead(<<>>)'
  BY DEF Linked, TargetsRead

(* The inputs of a call stay what they are until it returns.                *)
LEMMA ReadFrame ==
    ASSUME UNCHANGED inputs
    PROVE  /\ existing' = existing /\ preferences' = preferences /\ statements' = statements
           /\ Read' = Read
           /\ \A i : ContentOf(i)' = ContentOf(i)
           /\ \A s : TargetsRead(s) => TargetsRead(s)'
  BY DEF inputs, Read, ContentOf, TargetsRead

(* The invariant after a step of the rewriting, from its parts.             *)
LEMMA RewriteFrame ==
    ASSUME PlannerInv, UNCHANGED inputs, UNCHANGED seen,
           pc' \in {"veto", "semantic", "revise", "done"},
           next' \in Nat \ {0}, entry' \in Nat \ {0}, pc' # "revise" => entry' = 1,
           superseded' \subseteq Ids, actions' \in Seq(MemoryAction),
           Linked(actions'), TargetsRead(actions'),
           result' \in Seq(MemoryAction), TargetsRead(result'),
           VetoUnlinks', SlotsKeepPairs', RevisionSupersedes'
    PROVE  PlannerInv'
<1>1. TypeOK'
  BY Facts, ReadFrame DEF TypeOK, PlannerTypeOK
<1>2. TargetsRead(actions)' /\ TargetsRead(result)'
  BY ReadFrame DEF TargetsRead
<1>3. RulesLinked'
  BY DEF RulesLinked
<1>4. QED BY <1>1, <1>2, <1>3 DEF PlannerInv, Rewriting

LEMMA RulesDoneGood ==
    ASSUME PlannerInv, RulesDone
    PROVE  PlannerInv'
<1>1. /\ next = 1 /\ result = <<>> /\ entry = 1
  BY DEF RulesDone, PlannerInv, Rewriting
<1>2. /\ actions' = actions /\ next' = 1 /\ entry' = 1 /\ superseded' = superseded
      /\ UNCHANGED inputs /\ UNCHANGED seen
      /\ pc' \in {"veto", "done"}
      /\ result' = IF pc' = "veto" THEN <<>> ELSE actions
  BY <1>1 DEF RulesDone
<1>3. VetoUnlinks'
  <2>1. SUFFICES ASSUME pc' = "veto" PROVE VetoUnlinks'
    BY DEF VetoUnlinks
  <2>2. result' = <<>> /\ \A j \in DOMAIN actions' : ~ (j < next')
    BY <1>2, <2>1, Facts
  <2>3. QED BY <2>2 DEF VetoUnlinks
<1>4. SlotsKeepPairs'
  BY <1>2, Facts DEF SlotsKeepPairs, Rewriting, Linked
<1>5. RevisionSupersedes'
  BY <1>2 DEF RevisionSupersedes
<1>6. /\ result' \in Seq(MemoryAction) /\ TargetsRead(result')
  BY <1>2, Facts, EmptyBatch
<1>7. QED BY <1>2, <1>3, <1>4, <1>5, <1>6, Facts, RewriteFrame

(* An undone link leaves the rest of its create as it was. *)
LEMMA UnlinkedGood ==
    ASSUME NEW act \in MemoryAction,
           Retires(act) => act.memory_id \in Read,
           IsCreate(act) => act.replaces \in Read \cup {None}
    PROVE  /\ Unlinked(act) \in MemoryAction
           /\ Retires(Unlinked(act)) => Unlinked(act).memory_id \in Read
           /\ IsCreate(Unlinked(act)) => Unlinked(act).replaces \in Read \cup {None}
           /\ ~ IsCreate(act) => Unlinked(act) = act
           /\ IsCreate(Unlinked(act)) /\ Unlinked(act).replaces # None =>
                 Unlinked(act) = act /\ act.replaces \notin Vetoed
<1>1. CASE IsCreate(act) /\ act.replaces \in Vetoed
  <2>1. act.content \in Contents
    BY <1>1, ActionShape
  <2>2. /\ Unlinked(act) = Create(act.content, None)
        /\ Create(act.content, None) \in MemoryAction
        /\ Create(act.content, None).replaces = None
        /\ ~ Retires(Create(act.content, None))
    BY <1>1, <2>1 DEF Unlinked, MemoryAction, Create, Retires, RetireActions
  <2>3. QED BY <1>1, <2>2
<1>2. CASE ~ (IsCreate(act) /\ act.replaces \in Vetoed)
  BY <1>2 DEF Unlinked
<1>3. QED BY <1>1, <1>2

LEMMA VetoOneGood ==
    ASSUME PlannerInv, VetoOne
    PROVE  PlannerInv'
<1>1. PICK act : act = actions[next]
  OBVIOUS
<1>2. /\ pc = "veto" /\ pc' = "veto" /\ next \in DOMAIN actions /\ next' = next + 1
      /\ actions' = actions /\ entry' = entry /\ superseded' = superseded
      /\ UNCHANGED inputs /\ UNCHANGED seen
      /\ entry = 1
  BY DEF VetoOne, PlannerInv
<1>3. Vetoed' = Vetoed
  BY <1>2, ReadFrame DEF Vetoed, AcrossScopes, Meant
<1>4. /\ act \in MemoryAction
      /\ Retires(act) => act.memory_id \in Read
      /\ IsCreate(act) => act.replaces \in Read \cup {None}
  BY <1>1, <1>2, Facts DEF TargetsRead
<1>5. /\ Unlinked(act) \in MemoryAction
      /\ Retires(Unlinked(act)) => Unlinked(act).memory_id \in Read
      /\ IsCreate(Unlinked(act)) => Unlinked(act).replaces \in Read \cup {None}
      /\ ~ IsCreate(act) => Unlinked(act) = act
      /\ IsCreate(Unlinked(act)) /\ Unlinked(act).replaces # None =>
            Unlinked(act) = act /\ act.replaces \notin Vetoed
  BY <1>4, UnlinkedGood
<1>6. \/ result' = result /\ act.action = "supersede" /\ act.memory_id \in Vetoed
      \/ result' = Append(result, Unlinked(act))
  BY <1>1 DEF VetoOne
<1>7. /\ result' \in Seq(MemoryAction) /\ TargetsRead(result')
      /\ \A k \in DOMAIN result : k \in DOMAIN result' /\ result'[k] = result[k]
      /\ \A k \in DOMAIN result' :
            \/ k \in DOMAIN result /\ result'[k] = result[k]
            \/ result'[k] = Unlinked(act)
  <2>1. CASE result' = result
    BY <2>1, Facts
  <2>2. CASE result' = Append(result, Unlinked(act))
    <3>1. TargetsRead(Append(result, Unlinked(act)))
      BY <1>5, Facts, TargetsAppend
    <3>2. QED BY <1>5, <2>2, <3>1, Facts, AppendHas
  <2>3. QED BY <1>6, <2>1, <2>2
<1>8. ASSUME result' = Append(result, Unlinked(act))
      PROVE  \E k \in DOMAIN result' : result'[k] = Unlinked(act)
  <2>1. result \in Seq(MemoryAction)
    BY Facts
  <2>2. QED BY <1>5, <1>8, <2>1, AppendHas
<1>9. ASSUME NEW j \in DOMAIN actions, j < next + 1, ~ IsCreate(actions[j]),
             actions[j].memory_id \notin Vetoed
      PROVE  \E k \in DOMAIN result' : result'[k] = actions[j]
  <2>1. CASE j < next
    <3>1. PICK k \in DOMAIN result : result[k] = actions[j]
      BY <1>2, <1>9, <2>1 DEF PlannerInv, VetoUnlinks
    <3>2. QED BY <1>7, <3>1
  <2>2. CASE j = next
    <3>1. actions[j] = act /\ ~ IsCreate(act) /\ ~ (act.action = "supersede" /\ act.memory_id \in Vetoed)
      BY <1>1, <1>9, <2>2
    <3>2. QED BY <1>5, <1>6, <1>8, <3>1
  <2>3. QED BY <1>9, <2>1, <2>2, Facts
<1>10. ASSUME NEW k \in DOMAIN result', IsCreate(result'[k]), result'[k].replaces # None
       PROVE  /\ result'[k].replaces \notin Vetoed
              /\ \E j \in DOMAIN actions : actions[j] = Supersede(result'[k].replaces)
  <2>1. CASE k \in DOMAIN result /\ result'[k] = result[k]
    BY <1>2, <1>10, <2>1 DEF PlannerInv, VetoUnlinks
  <2>2. CASE result'[k] = Unlinked(act)
    BY <1>1, <1>2, <1>5, <1>10, <2>2, Facts DEF Linked
  <2>3. QED BY <1>7, <2>1, <2>2
<1>11. VetoUnlinks'
  BY <1>2, <1>3, <1>9, <1>10 DEF VetoUnlinks
<1>12. SlotsKeepPairs' /\ RevisionSupersedes'
  BY <1>2 DEF SlotsKeepPairs, RevisionSupersedes, Rewriting
<1>13. next' \in Nat \ {0}
  BY <1>2, Facts
<1>14. QED BY <1>2, <1>7, <1>11, <1>12, <1>13, Facts, RewriteFrame

(* Without the pairs it undoes, the batch of the veto is linked again.      *)
LEMMA VetoDoneGood ==
    ASSUME PlannerInv, VetoDone
    PROVE  PlannerInv'
<1>1. /\ pc = "veto" /\ pc' = "semantic" /\ next \notin DOMAIN actions /\ next' = 1
      /\ actions' = result /\ result' = <<>> /\ entry' = entry /\ entry = 1
      /\ superseded' \subseteq superseded
      /\ UNCHANGED inputs /\ UNCHANGED seen
  BY DEF VetoDone, PlannerInv
<1>2. ASSUME NEW k \in DOMAIN result, IsCreate(result[k]), result[k].replaces # None
      PROVE  \E j \in DOMAIN result : result[j] = Supersede(result[k].replaces)
  <2>1. PICK j \in DOMAIN actions : actions[j] = Supersede(result[k].replaces)
    BY <1>1, <1>2 DEF PlannerInv, VetoUnlinks
  <2>2. result[k].replaces \notin Vetoed
    BY <1>1, <1>2 DEF PlannerInv, VetoUnlinks
  <2>3. j < next
    BY <1>1, Facts
  <2>4. ~ IsCreate(actions[j]) /\ actions[j].memory_id = result[k].replaces
    BY <2>1 DEF Supersede, IsCreate
  <2>5. \E i \in DOMAIN result : result[i] = actions[j]
    BY <1>1, <2>2, <2>3, <2>4 DEF PlannerInv, VetoUnlinks
  <2>6. QED BY <2>1, <2>5
<1>3. Linked(actions')
  BY <1>1, <1>2 DEF Linked
<1>4. SlotsKeepPairs'
  <2>1. \A j \in DOMAIN actions' : ~ (j < next')
    BY <1>1, Facts
  <2>2. QED BY <1>1, <2>1 DEF SlotsKeepPairs
<1>5. VetoUnlinks' /\ RevisionSupersedes'
  BY <1>1 DEF VetoUnlinks, RevisionSupersedes
<1>6. /\ actions' \in Seq(MemoryAction) /\ TargetsRead(actions')
      /\ result' \in Seq(MemoryAction) /\ TargetsRead(result')
      /\ superseded' \subseteq Ids
  BY <1>1, Facts, EmptyBatch
<1>7. QED BY <1>1, <1>3, <1>4, <1>5, <1>6, Facts, RewriteFrame

(* The slots add an action to the result.                                   *)
LEMMA SlotAppends ==
    ASSUME PlannerInv, pc \in {"semantic", "revise"}, pc' \in {"semantic", "revise"},
           UNCHANGED actions,
           NEW act \in MemoryAction, result' = Append(result, act),
           Retires(act) => act.memory_id \in Read,
           IsCreate(act) => act.replaces \in Read \cup {None},
           IsCreate(act) /\ act.replaces # None =>
              \/ \E j \in DOMAIN result : result[j] = Supersede(act.replaces)
              \/ \E j \in DOMAIN actions : actions[j] = Supersede(act.replaces),
           \A j \in DOMAIN actions : ~ IsCreate(actions[j]) /\ j < next' =>
              j < next \/ actions[j] = act
    PROVE  /\ result' \in Seq(MemoryAction) /\ TargetsRead(result')
           /\ \A k \in DOMAIN result : k \in DOMAIN result' /\ result'[k] = result[k]
           /\ \E k \in DOMAIN result' : result'[k] = act
           /\ SlotsKeepPairs'
<1>1. /\ result' \in Seq(MemoryAction)
      /\ \A k \in DOMAIN result : k \in DOMAIN result' /\ result'[k] = result[k]
      /\ \E k \in DOMAIN result' : result'[k] = act
      /\ \A k \in DOMAIN result' : (k \in DOMAIN result /\ result'[k] = result[k]) \/ result'[k] = act
  <2>1. result \in Seq(MemoryAction)
    BY Facts
  <2>2. QED BY <2>1, AppendHas
<1>2. TargetsRead(result')
  <2>1. TargetsRead(Append(result, act))
    BY Facts, TargetsAppend
  <2>2. QED BY <2>1
<1>3. ASSUME NEW j \in DOMAIN actions, ~ IsCreate(actions[j]), j < next'
      PROVE  \E k \in DOMAIN result' : result'[k] = actions[j]
  <2>1. CASE j < next
    <3>1. PICK k \in DOMAIN result : result[k] = actions[j]
      BY <1>3, <2>1 DEF PlannerInv, SlotsKeepPairs, Rewriting
    <3>2. QED BY <1>1, <3>1
  <2>2. CASE actions[j] = act
    BY <1>1, <2>2
  <2>3. QED BY <1>3, <2>1, <2>2
<1>4. ASSUME NEW k \in DOMAIN result', IsCreate(result'[k]), result'[k].replaces # None
      PROVE  \/ \E j \in DOMAIN result' : result'[j] = Supersede(result'[k].replaces)
             \/ \E j \in DOMAIN actions : actions[j] = Supersede(result'[k].replaces)
  <2>1. PICK x : x = result'[k].replaces
    OBVIOUS
  <2>2. \/ \E j \in DOMAIN result : result[j] = Supersede(x)
        \/ \E j \in DOMAIN actions : actions[j] = Supersede(x)
    BY <1>1, <1>4, <2>1 DEF PlannerInv, SlotsKeepPairs, Rewriting
  <2>3. QED BY <1>1, <2>1, <2>2
<1>5. SlotsKeepPairs'
  BY <1>3, <1>4 DEF SlotsKeepPairs, Rewriting
<1>6. QED BY <1>1, <1>2, <1>5

LEMMA SemanticOneGood ==
    ASSUME PlannerInv, SemanticOne
    PROVE  PlannerInv'
<1>1. PICK act : act = actions[next]
  OBVIOUS
<1>2. /\ pc = "semantic" /\ pc' = "semantic" /\ next \in DOMAIN actions /\ next' = next + 1
      /\ actions' = actions /\ entry' = entry /\ entry = 1 /\ superseded' = superseded
      /\ UNCHANGED inputs /\ UNCHANGED seen
  BY DEF SemanticOne, PlannerInv
<1>3. /\ act \in MemoryAction
      /\ Retires(act) => act.memory_id \in Read
      /\ IsCreate(act) => act.replaces \in Read \cup {None}
      /\ IsCreate(act) /\ act.replaces # None =>
            \E j \in DOMAIN actions : actions[j] = Supersede(act.replaces)
  BY <1>1, <1>2, Facts DEF TargetsRead, Linked
<1>4. \/ result' = result /\ IsCreate(act)
      \/ result' = Append(result, act)
  BY <1>1 DEF SemanticOne, Dropped, Untouched
<1>5. \A j \in DOMAIN actions : j < next' => j < next \/ actions[j] = act
  BY <1>1, <1>2, Facts
<1>6. /\ result' \in Seq(MemoryAction) /\ TargetsRead(result') /\ SlotsKeepPairs'
  <2>1. CASE result' = result /\ IsCreate(act)
    <3>1. \A j \in DOMAIN actions : ~ IsCreate(actions[j]) /\ j < next' => j < next
      BY <1>5, <2>1
    <3>2. SlotsKeepPairs'
      BY <1>2, <2>1, <3>1 DEF SlotsKeepPairs, Rewriting, PlannerInv
    <3>3. QED BY <2>1, <3>2, Facts
  <2>2. CASE result' = Append(result, act)
    BY <1>2, <1>3, <1>5, <2>2, SlotAppends
  <2>3. QED BY <1>4, <2>1, <2>2
<1>7. VetoUnlinks' /\ RevisionSupersedes'
  BY <1>2 DEF VetoUnlinks, RevisionSupersedes
<1>8. next' \in Nat \ {0}
  BY <1>2, Facts
<1>9. QED BY <1>2, <1>6, <1>7, <1>8, Facts, RewriteFrame

LEMMA RevisionStartsGood ==
    ASSUME PlannerInv, RevisionStarts
    PROVE  PlannerInv'
<1>1. /\ pc = "semantic" /\ pc' = "revise" /\ next \in DOMAIN actions /\ next' = next
      /\ actions' = actions /\ entry' = entry /\ entry = 1 /\ superseded' = superseded
      /\ result' = result /\ UNCHANGED inputs /\ UNCHANGED seen
      /\ IsCreate(actions[next])
  BY DEF RevisionStarts, PlannerInv, Revises, Untouched
<1>2. SlotsKeepPairs'
  BY <1>1 DEF SlotsKeepPairs, Rewriting, PlannerInv
<1>3. RevisionSupersedes'
  <2>1. \A k \in DOMAIN existing : ~ (k < entry')
    BY <1>1, Facts
  <2>2. existing' = existing
    BY <1>1, ReadFrame
  <2>3. QED BY <1>1, <2>1, <2>2 DEF RevisionSupersedes, Contradicted, Eligible
<1>4. VetoUnlinks'
  BY <1>1 DEF VetoUnlinks
<1>5. QED BY <1>1, <1>2, <1>3, <1>4, Facts, RewriteFrame

(* The memories a statement contradicts are the same through its revision.  *)
LEMMA ContradictedFrame ==
    ASSUME UNCHANGED inputs, UNCHANGED superseded
    PROVE  \A c : Contradicted(c)' = Contradicted(c)
  BY ReadFrame DEF Contradicted, Eligible, SameSlot, SameValue, Meant

LEMMA SupersedeOneGood ==
    ASSUME PlannerInv, SupersedeOne
    PROVE  PlannerInv'
<1>1. PICK c, i : c = actions[next].content /\ i = existing[entry].id
  OBVIOUS
<1>2. /\ pc = "revise" /\ pc' = "revise" /\ next' = next /\ actions' = actions
      /\ entry \in DOMAIN existing /\ entry' = entry + 1 /\ superseded' = superseded
      /\ UNCHANGED inputs /\ UNCHANGED seen
      /\ result' = IF entry \in Contradicted(c) THEN Append(result, Supersede(i)) ELSE result
  BY <1>1 DEF SupersedeOne
<1>3. i \in Ids /\ i \in Read
  <2>1. existing[entry] \in Memories
    BY <1>2, Facts
  <2>2. QED BY <1>1, <1>2, <2>1 DEF Memories, Read
<1>4. /\ Supersede(i) \in MemoryAction /\ ~ IsCreate(Supersede(i)) /\ Supersede(i).memory_id = i
  BY <1>3 DEF MemoryAction, Supersede, IsCreate, RetireActions
<1>5. /\ result' \in Seq(MemoryAction) /\ TargetsRead(result') /\ SlotsKeepPairs'
      /\ \A k \in DOMAIN result : k \in DOMAIN result' /\ result'[k] = result[k]
      /\ entry \in Contradicted(c) => \E k \in DOMAIN result' : result'[k] = Supersede(i)
  <2>1. CASE entry \in Contradicted(c)
    BY <1>2, <1>3, <1>4, <2>1, SlotAppends
  <2>2. CASE entry \notin Contradicted(c)
    <3>1. result' = result
      BY <1>2, <2>2
    <3>2. SlotsKeepPairs'
      BY <1>2, <3>1 DEF SlotsKeepPairs, Rewriting, PlannerInv
    <3>3. QED BY <2>2, <3>1, <3>2, Facts
  <2>3. QED BY <2>1, <2>2
<1>6. /\ Contradicted(actions[next].content)' = Contradicted(c)
      /\ existing' = existing
  BY <1>1, <1>2, ContradictedFrame, ReadFrame
<1>7. ASSUME NEW k \in Contradicted(c), k < entry + 1
      PROVE  \E j \in DOMAIN result' : result'[j] = Supersede(existing[k].id)
  <2>1. k \in DOMAIN existing /\ k \in Nat
    BY Facts DEF Contradicted, Eligible
  <2>2. CASE k < entry
    <3>1. PICK j \in DOMAIN result : result[j] = Supersede(existing[k].id)
      BY <1>1, <1>2, <2>2 DEF PlannerInv, RevisionSupersedes
    <3>2. QED BY <1>5, <3>1
  <2>3. CASE k = entry
    BY <1>1, <1>5, <2>3
  <2>4. QED BY <1>7, <2>1, <2>2, <2>3, Facts
<1>8. RevisionSupersedes'
  BY <1>2, <1>6, <1>7 DEF RevisionSupersedes, PlannerInv
<1>9. VetoUnlinks' /\ entry' \in Nat \ {0}
  BY <1>2, Facts DEF VetoUnlinks
<1>10. QED BY <1>2, <1>5, <1>8, <1>9, Facts, RewriteFrame

LEMMA RevisedGood ==
    ASSUME PlannerInv, Revised
    PROVE  PlannerInv'
<1>1. PICK c : c = actions[next].content
  OBVIOUS
<1>2. /\ pc = "revise" /\ pc' = "semantic" /\ next' = next + 1 /\ actions' = actions
      /\ entry \notin DOMAIN existing /\ entry' = 1 /\ superseded' = superseded
      /\ UNCHANGED inputs /\ UNCHANGED seen
      /\ next \in DOMAIN actions /\ IsCreate(actions[next])
  BY DEF Revised, PlannerInv, RevisionSupersedes
<1>3. PICK k \in Contradicted(c) : result' = Append(result, Create(c, existing[k].id))
  BY <1>1 DEF Revised
<1>4. k \in DOMAIN existing /\ k < entry
  BY <1>2, Facts DEF Contradicted, Eligible
<1>5. PICK i : i = existing[k].id
  OBVIOUS
<1>6. i \in Ids /\ i \in Read
  <2>1. existing[k] \in Memories
    BY <1>4, Facts
  <2>2. QED BY <1>4, <1>5, <2>1 DEF Memories, Read
<1>7. c \in Contents
  BY <1>1, <1>2, Facts, ActionShape
<1>8. /\ Create(c, i) \in MemoryAction /\ Create(c, i).replaces = i /\ ~ Retires(Create(c, i))
  BY <1>6, <1>7, ActionTypes
<1>9. \E j \in DOMAIN result : result[j] = Supersede(i)
  BY <1>1, <1>2, <1>4, <1>5 DEF PlannerInv, RevisionSupersedes
<1>10. \A j \in DOMAIN actions : ~ IsCreate(actions[j]) /\ j < next' => j < next
  <2>1. ASSUME NEW j \in DOMAIN actions, ~ IsCreate(actions[j]), j < next + 1
        PROVE  j < next
    <3>1. j # next
      BY <1>2, <2>1
    <3>2. QED BY <2>1, <3>1, Facts
  <2>2. QED BY <1>2, <2>1
<1>11. result' = Append(result, Create(c, i))
  BY <1>3, <1>5
<1>12. /\ result' \in Seq(MemoryAction) /\ TargetsRead(result') /\ SlotsKeepPairs'
  BY <1>2, <1>6, <1>8, <1>9, <1>10, <1>11, SlotAppends
<1>13. /\ VetoUnlinks' /\ RevisionSupersedes' /\ next' \in Nat \ {0} /\ entry' \in Nat \ {0}
  BY <1>2, Facts DEF VetoUnlinks, RevisionSupersedes
<1>14. QED BY <1>2, <1>12, <1>13, Facts, RewriteFrame

LEMMA SemanticDoneGood ==
    ASSUME PlannerInv, SemanticDone
    PROVE  PlannerInv'
<1>1. /\ pc = "semantic" /\ pc' = "done" /\ next \notin DOMAIN actions /\ next' = 1
      /\ actions' = actions /\ entry' = entry /\ entry = 1 /\ superseded' = superseded
      /\ result' = result /\ UNCHANGED inputs /\ UNCHANGED seen
  BY DEF SemanticDone, PlannerInv
<1>2. \A j \in DOMAIN actions : j < next
  BY <1>1, Facts
<1>3. SlotsKeepPairs'
  BY <1>1, <1>2 DEF SlotsKeepPairs, Rewriting, PlannerInv
<1>4. VetoUnlinks' /\ RevisionSupersedes'
  BY <1>1 DEF VetoUnlinks, RevisionSupersedes
<1>5. QED BY <1>1, <1>3, <1>4, Facts, RewriteFrame

-----------------------------------------------------------------------------
LEMMA InitGood == Init => PlannerInv
<1>1. SUFFICES ASSUME Init PROVE PlannerInv
  OBVIOUS
<1>2. /\ pc = "idle" /\ existing = <<>> /\ preferences = <<>> /\ statements = <<>>
      /\ next = 1 /\ entry = 1 /\ seen = {} /\ superseded = {}
      /\ actions = <<>> /\ result = <<>>
  BY <1>1 DEF Init, PlannerInit
<1>3. TypeOK
  BY <1>2, EmptyBatch DEF TypeOK, PlannerTypeOK, PlannerPCs
<1>4. TargetsRead(actions) /\ TargetsRead(result) /\ RulesLinked
  BY <1>2, EmptyBatch DEF RulesLinked
<1>5. VetoUnlinks /\ SlotsKeepPairs /\ RevisionSupersedes
  BY <1>2 DEF Rewriting, VetoUnlinks, SlotsKeepPairs, RevisionSupersedes
<1>6. QED BY <1>2, <1>3, <1>4, <1>5 DEF PlannerInv

(* A list of at most n members of a set is a sequence over any larger set.  *)
LEMMA UpToSeq ==
    ASSUME NEW n \in Nat, NEW S, NEW T, S \subseteq T, NEW s \in UpTo(n, S)
    PROVE  s \in Seq(T)
<1>1. PICK k \in 0 .. n : s \in [1 .. k -> S]
  BY DEF UpTo
<1>2. k \in Nat /\ s \in [1 .. k -> T]
  BY <1>1
<1>3. QED BY <1>2

LEMMA AskedGood ==
    ASSUME PlannerInv, Rules, Asked
    PROVE  PlannerInv'
<1>1. /\ pc' = "forget" /\ actions' = <<>> /\ result' = <<>> /\ next' = next
      /\ entry' = 1 /\ superseded' = superseded
  BY DEF Rules, Asked, PlannerInv, Rewriting
<1>2. existing' \in Seq(Memories)
  <2>1. PICK n \in 0 .. MaxMemories : existing' \in [1 .. n -> Memories]
    BY PlannerAssumption DEF Asked, UpTo
  <2>2. n \in Nat
    BY PlannerAssumption
  <2>3. QED BY <2>1, <2>2
<1>3. preferences' \in Seq(Contents)
  <2> DEFINE P == {c \in Detected : Kind[c] = "preference"}
  <2>1. preferences' \in UpTo(MaxStatements, P)
    BY DEF Asked
  <2>2. P \subseteq Contents /\ MaxStatements \in Nat
    BY PlannerAssumption
  <2> HIDE DEF P
  <2>3. QED BY <2>1, <2>2, UpToSeq
<1>4. statements' \in Seq(Contents)
  <2> DEFINE P == {c \in Detected : Kind[c] # "preference"}
  <2>1. statements' \in UpTo(MaxStatements, P)
    BY DEF Asked
  <2>2. P \subseteq Contents /\ MaxStatements \in Nat
    BY PlannerAssumption
  <2> HIDE DEF P
  <2>3. QED BY <2>1, <2>2, UpToSeq
<1>5. seen' \subseteq Contents
  <2>1. \A k \in DOMAIN existing' : existing'[k] \in Memories
    BY <1>2
  <2>2. \A k \in DOMAIN existing' : Normal[existing'[k].content] \in Contents
    BY <2>1, PlannerAssumption DEF Memories
  <2>3. QED BY <2>2 DEF Asked
<1>6. TypeOK'
  BY <1>1, <1>2, <1>3, <1>4, <1>5, Facts, EmptyBatch DEF TypeOK, PlannerTypeOK, PlannerPCs
<1>7. TargetsRead(actions)' /\ TargetsRead(result)' /\ RulesLinked'
  BY <1>1 DEF TargetsRead, RulesLinked, Linked
<1>8. QED BY <1>1, <1>6, <1>7
          DEF PlannerInv, Rewriting, VetoUnlinks, SlotsKeepPairs, RevisionSupersedes

LEMMA ReturnedGood ==
    ASSUME Returned
    PROVE  PlannerInv'
<1>1. TypeOK'
  BY EmptyBatch DEF Returned, TypeOK, PlannerTypeOK, PlannerPCs
<1>2. TargetsRead(actions)' /\ TargetsRead(result)' /\ RulesLinked'
  BY DEF Returned, TargetsRead, RulesLinked, Linked
<1>3. QED BY <1>1, <1>2
          DEF Returned, PlannerInv, Rewriting, VetoUnlinks, SlotsKeepPairs, RevisionSupersedes

LEMMA StutterGood ==
    ASSUME PlannerInv, UNCHANGED vars
    PROVE  PlannerInv'
<1>1. /\ UNCHANGED <<pc, inputs, next, seen, superseded, actions, entry, result>>
  BY DEF vars, plannerVars
<1>2. CASE pc \in {"veto", "semantic", "revise", "done"}
  <2>1. Vetoed' = Vetoed
    BY <1>1, ReadFrame DEF Vetoed, AcrossScopes, Meant
  <2>2. VetoUnlinks'
    BY <1>1, <2>1 DEF PlannerInv, VetoUnlinks
  <2>3. SlotsKeepPairs'
    BY <1>1 DEF PlannerInv, SlotsKeepPairs, Rewriting
  <2>4. Contradicted(actions[next].content)' = Contradicted(actions[next].content)
    BY <1>1, ContradictedFrame
  <2>5. RevisionSupersedes'
    BY <1>1, <2>4, ReadFrame DEF PlannerInv, RevisionSupersedes
  <2>6. QED BY <1>1, <1>2, <2>2, <2>3, <2>5, Facts, RewriteFrame DEF PlannerInv
<1>3. CASE pc \notin {"veto", "semantic", "revise", "done"}
  BY <1>1, <1>3 DEF inputs, PlannerInv, TypeOK, PlannerTypeOK, Rewriting, RulesLinked,
              TargetsRead, Read, VetoUnlinks, SlotsKeepPairs, RevisionSupersedes
<1>4. QED BY <1>2, <1>3

LEMMA StepGood == PlannerInv /\ [Next]_vars => PlannerInv'
<1>1. SUFFICES ASSUME PlannerInv, [Next]_vars PROVE PlannerInv'
  OBVIOUS
<1>2. CASE Rules
  BY <1>1, <1>2, AskedGood, RulesGood
<1>3. CASE RulesDone
  BY <1>1, <1>3, RulesDoneGood
<1>4. CASE VetoOne
  BY <1>1, <1>4, VetoOneGood
<1>5. CASE VetoDone
  BY <1>1, <1>5, VetoDoneGood
<1>6. CASE SemanticOne
  BY <1>1, <1>6, SemanticOneGood
<1>7. CASE RevisionStarts
  BY <1>1, <1>7, RevisionStartsGood
<1>8. CASE SupersedeOne
  BY <1>1, <1>8, SupersedeOneGood
<1>9. CASE Revised
  BY <1>1, <1>9, RevisedGood
<1>10. CASE SemanticDone
  BY <1>1, <1>10, SemanticDoneGood
<1>11. CASE Returned
  BY <1>1, <1>11, ReturnedGood
<1>12. CASE UNCHANGED vars
  BY <1>1, <1>12, StutterGood
<1>13. QED BY <1>1, <1>2, <1>3, <1>4, <1>5, <1>6, <1>7, <1>8, <1>9, <1>10, <1>11, <1>12
             DEF Next, PlanOne

(* The supersede of a replacing create is never lost while the batch is     *)
(* rewritten: the loops of memory/planner.py and memory/semantic_planner.py *)
(* keep PlannerInv, for any number of memories and statements.              *)
THEOREM PlannerInvariantHolds == Spec => []PlannerInv
  BY InitGood, StepGood, PTL DEF Spec

LEMMA PlannedIsLinked ==
    ASSUME PlannerInv, Done
    PROVE  Linked(result)
<1>1. ASSUME NEW k \in DOMAIN result, IsCreate(result[k]), result[k].replaces # None
      PROVE  \E j \in DOMAIN result : result[j] = Supersede(result[k].replaces)
  <2>1. CASE \E j \in DOMAIN actions : actions[j] = Supersede(result[k].replaces)
    <3>1. PICK j \in DOMAIN actions : actions[j] = Supersede(result[k].replaces)
      BY <2>1
    <3>2. ~ IsCreate(actions[j])
      BY <3>1 DEF Supersede, IsCreate
    <3>3. \E i \in DOMAIN result : result[i] = actions[j]
      BY <3>2 DEF PlannerInv, SlotsKeepPairs, Rewriting, Done
    <3>4. QED BY <3>1, <3>3
  <2>2. QED BY <1>1, <2>1 DEF PlannerInv, SlotsKeepPairs, Rewriting, Done
<1>2. QED BY <1>1 DEF Linked

LEMMA InvariantLinks == PlannerInv => ResultLinked
  BY PlannedIsLinked DEF ResultLinked

(* The batch a planner returns is Linked.                                   *)
THEOREM PlannerBatchesLinked == Spec => []ResultLinked
  BY InvariantLinks, PlannerInvariantHolds, PTL

-----------------------------------------------------------------------------
(***************************************************************************)
(* The path of a batch to the engine: the strategies after the rules, the  *)
(* policy and the manager.                                                 *)
(***************************************************************************)
LEMMA PathInitGood == PathInit => PathInv
<1> SUFFICES ASSUME PathInit PROVE PathInv
  OBVIOUS
<1>1. PlannerInv /\ ~ Extended /\ pc = "idle" /\ stage = "call"
  BY InitGood DEF PathInit, TemporalInit, HybridInit, Init, PlannerInit, Extended, Manager!Init
<1>2. Manager!ManagerInv
  BY ManagerInitGood DEF PathInit
<1>3. QED BY <1>1, <1>2 DEF PathInv, StrategyInv

(* Without its links a batch is linked, whatever is added to it.            *)
LEMMA NothingReplacedAppend ==
    ASSUME NEW s \in Seq(MemoryAction), NothingReplaced(s),
           NEW act \in MemoryAction, IsCreate(act) => act.replaces = None
    PROVE  NothingReplaced(Append(s, act)) /\ Append(s, act) \in Seq(MemoryAction)
  BY DEF NothingReplaced

LEMMA UnlinkedCreate ==
    ASSUME NEW c \in Contents
    PROVE  /\ Create(c, None) \in MemoryAction
           /\ IsCreate(Create(c, None)) /\ Create(c, None).replaces = None
  BY DEF Create, IsCreate, MemoryAction

LEMMA AddGood ==
    ASSUME StrategyInv, Extended, NEW c \in Contents,
           pc = "done", pc' = pc, next' = next, actions' = actions,
           Extended', result' = Append(result, Create(c, None))
    PROVE  StrategyInv'
<1>1. result \in Seq(MemoryAction) /\ Linked(result)
  BY DEF StrategyInv
<1>2. Linked(result') /\ result' \in Seq(MemoryAction)
  BY <1>1, LinkedAppend, UnlinkedCreate
<1>3. QED BY <1>2 DEF StrategyInv

LEMMA ReadScopeGood ==
    ASSUME StrategyInv, ReadScope, ~ extracting, extracting' = extracting
    PROVE  StrategyInv'
<1>1. /\ pc = "done" /\ PlannerInv /\ Extended' /\ next' = next /\ Linked(result)
  BY TemporalAssumption DEF Phases, ReadScope, StrategyInv, Extended
<1>2. /\ next \in Nat \ {0} /\ actions \in Seq(MemoryAction) /\ result \in Seq(MemoryAction)
  BY <1>1 DEF PlannerInv, TypeOK, PlannerTypeOK
<1>3. CASE historical'
  <2>1. pc' = "coexist" /\ actions' = result /\ result' = <<>>
    BY <1>3 DEF ReadScope
  <2>2. NothingReplaced(result)'
    BY <2>1 DEF NothingReplaced
  <2>3. QED BY <1>1, <1>2, <2>1, <2>2 DEF StrategyInv, Extended
<1>4. CASE ~ historical'
  <2>1. pc' = pc /\ actions' = actions /\ result' = result
    BY <1>4 DEF ReadScope
  <2>2. QED BY <1>1, <1>2, <2>1 DEF StrategyInv, Extended
<1>5. QED BY <1>3, <1>4

LEMMA CoexistGood ==
    ASSUME StrategyInv, CoexistOne \/ CoexistDone, UNCHANGED hybridVars
    PROVE  StrategyInv'
<1>1. /\ pc = "coexist" /\ Extended /\ ~ extracting /\ NothingReplaced(result)
      /\ next \in Nat \ {0} /\ actions \in Seq(MemoryAction) /\ result \in Seq(MemoryAction)
      /\ actions' = actions /\ adding' = adding /\ extracting' = extracting
  <2>1. pc = "coexist" /\ actions' = actions /\ adding' = adding /\ extracting' = extracting
    BY DEF CoexistOne, CoexistDone, temporalVars, hybridVars
  <2>2. Extended
    BY <2>1 DEF StrategyInv, PlannerInv, TypeOK, PlannerPCs
  <2>3. QED BY <2>1, <2>2 DEF StrategyInv
<1>2. CASE CoexistOne
  <2> DEFINE act == actions[next]
             kept == IF IsCreate(act) THEN Create(act.content, None) ELSE act
  <2>1. /\ next \in DOMAIN actions /\ pc' = pc /\ next' = next + 1
        /\ result' = result \/ result' = Append(result, kept)
    BY <1>2 DEF CoexistOne
  <2>2. act \in MemoryAction
    BY <1>1, <2>1
  <2>3. kept \in MemoryAction /\ (IsCreate(kept) => kept.replaces = None)
    BY <2>2, ActionShape, UnlinkedCreate
  <2> HIDE DEF kept
  <2>4. NothingReplaced(result') /\ result' \in Seq(MemoryAction)
    BY <1>1, <2>1, <2>3, NothingReplacedAppend
  <2>5. QED BY <1>1, <2>1, <2>4 DEF StrategyInv, Extended
<1>3. CASE CoexistDone
  <2>1. pc' = "done" /\ next' = 1 /\ result' = result
    BY <1>3 DEF CoexistDone
  <2>2. Linked(result)
    BY <1>1 DEF NothingReplaced, Linked
  <2>3. QED BY <1>1, <2>1, <2>2 DEF StrategyInv, Extended
<1>4. QED BY <1>2, <1>3

LEMMA TemporalGood ==
    ASSUME StrategyInv, TemporalStep, ~ extracting, UNCHANGED hybridVars
    PROVE  StrategyInv'
<1>1. extracting' = extracting
  BY DEF hybridVars
<1>2. ASSUME NEW c \in Contents, Add(c), adding # None, adding' # None
      PROVE  StrategyInv'
  BY <1>2, AddGood DEF Add, plannerVars, Extended
<1>3. CASE ReportedOne \/ Confirmed \/ DerivedOne \/ PastOne
  BY <1>2, <1>3, TemporalAssumption
     DEF Phases, ReportedOne, Confirmed, DerivedOne, PastOne
<1>4. QED BY <1>1, <1>3, ReadScopeGood, CoexistGood DEF TemporalStep

LEMMA ExtractionGood ==
    ASSUME StrategyInv, ExtractionStarts \/ CandidateOne, UNCHANGED temporalVars
    PROVE  StrategyInv'
<1>1. CASE ExtractionStarts
  <2>1. pc = "planned" /\ ~ Extended /\ PlannerInv
    BY <1>1 DEF ExtractionStarts, StrategyInv
  <2>2. /\ pc' = "done" /\ extracting' /\ next' = next /\ actions' = actions
        /\ result' = actions
    BY <1>1 DEF ExtractionStarts
  <2>3. next \in Nat \ {0} /\ actions \in Seq(MemoryAction) /\ Linked(actions)
    BY <2>1 DEF PlannerInv, TypeOK, PlannerTypeOK, RulesLinked
  <2>4. QED BY <2>2, <2>3 DEF StrategyInv, Extended
<1>2. CASE CandidateOne
  <2>1. PICK c \in Extracted : result' = Append(result, Create(c, None))
    BY <1>2 DEF CandidateOne
  <2>2. /\ pc = "done" /\ extracting /\ extracting' = extracting
        /\ pc' = pc /\ next' = next /\ actions' = actions
    BY <1>2 DEF CandidateOne, plannerVars
  <2>3. QED BY <2>1, <2>2, AddGood, HybridAssumption DEF Extended
<1>3. QED BY <1>1, <1>2

LEMMA PlanGood ==
    ASSUME PathInv, Plan
    PROVE  PathInv'
<1>1. stage = "call" /\ stage' = stage /\ Manager!ManagerInv'
  BY ManagerStutterGood DEF PathInv, Plan, managerVars
<1>2. CASE PlanOne /\ UNCHANGED strategyVars
  <2>1. ~ Extended /\ PlannerInv
    <3>1. pc \notin {"done", "coexist"}
      BY <1>2 DEF PlanOne, Rules, PlannerStep, Asked, ForgetOne, ForgetsDone, PreferenceOne,
             PreferencesDone, StatementOne, StatementsDone, RulesDone, VetoOne, VetoDone,
             SemanticOne, RevisionStarts, SupersedeOne, Revised, SemanticDone
    <3>2. QED BY <3>1 DEF PathInv, StrategyInv
  <2>2. PlannerInv' /\ ~ Extended'
    BY <1>2, <2>1, StepGood DEF Next, strategyVars, temporalVars, hybridVars, Extended
  <2>3. StrategyInv'
    <3>1. (pc = "done" => Linked(result))'
      <4>1. ResultLinked'
        BY <2>2, InvariantLinks, PTL
      <4>2. QED BY <4>1 DEF ResultLinked, Done
    <3>2. pc' # "coexist"
      BY <2>2 DEF PlannerInv, TypeOK, PlannerPCs
    <3>3. QED BY <2>2, <3>1, <3>2 DEF StrategyInv
  <2>4. QED BY <1>1, <2>3 DEF PathInv
<1>3. CASE ~ extracting /\ TemporalStep /\ UNCHANGED hybridVars
  BY <1>1, <1>3, TemporalGood DEF PathInv
<1>4. CASE (ExtractionStarts \/ CandidateOne) /\ UNCHANGED temporalVars
  BY <1>1, <1>4, ExtractionGood DEF PathInv
<1>5. QED BY <1>2, <1>3, <1>4 DEF Plan

(* What the strategies leave unchanged while the manager works.             *)
LEMMA StrategyFrame ==
    ASSUME StrategyInv, UNCHANGED <<vars, strategyVars>>
    PROVE  /\ StrategyInv'
           /\ result' = result /\ (Ready <=> Ready')
<1>1. /\ pc' = pc /\ next' = next /\ actions' = actions /\ result' = result
      /\ adding' = adding /\ extracting' = extracting
  BY DEF vars, plannerVars, strategyVars, temporalVars, hybridVars
<1>2. ~ Extended => PlannerInv'
  BY StutterGood DEF StrategyInv
<1>3. QED BY <1>1, <1>2 DEF StrategyInv, Extended, Ready, Linked, NothingReplaced

LEMMA PathStepGood == PathInv /\ [PathNext]_pathVars => PathInv'
<1> SUFFICES ASSUME PathInv, [PathNext]_pathVars PROVE PathInv'
  OBVIOUS
<1>1. StrategyInv /\ Manager!ManagerInv
  BY DEF PathInv
<1>2. CASE Propose
  <2>1. Ready /\ HandOver(result) /\ result \in Seq(MemoryAction)
    BY <1>1, <1>2 DEF Propose, Ready, StrategyInv, Extended
  <2>2. Manager!ManagerInv'
    BY <1>1, <2>1, HandOverGood
  <2>3. proposals' = Handed(result)
    BY <2>1 DEF HandOver
  <2>4. QED BY <1>1, <1>2, <2>1, <2>2, <2>3, StrategyFrame DEF Propose, PathInv
<1>3. CASE Accept
  <2>1. Manager!ManagerInv'
    BY <1>1, <1>3, AcceptGood DEF Accept
  <2>2. proposals' = proposals /\ (stage' # "call" => stage # "call")
    BY <1>3 DEF Accept, AcceptOne, Manager!ValidateOne, Manager!ValidateDone, Manager!ResolveOne,
           Manager!ResolveDone, Manager!FilterOne, Manager!FilterDone, Manager!Answer, Manager!lists
  <2>3. QED BY <1>1, <1>3, <2>1, <2>2, StrategyFrame DEF Accept, PathInv
<1>4. CASE Return
  <2>1. Manager!ManagerInv' /\ stage' = "call"
    BY <1>1, <1>4, ManagerReturnGood DEF Return, Manager!Return
  <2>2. PlannerInv' /\ pc' = "idle" /\ ~ Extended'
    BY <1>4, ReturnedGood DEF Return, Returned, Extended
  <2>3. QED BY <2>1, <2>2 DEF PathInv, StrategyInv
<1>5. CASE UNCHANGED pathVars
  <2>1. UNCHANGED <<vars, strategyVars>> /\ UNCHANGED managerVars
    BY <1>5 DEF pathVars
  <2>2. stage' = stage /\ proposals' = proposals
    BY <2>1 DEF managerVars
  <2>3. QED BY <1>1, <2>1, <2>2, StrategyFrame, ManagerStutterGood DEF PathInv
<1>6. QED BY <1>2, <1>3, <1>4, <1>5, PlanGood DEF PathNext

(* The planner, the strategies after it and the manager keep what each of   *)
(* them owes the next, call after call.                                     *)
THEOREM PathInvariantHolds == PathSpec => []PathInv
  BY PathInitGood, PathStepGood, PTL DEF PathSpec

(* What the rule-based policy hands to the engine is linked, with every     *)
(* planner it can be built with: memory/planner.py to policy/manager.py.    *)
THEOREM PathLinked == PathSpec => []RoutedLinked
<1>1. PathInv => RoutedLinked
  BY CoveredReachesLinked, LinkedIsCovered DEF PathInv, StrategyInv, Ready, RoutedLinked
<1>2. QED BY <1>1, PathInvariantHolds, PTL

(* No action is lost between the planner and the engine, but to a forget of *)
(* the memory it is about.                                                  *)
THEOREM PathLosesOnlyToForget == PathSpec => []LostOnlyToForget
<1>1. PathInv => LostOnlyToForget
  <2> SUFFICES ASSUME PathInv, stage = "answered"
               PROVE  LostOnlyToForget
    BY DEF LostOnlyToForget
  <2>1. result \in Seq(MemoryAction) /\ proposals = Handed(result) /\ Manager!ManagerInv
    BY DEF PathInv, StrategyInv, Ready, Extended
  <2>2. QED BY <2>1, LostToForget DEF LostOnlyToForget
<1>2. QED BY <1>1, PathInvariantHolds, PTL

-----------------------------------------------------------------------------
(* What the batch of the rule-based policy means: MeaningInv is inductive  *)
(* for RuleBasedPath, and with it the properties of the path that speak of *)
(* scopes, of lost statements and of superseded memories hold for every    *)
(* message, every set of memories and every choice of identities.          *)

-----------------------------------------------------------------------------
(* The steps, by where they lead.                                           *)
Quiet == UNCHANGED <<vars, strategyVars>>

Adds == ReportedOne \/ Confirmed \/ DerivedOne \/ PastOne

LEMMA QuietFrame ==
    ASSUME Quiet
    PROVE  /\ UNCHANGED <<pc, existing, preferences, statements, next, seen, superseded, actions>>
           /\ UNCHANGED <<entry, result, adding, historical, added, past, extracting, accepted>>
           /\ UNCHANGED inputs
  BY DEF Quiet, vars, plannerVars, inputs, strategyVars, temporalVars, hybridVars

LEMMA StepCases ==
    ASSUME [PathNext]_pathVars
    PROVE  \/ PlanOne /\ UNCHANGED strategyVars
           \/ ~ extracting /\ TemporalStep /\ UNCHANGED hybridVars
           \/ (ExtractionStarts \/ CandidateOne) /\ UNCHANGED temporalVars
           \/ Return
           \/ Quiet
<1>1. CASE PathNext
  BY <1>1 DEF PathNext, Plan, Propose, Accept, Quiet
<1>2. CASE UNCHANGED pathVars
  BY <1>2 DEF pathVars, Quiet
<1>3. QED BY <1>1, <1>2

(* Where a step of the planner starts. *)
LEMMA StepsFrom ==
    ASSUME [PathNext]_pathVars
    PROVE  /\ pc' = "idle" => Return \/ Quiet
           /\ pc' = "forget" => (Rules /\ (Asked \/ ForgetOne)) \/ Quiet
           /\ pc' = "preferences" => (Rules /\ (ForgetsDone \/ PreferenceOne)) \/ Quiet
           /\ pc' = "statements" => (Rules /\ (PreferencesDone \/ StatementOne)) \/ Quiet
           /\ pc' = "planned" => (Rules /\ StatementsDone) \/ Quiet
           /\ pc' = "veto" => RulesDone \/ VetoOne \/ Quiet
           /\ pc' = "semantic" => VetoDone \/ SemanticOne \/ Revised \/ Quiet
           /\ pc' = "revise" => RevisionStarts \/ SupersedeOne \/ Quiet
           /\ pc' = "coexist" => (ReadScope /\ ~ extracting) \/ CoexistOne \/ Quiet
<1>1. CASE PlanOne
  BY <1>1 DEF PlanOne, Rules, PlannerStep, Asked, ForgetOne, ForgetsDone, PreferenceOne,
         PreferencesDone, StatementOne, StatementsDone, RulesDone, VetoOne, VetoDone,
         SemanticOne, RevisionStarts, SupersedeOne, Revised, SemanticDone
<1>2. CASE TemporalStep /\ ~ extracting
  <2>1. CASE Adds
    <3>1. pc' = "done"
      BY <2>1 DEF Adds, ReportedOne, Confirmed, DerivedOne, PastOne, Add, plannerVars
    <3>2. QED BY <3>1
  <2>2. CASE ReadScope \/ CoexistOne \/ CoexistDone
    BY <1>2, <2>2 DEF ReadScope, CoexistOne, CoexistDone
  <2>3. QED BY <1>2, <2>1, <2>2 DEF TemporalStep, Adds
<1>3. CASE ExtractionStarts \/ CandidateOne
  BY <1>3 DEF ExtractionStarts, CandidateOne, plannerVars
<1>4. CASE Return
  BY <1>4 DEF Return, Returned
<1>5. QED BY <1>1, <1>2, <1>3, <1>4, StepCases

(* ... and where the steps start that end a batch, or extend it.            *)
LEMMA StepsToDone ==
    ASSUME [PathNext]_pathVars, pc' = "done"
    PROVE  \/ RulesDone /\ UNCHANGED strategyVars
           \/ SemanticDone /\ UNCHANGED strategyVars
           \/ ExtractionStarts /\ UNCHANGED temporalVars
           \/ CandidateOne /\ UNCHANGED temporalVars
           \/ ReadScope /\ UNCHANGED hybridVars /\ ~ extracting
           \/ CoexistDone /\ UNCHANGED hybridVars /\ ~ extracting
           \/ Adds /\ UNCHANGED hybridVars /\ ~ extracting
           \/ Quiet
<1>1. CASE PlanOne /\ UNCHANGED strategyVars
  BY <1>1 DEF PlanOne, Rules, PlannerStep, Asked, ForgetOne, ForgetsDone, PreferenceOne,
         PreferencesDone, StatementOne, StatementsDone, RulesDone, VetoOne, VetoDone,
         SemanticOne, RevisionStarts, SupersedeOne, Revised, SemanticDone
<1>2. CASE TemporalStep /\ UNCHANGED hybridVars /\ ~ extracting
  <2>1. CASE CoexistOne
    BY <2>1 DEF CoexistOne
  <2>2. QED BY <1>2, <2>1 DEF TemporalStep, Adds
<1>3. CASE Return
  BY <1>3 DEF Return, Returned
<1>4. QED BY <1>1, <1>2, <1>3, StepCases

(* What a step that adds to the batch does to it. *)
LEMMA AddsOne ==
    ASSUME Adds \/ CandidateOne
    PROVE  /\ pc = "done" /\ pc' = "done" /\ UNCHANGED inputs
           /\ actions' = actions /\ next' = next /\ entry' = entry
           /\ \E c \in Contents : result' = Append(result, Create(c, None))
<1>1. ASSUME NEW c \in Contents, Add(c)
      PROVE  /\ pc = "done" /\ pc' = "done" /\ UNCHANGED inputs
             /\ actions' = actions /\ next' = next /\ entry' = entry
             /\ result' = Append(result, Create(c, None))
  BY <1>1 DEF Add, plannerVars
<1>2. CASE Adds
  BY <1>1, <1>2, TemporalAssumption DEF Adds, ReportedOne, Confirmed, DerivedOne, PastOne
<1>3. CASE CandidateOne
  BY <1>3, HybridAssumption DEF CandidateOne, plannerVars
<1>4. QED BY <1>2, <1>3

-----------------------------------------------------------------------------
(* The memories read, and the batches.                                      *)
LEMMA Batches ==
    ASSUME StrategyInv
    PROVE  /\ actions \in Seq(MemoryAction) /\ result \in Seq(MemoryAction)
           /\ next \in Nat \ {0}
           /\ next \notin DOMAIN actions => \A j \in DOMAIN actions : j < next
           /\ pc \notin {"done", "coexist"} => ~ Extended /\ PlannerInv
           /\ ~ Extended => PlannerInv /\ pc # "coexist"
<1>1. /\ actions \in Seq(MemoryAction) /\ result \in Seq(MemoryAction)
      /\ next \in Nat \ {0}
  BY DEF StrategyInv, PlannerInv, TypeOK, PlannerTypeOK
<1>2. next \notin DOMAIN actions => \A j \in DOMAIN actions : j < next
  BY <1>1
<1>3. ~ Extended => PlannerInv /\ pc # "coexist"
  BY DEF StrategyInv, PlannerInv, TypeOK, PlannerPCs
<1>4. QED BY <1>1, <1>2, <1>3 DEF StrategyInv

(* The snapshot changes when a call begins, and when it ends.               *)
LEMMA InputsKept ==
    ASSUME [PathNext]_pathVars, pc' \notin {"idle", "forget"}
    PROVE  UNCHANGED inputs
<1>1. CASE PlanOne
  BY <1>1 DEF PlanOne, Rules, PlannerStep, Asked, ForgetOne, ForgetsDone, PreferenceOne,
         PreferencesDone, StatementOne, StatementsDone, RulesDone, VetoOne, VetoDone,
         SemanticOne, RevisionStarts, SupersedeOne, Revised, SemanticDone
<1>2. CASE TemporalStep
  <2>1. CASE ReadScope \/ CoexistOne \/ CoexistDone
    BY <2>1 DEF ReadScope, CoexistOne, CoexistDone
  <2>2. QED BY <1>2, <2>1, AddsOne DEF TemporalStep, Adds
<1>3. CASE ExtractionStarts \/ CandidateOne
  BY <1>3 DEF ExtractionStarts, CandidateOne, plannerVars
<1>4. CASE Return
  BY <1>4 DEF Return, Returned
<1>5. QED BY <1>1, <1>2, <1>3, <1>4, StepCases, QuietFrame

LEMMA ReadOnceKept ==
    ASSUME ReadOnce, [PathNext]_pathVars
    PROVE  ReadOnce'
<1>1. CASE UNCHANGED inputs
  BY <1>1 DEF ReadOnce, inputs
<1>2. CASE Return
  BY <1>2 DEF Return, Returned, ReadOnce
<1>3. CASE Asked
  BY <1>3 DEF Asked, ReadOnce
<1>4. CASE ForgetOne
  BY <1>1, <1>4 DEF ForgetOne
<1>5. CASE pc' \in {"idle", "forget"}
  <2>1. Return \/ Asked \/ ForgetOne \/ UNCHANGED inputs
    BY <1>5, StepsFrom, QuietFrame
  <2>2. QED BY <1>1, <1>2, <1>3, <1>4, <2>1
<1>6. QED BY <1>1, <1>5, InputsKept

LEMMA ReadAsAskedKept ==
    ASSUME ReadAsAsked, [PathNext]_pathVars
    PROVE  ReadAsAsked'
<1>1. CASE UNCHANGED inputs
  BY <1>1 DEF ReadAsAsked, inputs
<1>2. CASE Return
  BY <1>2 DEF Return, Returned, ReadAsAsked
<1>3. CASE Asked
  <2>1. PICK n \in 0 .. MaxMemories : existing' \in [1 .. n -> Memories]
    BY <1>3, PlannerAssumption DEF Asked, UpTo
  <2>2. \A k \in DOMAIN existing' : existing'[k] \in Memories
    BY <2>1
  <2>3. ASSUME NEW m \in Memories PROVE m.active \/ ReadsInactive
    <3>1. m.active = TRUE \/ m.active = ~ ReadsInactive
      BY <2>3 DEF Memories
    <3>2. QED BY <3>1
  <2>4. QED BY <2>2, <2>3 DEF ReadAsAsked
<1>4. CASE ForgetOne
  BY <1>1, <1>4 DEF ForgetOne
<1>5. CASE pc' \in {"idle", "forget"}
  <2>1. Return \/ Asked \/ ForgetOne \/ UNCHANGED inputs
    BY <1>5, StepsFrom, QuietFrame
  <2>2. QED BY <1>1, <1>2, <1>3, <1>4, <2>1
<1>6. QED BY <1>1, <1>5, InputsKept

(* The content of a memory is that of its position in the snapshot. *)
LEMMA ContentRead ==
    ASSUME ReadOnce, NEW n \in DOMAIN existing
    PROVE  ContentOf(existing[n].id) = existing[n].content
<1>1. \E k \in DOMAIN existing : existing[k].id = existing[n].id
  OBVIOUS
<1>2. PICK k : k = CHOOSE j \in DOMAIN existing : existing[j].id = existing[n].id
  OBVIOUS
<1>3. k \in DOMAIN existing /\ existing[k].id = existing[n].id
  BY <1>1, <1>2
<1>4. k = n
  BY <1>3 DEF ReadOnce
<1>5. QED BY <1>2, <1>4 DEF ContentOf

-----------------------------------------------------------------------------
(* What is added at the end. *)
(* A text that no create and no memory has is added. *)
Fresh(c) ==
    /\ \A j \in DOMAIN result : IsCreate(result[j]) => ~ Repeats(c, result[j].content)
    /\ Unsaid(c)

Late(n) == \A k \in DOMAIN result : k > Len(result) - n => IsNew(k)

LEMMA NewFrame ==
    ASSUME UNCHANGED <<existing, extracting>>
    PROVE  /\ \A c : Unsaid(c)' = Unsaid(c)
           /\ \A c, d : Repeats(c, d)' = Repeats(c, d)
<1>1. existing' = existing /\ extracting' = extracting
  OBVIOUS
<1>2. ActiveRead' = ActiveRead
  BY <1>1 DEF ActiveRead
<1>3. \A c : Remembered(c)' = Remembered(c) /\ Stated(c)' = Stated(c)
  BY <1>1, <1>2 DEF Remembered, Stated
<1>4. \A c, k : SameSlot(c, k)' = SameSlot(c, k) /\ SameValue(c, k)' = SameValue(c, k)
  BY <1>1 DEF SameSlot, SameValue, Meant
<1>5. \A c : Equivalent(c)' = Equivalent(c)
  BY <1>2, <1>4 DEF Equivalent
<1>6. QED BY <1>1, <1>3, <1>5 DEF Unsaid, Repeats

LEMMA LateIsAdded ==
    result \in Seq(MemoryAction) /\ past \in Nat /\ accepted \in Nat /\ Ready
      => (AddedOnce <=> Late(past + accepted))
<1> SUFFICES ASSUME result \in Seq(MemoryAction), past \in Nat, accepted \in Nat, Ready
             PROVE  AddedOnce <=> Late(past + accepted)
  OBVIOUS
<1>1. Len(result) \in Nat /\ Len(result) - past - accepted = Len(result) - (past + accepted)
  OBVIOUS
<1>2. QED BY <1>1 DEF AddedOnce, Late

LEMMA LateGrows ==
    ASSUME result \in Seq(MemoryAction), NEW n \in Nat, Late(n),
           UNCHANGED <<existing, extracting>>,
           NEW c \in Contents, Fresh(c), result' = Append(result, Create(c, None))
    PROVE  Late(n + 1)'
<1>1. /\ Len(result) \in Nat /\ Len(result') = Len(result) + 1
      /\ DOMAIN result = 1 .. Len(result) /\ DOMAIN result' = 1 .. Len(result) + 1
      /\ \A k \in DOMAIN result : result'[k] = result[k]
      /\ result'[Len(result) + 1] = Create(c, None)
  OBVIOUS
<1>2. Create(c, None).content = c /\ IsCreate(Create(c, None))
  BY DEF Create, IsCreate
<1>3. /\ \A d : Unsaid(d)' = Unsaid(d)
      /\ \A d, e : Repeats(d, e)' = Repeats(d, e)
  BY NewFrame
<1>4. \A d, e : Repeats(d, e) => Repeats(e, d)
  BY DEF Repeats
<1>5. ASSUME NEW k \in DOMAIN result', k > Len(result') - (n + 1)
      PROVE  /\ IsCreate(result'[k])
             /\ \A j \in DOMAIN result' \ {k} :
                    IsCreate(result'[j]) => ~ Repeats(result'[k].content, result'[j].content)
             /\ Unsaid(result'[k].content)
  <2>1. CASE k = Len(result) + 1
    <3>1. result'[k] = Create(c, None)
      BY <1>1, <2>1
    <3>2. \A j \in DOMAIN result' \ {k} : j \in DOMAIN result /\ result'[j] = result[j]
      BY <1>1, <2>1
    <3>3. QED BY <1>2, <3>1, <3>2 DEF Fresh
  <2>2. CASE k \in DOMAIN result
    <3>1. k > Len(result) - n /\ result'[k] = result[k]
      BY <1>1, <1>5, <2>2
    <3>2. IsNew(k)
      BY <2>2, <3>1 DEF Late
    <3>3. ~ Repeats(result[k].content, c)
      BY <1>4, <2>2, <3>2 DEF Fresh, IsNew
    <3>4. ASSUME NEW j \in DOMAIN result' \ {k}, IsCreate(result'[j])
          PROVE  ~ Repeats(result'[k].content, result'[j].content)
      <4>1. CASE j = Len(result) + 1
        BY <1>1, <1>2, <3>1, <3>3, <4>1
      <4>2. CASE j \in DOMAIN result
        BY <1>1, <3>1, <3>2, <3>4, <4>2 DEF IsNew
      <4>3. QED BY <1>1, <4>1, <4>2
    <3>5. QED BY <3>1, <3>2, <3>4 DEF IsNew
  <2>3. k \in DOMAIN result \/ k = Len(result) + 1
    BY <1>1
  <2>4. QED BY <2>1, <2>2, <2>3
<1>6. ASSUME NEW k \in DOMAIN result', k > Len(result') - (n + 1) PROVE IsNew(k)'
  BY <1>3, <1>5, <1>6 DEF IsNew
<1>7. QED BY <1>6 DEF Late

(* Nothing was added that counts. *)
LEMMA AddedNothing ==
    ASSUME result' \in Seq(MemoryAction), past' = 0, accepted' = 0,
           adding' = None => ~ historical', extracting' => adding' = None,
           pc' = "coexist" => adding' = "reported"
    PROVE  AddedInv'
<1>1. Len(result') \in Nat /\ \A k \in DOMAIN result' : ~ (k > Len(result') - 0 - 0)
  OBVIOUS
<1>2. AddedOnce'
  BY <1>1 DEF AddedOnce
<1>3. QED BY <1>1, <1>2 DEF AddedInv

LEMMA AddedOneMore ==
    ASSUME StrategyInv, StrategyInv', AddedInv, Ready, Ready',
           UNCHANGED <<existing, extracting>>,
           NEW c \in Contents, Fresh(c), result' = Append(result, Create(c, None)),
           \/ past' = past + 1 /\ accepted' = accepted
           \/ past' = past /\ accepted' = accepted + 1
    PROVE  AddedOnce' /\ past' \in Nat /\ accepted' \in Nat /\ past' + accepted' <= Len(result')
<1>1. /\ result \in Seq(MemoryAction) /\ past \in Nat /\ accepted \in Nat
      /\ past + accepted <= Len(result) /\ AddedOnce
  BY Batches DEF AddedInv
<1>2. PICK n \in Nat : n = past + accepted
  BY <1>1
<1>3. Late(n)
  BY <1>1, <1>2, LateIsAdded
<1>4. Late(n + 1)'
  BY <1>1, <1>3, LateGrows
<1>5. past' \in Nat /\ accepted' \in Nat /\ past' + accepted' = n + 1
  BY <1>1, <1>2
<1>6. result' \in Seq(MemoryAction) /\ Len(result') = Len(result) + 1 /\ Len(result) \in Nat
  BY <1>1, UnlinkedCreate
<1>7. (result \in Seq(MemoryAction) /\ past \in Nat /\ accepted \in Nat /\ Ready
        => (AddedOnce <=> Late(past + accepted)))'
  BY LateIsAdded, PTL
<1>8. Late(past + accepted)'
  BY <1>4, <1>5 DEF Late
<1>9. past' + accepted' <= Len(result')
  BY <1>1, <1>2, <1>5, <1>6
<1>10. QED BY <1>5, <1>6, <1>7, <1>8, <1>9

LEMMA AddedKept ==
    ASSUME StrategyInv, StrategyInv', AddedInv, [PathNext]_pathVars
    PROVE  AddedInv'
<1>1. result' \in Seq(MemoryAction) /\ actions \in Seq(MemoryAction)
  BY Batches DEF StrategyInv, PlannerInv, TypeOK, PlannerTypeOK
<1>2. /\ ~ Extended => adding = None /\ past = 0 /\ accepted = 0 /\ ~ historical /\ ~ extracting
      /\ ~ extracting => accepted = 0
      /\ extracting => adding = None
      /\ adding # "past" => past = 0
      /\ "reported" # None /\ "decided" # None /\ "derived" # None /\ "past" # None
      /\ None # "past"
  BY TemporalAssumption DEF AddedInv, Extended, Phases
<1>3. CASE PlanOne /\ UNCHANGED strategyVars
  <2>1. pc \notin {"done", "coexist"} /\ pc' # "coexist"
    BY <1>3 DEF PlanOne, Rules, PlannerStep, Asked, ForgetOne, ForgetsDone, PreferenceOne,
           PreferencesDone, StatementOne, StatementsDone, RulesDone, VetoOne, VetoDone,
           SemanticOne, RevisionStarts, SupersedeOne, Revised, SemanticDone
  <2>2. ~ Extended
    BY <2>1, Batches
  <2>3. QED BY <1>1, <1>2, <1>3, <2>1, <2>2, AddedNothing
              DEF strategyVars, temporalVars, hybridVars
<1>4. CASE ~ extracting /\ TemporalStep /\ UNCHANGED hybridVars
  <2>1. accepted = 0 /\ accepted' = 0 /\ ~ extracting'
    BY <1>2, <1>4 DEF hybridVars
  <2>2. CASE ReadScope
    <3>1. adding = None /\ adding' = "reported" /\ past' = past
      BY <2>2 DEF ReadScope
    <3>2. QED BY <1>1, <1>2, <2>1, <3>1, AddedNothing
  <2>3. CASE CoexistOne \/ CoexistDone
    <3>1. pc = "coexist" /\ adding' = adding /\ past' = past
      BY <2>3 DEF CoexistOne, CoexistDone, temporalVars
    <3>2. adding = "reported"
      BY <3>1 DEF AddedInv
    <3>3. QED BY <1>1, <1>2, <2>1, <3>1, <3>2, AddedNothing
  <2>4. CASE ReportedOne \/ Confirmed \/ DerivedOne
    <3>1. pc' = "done"
      BY <2>4, AddsOne DEF Adds
    <3>2. /\ adding \in {"reported", "decided"} /\ past' = past
          /\ adding' \in {"reported", "decided", "derived"}
      BY <2>4 DEF ReportedOne, Confirmed, DerivedOne
    <3>3. QED BY <1>1, <1>2, <2>1, <3>1, <3>2, AddedNothing
  <2>5. CASE PastOne
    <3>1. PICK c \in Past : ~ Stated(c) /\ ~ Planned(c) /\ Add(c)
      BY <2>5 DEF PastOne
    <3>2. /\ c \in Contents /\ result' = Append(result, Create(c, None))
          /\ past' = past + 1 /\ adding # None /\ adding' = "past"
          /\ pc = "done" /\ pc' = "done" /\ UNCHANGED existing
      BY <2>5, <3>1, TemporalAssumption DEF PastOne, Add, plannerVars, inputs
    <3>3. Fresh(c)
      BY <1>4, <3>1 DEF Planned, Fresh, Repeats, Unsaid
    <3>4. Ready /\ Ready' /\ Extended'
      BY <1>2, <3>2 DEF Ready, Extended
    <3>5. accepted' = accepted /\ UNCHANGED extracting
      BY <1>4, <2>1 DEF hybridVars
    <3>6. AddedOnce' /\ past' \in Nat /\ accepted' \in Nat /\ past' + accepted' <= Len(result')
      BY <3>2, <3>3, <3>4, <3>5, AddedOneMore
    <3>7. QED BY <1>2, <2>1, <3>2, <3>4, <3>6 DEF AddedInv
  <2>6. QED BY <1>4, <2>2, <2>3, <2>4, <2>5 DEF TemporalStep
<1>5. CASE ExtractionStarts /\ UNCHANGED temporalVars
  <2>1. pc = "planned" /\ pc' = "done" /\ accepted' = accepted
    BY <1>5 DEF ExtractionStarts
  <2>2. ~ Extended
    BY <2>1, Batches
  <2>3. QED BY <1>1, <1>2, <1>5, <2>1, <2>2, AddedNothing DEF temporalVars
<1>6. CASE CandidateOne /\ UNCHANGED temporalVars
  <2>1. PICK c \in Extracted : Accepted(c) /\ result' = Append(result, Create(c, None))
    BY <1>6 DEF CandidateOne
  <2>2. /\ c \in Contents /\ accepted' = accepted + 1 /\ past' = past
        /\ pc = "done" /\ pc' = "done" /\ UNCHANGED existing
        /\ extracting /\ extracting' /\ adding' = adding /\ historical' = historical
    BY <1>6, HybridAssumption DEF CandidateOne, plannerVars, inputs, temporalVars
  <2>3. Fresh(c)
    BY <2>1, <2>2 DEF Accepted, InBatch, Fresh, Repeats, Unsaid
  <2>4. Ready /\ Ready' /\ Extended'
    BY <2>2 DEF Ready, Extended
  <2>5. AddedOnce' /\ past' \in Nat /\ accepted' \in Nat /\ past' + accepted' <= Len(result')
    BY <2>1, <2>2, <2>3, <2>4, AddedOneMore
  <2>6. adding = None /\ ~ historical /\ past = 0
    BY <1>2, <2>2 DEF AddedInv
  <2>7. QED BY <1>2, <2>2, <2>4, <2>5, <2>6 DEF AddedInv
<1>7. CASE Return
  BY <1>1, <1>7, AddedNothing DEF Return, Returned
<1>8. CASE Quiet
  <2>1. AddedOnce'
    <3>1. /\ result' = result /\ past' = past /\ accepted' = accepted
          /\ existing' = existing /\ extracting' = extracting
          /\ Ready' = Ready
      BY <1>8, QuietFrame DEF Ready, inputs
    <3>2. \A k : IsNew(k)' = IsNew(k)
      BY <3>1, NewFrame DEF IsNew
    <3>3. QED BY <3>1, <3>2 DEF AddedInv, AddedOnce
  <2>2. QED BY <1>8, <2>1, QuietFrame DEF AddedInv, Extended
<1>9. QED BY <1>3, <1>4, <1>5, <1>6, <1>7, <1>8, StepCases

-----------------------------------------------------------------------------
(* What the loops carry over. *)
LEMMA VetoedFrame ==
    ASSUME UNCHANGED inputs, UNCHANGED actions
    PROVE  Vetoed' = Vetoed /\ \A act : Unlinked(act)' = Unlinked(act)
<1>1. Vetoed' = Vetoed
  BY ReadFrame DEF Vetoed, AcrossScopes, Meant
<1>2. QED BY <1>1 DEF Unlinked

LEMMA VetoCarriesKept ==
    ASSUME StrategyInv, VetoCarries, [PathNext]_pathVars
    PROVE  VetoCarries'
<1> SUFFICES ASSUME pc' = "veto" PROVE VetoCarries'
  BY DEF VetoCarries
<1>1. CASE RulesDone
  <2>1. pc = "planned"
    BY <1>1 DEF RulesDone
  <2>2. result' = <<>> /\ next' = 1 /\ actions' = actions
    BY <1>1, <2>1, Batches DEF RulesDone, PlannerInv, Rewriting
  <2>3. \A j \in DOMAIN actions : ~ (j < 1)
    BY Batches
  <2>4. QED BY <2>2, <2>3 DEF VetoCarries
<1>2. CASE VetoOne
  <2>1. PICK act : act = actions[next]
    OBVIOUS
  <2>2. /\ pc = "veto" /\ next \in DOMAIN actions /\ next' = next + 1
        /\ UNCHANGED inputs /\ UNCHANGED actions
    BY <1>2 DEF VetoOne
  <2>3. Vetoed' = Vetoed /\ \A a : Unlinked(a)' = Unlinked(a)
    BY <2>2, VetoedFrame
  <2>4. PlannerInv
    BY <2>2, Batches
  <2>5. /\ act \in MemoryAction /\ Unlinked(act) \in MemoryAction
        /\ ~ IsCreate(act) => Unlinked(act) = act
        /\ IsCreate(act) => ~ (Unlinked(act).action = "supersede")
    <3>1. act \in MemoryAction /\ (Retires(act) => act.memory_id \in Read)
            /\ (IsCreate(act) => act.replaces \in Read \cup {None})
      BY <2>1, <2>2, <2>4, Facts DEF TargetsRead
    <3>2. IsCreate(act) => ~ (Unlinked(act).action = "supersede")
      BY DEF Unlinked, Create, IsCreate
    <3>3. QED BY <3>1, <3>2, UnlinkedGood
  <2>6. \/ result' = result /\ act.action = "supersede" /\ act.memory_id \in Vetoed
        \/ /\ result' = Append(result, Unlinked(act))
           /\ ~ (act.action = "supersede" /\ act.memory_id \in Vetoed)
    BY <1>2, <2>1 DEF VetoOne
  <2>7. /\ \A k \in DOMAIN result : k \in DOMAIN result' /\ result'[k] = result[k]
        /\ \A k \in DOMAIN result' : \/ k \in DOMAIN result /\ result'[k] = result[k]
                                     \/ result'[k] = Unlinked(act)
    BY <2>5, <2>6, AppendHas, Batches
  <2>8. ASSUME NEW j \in DOMAIN actions, j < next + 1, IsCreate(actions[j])
        PROVE  \E k \in DOMAIN result' : result'[k] = Unlinked(actions[j])
    <3>1. CASE j < next
      <4>1. PICK k \in DOMAIN result : result[k] = Unlinked(actions[j])
        BY <2>2, <2>8, <3>1 DEF VetoCarries
      <4>2. QED BY <2>7, <4>1
    <3>2. CASE j = next
      <4>1. actions[j] = act /\ result' = Append(result, Unlinked(act))
        BY <2>1, <2>6, <2>8, <3>2 DEF IsCreate
      <4>2. QED BY <2>5, <4>1, AppendHas, Batches
    <3>3. j \in Nat /\ next \in Nat
      BY Batches
    <3>4. QED BY <2>8, <3>1, <3>2, <3>3
  <2>9. ASSUME NEW k \in DOMAIN result'
        PROVE  /\ \E j \in DOMAIN actions : result'[k] = Unlinked(actions[j])
               /\ result'[k].action = "supersede" => result'[k].memory_id \notin Vetoed
    <3>1. CASE k \in DOMAIN result /\ result'[k] = result[k]
      BY <2>2, <3>1 DEF VetoCarries
    <3>2. CASE result'[k] = Unlinked(act) /\ result' = Append(result, Unlinked(act))
      BY <2>1, <2>2, <2>5, <2>6, <3>2 DEF IsCreate
    <3>3. QED BY <2>6, <2>7, <3>1, <3>2
  <2>10. QED BY <2>2, <2>3, <2>8, <2>9 DEF VetoCarries
<1>3. CASE Quiet
  BY <1>3, QuietFrame, VetoedFrame DEF VetoCarries
<1>4. QED BY <1>1, <1>2, <1>3, StepsFrom

(* What the veto leaves of the batch of the rules. *)
LEMMA VetoedBatch ==
    ASSUME StrategyInv, VetoCarries, pc = "veto", next \notin DOMAIN actions
    PROVE  /\ \A j \in DOMAIN actions : IsCreate(actions[j]) =>
                 \E k \in DOMAIN result :
                    /\ IsCreate(result[k]) /\ result[k].content = actions[j].content
                    /\ actions[j].replaces \notin Vetoed => result[k] = actions[j]
           /\ \A k \in DOMAIN result :
                 /\ IsCreate(result[k]) => \E j \in DOMAIN actions :
                       IsCreate(actions[j]) /\ actions[j].content = result[k].content
                 /\ ~ IsCreate(result[k]) \/ IsLinked(result[k]) =>
                       \E j \in DOMAIN actions : actions[j] = result[k]
                 /\ IsLinked(result[k]) => result[k].replaces \notin Vetoed
                 /\ result[k].action = "supersede" => result[k].memory_id \notin Vetoed
<1>1. PlannerInv /\ \A j \in DOMAIN actions : j < next
  BY Batches
<1>2. ASSUME NEW j \in DOMAIN actions
      PROVE  /\ ~ IsCreate(actions[j]) => Unlinked(actions[j]) = actions[j]
             /\ IsLinked(Unlinked(actions[j])) =>
                   Unlinked(actions[j]) = actions[j] /\ actions[j].replaces \notin Vetoed
             /\ IsCreate(actions[j]) => /\ IsCreate(Unlinked(actions[j]))
                                       /\ Unlinked(actions[j]).content = actions[j].content
             /\ actions[j].replaces \notin Vetoed => Unlinked(actions[j]) = actions[j]
  <2>1. actions[j] \in MemoryAction /\ (Retires(actions[j]) => actions[j].memory_id \in Read)
          /\ (IsCreate(actions[j]) => actions[j].replaces \in Read \cup {None})
    BY <1>1, Facts DEF TargetsRead
  <2>2. IsCreate(actions[j]) => /\ IsCreate(Unlinked(actions[j]))
                                /\ Unlinked(actions[j]).content = actions[j].content
    BY DEF Unlinked, Create, IsCreate
  <2>3. actions[j].replaces \notin Vetoed => Unlinked(actions[j]) = actions[j]
    BY DEF Unlinked
  <2>4. QED BY <2>1, <2>2, <2>3, UnlinkedGood DEF IsLinked
<1>3. ASSUME NEW j \in DOMAIN actions, IsCreate(actions[j])
      PROVE  \E k \in DOMAIN result :
                /\ IsCreate(result[k]) /\ result[k].content = actions[j].content
                /\ actions[j].replaces \notin Vetoed => result[k] = actions[j]
  <2>1. PICK k \in DOMAIN result : result[k] = Unlinked(actions[j])
    BY <1>1, <1>3 DEF VetoCarries
  <2>2. QED BY <1>2, <1>3, <2>1
<1>4. ASSUME NEW k \in DOMAIN result
      PROVE  /\ IsCreate(result[k]) => \E j \in DOMAIN actions :
                   IsCreate(actions[j]) /\ actions[j].content = result[k].content
             /\ ~ IsCreate(result[k]) \/ IsLinked(result[k]) =>
                   \E j \in DOMAIN actions : actions[j] = result[k]
             /\ IsLinked(result[k]) => result[k].replaces \notin Vetoed
             /\ result[k].action = "supersede" => result[k].memory_id \notin Vetoed
  <2>1. PICK j \in DOMAIN actions : result[k] = Unlinked(actions[j])
    BY DEF VetoCarries
  <2>2. CASE IsCreate(actions[j])
    BY <1>2, <2>1, <2>2 DEF VetoCarries
  <2>3. CASE ~ IsCreate(actions[j])
    BY <1>2, <2>1, <2>3 DEF VetoCarries, IsLinked
  <2>4. QED BY <2>2, <2>3
<1>5. QED BY <1>3, <1>4

(* What a statement means does not change while the batch is planned. *)
LEMMA MeaningFrame ==
    ASSUME UNCHANGED inputs
    PROVE  /\ \A c, n : SameSlot(c, n)' = SameSlot(c, n)
           /\ \A c : Known(c)' = Known(c) /\ TextKnown(c)' = TextKnown(c)
           /\ Uttered' = Uttered
<1>1. /\ existing' = existing /\ preferences' = preferences /\ statements' = statements
  BY DEF inputs
<1>2. \A c, n : SameSlot(c, n)' = SameSlot(c, n) /\ SameValue(c, n)' = SameValue(c, n)
  BY <1>1 DEF SameSlot, SameValue, Meant
<1>3. \A c : Known(c)' = Known(c)
  BY <1>1, <1>2 DEF Known
<1>4. \A c : TextKnown(c)' = TextKnown(c)
  BY <1>1 DEF TextKnown
<1>5. Uttered' = Uttered
  BY <1>1 DEF Uttered
<1>6. QED BY <1>2, <1>3, <1>4, <1>5

(* A batch with the actions of another. *)
Within(s, t) == \A k \in DOMAIN s : \E j \in DOMAIN t : t[j] = s[k]

LEMMA ResultGrows ==
    ASSUME StrategyInv, NEW act \in MemoryAction, result' = Append(result, act)
    PROVE  /\ Within(result, result')
           /\ \E k \in DOMAIN result' : result'[k] = act
           /\ \A k \in DOMAIN result' : (k \in DOMAIN result /\ result'[k] = result[k]) \/ result'[k] = act
<1>1. result \in Seq(MemoryAction)
  BY Batches
<1>2. PICK s, t : s = result /\ t = result'
  OBVIOUS
<1>3. s \in Seq(MemoryAction) /\ t = Append(s, act)
  BY <1>1, <1>2
<1>4. /\ \A k \in DOMAIN s : k \in DOMAIN t /\ t[k] = s[k]
      /\ \E k \in DOMAIN t : t[k] = act
      /\ \A k \in DOMAIN t : (k \in DOMAIN s /\ t[k] = s[k]) \/ t[k] = act
  BY <1>3, AppendHas
<1>5. Within(s, t)
  BY <1>4 DEF Within
<1>6. QED BY <1>2, <1>4, <1>5

LEMMA SlotsCarryKept ==
    ASSUME StrategyInv, StrategyInv', SlotsCarry, [PathNext]_pathVars
    PROVE  SlotsCarry'
<1> SUFFICES ASSUME pc' \in {"semantic", "revise"} PROVE SlotsCarry'
  BY DEF SlotsCarry
<1>1. UNCHANGED inputs /\ \A c : Known(c)' = Known(c)
  BY InputsKept, MeaningFrame
<1>2. CASE VetoDone
  <2>1. next' = 1 /\ actions' = result /\ pc' = "semantic"
    BY <1>2 DEF VetoDone
  <2>2. \A j \in DOMAIN result : ~ (j < 1)
    BY Batches
  <2>3. QED BY <2>1, <2>2 DEF SlotsCarry
<1>3. ASSUME pc \in {"semantic", "revise"}, actions' = actions, Within(result, result'),
             \A j \in DOMAIN actions : j < next' /\ IsCreate(actions[j]) =>
                \/ j < next
                \/ /\ Says(result', actions[j].content) \/ Known(actions[j].content)
                   /\ IsLinked(actions[j]) => \E k \in DOMAIN result' : result'[k] = actions[j],
             pc' = "revise" => ~ IsLinked(actions[next'])
      PROVE  SlotsCarry'
  <2>1. \A c : Says(result, c) => Says(result', c)
    BY <1>3 DEF Says, Within
  <2>2. ASSUME NEW j \in DOMAIN actions, j < next', IsCreate(actions[j])
        PROVE  /\ Says(result', actions[j].content) \/ Known(actions[j].content)
               /\ IsLinked(actions[j]) => \E k \in DOMAIN result' : result'[k] = actions[j]
    <3>1. CASE j < next
      BY <1>3, <2>1, <2>2, <3>1 DEF SlotsCarry, Within
    <3>2. QED BY <1>3, <2>2, <3>1
  <2>3. QED BY <1>1, <1>3, <2>2 DEF SlotsCarry, Says, IsLinked
<1>4. \A j \in DOMAIN actions : j < next + 1 => j < next \/ j = next
  BY Batches
<1>5. CASE SemanticOne
  <2>1. PICK act : act = actions[next]
    OBVIOUS
  <2>2. /\ pc = "semantic" /\ next \in DOMAIN actions /\ next' = next + 1
        /\ pc' = "semantic" /\ UNCHANGED actions /\ act \in MemoryAction
        /\ result' = IF Dropped(act) THEN result ELSE Append(result, act)
    BY <1>5, <2>1, Batches DEF SemanticOne
  <2>3. CASE Dropped(act)
    <3>1. Known(act.content) /\ ~ IsLinked(act)
      <4>1. ~ Untouched(act) /\ Duplicates(act.content) # {}
        BY <2>3 DEF Dropped
      <4>2. Known(act.content)
        BY <4>1 DEF Duplicates, Eligible, Known
      <4>3. QED BY <4>1, <4>2 DEF Untouched, IsLinked
    <3>2. Within(result, result')
      BY <2>2, <2>3 DEF Within
    <3>3. QED BY <1>3, <1>4, <2>1, <2>2, <3>1, <3>2
  <2>4. CASE ~ Dropped(act)
    <3>1. Within(result, result') /\ \E k \in DOMAIN result' : result'[k] = act
      BY <2>2, <2>4, ResultGrows
    <3>2. IsCreate(act) => Says(result', act.content)
      BY <3>1 DEF Says
    <3>3. QED BY <1>3, <1>4, <2>1, <2>2, <3>1, <3>2
  <2>5. QED BY <2>3, <2>4
<1>6. CASE Revised
  <2>1. PICK c : c = actions[next].content
    OBVIOUS
  <2>2. /\ pc = "revise" /\ next' = next + 1 /\ UNCHANGED actions
    BY <1>6 DEF Revised
  <2>3. PICK k \in Contradicted(c) : result' = Append(result, Create(c, existing[k].id))
    BY <1>6, <2>1 DEF Revised
  <2>4. Create(c, existing[k].id) \in MemoryAction
    <3>1. PlannerInv /\ next \in DOMAIN actions /\ IsCreate(actions[next])
      BY <2>2, Batches DEF PlannerInv, RevisionSupersedes
    <3>2. existing[k] \in Memories /\ actions[next] \in MemoryAction
      BY <2>3, <3>1, Facts DEF Contradicted, Eligible
    <3>3. existing[k].id \in Ids /\ c \in Contents
      BY <2>1, <3>1, <3>2, ActionShape DEF Memories
    <3>4. QED BY <3>3, ActionTypes
  <2>5. Within(result, result') /\ Says(result', c)
    <3>1. PICK act \in MemoryAction : act = Create(c, existing[k].id)
      BY <2>4
    <3>2. Within(result, result') /\ \E j \in DOMAIN result' : result'[j] = act
      BY <2>3, <3>1, ResultGrows
    <3>3. IsCreate(Create(c, existing[k].id)) /\ Create(c, existing[k].id).content = c
      BY DEF IsCreate, Create
    <3>4. QED BY <3>1, <3>2, <3>3 DEF Says
  <2>6. ~ IsLinked(actions[next]) /\ pc' = "semantic"
    BY <1>6, <2>2 DEF SlotsCarry, Revised
  <2>7. QED BY <1>3, <1>4, <2>1, <2>2, <2>5, <2>6
<1>7. CASE RevisionStarts
  <2>1. /\ pc = "semantic" /\ UNCHANGED <<next, actions, result>>
        /\ ~ IsLinked(actions[next])
    BY <1>7 DEF RevisionStarts, Revises, Untouched, IsLinked
  <2>2. Within(result, result')
    BY <2>1 DEF Within
  <2>3. QED BY <1>3, <2>1, <2>2
<1>8. CASE SupersedeOne
  <2>1. PICK i : i = existing[entry].id
    OBVIOUS
  <2>2. /\ pc = "revise" /\ UNCHANGED <<next, actions>> /\ entry \in DOMAIN existing
        /\ result' = result \/ result' = Append(result, Supersede(i))
    BY <1>8, <2>1 DEF SupersedeOne
  <2>3. Supersede(i) \in MemoryAction
    <3>1. existing[entry] \in Memories
      BY <2>2, Batches, Facts
    <3>2. i \in Ids
      BY <2>1, <3>1 DEF Memories
    <3>3. QED BY <3>2 DEF Supersede, MemoryAction, RetireActions
  <2>4. Within(result, result')
    <3>1. CASE result' = result
      BY <3>1 DEF Within
    <3>2. CASE result' = Append(result, Supersede(i))
      BY <2>3, <3>2, ResultGrows
    <3>3. QED BY <2>2, <3>1, <3>2
  <2>5. ~ IsLinked(actions[next])
    BY <2>2 DEF SlotsCarry
  <2>6. QED BY <1>3, <2>2, <2>4, <2>5
<1>9. CASE Quiet
  BY <1>1, <1>9, QuietFrame DEF SlotsCarry
<1>10. QED BY <1>2, <1>5, <1>6, <1>7, <1>8, <1>9, StepsFrom

LEMMA PastCarriesKept ==
    ASSUME StrategyInv, PastCarries, pc = "done" => next = 1, [PathNext]_pathVars
    PROVE  PastCarries'
<1> SUFFICES ASSUME pc' = "coexist" PROVE PastCarries'
  BY DEF PastCarries
<1>1. CASE ReadScope
  <2>1. pc = "done" /\ next' = 1 /\ result' = <<>> /\ actions' = result
    BY <1>1 DEF ReadScope
  <2>2. \A j \in DOMAIN result : ~ (j < 1)
    BY Batches
  <2>3. QED BY <2>1, <2>2 DEF PastCarries
<1>2. CASE CoexistOne
  <2>1. PICK act : act = actions[next]
    OBVIOUS
  <2>2. /\ pc = "coexist" /\ next \in DOMAIN actions /\ next' = next + 1 /\ UNCHANGED actions
        /\ act \in MemoryAction
    BY <1>2, <2>1, Batches DEF CoexistOne
  <2>3. \A a : VetoedAsPast(a)' = VetoedAsPast(a)
    BY <2>2 DEF VetoedAsPast, Replaced
  <2>4. PICK kept : kept = IF IsCreate(act) THEN Create(act.content, None) ELSE act
    OBVIOUS
  <2>5. /\ kept \in MemoryAction
        /\ IsCreate(act) => IsCreate(kept) /\ kept.content = act.content
        /\ ~ IsCreate(act) => kept = act
    <3>1. CASE IsCreate(act)
      BY <2>2, <2>4, <3>1, ActionShape, UnlinkedCreate DEF Create
    <3>2. CASE ~ IsCreate(act)
      BY <2>2, <2>4, <3>2
    <3>3. QED BY <3>1, <3>2
  <2>6. \/ result' = result /\ VetoedAsPast(act)
        \/ result' = Append(result, kept) /\ ~ VetoedAsPast(act)
    BY <1>2, <2>1, <2>4 DEF CoexistOne
  <2>7. Within(result, result') /\ \A c : Says(result, c) => Says(result', c)
    <3>1. Within(result, result')
      BY <2>5, <2>6, ResultGrows DEF Within
    <3>2. QED BY <3>1 DEF Within, Says
  <2>8. IsCreate(act) => Says(result', act.content)
    <3>1. SUFFICES ASSUME IsCreate(act) PROVE Says(result', act.content)
      OBVIOUS
    <3>2. result' = Append(result, kept)
      BY <2>6, <3>1 DEF VetoedAsPast, IsCreate
    <3>3. \E k \in DOMAIN result' : result'[k] = kept
      BY <2>5, <3>2, ResultGrows
    <3>4. QED BY <2>5, <3>1, <3>3 DEF Says
  <2>9. ASSUME NEW j \in DOMAIN actions, j < next + 1, IsCreate(actions[j])
        PROVE  Says(result', actions[j].content)
    <3>1. j < next \/ j = next
      BY <2>9, Batches
    <3>2. CASE j < next
      BY <2>2, <2>7, <2>9, <3>2 DEF PastCarries
    <3>3. QED BY <2>1, <2>8, <2>9, <3>1, <3>2
  <2>10. ASSUME NEW k \in DOMAIN result', ~ IsCreate(result'[k])
         PROVE  ~ VetoedAsPast(result'[k]) /\ \E j \in DOMAIN actions : actions[j] = result'[k]
    <3>1. CASE k \in DOMAIN result /\ result'[k] = result[k]
      BY <2>2, <2>10, <3>1 DEF PastCarries
    <3>2. CASE result'[k] = kept /\ ~ VetoedAsPast(act)
      BY <2>1, <2>2, <2>5, <2>10, <3>2
    <3>3. \/ k \in DOMAIN result /\ result'[k] = result[k]
          \/ result'[k] = kept /\ ~ VetoedAsPast(act)
      BY <2>5, <2>6, ResultGrows
    <3>4. QED BY <3>1, <3>2, <3>3
  <2>11. QED BY <2>2, <2>3, <2>9, <2>10 DEF PastCarries, Says
<1>3. CASE Quiet
  BY <1>3, QuietFrame DEF PastCarries, Says, VetoedAsPast, Replaced
<1>4. QED BY <1>1, <1>2, <1>3, StepsFrom

-----------------------------------------------------------------------------
(* Scopes. *)
LEMMA ScopesAppend ==
    ASSUME StrategyInv, ScopesApart(result), NEW act \in MemoryAction, result' = Append(result, act),
           IsLinked(act) => ~ AcrossScopes(act.content, ContentOf(act.replaces))
    PROVE  ScopesApart(result')
  BY ResultGrows DEF ScopesApart

LEMMA ScopesFrame ==
    ASSUME UNCHANGED inputs
    PROVE  /\ ScopesApart(result') => ScopesApart(result)'
           /\ ScopesApart(actions') => ScopesApart(actions)'
  BY ReadFrame DEF ScopesApart, IsLinked, AcrossScopes, Meant

(* The veto leaves no pair of two scopes. *)
LEMMA VetoParts ==
    ASSUME StrategyInv, VetoCarries, pc = "veto", next \notin DOMAIN actions
    PROVE  ScopesApart(result)
<1> SUFFICES ASSUME NEW k \in DOMAIN result, IsLinked(result[k])
             PROVE  ~ AcrossScopes(result[k].content, ContentOf(result[k].replaces))
  BY DEF ScopesApart
<1>1. PICK j \in DOMAIN actions : actions[j] = result[k]
  BY VetoedBatch
<1>2. result[k].replaces \notin Vetoed
  BY VetoedBatch
<1>3. IsCreate(actions[j]) /\ actions[j].replaces \in Read
  BY <1>1, Batches, Facts DEF TargetsRead, IsLinked
<1>4. QED BY <1>1, <1>2, <1>3 DEF Vetoed

LEMMA ScopesInvKept ==
    ASSUME StrategyInv, StrategyInv', ReadOnce, VetoCarries, ScopesInv,
           pc \in {"veto", "semantic", "revise"} => Semantic, [PathNext]_pathVars
    PROVE  ScopesInv'
<1> SUFFICES ASSUME pc' \in {"semantic", "revise", "done"} PROVE ScopesInv'
  BY DEF ScopesInv
<1>1. UNCHANGED inputs
  BY InputsKept
<1>2. ASSUME pc \in {"semantic", "revise"}, actions' = actions, ScopesApart(result')
      PROVE  ScopesInv'
  BY <1>1, <1>2, ScopesFrame DEF ScopesInv
<1>3. CASE pc' \in {"semantic", "revise"}
  <2>1. CASE VetoDone
    <3>1. actions' = result /\ result' = <<>> /\ pc' = "semantic"
      BY <2>1 DEF VetoDone
    <3>2. ScopesApart(actions')
      BY <2>1, <3>1, VetoParts DEF VetoDone
    <3>3. ScopesApart(result')
      BY <3>1 DEF ScopesApart
    <3>4. QED BY <1>1, <3>1, <3>2, <3>3, ScopesFrame DEF ScopesInv
  <2>2. CASE SemanticOne
    <3>1. PICK act : act = actions[next]
      OBVIOUS
    <3>2. /\ pc = "semantic" /\ UNCHANGED actions /\ act \in MemoryAction
          /\ result' = result \/ result' = Append(result, act)
          /\ IsLinked(act) => ~ AcrossScopes(act.content, ContentOf(act.replaces))
          /\ ScopesApart(result)
      BY <2>2, <3>1, Batches DEF SemanticOne, ScopesInv, ScopesApart
    <3>3. ScopesApart(result')
      BY <3>2, ScopesAppend
    <3>4. QED BY <1>2, <3>2, <3>3
  <2>3. CASE Revised
    <3>1. PICK c : c = actions[next].content
      OBVIOUS
    <3>2. pc = "revise" /\ UNCHANGED actions /\ ScopesApart(result)
      BY <2>3 DEF Revised, ScopesInv
    <3>3. PICK k \in Contradicted(c) : result' = Append(result, Create(c, existing[k].id))
      BY <2>3, <3>1 DEF Revised
    <3>4. k \in DOMAIN existing /\ SameSlot(c, k)
      BY DEF Contradicted, Eligible
    <3>5. ~ AcrossScopes(c, ContentOf(existing[k].id))
      <4>1. ContentOf(existing[k].id) = existing[k].content
        BY <3>4, ContentRead
      <4>2. QED BY <3>4, <4>1 DEF SameSlot, AcrossScopes
    <3>6. PICK i : i = existing[k].id
      OBVIOUS
    <3>7. i \in Ids /\ c \in Contents
      <4>1. PlannerInv /\ next \in DOMAIN actions /\ IsCreate(actions[next])
        BY <3>2, Batches DEF PlannerInv, RevisionSupersedes
      <4>2. existing[k] \in Memories /\ actions[next] \in MemoryAction
        BY <3>4, <4>1, Facts
      <4>3. QED BY <3>1, <3>6, <4>1, <4>2, ActionShape DEF Memories
    <3>8. /\ Create(c, i) \in MemoryAction
          /\ Create(c, i).replaces = i /\ Create(c, i).content = c
      BY <3>7, ActionTypes DEF Create
    <3>9. ScopesApart(result')
      <4>1. PICK act \in MemoryAction : act = Create(c, i)
        BY <3>8
      <4>2. QED BY <3>2, <3>3, <3>5, <3>6, <3>8, <4>1, ScopesAppend
    <3>10. QED BY <1>2, <3>2, <3>9
  <2>4. CASE RevisionStarts
    BY <1>2, <2>4 DEF RevisionStarts, ScopesInv
  <2>5. CASE SupersedeOne
    <3>1. PICK i : i = existing[entry].id
      OBVIOUS
    <3>2. /\ pc = "revise" /\ UNCHANGED actions /\ entry \in DOMAIN existing
          /\ result' = result \/ result' = Append(result, Supersede(i))
          /\ ScopesApart(result)
      BY <2>5, <3>1 DEF SupersedeOne, ScopesInv
    <3>3. Supersede(i) \in MemoryAction /\ ~ IsLinked(Supersede(i))
      <4>1. existing[entry] \in Memories
        BY <3>2, Batches, Facts
      <4>2. i \in Ids
        BY <3>1, <4>1 DEF Memories
      <4>3. QED BY <4>2 DEF Supersede, MemoryAction, RetireActions, IsLinked, IsCreate
    <3>4. ScopesApart(result')
      BY <3>2, <3>3, ScopesAppend
    <3>5. QED BY <1>2, <3>2, <3>4
  <2>6. CASE Quiet
    BY <1>1, <2>6, QuietFrame, ScopesFrame DEF ScopesInv
  <2>7. QED BY <1>3, <2>1, <2>2, <2>3, <2>4, <2>5, <2>6, StepsFrom
<1>4. CASE pc' = "done"
  <2> SUFFICES ASSUME Semantic, ~ extracting' PROVE ScopesApart(result')
    BY <1>1, <1>4, ScopesFrame DEF ScopesInv
  <2>1. CASE SemanticDone \/ Quiet
    BY <1>4, <2>1, QuietFrame DEF SemanticDone, ScopesInv
  <2>2. CASE RulesDone
    BY <1>4, <2>2 DEF RulesDone
  <2>3. CASE ExtractionStarts \/ CandidateOne
    BY <2>3 DEF ExtractionStarts, CandidateOne
  <2>4. CASE ReadScope /\ UNCHANGED hybridVars
    BY <1>4, <2>4 DEF ReadScope, hybridVars, ScopesInv
  <2>5. CASE CoexistDone
    BY <2>5 DEF CoexistDone, StrategyInv, NothingReplaced, ScopesApart, IsLinked
  <2>6. CASE Adds /\ UNCHANGED hybridVars
    <3>1. PICK c \in Contents : result' = Append(result, Create(c, None))
      BY <2>6, AddsOne
    <3>2. pc = "done" /\ ~ extracting
      BY <2>6, AddsOne DEF hybridVars
    <3>3. PICK act \in MemoryAction : act = Create(c, None) /\ act.replaces = None
      BY UnlinkedCreate
    <3>4. QED BY <3>1, <3>2, <3>3, ScopesAppend DEF ScopesInv, IsLinked
  <2>7. QED BY <1>4, <2>1, <2>2, <2>3, <2>4, <2>5, <2>6, StepsToDone
<1>5. QED BY <1>3, <1>4

-----------------------------------------------------------------------------
(* No statement is lost: the loops of the rules. *)
LEMMA RememberSays ==
    ASSUME PlannerInv, NEW c \in Contents, NEW spared, Remember(c, spared)
    PROVE  /\ Within(actions, actions') /\ Says(actions', c)
           /\ \A k \in DOMAIN actions' : IsCreate(actions'[k]) =>
                 actions'[k].content = c \/ \E j \in DOMAIN actions : actions[j] = actions'[k]
<1>1. actions \in Seq(MemoryAction) /\ existing \in Seq(Memories)
  BY Facts
<1>2. CASE actions' = Append(actions, Create(c, None))
  <2>1. PICK act \in MemoryAction : act = Create(c, None) /\ IsCreate(act) /\ act.content = c
    BY UnlinkedCreate DEF Create
  <2>2. PICK t : t = actions' /\ t = Append(actions, act)
    BY <1>2, <2>1
  <2>3. /\ \A k \in DOMAIN actions : k \in DOMAIN t /\ t[k] = actions[k]
        /\ \E k \in DOMAIN t : t[k] = act
        /\ \A k \in DOMAIN t : (k \in DOMAIN actions /\ t[k] = actions[k]) \/ t[k] = act
    BY <1>1, <2>2, AppendHas
  <2>4. Within(actions, t) /\ Says(t, c)
    BY <2>1, <2>3 DEF Within, Says
  <2>5. \A k \in DOMAIN t : IsCreate(t[k]) =>
           t[k].content = c \/ \E j \in DOMAIN actions : actions[j] = t[k]
    BY <2>1, <2>3
  <2>6. QED BY <2>2, <2>4, <2>5
<1>3. ASSUME NEW k \in Conflicts(c, spared),
             actions' = actions \o <<Supersede(existing[k].id), Create(c, existing[k].id)>>
      PROVE  /\ Within(actions, actions') /\ Says(actions', c)
             /\ \A n \in DOMAIN actions' : IsCreate(actions'[n]) =>
                   actions'[n].content = c \/ \E j \in DOMAIN actions : actions[j] = actions'[n]
  <2>1. /\ DOMAIN actions' = 1 .. Len(actions) + 2 /\ DOMAIN actions = 1 .. Len(actions)
        /\ Len(actions) \in Nat
        /\ \A n \in DOMAIN actions : actions'[n] = actions[n]
        /\ actions'[Len(actions) + 1] = Supersede(existing[k].id)
        /\ actions'[Len(actions) + 2] = Create(c, existing[k].id)
    BY <1>1, <1>3
  <2>2. /\ ~ IsCreate(Supersede(existing[k].id))
        /\ IsCreate(Create(c, existing[k].id)) /\ Create(c, existing[k].id).content = c
    BY DEF IsCreate, Supersede, Create
  <2>3. Within(actions, actions')
    BY <2>1 DEF Within
  <2>4. Says(actions', c)
    <3>1. Len(actions) + 2 \in DOMAIN actions'
      BY <2>1
    <3>2. QED BY <2>1, <2>2, <3>1 DEF Says
  <2>5. ASSUME NEW n \in DOMAIN actions', IsCreate(actions'[n])
        PROVE  actions'[n].content = c \/ \E j \in DOMAIN actions : actions[j] = actions'[n]
    <3>1. n \in DOMAIN actions \/ n = Len(actions) + 1 \/ n = Len(actions) + 2
      BY <2>1
    <3>2. QED BY <2>1, <2>2, <2>5, <3>1
  <2>6. QED BY <2>3, <2>4, <2>5
<1>4. QED BY <1>2, <1>3 DEF Remember

(* One statement more, D, is heard. *)
LEMMA HearMore ==
    ASSUME StatementsHeard, UNCHANGED inputs, ~ Extended, ~ Extended',
           pc \in RulesPCs, pc' \in RulesPCs, Within(actions, actions'),
           NEW D, Heard' \subseteq Heard \cup D, seen' \subseteq seen \cup {Normal[c] : c \in D},
           pc' \in {"forget", "preferences", "statements"} =>
              pc \in {"forget", "preferences", "statements"},
           \A c \in D : SaysText(actions', c) \/ TextKnown(c),
           \A k \in DOMAIN actions' : IsCreate(actions'[k]) =>
              actions'[k].content \in Uttered \/ \E j \in DOMAIN actions : actions[j] = actions'[k]
    PROVE  StatementsHeard'
<1>1. /\ existing' = existing /\ Uttered' = Uttered /\ \A c : TextKnown(c)' = TextKnown(c)
      /\ \A c : SaysText(actions, c) => SaysText(actions', c)
  BY MeaningFrame DEF inputs, SaysText, Within
<1>2. RulesHear'
  <2>1. \A c \in Heard : SaysText(actions, c) \/ TextKnown(c)
    BY DEF StatementsHeard, RulesHear, RulesPCs
  <2>2. \A c \in Heard' : SaysText(actions', c) \/ TextKnown(c)
    BY <1>1, <2>1
  <2>3. \A c : SaysText(actions', c) = SaysText(actions, c)'
    BY DEF SaysText
  <2>4. \A c \in Heard' : (SaysText(actions, c) \/ TextKnown(c))'
    BY <1>1, <2>2, <2>3
  <2>5. QED BY <2>4 DEF RulesHear
<1>3. SeenHeard'
  <2> SUFFICES ASSUME pc' \in {"forget", "preferences", "statements"}, NEW x \in seen'
               PROVE  \/ \E k \in DOMAIN existing : Normal[existing[k].content] = x
                      \/ \E k \in DOMAIN actions' :
                            IsCreate(actions'[k]) /\ Normal[actions'[k].content] = x
    BY <1>1 DEF SeenHeard, RulesPCs
  <2>1. CASE x \in seen
    BY <2>1 DEF StatementsHeard, SeenHeard, Within
  <2>2. CASE x \in {Normal[c] : c \in D}
    BY <2>2 DEF SaysText, TextKnown
  <2>3. QED BY <2>1, <2>2
<1>4. OnlyUttered'
  BY <1>1 DEF StatementsHeard, OnlyUttered, RulesPCs, PlannerPCs
<1>5. AllAccounted'
  BY DEF AllAccounted, RulesPCs
<1>6. QED BY <1>2, <1>3, <1>4, <1>5 DEF StatementsHeard

LEMMA HearOne ==
    ASSUME StatementsHeard, UNCHANGED inputs, ~ Extended, ~ Extended',
           pc \in {"preferences", "statements"}, pc' = pc, Within(actions, actions'),
           NEW c \in Uttered, Heard' \subseteq Heard \cup {c}, seen' \subseteq seen \cup {Normal[c]},
           SaysText(actions', c) \/ TextKnown(c),
           \A k \in DOMAIN actions' : IsCreate(actions'[k]) =>
              actions'[k].content = c \/ \E j \in DOMAIN actions : actions[j] = actions'[k]
    PROVE  StatementsHeard'
<1>1. PICK D : D = {c}
  OBVIOUS
<1>2. /\ Heard' \subseteq Heard \cup D /\ seen' \subseteq seen \cup {Normal[d] : d \in D}
      /\ \A d \in D : SaysText(actions', d) \/ TextKnown(d)
  BY <1>1
<1>3. \A k \in DOMAIN actions' : IsCreate(actions'[k]) =>
         actions'[k].content \in Uttered \/ \E j \in DOMAIN actions : actions[j] = actions'[k]
  OBVIOUS
<1>4. QED BY <1>2, <1>3, HearMore DEF RulesPCs

LEMMA HearNothing ==
    ASSUME StatementsHeard, UNCHANGED inputs, ~ Extended, ~ Extended',
           pc \in RulesPCs, pc' \in RulesPCs, Within(actions, actions'),
           Heard' \subseteq Heard, seen' = seen,
           pc' \in {"forget", "preferences", "statements"} =>
              pc \in {"forget", "preferences", "statements"},
           \A k \in DOMAIN actions' : IsCreate(actions'[k]) =>
              \E j \in DOMAIN actions : actions[j] = actions'[k]
    PROVE  StatementsHeard'
<1>1. PICK D : D = {}
  OBVIOUS
<1>2. /\ Heard' \subseteq Heard \cup D /\ seen' \subseteq seen \cup {Normal[d] : d \in D}
      /\ \A d \in D : SaysText(actions', d) \/ TextKnown(d)
  BY <1>1
<1>3. QED BY <1>2, HearMore

LEMMA HeardIs ==
    /\ pc \in {"idle", "forget"} => Heard = {}
    /\ pc = "preferences" =>
          Heard = {preferences[k] : k \in {j \in DOMAIN preferences : j < next}}
    /\ pc = "statements" =>
          Heard = {preferences[k] : k \in DOMAIN preferences}
                     \cup {statements[k] : k \in {j \in DOMAIN statements : j < next}}
    /\ pc \in {"planned", "veto", "semantic", "revise"} => Heard = Uttered
<1>1. pc \in {"idle", "forget"} => Heard = {}
  BY DEF Heard
<1>2. pc = "preferences" =>
         Heard = {preferences[k] : k \in {j \in DOMAIN preferences : j < next}}
  BY DEF Heard
<1>3. pc = "statements" =>
         Heard = {preferences[k] : k \in DOMAIN preferences}
                    \cup {statements[k] : k \in {j \in DOMAIN statements : j < next}}
  BY DEF Heard
<1>4. pc \in {"planned", "veto", "semantic", "revise"} => Heard = Uttered
  BY DEF Heard
<1>5. QED BY <1>1, <1>2, <1>3, <1>4

LEMMA RulesHeard ==
    ASSUME PlannerInv, ~ Extended, ~ Extended', StatementsHeard,
           pc \in {"idle", "forget"} => next = 1, Rules
    PROVE  StatementsHeard'
<1>1. /\ pc' \in {"idle", "forget"} => Heard' = {}
      /\ pc' = "preferences" =>
            Heard' = {preferences'[k] : k \in {j \in DOMAIN preferences' : j < next'}}
      /\ pc' = "statements" =>
            Heard' = {preferences'[k] : k \in DOMAIN preferences'}
                       \cup {statements'[k] : k \in {j \in DOMAIN statements' : j < next'}}
      /\ pc' \in {"planned", "veto", "semantic", "revise"} => Heard' = Uttered'
  <2>1. pc' \in {"idle", "forget"} => Heard' = {}
    BY DEF Heard
  <2>2. pc' = "preferences" =>
           Heard' = {preferences'[k] : k \in {j \in DOMAIN preferences' : j < next'}}
    BY DEF Heard
  <2>3. pc' = "statements" =>
           Heard' = {preferences'[k] : k \in DOMAIN preferences'}
                       \cup {statements'[k] : k \in {j \in DOMAIN statements' : j < next'}}
    BY DEF Heard
  <2>4. pc' \in {"planned", "veto", "semantic", "revise"} => Heard' = Uttered'
    BY DEF Heard
  <2>5. QED BY <2>1, <2>2, <2>3, <2>4
<1>2. /\ actions \in Seq(MemoryAction) /\ next \in Nat \ {0}
      /\ preferences \in Seq(Contents) /\ statements \in Seq(Contents)
  BY Facts
<1>3. Within(actions, actions)
  BY DEF Within
<1>4. CASE Asked
  <2>1. actions' = <<>> /\ pc' = "forget" /\ seen' = {Normal[existing'[k].content] : k \in DOMAIN existing'}
    BY <1>4 DEF Asked, PlannerInv
  <2>2. Heard' = {}
    BY <1>1, <2>1
  <2>3. SeenHeard'
    BY <2>1 DEF SeenHeard
  <2>4. QED BY <2>1, <2>2, <2>3 DEF StatementsHeard, RulesHear, OnlyUttered, AllAccounted
<1>5. CASE ForgetOne
  <2>1. PICK i \in Read : actions' = Append(actions, Forget(i))
    BY <1>5 DEF ForgetOne
  <2>2. /\ pc = "forget" /\ pc' = "forget" /\ UNCHANGED inputs /\ seen' = seen
        /\ ~ IsCreate(Forget(i))
    BY <1>5 DEF ForgetOne, Forget, IsCreate
  <2>3. PICK act \in MemoryAction : act = Forget(i)
    <3>1. PICK k \in DOMAIN existing : i = existing[k].id
      BY <2>1 DEF Read
    <3>2. existing[k] \in Memories
      BY Facts
    <3>3. QED BY <3>1, <3>2 DEF Memories, Forget, MemoryAction, RetireActions
  <2>4. PICK t : t = actions' /\ t = Append(actions, act)
    BY <2>1, <2>3
  <2>5. /\ \A k \in DOMAIN actions : k \in DOMAIN t /\ t[k] = actions[k]
        /\ \A k \in DOMAIN t : (k \in DOMAIN actions /\ t[k] = actions[k]) \/ t[k] = act
    BY <1>2, <2>4, AppendHas
  <2>6. Within(actions, actions')
    BY <2>4, <2>5 DEF Within
  <2>7. \A k \in DOMAIN actions' : IsCreate(actions'[k]) => \E j \in DOMAIN actions : actions[j] = actions'[k]
    BY <2>2, <2>3, <2>4, <2>5
  <2>8. QED BY <1>1, <2>2, <2>6, <2>7, HearNothing DEF RulesPCs
<1>6. CASE ForgetsDone
  <2>1. /\ pc = "forget" /\ pc' = "preferences" /\ UNCHANGED <<inputs, next, seen, actions>>
        /\ next = 1 /\ preferences' = preferences
    BY <1>6 DEF ForgetsDone, inputs
  <2>2. Heard' = {}
    <3>1. \A j \in DOMAIN preferences : ~ (j < 1)
      BY <1>2
    <3>2. QED BY <1>1, <2>1, <3>1
  <2>3. QED BY <1>3, <2>1, <2>2, HearNothing DEF RulesPCs
<1>7. CASE PreferenceOne
  <2>1. PICK c : c = preferences[next]
    OBVIOUS
  <2>2. /\ pc = "preferences" /\ pc' = "preferences" /\ UNCHANGED inputs /\ seen' = seen
        /\ next \in DOMAIN preferences /\ next' = next + 1 /\ preferences' = preferences
        /\ IF Stated(c) THEN UNCHANGED actions ELSE Remember(c, {})
    BY <1>7, <2>1 DEF PreferenceOne, inputs
  <2>3. c \in Contents /\ c \in Uttered
    BY <1>2, <2>1, <2>2 DEF Uttered
  <2>4. Heard' \subseteq Heard \cup {c}
    <3>1. \A j \in DOMAIN preferences : j < next + 1 => j < next \/ j = next
      BY <1>2
    <3>2. QED BY <1>1, <2>1, <2>2, <3>1, HeardIs
  <2>5. CASE Stated(c)
    <3>1. TextKnown(c)
      BY <2>5 DEF Stated, TextKnown
    <3>2. /\ Within(actions, actions')
          /\ SaysText(actions', c) \/ TextKnown(c)
          /\ \A k \in DOMAIN actions' : \E j \in DOMAIN actions : actions[j] = actions'[k]
      BY <1>3, <2>2, <2>5, <3>1
    <3>3. QED BY <2>2, <2>3, <2>4, <3>2, HearOne
  <2>6. CASE ~ Stated(c)
    <3>1. /\ Within(actions, actions') /\ Says(actions', c)
          /\ \A k \in DOMAIN actions' : IsCreate(actions'[k]) =>
                actions'[k].content = c \/ \E j \in DOMAIN actions : actions[j] = actions'[k]
      BY <2>2, <2>3, <2>6, RememberSays
    <3>2. SaysText(actions', c)
      BY <3>1 DEF Says, SaysText
    <3>3. QED BY <2>2, <2>3, <2>4, <3>1, <3>2, HearOne
  <2>7. QED BY <2>5, <2>6
<1>8. CASE PreferencesDone
  <2>1. /\ pc = "preferences" /\ pc' = "statements" /\ UNCHANGED <<inputs, seen, actions>>
        /\ next \notin DOMAIN preferences /\ next' = 1
        /\ preferences' = preferences /\ statements' = statements
    BY <1>8 DEF PreferencesDone, inputs
  <2>2. Heard' \subseteq Heard
    <3>1. /\ \A j \in DOMAIN preferences : j < next
          /\ \A j \in DOMAIN statements : ~ (j < 1)
      BY <1>2, <2>1
    <3>2. QED BY <1>1, <2>1, <3>1, HeardIs
  <2>3. QED BY <1>3, <2>1, <2>2, HearNothing DEF RulesPCs
<1>9. CASE StatementOne
  <2>1. PICK c : c = statements[next]
    OBVIOUS
  <2>2. /\ pc = "statements" /\ pc' = "statements" /\ UNCHANGED inputs
        /\ seen' = seen \cup {Normal[c]}
        /\ next \in DOMAIN statements /\ next' = next + 1
        /\ preferences' = preferences /\ statements' = statements
        /\ IF Normal[c] \in seen THEN UNCHANGED actions ELSE Remember(c, superseded)
    BY <1>9, <2>1 DEF StatementOne, inputs
  <2>3. c \in Contents /\ c \in Uttered
    BY <1>2, <2>1, <2>2 DEF Uttered
  <2>4. Heard' \subseteq Heard \cup {c}
    <3>1. \A j \in DOMAIN statements : j < next + 1 => j < next \/ j = next
      BY <1>2
    <3>2. QED BY <1>1, <2>1, <2>2, <3>1, HeardIs
  <2>5. seen' \subseteq seen \cup {Normal[c]}
    BY <2>2
  <2>6. CASE Normal[c] \in seen
    <3>1. TextKnown(c) \/ SaysText(actions, c)
      BY <2>2, <2>6 DEF StatementsHeard, SeenHeard, TextKnown, SaysText
    <3>2. /\ Within(actions, actions')
          /\ SaysText(actions', c) \/ TextKnown(c)
          /\ \A k \in DOMAIN actions' : \E j \in DOMAIN actions : actions[j] = actions'[k]
      BY <1>3, <2>2, <2>6, <3>1
    <3>3. QED BY <2>2, <2>3, <2>4, <2>5, <3>2, HearOne
  <2>7. CASE Normal[c] \notin seen
    <3>1. /\ Within(actions, actions') /\ Says(actions', c)
          /\ \A k \in DOMAIN actions' : IsCreate(actions'[k]) =>
                actions'[k].content = c \/ \E j \in DOMAIN actions : actions[j] = actions'[k]
      BY <2>2, <2>3, <2>7, RememberSays
    <3>2. SaysText(actions', c)
      BY <3>1 DEF Says, SaysText
    <3>3. QED BY <2>2, <2>3, <2>4, <2>5, <3>1, <3>2, HearOne
  <2>8. QED BY <2>6, <2>7
<1>10. CASE StatementsDone
  <2>1. /\ pc = "statements" /\ pc' = "planned" /\ UNCHANGED <<inputs, seen, actions>>
        /\ next \notin DOMAIN statements
    BY <1>10 DEF StatementsDone
  <2>2. Heard' \subseteq Heard
    <3>1. \A j \in DOMAIN statements : j < next
      BY <1>2, <2>1
    <3>2. Uttered' = Uttered
      BY <2>1, MeaningFrame
    <3>3. QED BY <1>1, <2>1, <3>1, <3>2, HeardIs DEF Uttered
  <2>3. QED BY <1>3, <2>1, <2>2, HearNothing DEF RulesPCs
<1>11. QED BY <1>4, <1>5, <1>6, <1>7, <1>8, <1>9, <1>10 DEF Rules, PlannerStep

(* ... and the rewriting of their batch. *)
LEMMA AccountedFrame ==
    ASSUME UNCHANGED inputs
    PROVE  /\ \A b, c : Accounted(b, c)' = Accounted(b, c)
           /\ \A c : /\ Accounted(result', c) => Accounted(result, c)'
                    /\ Accounted(actions', c) => Accounted(actions, c)'
           /\ Uttered' = Uttered
  BY MeaningFrame DEF Accounted, SaysText

LEMMA RewritingHears ==
    ASSUME StrategyInv, StrategyInv', VetoCarries, StatementsHeard, UNCHANGED inputs,
           pc' \in {"veto", "semantic", "revise"},
           \/ actions' = actions /\ pc \in {"planned", "veto", "semantic", "revise"}
           \/ VetoDone
    PROVE  StatementsHeard'
<1>1. /\ ~ Extended /\ pc \in {"planned", "veto", "semantic", "revise"}
  BY Batches DEF VetoDone
<1>2. Heard = Uttered /\ Heard' = Uttered'
  <2>1. Heard' = Uttered'
    BY DEF Heard
  <2>2. QED BY <1>1, <2>1, HeardIs
<1>3. /\ \A c \in Uttered : SaysText(actions, c) \/ TextKnown(c)
      /\ \A k \in DOMAIN actions : IsCreate(actions[k]) => actions[k].content \in Uttered
  BY <1>1, <1>2 DEF StatementsHeard, RulesHear, OnlyUttered, PlannerPCs
<1>4. /\ \A c \in Uttered : SaysText(actions', c) \/ TextKnown(c)
      /\ \A k \in DOMAIN actions' : IsCreate(actions'[k]) => actions'[k].content \in Uttered
  <2>1. CASE actions' = actions
    BY <1>3, <2>1
  <2>2. CASE VetoDone
    <3>1. pc = "veto" /\ next \notin DOMAIN actions /\ actions' = result
      BY <2>2 DEF VetoDone
    <3>2. /\ \A j \in DOMAIN actions : IsCreate(actions[j]) =>
                \E k \in DOMAIN result : IsCreate(result[k]) /\ result[k].content = actions[j].content
          /\ \A k \in DOMAIN result : IsCreate(result[k]) => \E j \in DOMAIN actions :
                IsCreate(actions[j]) /\ actions[j].content = result[k].content
      BY <3>1, VetoedBatch
    <3>3. \A c : SaysText(actions, c) => SaysText(result, c)
      BY <3>2 DEF SaysText
    <3>4. QED BY <1>3, <3>1, <3>2, <3>3
  <2>3. QED BY <2>1, <2>2
<1>5. Uttered' = Uttered
  BY AccountedFrame
<1>6. RulesHear'
  <2>1. \A c \in Uttered : (SaysText(actions, c) \/ TextKnown(c))'
    BY <1>4, MeaningFrame DEF SaysText
  <2>2. QED BY <1>2, <1>5, <2>1 DEF RulesHear
<1>7. OnlyUttered'
  BY <1>4, <1>5 DEF OnlyUttered
<1>8. SeenHeard' /\ AllAccounted'
  BY DEF SeenHeard, AllAccounted
<1>9. QED BY <1>6, <1>7, <1>8 DEF StatementsHeard

LEMMA StatementsHeardKept ==
    ASSUME StrategyInv, StrategyInv', VetoCarries, SlotsCarry, PastCarries, StatementsHeard,
           pc \in {"idle", "forget"} => next = 1,
           pc \in {"veto", "semantic", "revise"} => Semantic, [PathNext]_pathVars
    PROVE  StatementsHeard'
<1>1. CASE Quiet
  <2>1. /\ UNCHANGED <<pc, existing, preferences, statements, next, seen, actions, result, adding, extracting>>
        /\ UNCHANGED inputs
    BY <1>1, QuietFrame
  <2>2. Heard' = Heard
    BY <2>1, AccountedFrame DEF Heard
  <2>3. \A c : /\ Accounted(result, c)' = Accounted(result, c)
              /\ Accounted(actions, c)' = Accounted(actions, c)
              /\ SaysText(actions, c)' = SaysText(actions, c) /\ TextKnown(c)' = TextKnown(c)
    BY <2>1, MeaningFrame DEF Accounted, SaysText
  <2>4. RulesHear' /\ SeenHeard' /\ OnlyUttered' /\ AllAccounted'
    BY <2>1, <2>2, <2>3, AccountedFrame DEF StatementsHeard, RulesHear, SeenHeard, OnlyUttered, AllAccounted, Extended
  <2>5. QED BY <2>4 DEF StatementsHeard
<1>2. CASE Return
  <2>1. pc' = "idle" /\ seen' = {} /\ actions' = <<>>
    BY <1>2 DEF Return, Returned
  <2>2. Heard' = {}
    BY <2>1 DEF Heard
  <2>3. QED BY <2>1, <2>2
            DEF StatementsHeard, RulesHear, SeenHeard, OnlyUttered, AllAccounted
<1>3. CASE Rules
  <2>1. pc \notin {"done", "coexist"} /\ pc' \notin {"done", "coexist"}
    BY <1>3 DEF Rules, PlannerStep, Asked, ForgetOne, ForgetsDone, PreferenceOne,
           PreferencesDone, StatementOne, StatementsDone
  <2>2. PlannerInv /\ ~ Extended /\ ~ Extended'
    BY <2>1 DEF StrategyInv
  <2>3. QED BY <1>3, <2>2, RulesHeard
<1>4. CASE pc' \in {"veto", "semantic", "revise"} /\ ~ Quiet
  <2>1. UNCHANGED inputs
    BY <1>4, InputsKept
  <2>2. \/ actions' = actions /\ pc \in {"planned", "veto", "semantic", "revise"}
        \/ VetoDone
    BY <1>4, StepsFrom
       DEF RulesDone, VetoOne, SemanticOne, RevisionStarts, SupersedeOne, Revised
  <2>3. QED BY <1>4, <2>1, <2>2, RewritingHears
<1>5. ASSUME pc' \in {"coexist", "done"}, UNCHANGED inputs,
             \A c \in Uttered : Accounted(IF pc' = "done" THEN result' ELSE actions', c)
      PROVE  StatementsHeard'
  <2>1. AllAccounted'
    BY <1>5, AccountedFrame DEF AllAccounted
  <2>2. RulesHear'
    BY <1>5 DEF RulesHear, StrategyInv, PlannerInv, TypeOK, PlannerPCs
  <2>3. SeenHeard' /\ OnlyUttered'
    BY <1>5 DEF SeenHeard, OnlyUttered, PlannerPCs
  <2>4. QED BY <2>1, <2>2, <2>3 DEF StatementsHeard
<1>6. CASE pc' = "coexist" /\ ~ Quiet
  <2>1. UNCHANGED inputs
    BY <1>6, InputsKept
  <2>2. CASE ReadScope
    <3>1. pc = "done" /\ actions' = result
      BY <1>6, <2>2 DEF ReadScope
    <3>2. QED BY <1>5, <1>6, <2>1, <3>1 DEF StatementsHeard, AllAccounted
  <2>3. CASE CoexistOne
    <3>1. pc = "coexist" /\ actions' = actions
      BY <2>3 DEF CoexistOne
    <3>2. QED BY <1>5, <1>6, <2>1, <3>1 DEF StatementsHeard, AllAccounted
  <2>4. QED BY <1>6, <2>2, <2>3, StepsFrom
<1>7. CASE pc' = "done" /\ ~ Quiet
  <2>1. UNCHANGED inputs
    BY <1>7, InputsKept
  <2>2. ASSUME pc = "planned", result' = actions
        PROVE  StatementsHeard'
    <3>1. ~ Extended /\ Heard = Uttered
      BY <2>2, Batches, HeardIs
    <3>2. \A c \in Uttered : SaysText(actions, c) \/ TextKnown(c)
      BY <2>2, <3>1 DEF StatementsHeard, RulesHear
    <3>3. QED BY <1>5, <1>7, <2>1, <2>2, <3>2 DEF Accounted
  <2>3. ASSUME pc = "done", \A c : Says(result, c) => Says(result', c)
        PROVE  StatementsHeard'
    <3>1. \A c \in Uttered : Accounted(result, c)
      BY <2>3 DEF StatementsHeard, AllAccounted
    <3>2. \A c \in Uttered : Accounted(result', c)
      BY <2>3, <3>1 DEF Accounted, SaysText, Says
    <3>3. QED BY <1>5, <1>7, <2>1, <3>2
  <2>4. CASE RulesDone \/ ExtractionStarts
    BY <1>7, <2>2, <2>4 DEF RulesDone, ExtractionStarts
  <2>5. CASE SemanticDone
    <3>1. pc = "semantic" /\ result' = result /\ next \notin DOMAIN actions /\ Semantic /\ ~ Extended
      BY <2>5, Batches DEF SemanticDone
    <3>2. Heard = Uttered
      BY <3>1, HeardIs
    <3>3. ASSUME NEW c \in Uttered, SaysText(actions, c)
          PROVE  Accounted(result, c)
      <4>1. PICK j \in DOMAIN actions :
               IsCreate(actions[j]) /\ Normal[actions[j].content] = Normal[c]
        BY <3>3 DEF SaysText
      <4>2. actions[j].content \in Uttered
        BY <3>1, <4>1 DEF StatementsHeard, OnlyUttered
      <4>3. Says(result, actions[j].content) \/ Known(actions[j].content)
        BY <3>1, <4>1, Batches DEF SlotsCarry
      <4>4. QED BY <3>1, <4>1, <4>2, <4>3 DEF Accounted, Says, SaysText
    <3>4. \A c \in Uttered : SaysText(actions, c) \/ TextKnown(c)
      BY <3>1, <3>2 DEF StatementsHeard, RulesHear
    <3>5. \A c \in Uttered : Accounted(result', c)
      BY <3>1, <3>3, <3>4 DEF Accounted
    <3>6. QED BY <1>5, <1>7, <2>1, <3>5
  <2>6. CASE Adds \/ CandidateOne
    <3>1. PICK c \in Contents : result' = Append(result, Create(c, None))
      BY <2>6, AddsOne
    <3>2. pc = "done"
      BY <2>6, AddsOne
    <3>3. Within(result, result')
      BY <3>1, UnlinkedCreate, ResultGrows
    <3>4. QED BY <2>3, <3>2, <3>3 DEF Within, Says
  <2>7. CASE ReadScope
    BY <1>7, <2>3, <2>7 DEF ReadScope
  <2>8. CASE CoexistDone
    <3>1. pc = "coexist" /\ result' = result /\ next \notin DOMAIN actions
      BY <2>8 DEF CoexistDone
    <3>2. \A c : Says(actions, c) => Says(result, c)
      BY <3>1, Batches DEF PastCarries, Says
    <3>3. \A c \in Uttered : Accounted(actions, c)
      BY <3>1 DEF StatementsHeard, AllAccounted
    <3>4. \A c \in Uttered : Accounted(result', c)
      BY <3>1, <3>2, <3>3 DEF Accounted, SaysText, Says
    <3>5. QED BY <1>5, <1>7, <2>1, <3>4
  <2>9. QED BY <1>7, <2>4, <2>5, <2>6, <2>7, <2>8, StepsToDone
<1>8. CASE pc' \in {"idle", "forget", "preferences", "statements", "planned"}
  BY <1>1, <1>2, <1>3, <1>8, StepsFrom
<1>9. pc' \in {"idle", "forget", "preferences", "statements", "planned",
                "veto", "semantic", "revise", "coexist", "done"}
  BY DEF StrategyInv, PlannerInv, TypeOK, PlannerPCs
<1>10. QED BY <1>1, <1>4, <1>6, <1>7, <1>8, <1>9

-----------------------------------------------------------------------------
(* Every supersede is explained. *)
LEMMA ExplainedFrame ==
    ASSUME UNCHANGED inputs
    PROVE  /\ AllPaired(actions') => AllPaired(actions)'
           /\ Explained(actions') => Explained(actions)'
           /\ Explained(result') => Explained(result)'
           /\ HasKin(result') => HasKin(result)'
           /\ LeavesOne(result') => LeavesOne(result)'
           /\ SupersededIn(result)' = SupersededIn(result')
<1>1. existing' = existing /\ \A c, n : SameSlot(c, n)' = SameSlot(c, n)
  BY MeaningFrame DEF inputs
<1>2. /\ SupersededIn(actions)' = SupersededIn(actions')
      /\ SupersededIn(result)' = SupersededIn(result')
  BY <1>1 DEF SupersededIn
<1>3. \A n : /\ Paired(actions, n)' = Paired(actions', n)
            /\ Paired(result, n)' = Paired(result', n)
  BY <1>1 DEF Paired
<1>4. \A n : /\ Succeeded(actions, n)' = Succeeded(actions', n)
            /\ Succeeded(result, n)' = Succeeded(result', n)
  BY <1>1 DEF Succeeded
<1>5. HasKin(result') => HasKin(result)'
  BY <1>1, <1>2 DEF HasKin
<1>6. LeavesOne(result') => LeavesOne(result)'
  BY <1>1, <1>2 DEF LeavesOne
<1>7. QED BY <1>2, <1>3, <1>4, <1>5, <1>6 DEF AllPaired, Explained

LEMMA PairedWithin ==
    ASSUME NEW s, NEW t, Within(s, t)
    PROVE  \A n : /\ Paired(s, n) => Paired(t, n)
                 /\ Succeeded(s, n) => Succeeded(t, n)
<1>1. \A n : Paired(s, n) => Paired(t, n)
  BY DEF Within, Paired
<1>2. \A n : Succeeded(s, n) => Succeeded(t, n)
  BY DEF Within, Succeeded
<1>3. QED BY <1>1, <1>2

LEMMA RememberPairs ==
    ASSUME PlannerInv, ReadOnce, AllPaired(actions),
           NEW c \in Contents, NEW spared, Remember(c, spared)
    PROVE  AllPaired(actions')
<1>1. actions \in Seq(MemoryAction) /\ existing \in Seq(Memories)
  BY Facts
<1>2. Within(actions, actions') /\ \A n : Paired(actions, n) => Paired(actions', n)
  <2>1. Within(actions, actions')
    BY RememberSays
  <2>2. \A n : Paired(actions, n) => Paired(actions', n)
    BY <2>1 DEF Within, Paired
  <2>3. QED BY <2>1, <2>2
<1>3. CASE actions' = Append(actions, Create(c, None))
  <2>1. PICK act \in MemoryAction : act = Create(c, None)
    BY UnlinkedCreate
  <2>2. PICK t : t = actions' /\ t = Append(actions, act)
    BY <1>3, <2>1
  <2>3. \A k \in DOMAIN t : (k \in DOMAIN actions /\ t[k] = actions[k]) \/ t[k] = act
    BY <1>1, <2>2, AppendHas
  <2>4. \A i : act # Supersede(i)
    <3>1. \A i : act.action # Supersede(i).action
      BY <2>1 DEF Create, Supersede
    <3>2. QED BY <3>1
  <2>5. SupersededIn(t) \subseteq SupersededIn(actions)
    BY <2>3, <2>4 DEF SupersededIn
  <2>6. QED BY <1>2, <2>2, <2>5 DEF AllPaired
<1>4. ASSUME NEW k \in Conflicts(c, spared),
             actions' = actions \o <<Supersede(existing[k].id), Create(c, existing[k].id)>>
      PROVE  AllPaired(actions')
  <2>1. /\ DOMAIN actions' = 1 .. Len(actions) + 2 /\ DOMAIN actions = 1 .. Len(actions)
        /\ Len(actions) \in Nat
        /\ \A n \in DOMAIN actions : actions'[n] = actions[n]
        /\ actions'[Len(actions) + 1] = Supersede(existing[k].id)
        /\ actions'[Len(actions) + 2] = Create(c, existing[k].id)
    BY <1>1, <1>4
  <2>2. \A i, j : /\ Supersede(i) = Supersede(j) => i = j
                 /\ Create(c, i) # Supersede(j)
                 /\ IsCreate(Create(c, i)) /\ Create(c, i).replaces = i /\ Create(c, i).content = c
    <3>1. \A i, j : Create(c, i).action # Supersede(j).action
      BY DEF Create, Supersede
    <3>2. \A i, j : Supersede(i) = Supersede(j) => Supersede(i).memory_id = Supersede(j).memory_id
      OBVIOUS
    <3>3. QED BY <3>1, <3>2 DEF Create, Supersede, IsCreate
  <2>3. Paired(actions', k)
    <3>1. Len(actions) + 2 \in DOMAIN actions'
      BY <2>1
    <3>2. Kind[existing[k].content] = Kind[c] /\ Key[existing[k].content] = Key[c]
      BY DEF Conflicts
    <3>3. QED BY <2>1, <2>2, <3>1, <3>2 DEF Paired
  <2>4. ASSUME NEW n \in SupersededIn(actions')
        PROVE  Paired(actions', n)
    <3>1. n \in DOMAIN existing
      BY DEF SupersededIn
    <3>2. PICK m \in DOMAIN actions' : actions'[m] = Supersede(existing[n].id)
      BY DEF SupersededIn
    <3>3. m \in DOMAIN actions \/ m = Len(actions) + 1 \/ m = Len(actions) + 2
      BY <2>1
    <3>4. CASE m \in DOMAIN actions
      <4>1. n \in SupersededIn(actions)
        BY <2>1, <3>1, <3>2, <3>4 DEF SupersededIn
      <4>2. QED BY <1>2, <4>1 DEF AllPaired
    <3>5. CASE m = Len(actions) + 1
      <4>1. existing[n].id = existing[k].id
        BY <2>1, <2>2, <3>2, <3>5
      <4>2. k \in DOMAIN existing
        BY DEF Conflicts
      <4>3. n = k
        BY <3>1, <4>1, <4>2 DEF ReadOnce
      <4>4. QED BY <2>3, <4>3
    <3>6. CASE m = Len(actions) + 2
      BY <2>1, <2>2, <3>2, <3>6
    <3>7. QED BY <3>3, <3>4, <3>5, <3>6
  <2>5. QED BY <2>4 DEF AllPaired
<1>5. QED BY <1>3, <1>4 DEF Remember

LEMMA RulesPairKept ==
    ASSUME StrategyInv, StrategyInv', ReadOnce, VetoCarries, RulesPair, AddedInv, [PathNext]_pathVars
    PROVE  RulesPair'
<1>1. ASSUME UNCHANGED inputs, AllPaired(actions')
      PROVE  RulesPair'
  BY <1>1, ExplainedFrame DEF RulesPair
<1>2. ASSUME UNCHANGED inputs, UNCHANGED actions, ~ Extended \/ extracting
      PROVE  RulesPair'
  BY <1>1, <1>2 DEF RulesPair
<1>3. CASE PlanOne
  <2>1. ~ Extended
    <3>1. pc \notin {"done", "coexist"}
      BY <1>3 DEF PlanOne, Rules, PlannerStep, Asked, ForgetOne, ForgetsDone, PreferenceOne,
             PreferencesDone, StatementOne, StatementsDone, RulesDone, VetoOne, VetoDone,
             SemanticOne, RevisionStarts, SupersedeOne, Revised, SemanticDone
    <3>2. QED BY <3>1, Batches
  <2>2. PlannerInv /\ AllPaired(actions)
    BY <2>1, Batches DEF RulesPair
  <2>3. CASE Asked
    BY <2>2, <2>3 DEF Asked, PlannerInv, RulesPair, AllPaired, SupersededIn
  <2>4. CASE ForgetOne
    <3>1. PICK i \in Read : actions' = Append(actions, Forget(i))
      BY <2>4 DEF ForgetOne
    <3>2. PICK act \in MemoryAction : act = Forget(i)
      <4>1. PICK k \in DOMAIN existing : i = existing[k].id
        BY <3>1 DEF Read
      <4>2. existing[k] \in Memories
        BY <2>2, Facts
      <4>3. QED BY <4>1, <4>2 DEF Memories, Forget, MemoryAction, RetireActions
    <3>3. PICK t : t = actions' /\ t = Append(actions, act)
      BY <3>1, <3>2
    <3>4. /\ \A k \in DOMAIN actions : k \in DOMAIN t /\ t[k] = actions[k]
          /\ \A k \in DOMAIN t : (k \in DOMAIN actions /\ t[k] = actions[k]) \/ t[k] = act
      BY <3>3, Batches, AppendHas
    <3>5. \A j : act # Supersede(j)
      <4>1. \A j : act.action # Supersede(j).action
        BY <3>2 DEF Forget, Supersede
      <4>2. QED BY <4>1
    <3>6. SupersededIn(t) \subseteq SupersededIn(actions)
      BY <3>4, <3>5 DEF SupersededIn
    <3>7. \A n : Paired(actions, n) => Paired(t, n)
      BY <3>4 DEF Paired
    <3>8. AllPaired(actions')
      BY <2>2, <3>3, <3>6, <3>7 DEF AllPaired
    <3>9. QED BY <1>1, <2>4, <3>8 DEF ForgetOne
  <2>5. CASE PreferenceOne
    <3>1. /\ UNCHANGED inputs /\ preferences[next] \in Contents
          /\ UNCHANGED actions \/ Remember(preferences[next], {})
      BY <2>2, <2>5, Facts DEF PreferenceOne
    <3>2. QED BY <1>1, <2>2, <3>1, RememberPairs
  <2>6. CASE StatementOne
    <3>1. /\ UNCHANGED inputs /\ statements[next] \in Contents
          /\ UNCHANGED actions \/ Remember(statements[next], superseded)
      BY <2>2, <2>6, Facts DEF StatementOne
    <3>2. QED BY <1>1, <2>2, <3>1, RememberPairs
  <2>7. CASE VetoDone
    <3>1. /\ pc = "veto" /\ next \notin DOMAIN actions /\ actions' = result /\ UNCHANGED inputs
      BY <2>7 DEF VetoDone
    <3>2. ASSUME NEW n \in SupersededIn(result)
          PROVE  Paired(result, n)
      <4>1. PICK k \in DOMAIN result : result[k] = Supersede(existing[n].id)
        BY DEF SupersededIn
      <4>2. /\ result[k].action = "supersede" /\ result[k].memory_id = existing[n].id
            /\ ~ IsCreate(result[k])
        BY <4>1 DEF Supersede, IsCreate
      <4>3. existing[n].id \notin Vetoed /\ \E j \in DOMAIN actions : actions[j] = result[k]
        BY <3>1, <4>2, VetoedBatch
      <4>4. Paired(actions, n)
        BY <2>2, <4>1, <4>3 DEF AllPaired, SupersededIn
      <4>5. PICK j \in DOMAIN actions :
               /\ IsCreate(actions[j]) /\ actions[j].replaces = existing[n].id
               /\ Kind[existing[n].content] = Kind[actions[j].content]
               /\ Key[existing[n].content] = Key[actions[j].content]
        BY <4>4 DEF Paired
      <4>6. \E l \in DOMAIN result : result[l] = actions[j]
        BY <3>1, <4>3, <4>5, VetoedBatch
      <4>7. QED BY <4>5, <4>6 DEF Paired
    <3>3. AllPaired(actions')
      BY <3>1, <3>2 DEF AllPaired
    <3>4. QED BY <1>1, <3>1, <3>3
  <2>8. CASE ForgetsDone \/ PreferencesDone \/ StatementsDone \/ RulesDone \/ VetoOne
               \/ SemanticOne \/ RevisionStarts \/ SupersedeOne \/ Revised \/ SemanticDone
    BY <1>2, <2>1, <2>8 DEF ForgetsDone, PreferencesDone, StatementsDone, RulesDone, VetoOne,
          SemanticOne, RevisionStarts, SupersedeOne, Revised, SemanticDone
  <2>9. QED BY <1>3, <2>3, <2>4, <2>5, <2>6, <2>7, <2>8 DEF PlanOne, Rules, PlannerStep
<1>4. CASE TemporalStep /\ ~ extracting /\ UNCHANGED hybridVars
  <2>1. adding' # None
    <3>1. "reported" # None /\ "decided" # None /\ "derived" # None /\ "past" # None
      BY TemporalAssumption DEF Phases
    <3>2. CASE CoexistOne \/ CoexistDone
      BY <3>1, <3>2 DEF CoexistOne, CoexistDone, temporalVars, AddedInv
    <3>3. CASE ReadScope \/ Adds
      BY <3>1, <3>3 DEF ReadScope, Adds, ReportedOne, Confirmed, DerivedOne, PastOne
    <3>4. QED BY <1>4, <3>2, <3>3 DEF TemporalStep, Adds
  <2>2. QED BY <1>4, <2>1 DEF RulesPair, Extended, hybridVars
<1>5. CASE ExtractionStarts
  <2>1. pc = "planned"
    BY <1>5 DEF ExtractionStarts
  <2>2. ~ Extended
    BY <2>1, Batches
  <2>3. QED BY <1>2, <1>5, <2>2 DEF ExtractionStarts
<1>6. CASE CandidateOne
  BY <1>2, <1>6, AddsOne DEF CandidateOne
<1>7. CASE Return
  BY <1>7 DEF Return, Returned, RulesPair, AllPaired, SupersededIn
<1>8. CASE Quiet
  <2>1. UNCHANGED inputs /\ UNCHANGED actions /\ Extended' = Extended /\ extracting' = extracting
    BY <1>8, QuietFrame DEF Extended
  <2>2. CASE ~ Extended \/ extracting
    BY <1>2, <2>1, <2>2
  <2>3. CASE Extended /\ ~ extracting
    BY <2>1, <2>3 DEF RulesPair
  <2>4. QED BY <2>2, <2>3
<1>9. QED BY <1>3, <1>4, <1>5, <1>6, <1>7, <1>8, StepCases

LEMMA SlotsExplainKept ==
    ASSUME StrategyInv, StrategyInv', ReadOnce, RulesPair, SlotsExplain, [PathNext]_pathVars
    PROVE  SlotsExplain'
<1> SUFFICES ASSUME pc' \in {"semantic", "revise"} PROVE SlotsExplain'
  BY DEF SlotsExplain
<1>1. UNCHANGED inputs
  BY InputsKept
<1>2. ASSUME UNCHANGED actions, UNCHANGED superseded,
             \A n \in SupersededIn(result') :
                \/ Paired(actions, n) \/ Succeeded(result', n)
                \/ pc' = "revise" /\ n \in Contradicted(actions[next'].content)
      PROVE  SlotsExplain'
  <2>1. SupersededIn(result)' = SupersededIn(result')
    BY <1>1, ExplainedFrame
  <2>2. \A c : Contradicted(c)' = Contradicted(c)
    BY <1>1, <1>2, ContradictedFrame
  <2>3. Contradicted(actions[next].content)' = Contradicted(actions[next'].content)
    BY <1>1, <1>2, <2>2
       DEF Contradicted, Eligible, SameSlot, SameValue, Meant, inputs
  <2>4. ASSUME NEW n \in SupersededIn(result)'
        PROVE  (\/ Paired(actions, n) \/ Succeeded(result, n)
                \/ pc = "revise" /\ n \in Contradicted(actions[next].content))'
    <3>1. n \in SupersededIn(result')
      BY <2>1, <2>4
    <3>2. CASE Paired(actions, n)
      <4>1. Paired(actions, n)'
        BY <1>1, <1>2, <3>2 DEF Paired, inputs
      <4>2. QED BY <4>1
    <3>3. CASE Succeeded(result', n)
      <4>1. Succeeded(result, n)'
        BY <1>1, <1>2, <3>3 DEF Succeeded, SameSlot, Meant, inputs
      <4>2. QED BY <4>1
    <3>4. CASE pc' = "revise" /\ n \in Contradicted(actions[next'].content)
      <4>1. (n \in Contradicted(actions[next].content))'
        BY <2>3, <3>4
      <4>2. QED BY <3>4, <4>1
    <3>5. QED BY <1>2, <3>1, <3>2, <3>3, <3>4
  <2>5. QED BY <2>4 DEF SlotsExplain
<1>3. \A n : Succeeded(result, n) /\ Within(result, result') => Succeeded(result', n)
  BY DEF Succeeded, Within
<1>4. CASE VetoDone
  <2>1. pc' = "semantic" /\ result' = <<>>
    BY <1>4 DEF VetoDone
  <2>2. QED BY <2>1 DEF SlotsExplain, SupersededIn
<1>5. ASSUME NEW act \in MemoryAction, result' = Append(result, act)
      PROVE  /\ Within(result, result')
             /\ \A n \in SupersededIn(result') : n \in SupersededIn(result) \/ act = Supersede(existing[n].id)
  <2>1. /\ Within(result, result')
        /\ \A k \in DOMAIN result' : (k \in DOMAIN result /\ result'[k] = result[k]) \/ result'[k] = act
    BY <1>5, ResultGrows
  <2>2. QED BY <2>1 DEF SupersededIn
<1>6. CASE SemanticOne
  <2>1. PICK act : act = actions[next]
    OBVIOUS
  <2>2. /\ pc = "semantic" /\ next \in DOMAIN actions /\ UNCHANGED <<actions, superseded>>
        /\ act \in MemoryAction
        /\ result' = result \/ result' = Append(result, act)
    BY <1>6, <2>1, Batches DEF SemanticOne
  <2>3. ASSUME NEW n \in SupersededIn(result)
        PROVE  Paired(actions, n) \/ Succeeded(result, n)
    BY <2>2 DEF SlotsExplain
  <2>4. ASSUME NEW n \in DOMAIN existing, act = Supersede(existing[n].id)
        PROVE  Paired(actions, n)
    <3>1. n \in SupersededIn(actions)
      BY <2>1, <2>2, <2>4 DEF SupersededIn
    <3>2. ~ Extended
      BY <2>2, Batches
    <3>3. QED BY <3>1, <3>2 DEF RulesPair, AllPaired
  <2>5. CASE result' = result
    BY <1>2, <2>2, <2>3, <2>5
  <2>6. CASE result' = Append(result, act)
    <3>1. /\ Within(result, result')
          /\ \A n \in SupersededIn(result') : n \in SupersededIn(result) \/ act = Supersede(existing[n].id)
      BY <1>5, <2>2, <2>6
    <3>2. \A n \in SupersededIn(result') : n \in DOMAIN existing
      BY DEF SupersededIn
    <3>3. QED BY <1>2, <1>3, <2>2, <2>3, <2>4, <3>1, <3>2
  <2>7. QED BY <2>2, <2>5, <2>6
<1>7. CASE RevisionStarts
  <2>1. /\ pc = "semantic" /\ UNCHANGED <<actions, superseded, result>>
    BY <1>7 DEF RevisionStarts
  <2>2. \A n \in SupersededIn(result) : Paired(actions, n) \/ Succeeded(result, n)
    BY <2>1 DEF SlotsExplain
  <2>3. QED BY <1>2, <2>1, <2>2
<1>8. CASE SupersedeOne
  <2>1. PICK c, i : c = actions[next].content /\ i = existing[entry].id
    OBVIOUS
  <2>2. /\ pc = "revise" /\ pc' = "revise" /\ UNCHANGED <<next, actions, superseded>>
        /\ entry \in DOMAIN existing
        /\ \/ result' = result
           \/ entry \in Contradicted(c) /\ result' = Append(result, Supersede(i))
    BY <1>8, <2>1 DEF SupersedeOne
  <2>3. \A n \in SupersededIn(result) :
           Paired(actions, n) \/ Succeeded(result, n) \/ n \in Contradicted(c)
    BY <2>1, <2>2 DEF SlotsExplain
  <2>4. CASE result' = result
    BY <1>2, <2>1, <2>2, <2>3, <2>4
  <2>5. CASE entry \in Contradicted(c) /\ result' = Append(result, Supersede(i))
    <3>1. PICK act \in MemoryAction : act = Supersede(i)
      <4>1. existing[entry] \in Memories
        BY <2>2, Batches, Facts
      <4>2. i \in Ids
        BY <2>1, <4>1 DEF Memories
      <4>3. QED BY <4>2 DEF Supersede, MemoryAction, RetireActions
    <3>2. /\ Within(result, result')
          /\ \A n \in SupersededIn(result') : n \in SupersededIn(result) \/ act = Supersede(existing[n].id)
      BY <1>5, <2>5, <3>1
    <3>3. ASSUME NEW n \in SupersededIn(result'), act = Supersede(existing[n].id)
          PROVE  n \in Contradicted(c)
      <4>1. n \in DOMAIN existing
        BY DEF SupersededIn
      <4>2. existing[n].id = i
        BY <3>1, <3>3 DEF Supersede
      <4>3. n = entry
        BY <2>1, <2>2, <4>1, <4>2 DEF ReadOnce
      <4>4. QED BY <2>5, <4>3
    <3>4. QED BY <1>2, <1>3, <2>1, <2>2, <2>3, <3>2, <3>3
  <2>6. QED BY <2>2, <2>4, <2>5
<1>9. CASE Revised
  <2>1. PICK c : c = actions[next].content
    OBVIOUS
  <2>2. /\ pc = "revise" /\ pc' = "semantic" /\ UNCHANGED <<actions, superseded>>
    BY <1>9 DEF Revised
  <2>3. PICK k \in Contradicted(c) : result' = Append(result, Create(c, existing[k].id))
    BY <1>9, <2>1 DEF Revised
  <2>4. PICK act \in MemoryAction : act = Create(c, existing[k].id)
    <3>1. PlannerInv /\ next \in DOMAIN actions /\ IsCreate(actions[next])
      BY <2>2, Batches DEF PlannerInv, RevisionSupersedes
    <3>2. existing[k] \in Memories /\ actions[next] \in MemoryAction
      BY <2>3, <3>1, Facts DEF Contradicted, Eligible
    <3>3. existing[k].id \in Ids /\ c \in Contents
      BY <2>1, <3>1, <3>2, ActionShape DEF Memories
    <3>4. QED BY <3>3, ActionTypes
  <2>5. /\ Within(result, result')
        /\ \A n \in SupersededIn(result') : n \in SupersededIn(result) \/ act = Supersede(existing[n].id)
    BY <1>5, <2>3, <2>4
  <2>6. \A i : act # Supersede(i)
    <3>1. \A i : act.action # Supersede(i).action
      BY <2>4 DEF Create, Supersede
    <3>2. QED BY <3>1
  <2>7. \A n \in SupersededIn(result) :
           Paired(actions, n) \/ Succeeded(result, n) \/ n \in Contradicted(c)
    BY <2>1, <2>2 DEF SlotsExplain
  <2>8. ASSUME NEW n \in Contradicted(c)
        PROVE  Succeeded(result', n)
    <3>1. \E l \in DOMAIN result' : result'[l] = act
      BY <2>3, <2>4, ResultGrows
    <3>2. IsCreate(act) /\ act.replaces = existing[k].id /\ act.content = c
      BY <2>4 DEF Create, IsCreate
    <3>3. SameSlot(c, n) /\ SameSlot(c, k) /\ existing[k].active /\ k \in DOMAIN existing
      BY DEF Contradicted, Eligible
    <3>4. QED BY <3>1, <3>2, <3>3 DEF Succeeded
  <2>9. QED BY <1>2, <1>3, <2>2, <2>5, <2>6, <2>7, <2>8
<1>10. CASE Quiet
  <2>1. UNCHANGED <<pc, actions, superseded, result, next>>
    BY <1>10, QuietFrame
  <2>2. \A n \in SupersededIn(result) :
           \/ Paired(actions, n) \/ Succeeded(result, n)
           \/ pc = "revise" /\ n \in Contradicted(actions[next].content)
    BY <2>1 DEF SlotsExplain
  <2>3. QED BY <1>2, <2>1, <2>2
<1>11. QED BY <1>4, <1>6, <1>7, <1>8, <1>9, <1>10, StepsFrom

LEMMA ExplainedHasKin ==
    ASSUME NEW s, Explained(s)
    PROVE  HasKin(s)
  BY DEF Explained, HasKin, Paired, Succeeded

(* A create that is added explains and leaves no less than the batch did.   *)
LEMMA ExplainedAdds ==
    ASSUME StrategyInv, Adds \/ CandidateOne
    PROVE  /\ HasKin(result) => HasKin(result')
           /\ LeavesOne(result) => LeavesOne(result')
<1>1. PICK c \in Contents : result' = Append(result, Create(c, None))
  BY AddsOne
<1>2. PICK act \in MemoryAction : act = Create(c, None)
  BY UnlinkedCreate
<1>3. /\ Within(result, result')
      /\ \A k \in DOMAIN result' : (k \in DOMAIN result /\ result'[k] = result[k]) \/ result'[k] = act
  BY <1>1, <1>2, ResultGrows
<1>4. \A i : act # Supersede(i)
  <2>1. \A i : act.action # Supersede(i).action
    BY <1>2 DEF Create, Supersede
  <2>2. QED BY <2>1
<1>5. SupersededIn(result') = SupersededIn(result)
  BY <1>3, <1>4 DEF SupersededIn, Within
<1>6. HasKin(result) => HasKin(result')
  BY <1>3, <1>5 DEF HasKin, Within
<1>7. LeavesOne(result) => LeavesOne(result')
  BY <1>5 DEF LeavesOne
<1>8. QED BY <1>6, <1>7

(* What a message about the past leaves of the batch. *)
LEMMA PastLeavesOne ==
    ASSUME StrategyInv, PastCarries, Explained(actions),
           pc = "coexist", next \notin DOMAIN actions
    PROVE  HasKin(result) /\ LeavesOne(result)
<1>1. /\ \A j \in DOMAIN actions : IsCreate(actions[j]) => Says(result, actions[j].content)
      /\ \A k \in DOMAIN result : ~ IsCreate(result[k]) =>
            ~ VetoedAsPast(result[k]) /\ \E j \in DOMAIN actions : actions[j] = result[k]
  BY Batches DEF PastCarries
<1>2. ASSUME NEW n \in SupersededIn(result)
      PROVE  /\ existing[n].id \notin Replaced(actions) /\ existing[n].id # None
             /\ n \in SupersededIn(actions)
  <2>1. PICK k \in DOMAIN result : result[k] = Supersede(existing[n].id)
    BY DEF SupersededIn
  <2>2. /\ result[k].action = "supersede" /\ result[k].memory_id = existing[n].id
        /\ ~ IsCreate(result[k])
    BY <2>1 DEF Supersede, IsCreate
  <2>3. existing[n].id \in Ids
    <3>1. result[k] \in MemoryAction
      BY Batches
    <3>2. QED BY <2>2, <3>1, ActionShape DEF Retires, RetireActions
  <2>4. QED BY <1>1, <2>1, <2>2, <2>3, VocabularyAssumption DEF VetoedAsPast, SupersededIn
<1>3. ASSUME NEW n \in SupersededIn(result)
      PROVE  \E k \in DOMAIN actions, m \in DOMAIN existing \ SupersededIn(result) :
                /\ IsCreate(actions[k]) /\ SameSlot(actions[k].content, n)
                /\ existing[m].active /\ SameSlot(actions[k].content, m)
  <2>1. ~ Paired(actions, n)
    BY <1>2 DEF Paired, Replaced
  <2>2. Succeeded(actions, n)
    BY <1>2, <2>1 DEF Explained
  <2>3. PICK k \in DOMAIN actions, m \in DOMAIN existing :
           /\ IsCreate(actions[k]) /\ actions[k].replaces = existing[m].id
           /\ SameSlot(actions[k].content, n)
           /\ existing[m].active /\ SameSlot(actions[k].content, m)
    BY <2>2 DEF Succeeded
  <2>4. m \notin SupersededIn(result)
    <3>1. SUFFICES ASSUME m \in SupersededIn(result) PROVE FALSE
      OBVIOUS
    <3>2. existing[m].id \in Replaced(actions)
      BY <1>2, <2>3, <3>1 DEF Replaced
    <3>3. QED BY <1>2, <3>1, <3>2
  <2>5. QED BY <2>3, <2>4
<1>4. HasKin(result)
  <2> SUFFICES ASSUME NEW n \in SupersededIn(result)
               PROVE  \E k \in DOMAIN result : IsCreate(result[k]) /\ SameSlot(result[k].content, n)
    BY DEF HasKin
  <2>1. PICK k \in DOMAIN actions : IsCreate(actions[k]) /\ SameSlot(actions[k].content, n)
    BY <1>3
  <2>2. PICK j \in DOMAIN result : IsCreate(result[j]) /\ result[j].content = actions[k].content
    BY <1>1, <2>1 DEF Says
  <2>3. QED BY <2>1, <2>2
<1>5. LeavesOne(result)
  <2> SUFFICES ASSUME NEW n \in SupersededIn(result)
               PROVE  \E m \in DOMAIN existing \ SupersededIn(result) :
                         existing[m].active /\ SameSlot(existing[n].content, m)
    BY DEF LeavesOne
  <2>1. PICK k \in DOMAIN actions, m \in DOMAIN existing \ SupersededIn(result) :
           /\ IsCreate(actions[k]) /\ SameSlot(actions[k].content, n)
           /\ existing[m].active /\ SameSlot(actions[k].content, m)
    BY <1>3
  <2>2. SameSlot(existing[n].content, m)
    BY <2>1 DEF SameSlot, SameScope
  <2>3. QED BY <2>1, <2>2
<1>6. QED BY <1>4, <1>5

LEMMA ResultExplainedKept ==
    ASSUME StrategyInv, StrategyInv', RulesPair, SlotsExplain, ResultExplained,
           SlotsCarry, PastCarries, AddedInv, AddedInv', [PathNext]_pathVars
    PROVE  ResultExplained'
<1> SUFFICES ASSUME pc' \in {"coexist", "done"} PROVE ResultExplained'
  BY DEF ResultExplained
<1>1. UNCHANGED inputs
  BY InputsKept
<1>2. /\ "reported" # None /\ "decided" # None /\ "derived" # None /\ "past" # None
      /\ None # "past"
  BY TemporalAssumption DEF Phases
<1>3. ASSUME pc' = "done",
             ~ Extended' => Explained(result'), HasKin(result'),
             historical' => LeavesOne(result')
      PROVE  ResultExplained'
  BY <1>1, <1>3, ExplainedFrame DEF ResultExplained
<1>4. CASE pc' = "coexist"
  <2>1. CASE ReadScope /\ ~ extracting
    <3>1. pc = "done" /\ actions' = result /\ ~ Extended
      BY <1>4, <2>1 DEF ReadScope, Extended
    <3>2. Explained(actions')
      BY <3>1 DEF ResultExplained
    <3>3. QED BY <1>1, <1>4, <3>2, ExplainedFrame DEF ResultExplained
  <2>2. CASE CoexistOne \/ Quiet
    <3>1. pc = "coexist" /\ actions' = actions
      BY <1>4, <2>2, QuietFrame DEF CoexistOne
    <3>2. Explained(actions')
      BY <3>1 DEF ResultExplained
    <3>3. QED BY <1>1, <1>4, <3>2, ExplainedFrame DEF ResultExplained
  <2>3. QED BY <1>4, <2>1, <2>2, StepsFrom
<1>5. CASE pc' = "done"
  <2>1. ASSUME pc = "planned", result' = actions, historical' = historical
        PROVE  ResultExplained'
    <3>1. ~ Extended
      BY <2>1, Batches
    <3>2. AllPaired(actions) /\ ~ historical'
      BY <2>1, <3>1 DEF RulesPair, AddedInv, Extended
    <3>3. Explained(actions)
      BY <3>2 DEF AllPaired, Explained
    <3>4. HasKin(actions)
      BY <3>3, ExplainedHasKin
    <3>5. QED BY <1>3, <1>5, <2>1, <3>2, <3>3, <3>4
  <2>2. CASE RulesDone /\ UNCHANGED strategyVars
    BY <1>5, <2>1, <2>2 DEF RulesDone, strategyVars, temporalVars
  <2>3. CASE ExtractionStarts /\ UNCHANGED temporalVars
    BY <2>1, <2>3 DEF ExtractionStarts, temporalVars
  <2>4. CASE SemanticDone /\ UNCHANGED strategyVars
    <3>1. /\ pc = "semantic" /\ result' = result /\ next \notin DOMAIN actions /\ ~ Extended
          /\ historical' = historical
      BY <2>4, Batches DEF SemanticDone, strategyVars, temporalVars
    <3>2. ASSUME NEW n \in SupersededIn(result), Paired(actions, n)
          PROVE  Paired(result, n)
      <4>1. PICK j \in DOMAIN actions :
               /\ IsCreate(actions[j]) /\ actions[j].replaces = existing[n].id
               /\ Kind[existing[n].content] = Kind[actions[j].content]
               /\ Key[existing[n].content] = Key[actions[j].content]
        BY <3>2 DEF Paired
      <4>2. existing[n].id # None
        <5>1. n \in DOMAIN existing /\ existing \in Seq(Memories)
          BY <3>1, Batches, Facts DEF SupersededIn
        <5>2. existing[n] \in Memories
          BY <5>1
        <5>3. QED BY <5>2, VocabularyAssumption DEF Memories
      <4>3. \E k \in DOMAIN result : result[k] = actions[j]
        BY <3>1, <4>1, <4>2, Batches DEF SlotsCarry, IsLinked
      <4>4. QED BY <4>1, <4>3 DEF Paired
    <3>3. Explained(result)
      BY <3>1, <3>2 DEF Explained, SlotsExplain
    <3>4. HasKin(result) /\ ~ historical
      BY <3>1, <3>3, ExplainedHasKin DEF AddedInv, Extended
    <3>5. QED BY <1>3, <1>5, <3>1, <3>3, <3>4
  <2>5. CASE Adds \/ (CandidateOne /\ UNCHANGED temporalVars)
    <3>1. pc = "done"
      BY <2>5, AddsOne
    <3>2. Extended' /\ historical' = historical
      <4>1. ASSUME Adds
            PROVE  Extended' /\ historical' = historical
        <5>1. adding' # None
          BY <1>2, <4>1 DEF Adds, ReportedOne, Confirmed, DerivedOne, PastOne
        <5>2. historical' = historical
          BY <4>1 DEF Adds, ReportedOne, Confirmed, DerivedOne, PastOne, Add
        <5>3. QED BY <5>1, <5>2 DEF Extended
      <4>2. ASSUME CandidateOne /\ UNCHANGED temporalVars
            PROVE  Extended' /\ historical' = historical
        BY <4>2 DEF CandidateOne, temporalVars, Extended
      <4>3. QED BY <2>5, <4>1, <4>2
    <3>3. HasKin(result') /\ (historical => LeavesOne(result'))
      BY <2>5, <3>1, ExplainedAdds DEF ResultExplained
    <3>4. QED BY <1>3, <1>5, <3>2, <3>3
  <2>6. CASE ReadScope
    <3>1. pc = "done" /\ result' = result /\ ~ historical' /\ adding' = "reported"
      BY <1>5, <2>6 DEF ReadScope
    <3>2. HasKin(result) /\ Extended'
      BY <1>2, <3>1 DEF ResultExplained, Extended
    <3>3. QED BY <1>3, <1>5, <3>1, <3>2
  <2>7. CASE CoexistDone
    <3>1. pc = "coexist" /\ result' = result /\ next \notin DOMAIN actions /\ adding' = adding
      BY <2>7 DEF CoexistDone, temporalVars
    <3>2. HasKin(result) /\ LeavesOne(result)
      BY <3>1, PastLeavesOne DEF ResultExplained
    <3>3. Extended'
      BY <1>2, <3>1 DEF AddedInv, Extended
    <3>4. QED BY <1>3, <1>5, <3>1, <3>2, <3>3
  <2>8. CASE Quiet
    <3>1. pc = "done" /\ result' = result /\ historical' = historical /\ Extended' = Extended
      BY <1>5, <2>8, QuietFrame DEF Extended
    <3>2. /\ ~ Extended => Explained(result)
          /\ HasKin(result)
          /\ historical => LeavesOne(result)
      BY <3>1 DEF ResultExplained
    <3>3. /\ ~ Extended' => Explained(result')
          /\ HasKin(result')
          /\ historical' => LeavesOne(result')
      BY <3>1, <3>2
    <3>4. QED BY <1>3, <1>5, <3>3
  <2>9. \/ RulesDone /\ UNCHANGED strategyVars
        \/ SemanticDone /\ UNCHANGED strategyVars
        \/ ExtractionStarts /\ UNCHANGED temporalVars
        \/ Adds \/ (CandidateOne /\ UNCHANGED temporalVars)
        \/ ReadScope \/ CoexistDone \/ Quiet
    BY <1>5, StepsToDone
  <2>10. QED BY <2>2, <2>3, <2>4, <2>5, <2>6, <2>7, <2>8, <2>9
<1>6. QED BY <1>4, <1>5
-----------------------------------------------------------------------------
(* Every action of a batch that a strategy has taken over is about a memory *)
(* that was read.                                                           *)
LEMMA TargetsKept ==
    ASSUME StrategyInv, Extended => TargetsRead(result) /\ TargetsRead(actions),
           [PathNext]_pathVars
    PROVE  (Extended => TargetsRead(result) /\ TargetsRead(actions))'
<1> SUFFICES ASSUME Extended'
             PROVE  TargetsRead(result)' /\ TargetsRead(actions)'
  OBVIOUS
<1>1. TargetsRead(result) /\ TargetsRead(actions)
  BY Batches, Facts
<1>2. ASSUME UNCHANGED inputs, TargetsRead(result'), TargetsRead(actions')
      PROVE  TargetsRead(result)' /\ TargetsRead(actions)'
  <2>1. Read' = Read
    BY <1>2, ReadFrame
  <2>2. QED BY <1>2, <2>1 DEF TargetsRead
<1>3. CASE PlanOne /\ UNCHANGED strategyVars
  <2>1. pc \notin {"done", "coexist"}
    BY <1>3 DEF PlanOne, Rules, PlannerStep, Asked, ForgetOne, ForgetsDone, PreferenceOne,
           PreferencesDone, StatementOne, StatementsDone, RulesDone, VetoOne, VetoDone,
           SemanticOne, RevisionStarts, SupersedeOne, Revised, SemanticDone
  <2>2. ~ Extended
    BY <2>1, Batches
  <2>3. QED BY <1>3, <2>2 DEF strategyVars, temporalVars, hybridVars, Extended
<1>4. CASE Adds \/ CandidateOne
  <2>1. PICK c \in Contents : result' = Append(result, Create(c, None))
    BY <1>4, AddsOne
  <2>2. PICK act \in MemoryAction : act = Create(c, None)
    BY UnlinkedCreate
  <2>3. ~ Retires(act) /\ act.replaces = None
    BY <2>2 DEF Create, Retires, RetireActions
  <2>4. TargetsRead(result')
    BY <1>1, <2>1, <2>2, <2>3, Batches, TargetsAppend
  <2>5. QED BY <1>1, <1>2, <1>4, <2>4, AddsOne
<1>5. CASE ReadScope
  <2>1. /\ UNCHANGED inputs /\ result' \in {result, <<>>} /\ actions' \in {actions, result}
    BY <1>5 DEF ReadScope
  <2>2. QED BY <1>1, <1>2, <2>1, EmptyBatch
<1>6. CASE CoexistOne
  <2>1. PICK act \in MemoryAction : act = actions[next]
    BY <1>6, Batches DEF CoexistOne
  <2>2. /\ Retires(act) => act.memory_id \in Read
        /\ IsCreate(act) <=> ~ Retires(act)
        /\ IsCreate(act) => act.content \in Contents
    BY <1>1, <1>6, <2>1, ActionShape DEF CoexistOne, TargetsRead
  <2>3. PICK kept : kept = IF IsCreate(act) THEN Create(act.content, None) ELSE act
    OBVIOUS
  <2>4. /\ kept \in MemoryAction
        /\ Retires(kept) => kept.memory_id \in Read
        /\ IsCreate(kept) => kept.replaces \in Read \cup {None}
    <3>1. CASE IsCreate(act)
      <4>1. kept = Create(act.content, None)
        BY <2>3, <3>1
      <4>2. kept \in MemoryAction /\ ~ Retires(kept) /\ kept.replaces = None
        BY <2>2, <3>1, <4>1, UnlinkedCreate DEF Create, Retires, RetireActions
      <4>3. QED BY <4>2
    <3>2. CASE ~ IsCreate(act)
      BY <2>2, <2>3, <3>2
    <3>3. QED BY <3>1, <3>2
  <2>5. result' = result \/ result' = Append(result, kept)
    BY <1>6, <2>1, <2>3 DEF CoexistOne
  <2>6. TargetsRead(result')
    BY <1>1, <2>4, <2>5, Batches, TargetsAppend
  <2>7. UNCHANGED inputs /\ actions' = actions
    BY <1>6 DEF CoexistOne
  <2>8. QED BY <1>1, <1>2, <2>6, <2>7
<1>7. CASE CoexistDone
  BY <1>1, <1>2, <1>7 DEF CoexistDone
<1>8. CASE ExtractionStarts
  BY <1>1, <1>2, <1>8 DEF ExtractionStarts
<1>9. CASE Return
  BY <1>9 DEF Return, Extended
<1>10. CASE Quiet
  BY <1>1, <1>2, <1>10, QuietFrame
<1>11. QED
  BY <1>3, <1>4, <1>5, <1>6, <1>7, <1>8, <1>9, <1>10, StepCases DEF TemporalStep, Adds

(* The rewriting is the semantic planner's, and a call begins and ends with *)
(* the loop variable at its start.                                          *)
LEMMA LoopsKept ==
    ASSUME StrategyInv, pc \in {"veto", "semantic", "revise"} => Semantic,
           pc \in {"idle", "forget", "done"} => next = 1, [PathNext]_pathVars
    PROVE  /\ (pc \in {"veto", "semantic", "revise"} => Semantic)'
           /\ (pc \in {"idle", "forget", "done"} => next = 1)'
<1>1. Semantic' <=> Semantic
  OBVIOUS
<1>2. pc = "planned" => next = 1
  BY Batches DEF PlannerInv
<1>3. CASE PlanOne
  BY <1>1, <1>2, <1>3 DEF PlanOne, Rules, PlannerStep, Asked, ForgetOne, ForgetsDone,
         PreferenceOne, PreferencesDone, StatementOne, StatementsDone, RulesDone, VetoOne,
         VetoDone, SemanticOne, RevisionStarts, SupersedeOne, Revised, SemanticDone
<1>4. CASE TemporalStep
  <2>1. CASE Adds
    BY <2>1, AddsOne
  <2>2. CASE ReadScope \/ CoexistOne \/ CoexistDone
    BY <2>2 DEF ReadScope, CoexistOne, CoexistDone
  <2>3. QED BY <1>4, <2>1, <2>2 DEF TemporalStep, Adds
<1>5. CASE ExtractionStarts \/ CandidateOne
  BY <1>2, <1>5, AddsOne DEF ExtractionStarts
<1>6. CASE Return
  BY <1>6 DEF Return, Returned
<1>7. CASE Quiet
  BY <1>7, QuietFrame
<1>8. QED BY <1>3, <1>4, <1>5, <1>6, <1>7, StepCases

-----------------------------------------------------------------------------
LEMMA MeaningInit == PathInit => MeaningInv
<1> SUFFICES ASSUME PathInit PROVE MeaningInv
  OBVIOUS
<1>1. /\ pc = "idle" /\ next = 1 /\ existing = <<>> /\ seen = {} /\ actions = <<>> /\ result = <<>>
      /\ adding = None /\ historical = FALSE /\ past = 0 /\ extracting = FALSE /\ accepted = 0
  BY DEF PathInit, Init, PlannerInit, TemporalInit, HybridInit
<1>2. ~ Extended /\ ReadOnce /\ ReadAsAsked
  BY <1>1 DEF Extended, ReadOnce, ReadAsAsked
<1>3. AddedInv
  BY <1>1, <1>2 DEF AddedInv, AddedOnce, Ready
<1>4. SupersedesExplained
  BY <1>1 DEF SupersedesExplained, RulesPair, SlotsExplain, ResultExplained, AllPaired, SupersededIn
<1>5. StatementsHeard
  BY <1>1 DEF StatementsHeard, RulesHear, SeenHeard, OnlyUttered, AllAccounted, Heard
<1>6. QED BY <1>1, <1>2, <1>3, <1>4, <1>5
          DEF MeaningInv, VetoCarries, SlotsCarry, PastCarries, ScopesInv

LEMMA MeaningStep ==
    StrategyInv /\ StrategyInv' /\ MeaningInv /\ [PathNext]_pathVars => MeaningInv'
<1> SUFFICES ASSUME StrategyInv, StrategyInv', MeaningInv, [PathNext]_pathVars
             PROVE  MeaningInv'
  OBVIOUS
<1>1. /\ ReadOnce /\ ReadAsAsked
      /\ pc \in {"veto", "semantic", "revise"} => Semantic
      /\ pc \in {"idle", "forget", "done"} => next = 1
      /\ Extended => TargetsRead(result) /\ TargetsRead(actions)
      /\ RulesPair /\ SlotsExplain /\ ResultExplained
      /\ VetoCarries /\ SlotsCarry /\ PastCarries
      /\ StatementsHeard /\ ScopesInv /\ AddedInv
  BY DEF MeaningInv, SupersedesExplained
<1>2. ReadOnce' /\ ReadAsAsked'
  BY <1>1, ReadOnceKept, ReadAsAskedKept
<1>3. /\ (pc \in {"veto", "semantic", "revise"} => Semantic)'
      /\ (pc \in {"idle", "forget", "done"} => next = 1)'
  BY <1>1, LoopsKept
<1>4. (Extended => TargetsRead(result) /\ TargetsRead(actions))'
  BY <1>1, TargetsKept
<1>5. AddedInv'
  BY <1>1, AddedKept
<1>6. SupersedesExplained'
  <2>1. RulesPair'
    BY <1>1, RulesPairKept
  <2>2. SlotsExplain'
    BY <1>1, SlotsExplainKept
  <2>3. ResultExplained'
    BY <1>1, <1>5, ResultExplainedKept
  <2>4. QED BY <2>1, <2>2, <2>3 DEF SupersedesExplained
<1>7. VetoCarries'
  BY <1>1, VetoCarriesKept
<1>8. SlotsCarry'
  BY <1>1, SlotsCarryKept
<1>9. PastCarries'
  BY <1>1, PastCarriesKept
<1>10. StatementsHeard'
  BY <1>1, StatementsHeardKept
<1>11. ScopesInv'
  BY <1>1, ScopesInvKept
<1>12. QED
  BY <1>2, <1>3, <1>4, <1>5, <1>6, <1>7, <1>8, <1>9, <1>10, <1>11 DEF MeaningInv

(* What the planners write into a batch stays explained by what the message *)
(* says and the snapshot holds: memory/planner.py, semantic_planner.py,     *)
(* temporal_planner.py and hybrid_planner.py, in every order they run in.   *)
THEOREM MeaningHolds == PathSpec => []MeaningInv
<1>1. PathInv => StrategyInv
  BY DEF PathInv
<1>2. QED BY <1>1, MeaningInit, MeaningStep, PathInvariantHolds, PTL DEF PathSpec

(* _veto_cross_scope_v1_pairs and the slots leave no create that replaces a *)
(* memory of another scope, or of another time, in a batch that is planned. *)
THEOREM ScopesNeverCross == PathSpec => []ScopesKept
<1>1. MeaningInv => ScopesKept
  BY DEF MeaningInv, ScopesInv, ScopesApart, IsLinked, ScopesKept, ScopesCoexist, Done
<1>2. QED BY <1>1, MeaningHolds, PTL

(* _find_conflict, evaluate_pair and _apply_temporal supersede no memory    *)
(* without a create of its key or of its slot in the same batch.            *)
THEOREM SupersedesHaveKin == PathSpec => []SupersededByKin
<1>1. StrategyInv /\ MeaningInv => SupersededByKin
  <2> SUFFICES ASSUME StrategyInv, MeaningInv, pc = "done",
                      NEW j \in DOMAIN result, result[j].action = "supersede"
               PROVE  \E k \in DOMAIN result :
                         /\ IsCreate(result[k])
                         /\ LET old == ContentOf(result[j].memory_id)
                            IN  \/ /\ Kind[old] = Kind[result[k].content]
                                   /\ Key[old] = Key[result[k].content]
                                \/ /\ Meant(old) /\ Meant(result[k].content)
                                   /\ Identity[old].attribute
                                         = Identity[result[k].content].attribute
                                   /\ SameScope(Identity[old], Identity[result[k].content])
    BY DEF SupersededByKin, Done
  <2>1. TargetsRead(result) /\ result \in Seq(MemoryAction) /\ HasKin(result) /\ ReadOnce
    BY Batches, Facts DEF MeaningInv, SupersedesExplained, ResultExplained
  <2>2. PICK act \in MemoryAction : act = result[j]
    BY <2>1
  <2>3. act.memory_id \in Read /\ act = Supersede(act.memory_id)
    <3>1. Retires(act)
      BY <2>2 DEF Retires, RetireActions
    <3>2. act.memory_id \in Read
      BY <2>1, <2>2, <3>1 DEF TargetsRead
    <3>3. QED BY <2>2, <3>2 DEF MemoryAction, Supersede
  <2>4. PICK n \in DOMAIN existing : existing[n].id = act.memory_id
    BY <2>3 DEF Read
  <2>5. ContentOf(act.memory_id) = existing[n].content
    BY <2>1, <2>4, ContentRead
  <2>6. n \in SupersededIn(result)
    BY <2>2, <2>3, <2>4 DEF SupersededIn
  <2>7. PICK k \in DOMAIN result :
           /\ IsCreate(result[k])
           /\ \/ /\ Kind[existing[n].content] = Kind[result[k].content]
                 /\ Key[existing[n].content] = Key[result[k].content]
              \/ SameSlot(result[k].content, n)
    BY <2>1, <2>6 DEF HasKin
  <2>8. QED BY <2>2, <2>5, <2>7 DEF SameSlot, SameScope
<1>2. PathInv => StrategyInv
  BY DEF PathInv
<1>3. QED BY <1>1, <1>2, MeaningHolds, PathInvariantHolds, PTL

(* Whatever the loops of plan_memory_actions skip, drop or unlink, a        *)
(* statement of the message that is not in the batch is said by an active   *)
(* memory, by one that the message retires, or by a superseded one.         *)
THEOREM NoStatementLost == PathSpec => []StatementsAccounted
<1>1. MeaningInv => StatementsAccounted
  <2> SUFFICES ASSUME MeaningInv, Done, NEW c \in Uttered
               PROVE  Heeded(c) \/ Overruled(c) \/ (ReadsInactive /\ Outdated(c))
    BY DEF StatementsAccounted
  <2>1. Accounted(result, c)
    BY DEF MeaningInv, StatementsHeard, AllAccounted, Done
  <2>2. CASE SaysText(result, c)
    BY <2>2 DEF SaysText, Heeded
  <2>3. ASSUME NEW k \in DOMAIN existing, existing[k].active, Alleges(k, c)
        PROVE  Heeded(c) \/ Overruled(c)
    BY <2>3 DEF Heeded, Overruled
  <2>4. CASE TextKnown(c)
    <3>1. PICK k \in DOMAIN existing : Normal[existing[k].content] = Normal[c]
      BY <2>4 DEF TextKnown
    <3>2. CASE existing[k].active
      BY <2>3, <3>1, <3>2 DEF Alleges
    <3>3. CASE ~ existing[k].active
      BY <3>1, <3>3 DEF Outdated, MeaningInv, ReadAsAsked
    <3>4. QED BY <3>2, <3>3
  <2>5. CASE Semantic /\ \E d \in Uttered : Normal[d] = Normal[c] /\ Known(d)
    BY <2>3, <2>5 DEF Known, Alleges
  <2>6. QED BY <2>1, <2>2, <2>4, <2>5 DEF Accounted
<1>2. QED BY <1>1, MeaningHolds, PTL

(* Where _apply_temporal lets a message about the past supersede a memory,  *)
(* another active one of the slot stays, or is forgotten on request.        *)
THEOREM HistoricalKeepsSlots == PathSpec => []HistoricalLeavesOne
<1>1. MeaningInv /\ StrategyInv => HistoricalLeavesOne
  <2> SUFFICES ASSUME MeaningInv, StrategyInv, Ready, historical,
                      NEW j \in DOMAIN existing,
                      Supersede(existing[j].id) \in ActionsOf(result)
               PROVE  \E k \in Current(existing[j].content) :
                         \/ ~ Retired(k)
                         \/ /\ Forget(existing[k].id) \in ActionsOf(result)
                            /\ Supersede(existing[k].id) \notin ActionsOf(result)
    BY DEF HistoricalLeavesOne
  <2>1. LeavesOne(result)
    BY DEF MeaningInv, SupersedesExplained, ResultExplained, Ready
  <2>2. \A n \in DOMAIN existing :
           n \in SupersededIn(result) <=> Supersede(existing[n].id) \in ActionsOf(result)
    BY DEF SupersededIn, ActionsOf
  <2>3. PICK m \in DOMAIN existing \ SupersededIn(result) :
           existing[m].active /\ SameSlot(existing[j].content, m)
    BY <2>1, <2>2 DEF LeavesOne
  <2>4. m \in Current(existing[j].content)
    BY <2>3 DEF Current, ActiveRead
  <2>5. ASSUME Retired(m) PROVE Forget(existing[m].id) \in ActionsOf(result)
    <3>1. PICK k \in DOMAIN result : Retires(result[k]) /\ result[k].memory_id = existing[m].id
      BY <2>5 DEF Retired
    <3>2. PICK act : act = result[k]
      OBVIOUS
    <3>3. act \in MemoryAction
      BY <3>2, Batches
    <3>4. act = Supersede(existing[m].id) \/ act = Forget(existing[m].id)
      BY <3>1, <3>2, <3>3 DEF MemoryAction, Retires, RetireActions, Supersede, Forget
    <3>5. QED BY <2>2, <2>3, <3>2, <3>4 DEF ActionsOf
  <2>6. QED BY <2>2, <2>3, <2>4, <2>5
<1>2. PathInv => StrategyInv
  BY DEF PathInv
<1>3. QED BY <1>1, <1>2, MeaningHolds, PathInvariantHolds, PTL

(* What _historical_fact_actions and _accept_candidate add repeats no       *)
(* create of the batch, whoever planned it, and no memory they compare with.*)
THEOREM AddedTextsAreNew == PathSpec => []AddedOnce
<1>1. MeaningInv => AddedOnce
  BY DEF MeaningInv, AddedInv
<1>2. QED BY <1>1, MeaningHolds, PTL

(* Of what is appended unchecked (_tool_actions, _confirmation_action,      *)
(* _derivation_action) the manager passes one create of each content on.    *)
THEOREM RoutedSaysOnce == PathSpec => []RoutedOnce
<1>1. PathInv => RoutedOnce
  <2> SUFFICES ASSUME PathInv, stage = "answered", NEW j \in DOMAIN Routed,
                      NEW k \in DOMAIN Routed, IsCreate(Routed[j]), IsCreate(Routed[k]), j # k
               PROVE  Routed[j].content # Routed[k].content
    BY DEF RoutedOnce
  <2>1. j \in DOMAIN answer /\ k \in DOMAIN answer
        /\ Routed[j] = answer[j].act /\ Routed[k] = answer[k].act
    BY DEF Routed, Manager!Actions
  <2>2. ~ Manager!Contradicts(answer[j], answer[k])
    BY <2>1 DEF PathInv, Manager!ManagerInv, Manager!AnswerIsFiltered
  <2>3. QED BY <2>1, <2>2 DEF Manager!Contradicts, Manager!SameCreate, Manager!IsCreate, IsCreate
<1>2. QED BY <1>1, PathInvariantHolds, PTL
=============================================================================
