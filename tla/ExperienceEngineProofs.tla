----------------------- MODULE ExperienceEngineProofs -----------------------
(***************************************************************************)
(* Proofs about ExperienceEngine, for every number of agents, users, ids   *)
(* and contents, every bound, with or without failures, extraction,        *)
(* transitions and superseded memories in the context.                     *)
(***************************************************************************)
EXTENDS EngineInvariant, TLAPS

-----------------------------------------------------------------------------
(* What planning produces, for every policy batch, extraction and           *)
(* transition: the plan a run of the engine goes on to apply is GoodPlan.   *)

(* The batch of a policy, after the admission of the engine.                *)
LEMMA AdmitGood ==
    ASSUME NEW b \in Seq(MemoryAction), NEW shown \in SUBSET Ids, NEW text,
           NEW out, PairedReplacements => Linked(b), NamesOnly(b, shown \cup out)
    PROVE  GoodPlan(Admit(b, shown, text), shown, out)
<1> DEFINE pl == Admit(b, shown, text)
<1>1. pl \in Plans /\ pl.acts = b /\ pl.ok \subseteq DOMAIN b
  BY DEF Admit, Plans
<1>2. \A k \in pl.ok : ~ TargetNotActive(b[k], shown)
  BY DEF Admit, Rejected
<1>3. \A k \in Retirements(pl) : b[k].memory_id \in shown
  BY <1>1, <1>2 DEF Retirements, TargetNotActive
<1>4. ASSUME PairedReplacements, NEW k \in Creates(pl), b[k].replaces # None
      PROVE  \/ \E j \in Retirements(pl) : b[j].memory_id = b[k].replaces
             \/ b[k].replaces \in out
  <2>1. k \in DOMAIN b /\ IsCreate(b[k])
    BY <1>1 DEF Creates
  <2>2. PICK j \in DOMAIN b : b[j] = Supersede(b[k].replaces)
    BY <2>1, <1>4 DEF Linked
  <2>3. b[k].replaces \in shown \cup out
    BY <2>1, <1>4 DEF NamesOnly
  <2>4. b[j].memory_id = b[k].replaces /\ Retires(b[j]) /\ ~ IsCreate(b[j])
    BY <2>2 DEF Supersede, Retires, RetireActions, IsCreate
  <2>5. CASE b[k].replaces \in shown
    <3>1. j \in pl.ok
      BY <2>2, <2>4, <2>5 DEF Admit, Rejected, TargetNotActive, DuplicateOfActive
    <3>2. QED BY <3>1, <2>4, <1>1 DEF Retirements
  <2>6. QED BY <2>3, <2>5
<1>5. \A k \in Creates(pl) : b[k].replaces \in shown \cup out \cup {None}
  BY <1>1 DEF NamesOnly, Creates
<1>6. QED BY <1>1, <1>3, <1>4, <1>5 DEF GoodPlan

(* Two facts every step about a plan needs. *)
LEMMA ActionShape ==
    ASSUME NEW act \in MemoryAction
    PROVE  /\ IsCreate(act) <=> ~ Retires(act)
           /\ Retires(act) => act.memory_id \in Ids
           /\ IsCreate(act) => act.content \in Contents /\ act.replaces \in Ids \cup {None}
  BY DEF MemoryAction, IsCreate, Retires, RetireActions

LEMMA TranslationShape ==
    ASSUME NEW s \in Translations
    PROVE  /\ s \in Seq(MemoryAction)
           /\ \A k \in DOMAIN s : IsCreate(s[k]) /\ s[k].replaces # None =>
                 \E j \in DOMAIN s : /\ Retires(s[j])
                                     /\ s[j].memory_id = s[k].replaces
<1>1. CASE s = <<>>
  BY <1>1
<1>2. ASSUME NEW m \in Ids, NEW c \in Contents, s = SupersedeExisting(m, c)
      PROVE  /\ s \in Seq(MemoryAction)
             /\ \A k \in DOMAIN s : IsCreate(s[k]) /\ s[k].replaces # None =>
                   \E j \in DOMAIN s : Retires(s[j]) /\ s[j].memory_id = s[k].replaces
  <2>1. Supersede(m) \in MemoryAction /\ Create(c, m) \in MemoryAction
    BY DEF Supersede, Create, MemoryAction, RetireActions
  <2>2. s \in Seq(MemoryAction) /\ DOMAIN s = {1, 2} /\ s[1] = Supersede(m) /\ s[2] = Create(c, m)
    BY <1>2, <2>1 DEF SupersedeExisting
  <2>3. /\ Retires(s[1]) /\ s[1].memory_id = m /\ ~ IsCreate(s[1])
        /\ s[2].replaces = m
    BY <2>2 DEF Supersede, Create, IsCreate, Retires, RetireActions
  <2>4. QED BY <2>2, <2>3
<1>3. ASSUME NEW m \in Ids, s = ForgetExisting(m)
      PROVE  /\ s \in Seq(MemoryAction)
             /\ \A k \in DOMAIN s : ~ IsCreate(s[k])
  <2>1. Forget(m) \in MemoryAction /\ ~ IsCreate(Forget(m))
    BY DEF Forget, MemoryAction, RetireActions, IsCreate
  <2>2. QED BY <1>3, <2>1 DEF ForgetExisting
<1>4. ASSUME NEW c \in Contents, s = CreateNew(c)
      PROVE  /\ s \in Seq(MemoryAction)
             /\ \A k \in DOMAIN s : s[k].replaces = None
  <2>1. Create(c, None) \in MemoryAction /\ Create(c, None).replaces = None
    BY DEF Create, MemoryAction
  <2>2. QED BY <1>4, <2>1 DEF CreateNew
<1>5. QED BY <1>1, <1>2, <1>3, <1>4 DEF Translations

(* Where the actions of a controller are once they are appended.            *)
LEMMA AppendShape ==
    ASSUME NEW pl \in Plans, pl.ok \subseteq DOMAIN pl.acts, NEW s \in Translations,
           NEW shown, NEW text, NEW retired,
           AllAdmissible(s, shown, text, retired, pl),
           NEW new, new = AppendAdmissible(pl, s, shown, text, retired)
    PROVE  /\ new \in Plans /\ new.ok \subseteq DOMAIN new.acts
           /\ \A k \in new.ok : \/ k \in pl.ok
                                \/ \E j \in DOMAIN s : k = Len(pl.acts) + j
           /\ \A j \in DOMAIN s : /\ Len(pl.acts) + j \in new.ok
                                  /\ new.acts[Len(pl.acts) + j] = s[j]
           /\ \A k \in pl.ok : k \in new.ok /\ new.acts[k] = pl.acts[k]
<1> DEFINE n == Len(pl.acts)
<1>1. /\ pl.acts \in Seq(MemoryAction) /\ s \in Seq(MemoryAction)
      /\ pl.ok \subseteq 1 .. n /\ n \in Nat /\ Len(s) \in Nat
  BY TranslationShape DEF Plans
<1>2. /\ new.acts = pl.acts \o s
      /\ new.ok = pl.ok \cup (n + 1 .. n + Len(s))
  BY DEF AppendAdmissible
<1>3. /\ new.acts \in Seq(MemoryAction)
      /\ Len(new.acts) = n + Len(s)
      /\ \A k \in 1 .. n : new.acts[k] = pl.acts[k]
      /\ \A k \in DOMAIN s : new.acts[n + k] = s[k]
  BY <1>1, <1>2
<1>4. new \in Plans /\ new.ok \subseteq DOMAIN new.acts
  <2>1. new.ok \in SUBSET (Nat \ {0})
    BY <1>1, <1>2
  <2>2. new \in [acts : Seq(MemoryAction), ok : SUBSET (Nat \ {0})]
    BY <1>2, <1>3, <2>1 DEF AppendAdmissible
  <2>3. new.ok \subseteq 1 .. n + Len(s)
    BY <1>1, <1>2
  <2>4. QED BY <2>2, <2>3, <1>1, <1>3 DEF Plans
<1>5. \A k \in new.ok : k \in pl.ok \/ \E j \in DOMAIN s : k = n + j
  <2>1. \A k \in n + 1 .. n + Len(s) : k - n \in DOMAIN s /\ k = n + (k - n)
    BY <1>1
  <2>2. QED BY <1>2, <2>1
<1>6. \A j \in DOMAIN s : n + j \in new.ok
  BY <1>1, <1>2
<1>7. \A k \in pl.ok : k \in new.ok /\ new.acts[k] = pl.acts[k]
  BY <1>1, <1>2, <1>3
<1>8. QED BY <1>3, <1>4, <1>5, <1>6, <1>7

(* Appending the actions of a controller, all of them or none. *)
LEMMA AppendGood ==
    ASSUME NEW pl, NEW s \in Translations, NEW shown \in SUBSET Ids, NEW text,
           NEW retired, NEW out, GoodPlan(pl, shown, out)
    PROVE  GoodPlan(AppendAdmissible(pl, s, shown, text, retired), shown, out)
<1>1. CASE ~ AllAdmissible(s, shown, text, retired, pl)
  BY <1>1 DEF AppendAdmissible
<1>2. CASE AllAdmissible(s, shown, text, retired, pl)
  <2>1. PICK n, new :
           /\ new = AppendAdmissible(pl, s, shown, text, retired)
           /\ new \in Plans /\ new.ok \subseteq DOMAIN new.acts
           /\ \A k \in new.ok : k \in pl.ok \/ \E j \in DOMAIN s : k = n + j
           /\ \A j \in DOMAIN s : n + j \in new.ok /\ new.acts[n + j] = s[j]
           /\ \A k \in pl.ok : k \in new.ok /\ new.acts[k] = pl.acts[k]
    BY <1>2, AppendShape DEF GoodPlan
  <2>2. ASSUME NEW k \in Retirements(new) PROVE new.acts[k].memory_id \in shown
    <3>1. CASE k \in pl.ok
      BY <3>1, <2>1, <2>2 DEF GoodPlan, Retirements
    <3>2. ASSUME NEW j \in DOMAIN s, k = n + j PROVE new.acts[k].memory_id \in shown
      <4>1. new.acts[k] = s[j]
        BY <3>2, <2>1
      <4>2. ~ TargetNotActive(s[j], shown)
        BY <1>2 DEF AllAdmissible, ControllerRejected, Rejected
      <4>3. Retires(new.acts[k])
        BY <2>2 DEF Retirements
      <4>4. QED BY <4>1, <4>2, <4>3 DEF TargetNotActive
    <3>3. k \in new.ok
      BY <2>2 DEF Retirements
    <3>4. QED BY <3>1, <3>2, <3>3, <2>1
  <2>3. ASSUME PairedReplacements, NEW k \in Creates(new), new.acts[k].replaces # None
        PROVE  \/ \E j \in Retirements(new) : new.acts[j].memory_id = new.acts[k].replaces
               \/ new.acts[k].replaces \in out
    <3>1. CASE k \in pl.ok
      <4>1. k \in Creates(pl) /\ new.acts[k] = pl.acts[k]
        BY <3>1, <2>1, <2>3 DEF Creates
      <4>2. \A j \in Retirements(pl) : j \in Retirements(new) /\ new.acts[j] = pl.acts[j]
        BY <2>1 DEF Retirements
      <4>3. QED BY <4>1, <4>2, <2>3 DEF GoodPlan
    <3>2. ASSUME NEW j \in DOMAIN s, k = n + j
          PROVE  \E i \in Retirements(new) : new.acts[i].memory_id = new.acts[k].replaces
      <4>1. new.acts[k] = s[j] /\ IsCreate(s[j])
        BY <3>2, <2>1, <2>3 DEF Creates
      <4>2. PICK i \in DOMAIN s : Retires(s[i]) /\ s[i].memory_id = s[j].replaces
        BY <4>1, <2>3, TranslationShape
      <4>3. n + i \in Retirements(new) /\ new.acts[n + i] = s[i]
        BY <4>2, <2>1 DEF Retirements
      <4>4. QED BY <4>1, <4>2, <4>3
    <3>3. k \in new.ok
      BY <2>3 DEF Creates
    <3>4. QED BY <3>1, <3>2, <3>3, <2>1
  <2>4. ASSUME NEW k \in Creates(new)
         PROVE  new.acts[k].replaces \in shown \cup out \cup {None}
    <3>1. CASE k \in pl.ok
      BY <3>1, <2>1 DEF GoodPlan, Creates
    <3>2. ASSUME NEW j \in DOMAIN s, k = n + j, s[j].replaces # None
          PROVE  new.acts[k].replaces \in shown
      <4>1. new.acts[k] = s[j] /\ IsCreate(s[j])
        BY <3>2, <2>1 DEF Creates
      <4>2. PICK i \in DOMAIN s : Retires(s[i]) /\ s[i].memory_id = s[j].replaces
        BY <4>1, <3>2, TranslationShape
      <4>3. ~ TargetNotActive(s[i], shown)
        BY <1>2 DEF AllAdmissible, ControllerRejected, Rejected
      <4>4. QED BY <4>1, <4>2, <4>3 DEF TargetNotActive
    <3>3. k \in new.ok
      BY DEF Creates
    <3>4. QED BY <3>1, <3>2, <3>3, <2>1
  <2>5. QED BY <2>1, <2>2, <2>3, <2>4 DEF GoodPlan
<1>3. QED BY <1>1, <1>2

(* Where the actions are once a planner create gave way to the pair; sh is  *)
(* the new position of the action that was at j.                            *)
LEMMA ProjectShape ==
    ASSUME NEW pl \in Plans, pl.ok \subseteq DOMAIN pl.acts,
           NEW m \in Ids, NEW c \in Contents, NEW k \in Creates(pl),
           NEW new, new = Project(pl, k, SupersedeExisting(m, c))
    PROVE  /\ k \in Nat
           /\ new \in Plans /\ new.ok \subseteq DOMAIN new.acts
           /\ {k, k + 1} \subseteq new.ok
           /\ new.acts[k] = Supersede(m) /\ new.acts[k + 1] = Create(c, m)
           /\ \E sh \in [pl.ok -> Nat] :
                 /\ \A j \in pl.ok : j # k => /\ sh[j] \in new.ok
                                              /\ new.acts[sh[j]] = pl.acts[j]
                 /\ \A i \in new.ok :
                       \/ i = k \/ i = k + 1
                       \/ \E j \in pl.ok : j # k /\ i = sh[j]
<1> DEFINE s   == SupersedeExisting(m, c)
           n   == Len(pl.acts)
           sh  == [j \in pl.ok |-> IF j < k THEN j ELSE j + 1]
<1>1. /\ pl.acts \in Seq(MemoryAction) /\ n \in Nat /\ DOMAIN pl.acts = 1 .. n
      /\ pl.ok \subseteq 1 .. n /\ k \in pl.ok /\ k \in 1 .. n
      /\ \A j \in 1 .. n : pl.acts[j] \in MemoryAction
  BY DEF Plans, Creates
<1>2. /\ s[1] = Supersede(m) /\ s[2] = Create(c, m)
      /\ s[1] \in MemoryAction /\ s[2] \in MemoryAction
  BY DEF SupersedeExisting, Supersede, Create, MemoryAction, RetireActions
<1>3. /\ DOMAIN new.acts = 1 .. n + 1
      /\ new.acts[k] = s[1] /\ new.acts[k + 1] = s[2]
      /\ \A j \in 1 .. n + 1 : j < k => new.acts[j] = pl.acts[j]
      /\ \A j \in 1 .. n + 1 : j > k + 1 => new.acts[j] = pl.acts[j - 1]
  BY <1>1 DEF Project
<1>4. new.ok = {j \in pl.ok : j < k} \cup {k, k + 1}
                  \cup {j + 1 : j \in {i \in pl.ok : i > k}}
  BY DEF Project
<1>5. \A j \in 1 .. n + 1 : new.acts[j] \in MemoryAction
  <2> TAKE j \in 1 .. n + 1
  <2>1. j < k \/ j = k \/ j = k + 1 \/ (j > k + 1 /\ j - 1 \in 1 .. n)
    BY <1>1
  <2>2. j < k => j \in 1 .. n
    BY <1>1
  <2>3. QED BY <2>1, <2>2, <1>1, <1>2, <1>3
<1>6. new.acts \in Seq(MemoryAction)
  <2> DEFINE G(j) == CASE j < k     -> pl.acts[j]
                       [] j = k     -> s[1]
                       [] j = k + 1 -> s[2]
                       [] j > k + 1 -> pl.acts[j - 1]
  <2>1. new.acts = [j \in 1 .. n + 1 |-> G(j)]
    BY DEF Project
  <2>2. \A j \in 1 .. n + 1 : G(j) \in MemoryAction
    BY <2>1, <1>5
  <2> HIDE DEF G
  <2>3. QED BY <2>1, <2>2, <1>1
<1>7. new.ok \subseteq 1 .. n + 1
  BY <1>1, <1>4
<1>8. new \in Plans /\ new.ok \subseteq DOMAIN new.acts
  BY <1>1, <1>3, <1>6, <1>7 DEF Plans, Project
<1>9. \A j \in pl.ok : j # k => sh[j] \in new.ok /\ new.acts[sh[j]] = pl.acts[j]
  <2> SUFFICES ASSUME NEW j \in pl.ok, j # k
               PROVE  sh[j] \in new.ok /\ new.acts[sh[j]] = pl.acts[j]
    OBVIOUS
  <2>1. CASE j < k
    BY <2>1, <1>1, <1>3, <1>4
  <2>2. CASE j > k
    <3>1. sh[j] = j + 1 /\ j + 1 \in 1 .. n + 1 /\ j + 1 > k + 1 /\ (j + 1) - 1 = j
      BY <2>2, <1>1
    <3>2. j + 1 \in new.ok
      BY <2>2, <1>4
    <3>3. new.acts[j + 1] = pl.acts[(j + 1) - 1]
      BY <3>1, <1>3
    <3>4. QED BY <3>1, <3>2, <3>3
  <2>3. QED BY <2>1, <2>2, <1>1
<1>10. \A i \in new.ok : i = k \/ i = k + 1 \/ \E j \in pl.ok : j # k /\ i = sh[j]
  BY <1>1, <1>4
<1>11. sh \in [pl.ok -> Nat]
  BY <1>1
<1>12. {k, k + 1} \subseteq new.ok /\ new.acts[k] = Supersede(m) /\ new.acts[k + 1] = Create(c, m)
  BY <1>2, <1>3, <1>4
<1> HIDE DEF sh
<1>13. QED BY <1>1, <1>8, <1>9, <1>10, <1>11, <1>12

(* Replacing a planner create by the supersede/create pair, in its place.   *)
LEMMA ProjectGood ==
    ASSUME NEW pl, NEW shown \in SUBSET Ids, NEW out, GoodPlan(pl, shown, out),
           NEW m \in Ids, NEW c \in Contents, m \in shown,
           NEW k \in Creates(pl)
    PROVE  GoodPlan(Project(pl, k, SupersedeExisting(m, c)), shown, out)
<1>1. PICK new, q, sh :
         /\ new = Project(pl, k, SupersedeExisting(m, c))
         /\ new \in Plans /\ new.ok \subseteq DOMAIN new.acts
         /\ k \in new.ok /\ q \in new.ok
         /\ new.acts[k] = Supersede(m) /\ new.acts[q] = Create(c, m)
         /\ \A j \in pl.ok : j # k => sh[j] \in new.ok /\ new.acts[sh[j]] = pl.acts[j]
         /\ \A i \in new.ok : i = k \/ i = q \/ \E j \in pl.ok : j # k /\ i = sh[j]
  <2>1. pl \in Plans /\ pl.ok \subseteq DOMAIN pl.acts
    BY DEF GoodPlan
  <2>2. PICK new : new = Project(pl, k, SupersedeExisting(m, c))
    OBVIOUS
  <2>3. PICK sh \in [pl.ok -> Nat] :
           /\ new \in Plans /\ new.ok \subseteq DOMAIN new.acts
           /\ {k, k + 1} \subseteq new.ok
           /\ new.acts[k] = Supersede(m) /\ new.acts[k + 1] = Create(c, m)
           /\ \A j \in pl.ok : j # k => sh[j] \in new.ok /\ new.acts[sh[j]] = pl.acts[j]
           /\ \A i \in new.ok : i = k \/ i = k + 1 \/ \E j \in pl.ok : j # k /\ i = sh[j]
    BY <2>1, <2>2, ProjectShape
  <2>4. QED BY <2>2, <2>3
<1>2. /\ Retires(Supersede(m)) /\ ~ IsCreate(Supersede(m)) /\ Supersede(m).memory_id = m
      /\ IsCreate(Create(c, m)) /\ ~ Retires(Create(c, m)) /\ Create(c, m).replaces = m
  BY DEF Supersede, Create, RetireActions, IsCreate, Retires
<1>3. k \in Retirements(new) /\ k \notin Creates(new) /\ q \notin Retirements(new)
  BY <1>1, <1>2 DEF Retirements, Creates
<1>4. \A j \in Retirements(pl) : j # k /\ j \in pl.ok
  BY ActionShape DEF Retirements, Creates, GoodPlan, Plans
<1>5. ASSUME NEW i \in Retirements(new) PROVE new.acts[i].memory_id \in shown
  <2>1. CASE i = k
    BY <2>1, <1>1, <1>2
  <2>2. ASSUME NEW j \in pl.ok, j # k, i = sh[j] PROVE new.acts[i].memory_id \in shown
    <3>1. new.acts[i] = pl.acts[j]
      BY <2>2, <1>1
    <3>2. j \in Retirements(pl)
      BY <3>1 DEF Retirements
    <3>3. QED BY <3>1, <3>2 DEF GoodPlan
  <2>3. i \in new.ok /\ i # q
    BY <1>3 DEF Retirements
  <2>4. QED BY <2>1, <2>2, <2>3, <1>1
<1>6. ASSUME PairedReplacements, NEW i \in Creates(new), new.acts[i].replaces # None
      PROVE  \/ \E j \in Retirements(new) : new.acts[j].memory_id = new.acts[i].replaces
             \/ new.acts[i].replaces \in out
  <2>1. CASE i = q
    BY <2>1, <1>1, <1>2, <1>3
  <2>2. ASSUME NEW j \in pl.ok, j # k, i = sh[j]
        PROVE  \/ \E r \in Retirements(new) : new.acts[r].memory_id = new.acts[i].replaces
               \/ new.acts[i].replaces \in out
    <3>1. new.acts[i] = pl.acts[j]
      BY <2>2, <1>1
    <3>2. j \in Creates(pl)
      BY <3>1 DEF Creates
    <3>3. CASE pl.acts[j].replaces \in out
      BY <3>1, <3>3
    <3>4. ASSUME NEW r \in Retirements(pl), pl.acts[r].memory_id = pl.acts[j].replaces
          PROVE  sh[r] \in Retirements(new) /\ new.acts[sh[r]].memory_id = new.acts[i].replaces
      BY <3>1, <3>4, <1>1, <1>4 DEF Retirements
    <3>5. QED BY <3>1, <3>2, <3>3, <3>4, <1>6 DEF GoodPlan
  <2>3. i \in new.ok /\ i # k
    BY <1>3 DEF Creates
  <2>4. QED BY <2>1, <2>2, <2>3, <1>1
<1>7. ASSUME NEW i \in Creates(new)
      PROVE  new.acts[i].replaces \in shown \cup out \cup {None}
  <2>1. CASE i = q
    BY <2>1, <1>1, <1>2
  <2>2. ASSUME NEW j \in pl.ok, j # k, i = sh[j]
        PROVE  new.acts[i].replaces \in shown \cup out \cup {None}
    <3>1. new.acts[i] = pl.acts[j]
      BY <2>2, <1>1
    <3>2. j \in Creates(pl)
      BY <3>1 DEF Creates
    <3>3. QED BY <3>1, <3>2 DEF GoodPlan
  <2>3. i \in new.ok /\ i # k
    BY <1>3 DEF Creates
  <2>4. QED BY <2>1, <2>2, <2>3, <1>1
<1>8. QED BY <1>1, <1>5, <1>6, <1>7 DEF GoodPlan

(* What the transition seam makes of a plan: nothing, the actions of the    *)
(* transition at its end, or the pair in the place of a planner create.     *)
LEMMA TransitionCases ==
    ASSUME NEW pl, NEW n, NEW s \in Translations, NEW shown \in SUBSET Ids,
           NEW active \in SUBSET shown, NEW text, NEW retired,
           NEW new, new = WithTransition(pl, n, s, shown, active, text, retired)
    PROVE  \/ new = pl
           \/ new = AppendAdmissible(pl, s, shown, text, retired)
           \/ \E rest : \E m \in Ids, c \in Contents, k \in Creates(pl) :
                 /\ m \in shown
                 /\ AllAdmissible(SupersedeExisting(m, c), shown, text, retired, rest)
                 /\ new = Project(pl, k, SupersedeExisting(m, c))
<1>1. CASE \/ ~ Authorized(s, active)
           \/ PlannerPrecedence /\ PlannerAlreadyPerforms(pl, s)
           \/ ~ (Grants = "runtime" /\ Supersedes(PlanOf(s)) # {})
  BY <1>1 DEF WithTransition
<1>2. ASSUME Authorized(s, active), Supersedes(PlanOf(s)) # {},
             new = GovernedReplacement(pl, n, s, shown, text, retired), new # pl
      PROVE  \E rest : \E m \in Ids, c \in Contents, k \in Creates(pl) :
                /\ m \in shown
                /\ AllAdmissible(SupersedeExisting(m, c), shown, text, retired, rest)
                /\ new = Project(pl, k, SupersedeExisting(m, c))
  <2>1. PICK m \in Ids, c \in Contents : s = SupersedeExisting(m, c)
    <3>1. s # <<>>
      BY <1>2 DEF Supersedes, PlanOf
    <3>2. \A m \in Ids : s # ForgetExisting(m)
      BY <1>2 DEF Supersedes, PlanOf, ForgetExisting, Forget
    <3>3. \A c \in Contents : s # CreateNew(c)
      BY <1>2 DEF Supersedes, PlanOf, CreateNew, Create
    <3>4. QED BY <3>1, <3>2, <3>3 DEF Translations
  <2>2. m \in shown
    <3>1. 1 \in DOMAIN s /\ s[1] = Supersede(m)
      BY <2>1 DEF SupersedeExisting
    <3>2. Retires(s[1]) /\ s[1].memory_id = m
      BY <3>1 DEF Supersede, Retires, RetireActions
    <3>3. QED BY <1>2, <3>1, <3>2 DEF Authorized
  <2>3. PICK k \in pl.ok : /\ ReplacementReady(pl, n, s, k)
                           /\ AllAdmissible(s, shown, text, retired, Survivors(pl, k))
    BY <1>2 DEF GovernedReplacement
  <2> DEFINE q == CHOOSE k_1 \in pl.ok : ReplacementReady(pl, n, s, k_1)
  <2>4. q \in pl.ok /\ ReplacementReady(pl, n, s, q)
    BY <2>3
  <2>5. q \in Creates(pl)
    BY <2>4 DEF ReplacementReady, MatchedCreates
  <2>6. new = Project(pl, q, s)
    BY <1>2, <2>3 DEF GovernedReplacement
  <2> HIDE DEF q
  <2>7. QED BY <2>1, <2>2, <2>3, <2>5, <2>6
<1>3. QED BY <1>1, <1>2 DEF WithTransition

(* Every plan the three stages produce is good, whatever they were given.   *)
LEMMA WithTransitionGood ==
    ASSUME NEW pl, NEW n, NEW s \in Translations, NEW shown \in SUBSET Ids,
           NEW active \in SUBSET shown, NEW text, NEW retired, NEW out,
           GoodPlan(pl, shown, out)
    PROVE  GoodPlan(WithTransition(pl, n, s, shown, active, text, retired), shown, out)
  BY TransitionCases, AppendGood, ProjectGood

LEMMA ValidActionsGood ==
    ASSUME NEW a, NEW b \in Batches, NEW x \in Extractions, NEW s \in Translations,
           NamesOnly(b, Nameable(a))
    PROVE  GoodPlan(ValidActions(a, b, x, s), Shown(a), OutOfReach(a))
<1>1. b \in Seq(MemoryAction) /\ (PairedReplacements => Linked(b))
  BY SMT, EngineAssumption DEF Batches
<1>2. x \in Translations
  BY DEF Extractions, Translations
<1>3. Shown(a) \in SUBSET Ids /\ ShownActive(a) \in SUBSET Shown(a)
  BY DEF Shown, ShownActive
<1>4. NamesOnly(b, Shown(a) \cup OutOfReach(a))
  BY DEF Nameable
<1>5. GoodPlan(Admit(b, Shown(a), Text), Shown(a), OutOfReach(a))
  BY <1>1, <1>3, <1>4, AdmitGood
<1> DEFINE ext == AppendAdmissible(Admit(b, Shown(a), Text), x, Shown(a), Text,
                                   RetiredBy(b, Shown(a)))
<1>6. GoodPlan(ext, Shown(a), OutOfReach(a))
  BY <1>2, <1>3, <1>5, AppendGood
<1>7. GoodPlan(WithTransition(ext, Len(b), s, Shown(a), ShownActive(a), Text,
                              RetiredBy(b, Shown(a))), Shown(a), OutOfReach(a))
  BY <1>3, <1>6, WithTransitionGood
<1>8. QED BY <1>7 DEF ValidActions

-----------------------------------------------------------------------------
(* The admission of the engine as the plan keeps it: a memory of a content  *)
(* that the plan creates is among those the batch retires, and the plan     *)
(* still retires every one of them.                                         *)
GivesWay(pl, shown, text, retired) ==
    /\ \A k \in Creates(pl) : Matching(pl.acts[k].content, shown, text) \subseteq retired
    /\ \A m \in retired : \E j \in Retirements(pl) : pl.acts[j].memory_id = m

LEMMA AdmitGivesWay ==
    ASSUME NEW b \in Seq(MemoryAction), NEW shown, NEW text
    PROVE  GivesWay(Admit(b, shown, text), shown, text, RetiredBy(b, shown))
<1> DEFINE pl == Admit(b, shown, text)
<1>1. pl.acts = b /\ pl.ok \subseteq DOMAIN b
  BY DEF Admit
<1>2. ASSUME NEW k \in Creates(pl)
      PROVE  Matching(b[k].content, shown, text) \subseteq RetiredBy(b, shown)
  BY DEF Creates, Admit, Rejected, DuplicateOfActive
<1>3. ASSUME NEW m \in RetiredBy(b, shown)
      PROVE  \E j \in Retirements(pl) : b[j].memory_id = m
  <2>1. PICK j \in DOMAIN b : Retires(b[j]) /\ b[j].memory_id = m /\ m \in shown
    BY DEF RetiredBy
  <2>2. ~ IsCreate(b[j])
    BY <2>1, ActionShape
  <2>3. j \in Retirements(pl)
    BY <2>1, <2>2 DEF Retirements, Admit, Rejected, TargetNotActive, DuplicateOfActive
  <2>4. QED BY <2>1, <2>3
<1>4. QED BY <1>1, <1>2, <1>3 DEF GivesWay

LEMMA AppendGivesWay ==
    ASSUME NEW pl \in Plans, pl.ok \subseteq DOMAIN pl.acts, NEW s \in Translations,
           NEW shown, NEW text, NEW retired, GivesWay(pl, shown, text, retired)
    PROVE  GivesWay(AppendAdmissible(pl, s, shown, text, retired), shown, text, retired)
<1>1. CASE ~ AllAdmissible(s, shown, text, retired, pl)
  BY <1>1 DEF AppendAdmissible
<1>2. CASE AllAdmissible(s, shown, text, retired, pl)
  <2>1. PICK n, new :
           /\ new = AppendAdmissible(pl, s, shown, text, retired)
           /\ \A k \in new.ok : k \in pl.ok \/ \E j \in DOMAIN s : k = n + j
           /\ \A j \in DOMAIN s : n + j \in new.ok /\ new.acts[n + j] = s[j]
           /\ \A k \in pl.ok : k \in new.ok /\ new.acts[k] = pl.acts[k]
    BY <1>2, AppendShape
  <2>2. ASSUME NEW k \in Creates(new)
        PROVE  Matching(new.acts[k].content, shown, text) \subseteq retired
    <3>1. k \in new.ok /\ IsCreate(new.acts[k])
      BY DEF Creates
    <3>2. CASE k \in pl.ok
      BY <2>1, <3>1, <3>2 DEF GivesWay, Creates
    <3>3. ASSUME NEW j \in DOMAIN s, k = n + j
          PROVE  Matching(new.acts[k].content, shown, text) \subseteq retired
      <4>1. new.acts[k] = s[j]
        BY <2>1, <3>3
      <4>2. ~ DuplicateOfActive(s[j], shown, text, retired)
        BY <1>2 DEF AllAdmissible, ControllerRejected, Rejected
      <4>3. QED BY <3>1, <4>1, <4>2 DEF DuplicateOfActive
    <3>4. QED BY <2>1, <3>1, <3>2, <3>3
  <2>3. \A j \in Retirements(pl) : j \in Retirements(new) /\ new.acts[j] = pl.acts[j]
    BY <2>1 DEF Retirements
  <2>4. QED BY <2>1, <2>2, <2>3 DEF GivesWay
<1>3. QED BY <1>1, <1>2

LEMMA ProjectGivesWay ==
    ASSUME NEW pl \in Plans, pl.ok \subseteq DOMAIN pl.acts,
           NEW shown, NEW text, NEW retired, GivesWay(pl, shown, text, retired),
           NEW m \in Ids, NEW c \in Contents, NEW k \in Creates(pl), NEW rest,
           AllAdmissible(SupersedeExisting(m, c), shown, text, retired, rest)
    PROVE  GivesWay(Project(pl, k, SupersedeExisting(m, c)), shown, text, retired)
<1>1. PICK new : new = Project(pl, k, SupersedeExisting(m, c))
  OBVIOUS
<1>2. PICK sh \in [pl.ok -> Nat] :
         /\ new.acts[k] = Supersede(m) /\ new.acts[k + 1] = Create(c, m)
         /\ \A j \in pl.ok : j # k => sh[j] \in new.ok /\ new.acts[sh[j]] = pl.acts[j]
         /\ \A i \in new.ok : i = k \/ i = k + 1 \/ \E j \in pl.ok : j # k /\ i = sh[j]
  BY <1>1, ProjectShape
<1>3. /\ ~ IsCreate(Supersede(m)) /\ IsCreate(Create(c, m)) /\ Create(c, m).content = c
      /\ \A j \in Retirements(pl) : j # k /\ j \in pl.ok
  BY ActionShape DEF Supersede, Create, IsCreate, Retirements, Creates, Plans
<1>4. Matching(c, shown, text) \subseteq retired
  <2>1. 2 \in DOMAIN SupersedeExisting(m, c) /\ SupersedeExisting(m, c)[2] = Create(c, m)
    BY DEF SupersedeExisting
  <2>2. ~ DuplicateOfActive(Create(c, m), shown, text, retired)
    BY <2>1 DEF AllAdmissible, ControllerRejected, Rejected
  <2>3. QED BY <1>3, <2>2 DEF DuplicateOfActive
<1>5. ASSUME NEW i \in Creates(new)
      PROVE  Matching(new.acts[i].content, shown, text) \subseteq retired
  <2>1. i \in new.ok /\ IsCreate(new.acts[i]) /\ i # k
    BY <1>2, <1>3 DEF Creates
  <2>2. CASE i = k + 1
    BY <1>2, <1>3, <1>4, <2>2
  <2>3. ASSUME NEW j \in pl.ok, j # k, i = sh[j]
        PROVE  Matching(new.acts[i].content, shown, text) \subseteq retired
    BY <1>2, <2>1, <2>3 DEF GivesWay, Creates
  <2>4. QED BY <1>2, <2>1, <2>2, <2>3
<1>6. ASSUME NEW r \in retired
      PROVE  \E i \in Retirements(new) : new.acts[i].memory_id = r
  <2>1. PICK j \in Retirements(pl) : pl.acts[j].memory_id = r
    BY DEF GivesWay
  <2>2. sh[j] \in Retirements(new) /\ new.acts[sh[j]].memory_id = r
    BY <1>2, <1>3, <2>1 DEF Retirements
  <2>3. QED BY <2>2
<1>7. QED BY <1>1, <1>5, <1>6 DEF GivesWay

LEMMA ValidActionsGiveWay ==
    ASSUME NEW a, NEW b \in Batches, NEW x \in Extractions, NEW s \in Translations,
           NamesOnly(b, Nameable(a))
    PROVE  GivesWay(ValidActions(a, b, x, s), Shown(a), Text, RetiredBy(b, Shown(a)))
<1> DEFINE retired  == RetiredBy(b, Shown(a))
           admitted == Admit(b, Shown(a), Text)
           extended == AppendAdmissible(admitted, x, Shown(a), Text, retired)
<1>1. b \in Seq(MemoryAction) /\ (PairedReplacements => Linked(b))
  BY SMT, EngineAssumption DEF Batches
<1>2. x \in Translations
  BY DEF Extractions, Translations
<1>3. Shown(a) \in SUBSET Ids /\ ShownActive(a) \in SUBSET Shown(a)
  BY DEF Shown, ShownActive
<1>4. GoodPlan(admitted, Shown(a), OutOfReach(a))
  BY <1>1, <1>3, AdmitGood DEF Nameable
<1>5. GoodPlan(extended, Shown(a), OutOfReach(a))
  BY <1>2, <1>3, <1>4, AppendGood
<1>6. GivesWay(admitted, Shown(a), Text, retired)
  BY <1>1, AdmitGivesWay
<1>7. GivesWay(extended, Shown(a), Text, retired)
  BY <1>2, <1>4, <1>6, AppendGivesWay DEF GoodPlan
<1>8. extended \in Plans /\ extended.ok \subseteq DOMAIN extended.acts
  BY <1>5 DEF GoodPlan
<1> HIDE DEF extended, retired
<1>9. GivesWay(WithTransition(extended, Len(b), s, Shown(a), ShownActive(a), Text, retired),
               Shown(a), Text, retired)
  BY <1>3, <1>7, <1>8, TransitionCases, AppendGivesWay, ProjectGivesWay
<1>10. QED BY <1>9 DEF ValidActions, extended, retired

(* With no controller writing retirements, a plan retires a memory once.    *)
LEMMA ValidActionsRetireOnce ==
    ASSUME NEW a, NEW b \in Batches, NEW x \in Extractions, NEW s \in Translations,
           Grants = "none", NEW pl, pl = ValidActions(a, b, x, s),
           NEW j \in Retirements(pl), NEW k \in Retirements(pl),
           pl.acts[j].memory_id = pl.acts[k].memory_id
    PROVE  j = k
<1> DEFINE admitted == Admit(b, Shown(a), Text)
           retired  == RetiredBy(b, Shown(a))
<1>1. pl = AppendAdmissible(admitted, x, Shown(a), Text, retired)
  BY DEF ValidActions, WithTransition, Authorized
<1>2. /\ b \in Seq(MemoryAction) /\ OneRetirementEach(b)
      /\ x \in Translations /\ \A q \in DOMAIN x : ~ Retires(x[q])
  <2>1. b \in Seq(MemoryAction) /\ OneRetirementEach(b)
    BY SMT, EngineAssumption DEF Batches, ManagerOutput
  <2>2. x \in Translations
    BY DEF Extractions, Translations
  <2>3. x = <<>> \/ \E c \in Contents : x = CreateNew(c)
    BY DEF Extractions
  <2>4. \A q \in DOMAIN x : ~ Retires(x[q])
    BY <2>3 DEF CreateNew, Create, Retires, RetireActions
  <2>5. QED BY <2>1, <2>2, <2>4
<1>3. admitted \in Plans /\ admitted.ok \subseteq DOMAIN b /\ admitted.acts = b
  BY <1>2 DEF Admit, Plans
<1>4. ASSUME NEW r \in Retirements(pl)
      PROVE  r \in DOMAIN b /\ pl.acts[r] = b[r] /\ Retires(b[r])
  <2>1. CASE ~ AllAdmissible(x, Shown(a), Text, retired, admitted)
    BY <1>1, <1>3, <2>1 DEF AppendAdmissible, Retirements
  <2>2. CASE AllAdmissible(x, Shown(a), Text, retired, admitted)
    <3>1. PICK n :
             /\ \A q \in pl.ok : q \in admitted.ok \/ \E i \in DOMAIN x : q = n + i
             /\ \A i \in DOMAIN x : pl.acts[n + i] = x[i]
             /\ \A q \in admitted.ok : pl.acts[q] = admitted.acts[q]
      BY <1>1, <1>2, <1>3, <2>2, AppendShape
    <3>2. QED BY <1>2, <1>3, <3>1 DEF Retirements
  <2>3. QED BY <2>1, <2>2
<1>5. QED BY <1>2, <1>4 DEF OneRetirementEach

-----------------------------------------------------------------------------
(* The store only grows: what is in it stays, with its owner and what it    *)
(* replaces, and what is inactive stays inactive.                           *)
MemoryKept(i) ==
    /\ memory'[i].replaces = memory[i].replaces
    /\ InStore(i) => /\ InStore(i)'
                     /\ memory'[i].user = memory[i].user
                     /\ ~ Active(i) => ~ Active(i)'

LocalKept(b) ==
    /\ \/ pc'[b] = pc[b]
       \/ Applying(b) /\ Applying(b)'
    /\ user'[b] = user[b]
    /\ seen'[b] = seen[b]
    /\ plan'[b] = plan[b]
    /\ built'[b] = built[b]

LEMMA GoodPlanMonotone ==
    ASSUME NEW pl, NEW shown, NEW out, NEW more, out \subseteq more,
           GoodPlan(pl, shown, out)
    PROVE  GoodPlan(pl, shown, more)
  BY DEF GoodPlan

LEMMA ReachStable ==
    ASSUME NEW b \in Agents, user'[b] = user[b],
           \A i \in OutOfReach(b) : MemoryKept(i)
    PROVE  OutOfReach(b) \subseteq OutOfReach(b)'
  BY DEF OutOfReach, MemoryKept

(* An agent whose own variables a step leaves alone keeps its invariant.    *)
LEMMA AgentFrame ==
    ASSUME TypeOK, NEW b \in Agents, AgentInv(b), LocalKept(b),
           done'[b] = done[b],
           \A i \in Ids : MemoryKept(i),
           \A k \in Creates(plan[b]) \ done[b] :
               memory'[built[b][k]] = memory[built[b][k]]
    PROVE  AgentInv(b)'
<1> USE DEF LocalKept
<1>1. Shown(b)' = Shown(b) /\ Shown(b) \subseteq Ids
  BY DEF Shown
<1>2. OutOfReach(b) \subseteq OutOfReach(b)'
  BY ReachStable DEF OutOfReach
<1>3. ShownAreOwned(b)'
  BY <1>1 DEF AgentInv, ShownAreOwned, MemoryKept
<1>4. NothingBeforePlan(b)'
  BY <1>1 DEF AgentInv, NothingBeforePlan, Applying
<1>5. PlanIsGood(b)'
  <2>1. Applying(b)' => Applying(b)
    BY DEF Applying
  <2>2. QED BY <2>1, <1>1, <1>2, GoodPlanMonotone DEF AgentInv, PlanIsGood
<1>6. EntriesMatchPlan(b)'
  <2> SUFFICES ASSUME NEW k \in Creates(plan[b]) PROVE EntryOf(b, k)'
    BY DEF EntriesMatchPlan
  <2>1. EntryOf(b, k) /\ built[b][k] \in Ids
    BY DEF AgentInv, EntriesMatchPlan, TypeOK
  <2>2. CASE k \in done[b]
    BY <2>1, <2>2 DEF EntryOf, MemoryKept, InStore
  <2>3. CASE k \notin done[b]
    BY <2>1, <2>3 DEF EntryOf
  <2>4. QED BY <2>2, <2>3
<1>7. RetirementsFirst(b)'
  <2>1. ToRetire(b)' = ToRetire(b)
    BY DEF ToRetire
  <2>2. \A k \in Retirements(plan[b]) \cap done[b] :
            /\ ~ Active(plan[b].acts[k].memory_id)
            /\ plan[b].acts[k].memory_id \in Shown(b)
    BY DEF AgentInv, RetirementsFirst, NothingBeforePlan, PlanIsGood, GoodPlan
  <2>3. \A i \in Shown(b) : InStore(i)
    BY DEF AgentInv, ShownAreOwned
  <2>4. QED BY <2>1, <2>2, <2>3, <1>1 DEF AgentInv, RetirementsFirst, MemoryKept
<1>8. QED BY <1>3, <1>4, <1>5, <1>6, <1>7 DEF AgentInv

(* An agent that has no plan only has to own what it was shown.             *)
LEMMA Unplanned ==
    ASSUME NEW b \in Agents, ~ Applying(b)', plan'[b] = NoPlan, done'[b] = {},
           ShownAreOwned(b)', (pc[b] = "idle" => Shown(b) = {})',
           pc'[b] # "idle" => user'[b] \in Users
    PROVE  AgentInv(b)'
<1>1. Creates(NoPlan) = {} /\ Retirements(NoPlan) = {}
  BY DEF NoPlan, Creates, Retirements
<1>2. NothingBeforePlan(b)' /\ PlanIsGood(b)'
  BY DEF NothingBeforePlan, PlanIsGood
<1>3. EntriesMatchPlan(b)' /\ RetirementsFirst(b)'
  BY <1>1 DEF EntriesMatchPlan, RetirementsFirst
<1>4. QED BY <1>2, <1>3 DEF AgentInv

(* The two facts about replacement, for a step that stores nothing new.     *)
LEMMA ReplacementFrame ==
    ASSUME TypeOK, ReplacedAreOlder, ReplacementsFollowRetirement,
           \A i \in Ids : MemoryKept(i),
           \A i \in Ids : /\ InStore(i)' => InStore(i)
                          /\ memory'[i].status = "unused" => memory[i].status = "unused"
    PROVE  ReplacedAreOlder' /\ ReplacementsFollowRetirement'
<1>1. \A i \in Ids : memory[i].replaces # None => memory[i].replaces \in Ids
  BY DEF TypeOK, Entries
<1>2. ReplacedAreOlder'
  BY <1>1 DEF ReplacedAreOlder, MemoryKept
<1>3. ReplacementsFollowRetirement'
  <2> SUFFICES ASSUME PairedReplacements, NEW e \in Ids, InStore(e)',
                      memory'[e].replaces # None
               PROVE  (\/ ~ Active(memory[e].replaces)
                       \/ memory[memory[e].replaces].user # memory[e].user)'
    BY DEF ReplacementsFollowRetirement
  <2> DEFINE m == memory[e].replaces
  <2>1. InStore(e) /\ memory'[e].replaces = m /\ m \in Ids /\ InStore(m)
    BY <1>1 DEF MemoryKept, ReplacedAreOlder
  <2>2. ~ Active(m) \/ memory[m].user # memory[e].user
    BY <2>1 DEF ReplacementsFollowRetirement
  <2>3. QED BY <2>1, <2>2 DEF MemoryKept
<1>4. QED BY <1>2, <1>3

-----------------------------------------------------------------------------
(* Steps that leave the store alone. *)

LEMMA StoreUntouched ==
    ASSUME UNCHANGED memory
    PROVE  \A i \in Ids : /\ MemoryKept(i)
                          /\ InStore(i)' => InStore(i)
                          /\ memory'[i] = memory[i]
  BY DEF MemoryKept, InStore, Active

LEMMA DistinctFrame ==
    ASSUME EntriesAreDistinct, UNCHANGED <<plan, built>>
    PROVE  EntriesAreDistinct'
  BY DEF EntriesAreDistinct

LEMMA InitGood == Init => IInv
<1> SUFFICES ASSUME Init PROVE IInv
  OBVIOUS
<1>1. Creates(NoPlan) = {} /\ Retirements(NoPlan) = {} /\ NoPlan \in Plans
  BY DEF NoPlan, Creates, Retirements, Plans
<1>2. Unused \in Entries
  BY DEF Unused, Entries, Statuses
<1>3. TypeOK
  BY <1>1, <1>2 DEF Init, TypeOK, Nothing, NoEntry, NoPlan, PCs
<1>4. \A i \in Ids : ~ InStore(i) /\ memory[i].replaces = None
  BY DEF Init, InStore, Unused, Stored
<1>5. \A a \in Agents : AgentInv(a)
  <2> SUFFICES ASSUME NEW a \in Agents PROVE AgentInv(a)
    OBVIOUS
  <2>1. Shown(a) = {} /\ ~ Applying(a)
    BY DEF Init, Shown, Nothing, Applying
  <2>2. QED BY <1>1, <2>1 DEF Init, AgentInv, ShownAreOwned, NothingBeforePlan,
               PlanIsGood, EntriesMatchPlan, RetirementsFirst
<1>6. EntriesAreDistinct
  BY <1>1 DEF Init, EntriesAreDistinct
<1>7. ReplacedAreOlder /\ ReplacementsFollowRetirement
  BY <1>4 DEF ReplacedAreOlder, ReplacementsFollowRetirement
<1>8. QED BY <1>3, <1>5, <1>6, <1>7 DEF IInv

LEMMA StartStep ==
    ASSUME IInv, NEW a \in Agents, NEW u \in Users, Start(a, u)
    PROVE  IInv'
<1>1. TypeOK'
  BY DEF IInv, TypeOK, Start, ledger, PCs
<1>2. \A b \in Agents : AgentInv(b)'
  <2> SUFFICES ASSUME NEW b \in Agents PROVE AgentInv(b)'
    OBVIOUS
  <2>1. CASE b = a
    <3>1. plan[a] = NoPlan /\ done[a] = {}
      BY DEF IInv, AgentInv, NothingBeforePlan, Applying, Start
    <3>2. pc'[a] \in {"read", "plan"} /\ user'[a] = u
          /\ Shown(a)' \subseteq {i \in Ids : Active(i) /\ memory[i].user = u}
      BY DEF IInv, TypeOK, Start, Shown
    <3>3. QED BY <2>1, <3>1, <3>2, Unplanned
              DEF Start, ledger, ShownAreOwned, Applying, Active, InStore, Stored
  <2>2. CASE b # a
    <3>1. LocalKept(b) /\ done'[b] = done[b]
      <4>1. /\ pc \in [Agents -> PCs] /\ DOMAIN user = Agents /\ DOMAIN seen = Agents
        BY DEF IInv, TypeOK
      <4>2. pc'[b] = pc[b] /\ user'[b] = user[b] /\ seen'[b] = seen[b]
        BY <2>2, <4>1 DEF Start
      <4>3. plan' = plan /\ built' = built /\ done' = done
        BY DEF Start
      <4>4. QED BY <4>2, <4>3 DEF LocalKept
    <3>2. UNCHANGED memory
      BY DEF Start, ledger
    <3>3. QED BY <3>1, <3>2, AgentFrame, StoreUntouched DEF IInv, TypeOK
  <2>3. QED BY <2>1, <2>2
<1>3. QED BY <1>1, <1>2, StoreUntouched, DistinctFrame, ReplacementFrame
          DEF IInv, Start, ledger

LEMMA ReadStep ==
    ASSUME IInv, NEW a \in Agents, ReadSuperseded(a)
    PROVE  IInv'
<1>1. TypeOK'
  BY DEF IInv, TypeOK, ReadSuperseded, ledger, PCs
<1>2. \A b \in Agents : AgentInv(b)'
  <2> SUFFICES ASSUME NEW b \in Agents PROVE AgentInv(b)'
    OBVIOUS
  <2>1. CASE b = a
    <3>1. plan[a] = NoPlan /\ done[a] = {} /\ user[a] \in Users /\ ShownAreOwned(a)
      BY DEF IInv, AgentInv, NothingBeforePlan, Applying, ReadSuperseded
    <3>2. pc'[a] = "plan"
          /\ Shown(a)' \subseteq Shown(a) \cup {i \in Ids : memory[i].status = "superseded"
                                                          /\ memory[i].user = user[a]}
      BY DEF IInv, TypeOK, ReadSuperseded, Shown
    <3>3. QED BY <2>1, <3>1, <3>2, Unplanned
              DEF ReadSuperseded, ledger, ShownAreOwned, Applying, InStore, Stored
  <2>2. CASE b # a
    <3>1. LocalKept(b) /\ done'[b] = done[b]
      <4>1. /\ pc \in [Agents -> PCs] /\ DOMAIN user = Agents /\ DOMAIN seen = Agents
        BY DEF IInv, TypeOK
      <4>2. pc'[b] = pc[b] /\ user'[b] = user[b] /\ seen'[b] = seen[b]
        BY <2>2, <4>1 DEF ReadSuperseded
      <4>3. plan' = plan /\ built' = built /\ done' = done
        BY DEF ReadSuperseded
      <4>4. QED BY <4>2, <4>3 DEF LocalKept
    <3>2. UNCHANGED memory
      BY DEF ReadSuperseded, ledger
    <3>3. QED BY <3>1, <3>2, AgentFrame, StoreUntouched DEF IInv, TypeOK
  <2>3. QED BY <2>1, <2>2
<1>3. QED BY <1>1, <1>2, StoreUntouched, DistinctFrame, ReplacementFrame
          DEF IInv, ReadSuperseded, ledger

(* An interaction that ends, for whatever reason, leaves nothing local.     *)
LEMMA EndsStep ==
    ASSUME IInv, NEW a \in Agents, NEW how \in {"answered", "failed"}, Ends(a, how),
           memory' \in [Ids -> Entries], retirements' = retirements,
           \A i \in Ids : MemoryKept(i),
           \A i \in Ids : /\ InStore(i)' => InStore(i)
                          /\ memory'[i].status = "unused" => memory[i].status = "unused",
           \A b \in Agents \ {a} : \A k \in Creates(plan[b]) \ done[b] :
               memory'[built[b][k]] = memory[built[b][k]]
    PROVE  IInv'
<1>1. Creates(NoPlan) = {} /\ NoPlan \in Plans
  BY DEF NoPlan, Creates, Plans
<1>2. TypeOK'
  BY <1>1 DEF IInv, TypeOK, Ends, PCs, Nothing, NoEntry, NoPlan
<1>3. \A b \in Agents : AgentInv(b)'
  <2> SUFFICES ASSUME NEW b \in Agents PROVE AgentInv(b)'
    OBVIOUS
  <2>1. CASE b = a
    <3>1. /\ pc'[a] = "idle" /\ plan'[a] = NoPlan /\ done'[a] = {} /\ Shown(a)' = {}
      BY DEF IInv, TypeOK, Ends, Shown, Nothing
    <3>2. QED BY <2>1, <3>1, Unplanned DEF ShownAreOwned, Applying
  <2>2. CASE b # a
    BY <2>2, AgentFrame DEF IInv, TypeOK, Ends, LocalKept
  <2>3. QED BY <2>1, <2>2
<1>4. EntriesAreDistinct'
  <2>1. plan'[a] = NoPlan /\ \A b \in Agents \ {a} : plan'[b] = plan[b] /\ built'[b] = built[b]
    BY DEF IInv, TypeOK, Ends
  <2>2. QED BY <1>1, <2>1 DEF IInv, EntriesAreDistinct
<1>5. QED BY <1>2, <1>3, <1>4, ReplacementFrame DEF IInv

LEMMA QuietEnd ==
    ASSUME IInv, NEW a \in Agents,
           PlanFails(a) \/ Respond(a) \/ ModelFails(a)
    PROVE  IInv'
<1>1. PICK how \in {"answered", "failed"} : Ends(a, how)
  BY DEF PlanFails, Respond, ModelFails
<1>2. memory' = memory /\ retirements' = retirements
  BY DEF PlanFails, Respond, ModelFails, ledger
<1>3. memory' \in [Ids -> Entries]
  BY <1>2 DEF IInv, TypeOK
<1>4. \A i \in Ids : /\ MemoryKept(i)
                     /\ InStore(i)' => InStore(i)
                     /\ memory'[i].status = "unused" => memory[i].status = "unused"
  BY <1>2, StoreUntouched
<1>5. QED BY <1>1, <1>2, <1>3, <1>4, EndsStep

LEMMA ApplyFailsStep ==
    ASSUME IInv, NEW a \in Agents, ApplyFails(a)
    PROVE  IInv'
<1> DEFINE Mine(i) == memory[i].status = "built" /\ \E k \in DOMAIN built[a] : built[a][k] = i
<1>1. /\ memory' = [i \in Ids |-> IF Mine(i) THEN [memory[i] EXCEPT !.status = "lost"]
                                             ELSE memory[i]]
      /\ Ends(a, "failed") /\ retirements' = retirements
  BY DEF ApplyFails
<1>2. \A i \in Ids : memory[i] \in Entries
  BY DEF IInv, TypeOK
<1>3. memory' \in [Ids -> Entries]
  BY <1>1, <1>2 DEF Entries, Statuses
<1>4. ASSUME NEW i \in Ids
      PROVE  /\ MemoryKept(i)
             /\ InStore(i)' => InStore(i)
             /\ memory'[i].status = "unused" => memory[i].status = "unused"
  <2>1. CASE Mine(i)
    <3>1. memory'[i] = [memory[i] EXCEPT !.status = "lost"]
      BY <1>1, <2>1
    <3>2. memory'[i].status = "lost" /\ memory'[i].replaces = memory[i].replaces
      BY <3>1, <1>2 DEF Entries
    <3>3. QED BY <2>1, <3>2 DEF MemoryKept, InStore, Stored
  <2>2. CASE ~ Mine(i)
    BY <1>1, <2>2 DEF MemoryKept, InStore, Active
  <2>3. QED BY <2>1, <2>2
<1>5. ASSUME NEW b \in Agents \ {a}, NEW k \in Creates(plan[b]) \ done[b]
      PROVE  memory'[built[b][k]] = memory[built[b][k]]
  <2>1. built[b][k] \in Ids /\ DOMAIN built[a] = Creates(plan[a])
    BY DEF IInv, TypeOK
  <2>2. \A j \in Creates(plan[a]) : built[a][j] # built[b][k]
    BY DEF IInv, EntriesAreDistinct
  <2>3. QED BY <1>1, <2>1, <2>2
<1>6. QED BY <1>1, <1>3, <1>4, <1>5, EndsStep

LEMMA FetchStep ==
    ASSUME IInv, NEW a \in Agents, FetchOne(a) \/ Applied(a)
    PROVE  IInv'
<1>1. /\ UNCHANGED <<memory, user, seen, plan, built, done>>
      /\ pc[a] = "apply" /\ \E p \in {"write", "model"} : pc' = [pc EXCEPT ![a] = p]
  BY DEF FetchOne, Applied, ledger, local
<1>2. TypeOK'
  <2>1. fetched' \in [Agents -> Ids \cup {None}]
    <3>1. CASE Applied(a)
      BY <3>1 DEF IInv, TypeOK, Applied, local
    <3>2. CASE FetchOne(a)
      <4>1. PICK k \in ToRetire(a) : fetched' = [fetched EXCEPT ![a] =
                 memory[plan[a].acts[k].memory_id].superseded_by]
        BY <3>2 DEF FetchOne
      <4>2. plan[a].acts[k].memory_id \in Shown(a)
        BY <1>1, <4>1 DEF IInv, AgentInv, PlanIsGood, Applying, GoodPlan, ToRetire
      <4>3. memory[plan[a].acts[k].memory_id] \in Entries
        BY <4>2 DEF IInv, TypeOK, Shown
      <4>4. QED BY <4>1, <4>3 DEF IInv, TypeOK, Entries
    <3>3. QED BY <3>1, <3>2
  <2>2. turns' = turns /\ turn' = turn /\ retirements' = retirements /\ outcome' = outcome
    BY DEF FetchOne, Applied, ledger, local
  <2>3. QED BY <1>1, <2>1, <2>2 DEF IInv, TypeOK, PCs
<1>3. \A b \in Agents : AgentInv(b)'
  <2> SUFFICES ASSUME NEW b \in Agents PROVE AgentInv(b)'
    OBVIOUS
  <2>1. pc \in [Agents -> PCs]
    BY DEF IInv, TypeOK
  <2>2. \/ pc'[b] = pc[b]
        \/ Applying(b) /\ Applying(b)'
    BY <1>1, <2>1 DEF Applying
  <2>3. LocalKept(b) /\ done'[b] = done[b]
    BY <1>1, <2>2 DEF LocalKept
  <2>4. QED BY <1>1, <2>3, AgentFrame, StoreUntouched DEF IInv, TypeOK
<1>4. QED BY <1>1, <1>2, <1>3, StoreUntouched, DistinctFrame, ReplacementFrame DEF IInv

-----------------------------------------------------------------------------
(* Steps that write to the store. *)

(* What a plan's positions are, while the plan is applied.                  *)
LEMMA PlanFacts ==
    ASSUME IInv, NEW a \in Agents, Applying(a)
    PROVE  /\ GoodPlan(plan[a], Shown(a), OutOfReach(a))
           /\ \A k \in Retirements(plan[a]) :
                 LET m == plan[a].acts[k].memory_id
                 IN  m \in Ids /\ InStore(m) /\ memory[m].user = user[a]
           /\ \A k \in Creates(plan[a]) :
                 built[a][k] \in Ids /\ EntryOf(a, k)
           /\ Creates(plan[a]) \cap Retirements(plan[a]) = {}
<1>1. GoodPlan(plan[a], Shown(a), OutOfReach(a)) /\ ShownAreOwned(a) /\ EntriesMatchPlan(a)
  BY DEF IInv, AgentInv, PlanIsGood
<1>2. Shown(a) \subseteq Ids
  BY DEF Shown
<1>3. \A k \in plan[a].ok : plan[a].acts[k] \in MemoryAction
  BY <1>1 DEF GoodPlan, Plans
<1>4. Creates(plan[a]) \cap Retirements(plan[a]) = {}
  BY <1>3, ActionShape DEF Creates, Retirements
<1>5. \A k \in Creates(plan[a]) : built[a][k] \in Ids /\ EntryOf(a, k)
  BY <1>1 DEF EntriesMatchPlan, IInv, TypeOK
<1>6. QED BY <1>1, <1>2, <1>4, <1>5 DEF GoodPlan, ShownAreOwned

LEMMA RetireStep ==
    ASSUME IInv, NEW a \in Agents, RetireOne(a)
    PROVE  IInv'
<1>1. PICK k \in ToRetire(a) :
         /\ memory' = [memory EXCEPT ![plan[a].acts[k].memory_id] = RetiredEntry(a, plan[a].acts[k])]
         /\ retirements' = [retirements EXCEPT ![plan[a].acts[k].memory_id] = @ + 1]
         /\ done' = [done EXCEPT ![a] = @ \cup {k}]
  BY DEF RetireOne
<1>2. /\ pc[a] = "write" /\ pc' = [pc EXCEPT ![a] = "apply"]
      /\ fetched' = [fetched EXCEPT ![a] = None]
      /\ turns' = turns /\ turn' = turn /\ user' = user /\ seen' = seen /\ plan' = plan
      /\ built' = built /\ outcome' = outcome
  BY DEF RetireOne
<1> DEFINE act == plan[a].acts[k]
<1>3. Applying(a)
  BY <1>2 DEF Applying
<1>4. PICK m \in Ids : /\ m = act.memory_id /\ k \in Retirements(plan[a])
                      /\ InStore(m) /\ memory[m].user = user[a]
  BY <1>3, PlanFacts DEF ToRetire
<1>5. \A i \in Ids : memory[i] \in Entries
  BY DEF IInv, TypeOK
<1>6. Replacement(a, m) \in Ids \cup {None}
  BY <1>3, PlanFacts DEF Replacement
<1>7. /\ RetiredEntry(a, act) \in Entries
      /\ RetiredEntry(a, act).status \in {"superseded", "forgotten"}
      /\ RetiredEntry(a, act).user = memory[m].user
      /\ RetiredEntry(a, act).replaces = memory[m].replaces
  <2>1. fetched[a] \in Ids \cup {None}
    BY DEF IInv, TypeOK
  <2>2. PICK st \in {"superseded", "forgotten"}, sb \in Ids \cup {None} :
           RetiredEntry(a, act) = [memory[m] EXCEPT !.status = st, !.superseded_by = sb]
    BY <1>4, <1>6, <2>1 DEF RetiredEntry
  <2>3. QED BY <1>4, <1>5, <2>2 DEF Entries, Statuses, Stored
<1>8. /\ memory'[m] = RetiredEntry(a, act)
      /\ \A i \in Ids : i # m => memory'[i] = memory[i]
      /\ memory' \in [Ids -> Entries]
  BY <1>1, <1>4, <1>7 DEF IInv, TypeOK
<1>9. TypeOK'
  <2>1. retirements' \in [Ids -> Nat]
    BY <1>1, <1>4 DEF IInv, TypeOK
  <2>2. done' \in [Agents -> SUBSET (Nat \ {0})]
    <3>1. k \in Nat \ {0}
      BY <1>3, <1>4, PlanFacts DEF Retirements, GoodPlan, Plans
    <3>2. QED BY <1>1, <3>1 DEF IInv, TypeOK
  <2>3. QED BY <1>2, <1>8, <2>1, <2>2 DEF IInv, TypeOK, PCs
<1>10. /\ ~ Active(m)'
       /\ \A i \in Ids : /\ MemoryKept(i)
                         /\ InStore(i)' => InStore(i)
                         /\ memory'[i].status = "unused" => memory[i].status = "unused"
  <2>1. ~ Active(m)' /\ InStore(m)' /\ memory'[m].status # "unused"
    BY <1>7, <1>8 DEF Active, InStore, Stored
  <2>2. MemoryKept(m)
    BY <2>1, <1>7, <1>8 DEF MemoryKept
  <2>3. \A i \in Ids : i # m => MemoryKept(i) /\ (InStore(i)' => InStore(i))
    BY <1>8 DEF MemoryKept, InStore, Active
  <2>4. QED BY <1>4, <1>8, <2>1, <2>2, <2>3
<1>11. ASSUME NEW b \in Agents, NEW j \in Creates(plan[b]) \ done[b]
       PROVE  built[b][j] \in Ids /\ memory'[built[b][j]] = memory[built[b][j]]
  <2>1. EntryOf(b, j) /\ built[b][j] \in Ids
    BY DEF IInv, AgentInv, EntriesMatchPlan, TypeOK
  <2>2. built[b][j] # m
    BY <1>4, <2>1 DEF EntryOf, InStore, Stored
  <2>3. QED BY <1>8, <2>1, <2>2
<1>12. \A b \in Agents \ {a} : AgentInv(b)'
  <2> SUFFICES ASSUME NEW b \in Agents \ {a} PROVE AgentInv(b)'
    OBVIOUS
  <2>1. pc'[b] = pc[b] /\ done'[b] = done[b]
    BY <1>1, <1>2 DEF IInv, TypeOK
  <2>2. LocalKept(b)
    BY <1>2, <2>1 DEF LocalKept
  <2>3. QED BY <2>1, <2>2, <1>10, <1>11, AgentFrame DEF IInv
<1>13. AgentInv(a)'
  <2>1. Shown(a)' = Shown(a) /\ pc'[a] = "apply" /\ Applying(a)' /\ Shown(a) \subseteq Ids
        /\ done'[a] = done[a] \cup {k}
    BY <1>1, <1>2 DEF Shown, Applying, IInv, TypeOK
  <2>2. ShownAreOwned(a)'
    BY <1>2, <1>10, <2>1 DEF IInv, AgentInv, ShownAreOwned, MemoryKept
  <2>3. NothingBeforePlan(a)'
    BY <1>2, <2>1 DEF IInv, AgentInv, NothingBeforePlan
  <2>4. PlanIsGood(a)'
    <3>1. OutOfReach(a) \subseteq OutOfReach(a)'
      BY <1>2, <1>10, ReachStable DEF OutOfReach
    <3>2. QED BY <3>1, <2>1, <1>2, <1>3, PlanFacts, GoodPlanMonotone DEF PlanIsGood
  <2>5. EntriesMatchPlan(a)'
    <3> SUFFICES ASSUME NEW j \in Creates(plan[a]) PROVE EntryOf(a, j)'
      BY <1>2 DEF EntriesMatchPlan
    <3>1. EntryOf(a, j) /\ built[a][j] \in Ids /\ j # k
      BY <1>3, <1>4, PlanFacts
    <3>2. CASE j \in done[a]
      BY <1>2, <1>10, <2>1, <3>1, <3>2 DEF EntryOf, MemoryKept, InStore
    <3>3. CASE j \notin done[a]
      BY <1>2, <1>11, <2>1, <3>1, <3>3 DEF EntryOf
    <3>4. QED BY <3>2, <3>3
  <2>6. RetirementsFirst(a)'
    <3>1. Creates(plan[a]) \cap done[a] = {}
      BY DEF IInv, AgentInv, RetirementsFirst
    <3>2. Creates(plan[a]) \cap (done[a] \cup {k}) = {}
      BY <3>1, <1>3, <1>4, PlanFacts
    <3>3. \A j \in Retirements(plan[a]) \cap done[a] :
              ~ Active(plan[a].acts[j].memory_id)
      BY DEF IInv, AgentInv, RetirementsFirst
    <3>4. \A i \in Ids : InStore(i) /\ ~ Active(i) => ~ Active(i)'
      BY <1>10 DEF MemoryKept
    <3>5. \A j \in Retirements(plan[a]) \cap (done[a] \cup {k}) :
              \E i \in Ids : plan[a].acts[j].memory_id = i /\ ~ Active(i)'
      BY <3>3, <3>4, <1>3, <1>4, <1>10, PlanFacts
    <3>6. QED BY <3>2, <3>5, <1>2, <2>1 DEF RetirementsFirst
  <2>7. QED BY <2>2, <2>3, <2>4, <2>5, <2>6 DEF AgentInv
<1>14. EntriesAreDistinct'
  BY <1>2, DistinctFrame DEF IInv
<1>15. QED BY <1>9, <1>10, <1>12, <1>13, <1>14, ReplacementFrame DEF IInv

LEMMA AddStep ==
    ASSUME IInv, NEW a \in Agents, AddOne(a)
    PROVE  IInv'
<1>1. PICK k \in ToAdd(a) :
         /\ memory' = [memory EXCEPT ![built[a][k]].status = "active"]
         /\ done' = [done EXCEPT ![a] = @ \cup {k}]
  BY DEF AddOne
<1>2. /\ pc[a] = "apply" /\ ToRetire(a) = {}
      /\ pc' = pc /\ fetched' = fetched /\ retirements' = retirements
      /\ turns' = turns /\ turn' = turn /\ user' = user /\ seen' = seen /\ plan' = plan
      /\ built' = built /\ outcome' = outcome
  BY DEF AddOne
<1>3. Applying(a)
  BY <1>2 DEF Applying
<1>4. PICK e \in Ids : /\ e = built[a][k] /\ k \in Creates(plan[a]) /\ k \notin done[a]
                      /\ memory[e].status = "built" /\ memory[e].user = user[a]
                      /\ memory[e].replaces = plan[a].acts[k].replaces
  BY <1>3, PlanFacts DEF ToAdd, EntryOf
<1>5. \A i \in Ids : memory[i] \in Entries
  BY DEF IInv, TypeOK
<1>6. /\ memory'[e] = [memory[e] EXCEPT !.status = "active"]
      /\ \A i \in Ids : i # e => memory'[i] = memory[i]
      /\ memory' \in [Ids -> Entries]
  <2>1. memory' = [memory EXCEPT ![e] = [memory[e] EXCEPT !.status = "active"]]
    BY <1>1, <1>4
  <2>2. [memory[e] EXCEPT !.status = "active"] \in Entries
    BY <1>5 DEF Entries, Statuses, Stored
  <2>3. memory \in [Ids -> Entries]
    BY DEF IInv, TypeOK
  <2>4. QED BY <2>1, <2>2, <2>3
<1>7. /\ memory'[e].status = "active" /\ memory'[e].user = memory[e].user
      /\ memory'[e].replaces = memory[e].replaces
  BY <1>5, <1>6 DEF Entries
<1>8. TypeOK'
  <2>1. k \in Nat \ {0}
    BY <1>3, <1>4, PlanFacts DEF Creates, GoodPlan, Plans
  <2>2. done' \in [Agents -> SUBSET (Nat \ {0})]
    BY <1>1, <2>1 DEF IInv, TypeOK
  <2>3. QED BY <1>2, <1>6, <2>2 DEF IInv, TypeOK
<1>9. ~ InStore(e)
  BY <1>4 DEF InStore, Stored
<1>10. \A i \in Ids : MemoryKept(i)
  BY <1>6, <1>7, <1>9 DEF MemoryKept, InStore, Active
<1>11. ASSUME NEW b \in Agents, NEW j \in Creates(plan[b]) \ done[b], b # a \/ j # k
       PROVE  built[b][j] \in Ids /\ memory'[built[b][j]] = memory[built[b][j]]
  <2>1. built[b][j] \in Ids /\ built[b][j] # e
    BY <1>4, <1>11 DEF IInv, TypeOK, EntriesAreDistinct
  <2>2. QED BY <1>6, <2>1
<1>12. \A b \in Agents \ {a} : AgentInv(b)'
  <2> SUFFICES ASSUME NEW b \in Agents \ {a} PROVE AgentInv(b)'
    OBVIOUS
  <2>1. pc'[b] = pc[b] /\ done'[b] = done[b]
    BY <1>1, <1>2 DEF IInv, TypeOK
  <2>2. LocalKept(b)
    BY <1>2, <2>1 DEF LocalKept
  <2>3. QED BY <2>1, <2>2, <1>10, <1>11, AgentFrame DEF IInv
<1>13. AgentInv(a)'
  <2>1. Shown(a)' = Shown(a) /\ Applying(a)' /\ Shown(a) \subseteq Ids
        /\ done'[a] = done[a] \cup {k} /\ pc'[a] = "apply"
    BY <1>1, <1>2 DEF Shown, Applying, IInv, TypeOK
  <2>2. ShownAreOwned(a)'
    BY <1>2, <1>10, <2>1 DEF IInv, AgentInv, ShownAreOwned, MemoryKept
  <2>3. NothingBeforePlan(a)'
    BY <1>2, <2>1 DEF IInv, AgentInv, NothingBeforePlan
  <2>4. PlanIsGood(a)'
    <3>1. OutOfReach(a) \subseteq OutOfReach(a)'
      BY <1>2, <1>10, ReachStable DEF OutOfReach
    <3>2. QED BY <3>1, <2>1, <1>2, <1>3, PlanFacts, GoodPlanMonotone DEF PlanIsGood
  <2>5. EntriesMatchPlan(a)'
    <3> SUFFICES ASSUME NEW j \in Creates(plan[a]) PROVE EntryOf(a, j)'
      BY <1>2 DEF EntriesMatchPlan
    <3>1. EntryOf(a, j) /\ built[a][j] \in Ids
      BY <1>3, PlanFacts
    <3>2. CASE j = k
      BY <1>2, <1>4, <1>7, <2>1, <3>2 DEF EntryOf, Stored
    <3>3. CASE j \in done[a]
      BY <1>2, <1>10, <2>1, <3>1, <3>3 DEF EntryOf, MemoryKept, InStore
    <3>4. CASE j \notin done[a] /\ j # k
      BY <1>2, <1>11, <2>1, <3>1, <3>4 DEF EntryOf
    <3>5. QED BY <3>2, <3>3, <3>4
  <2>6. RetirementsFirst(a)'
    <3>1. ToRetire(a)' = {}
      BY <1>2, <2>1 DEF ToRetire
    <3>2. \A j \in Retirements(plan[a]) \cap (done[a] \cup {k}) : j \in done[a]
      BY <1>3, <1>4, PlanFacts
    <3>3. \A i \in Ids : InStore(i) /\ ~ Active(i) => ~ Active(i)'
      BY <1>10 DEF MemoryKept
    <3>4. \A j \in Retirements(plan[a]) \cap (done[a] \cup {k}) :
              \E i \in Ids : plan[a].acts[j].memory_id = i /\ ~ Active(i)'
      BY <3>2, <3>3, <1>3, PlanFacts DEF IInv, AgentInv, RetirementsFirst
    <3>5. QED BY <3>1, <3>4, <1>2, <2>1 DEF RetirementsFirst
  <2>7. QED BY <2>2, <2>3, <2>4, <2>5, <2>6 DEF AgentInv
<1>14. EntriesAreDistinct'
  BY <1>2, DistinctFrame DEF IInv
<1>15. \A i \in Ids : memory[i].replaces # None => memory[i].replaces \in Ids
  BY <1>5 DEF Entries
<1>16. ReplacedAreOlder'
  BY <1>7, <1>6, <1>10, <1>15 DEF IInv, ReplacedAreOlder, MemoryKept
<1>17. ReplacementsFollowRetirement'
  <2> SUFFICES ASSUME PairedReplacements, NEW x \in Ids, InStore(x)', NEW m \in Ids,
                      memory[x].replaces = m
               PROVE  ~ Active(m)' \/ memory'[m].user # memory'[x].user
    BY <1>10, <1>15 DEF ReplacementsFollowRetirement, MemoryKept
  <2>1. m # x /\ InStore(m) /\ m # e
    BY <1>9, VocabularyAssumption DEF IInv, ReplacedAreOlder
  <2>2. ~ Active(m) \/ memory[m].user # memory[x].user
    <3>1. CASE x = e
      <4>1. \/ \E j \in Retirements(plan[a]) : plan[a].acts[j].memory_id = m
            \/ m \in OutOfReach(a)
        BY <1>3, <1>4, <3>1, PlanFacts, VocabularyAssumption DEF GoodPlan
      <4>2. CASE m \in OutOfReach(a)
        BY <4>2, <1>4, <3>1 DEF OutOfReach
      <4>3. ASSUME NEW j \in Retirements(plan[a]), plan[a].acts[j].memory_id = m
            PROVE  ~ Active(m)
        <5>1. j \in done[a]
          BY <1>2 DEF ToRetire
        <5>2. QED BY <4>3, <5>1 DEF IInv, AgentInv, RetirementsFirst
      <4>4. QED BY <4>1, <4>2, <4>3
    <3>2. CASE x # e
      <4>1. InStore(x)
        BY <1>6, <3>2 DEF InStore
      <4>2. QED BY <4>1, VocabularyAssumption DEF IInv, ReplacementsFollowRetirement
    <3>3. QED BY <3>1, <3>2
  <2>3. memory'[m].user = memory[m].user /\ (~ Active(m) => ~ Active(m)')
    BY <2>1, <1>10 DEF MemoryKept
  <2>4. memory'[x].user = memory[x].user
    BY <1>6, <1>7
  <2>5. QED BY <2>2, <2>3, <2>4
<1>18. QED BY <1>8, <1>12, <1>13, <1>14, <1>16, <1>17 DEF IInv

LEMMA PlanStep ==
    ASSUME IInv, NEW a \in Agents, Plan(a)
    PROVE  IInv'
<1> DEFINE Outcome(pl, f) == /\ GoodPlan(pl, Shown(a), OutOfReach(a))
                             /\ plan' = [plan EXCEPT ![a] = pl]
                             /\ built' = [built EXCEPT ![a] = f]
                             /\ memory' = Constructed(a, pl, f)
<1>1. PICK pl : \E f \in FreshIds(Creates(pl)) : Outcome(pl, f)
  <2>1. PICK b \in Batches, x \in Extractions, s \in Translations :
           /\ NamesOnly(b, Nameable(a))
           /\ \E f \in FreshIds(Creates(ValidActions(a, b, x, s))) :
                 /\ plan' = [plan EXCEPT ![a] = ValidActions(a, b, x, s)]
                 /\ built' = [built EXCEPT ![a] = f]
                 /\ memory' = Constructed(a, ValidActions(a, b, x, s), f)
    BY DEF Plan
  <2>2. QED BY <2>1, ValidActionsGood
<1>2. PICK f \in FreshIds(Creates(pl)) : Outcome(pl, f)
  BY <1>1
<1>3. /\ pc[a] = "plan" /\ pc' = [pc EXCEPT ![a] = "apply"]
      /\ fetched' = fetched /\ retirements' = retirements /\ done' = done
      /\ turns' = turns /\ turn' = turn /\ user' = user /\ seen' = seen
      /\ outcome' = outcome
  BY DEF Plan
<1>4. /\ f \in [Creates(pl) -> Ids]
      /\ \A j, k \in Creates(pl) : f[j] = f[k] => j = k
      /\ \A k \in Creates(pl) : memory[f[k]].status = "unused"
  BY <1>2 DEF FreshIds
<1>5. \A i \in Ids : memory[i] \in Entries
  BY DEF IInv, TypeOK
<1>6. plan[a] = NoPlan /\ done[a] = {} /\ user[a] \in Users
  BY <1>3 DEF IInv, AgentInv, NothingBeforePlan, Applying
<1>7. pl \in Plans /\ pl.ok \subseteq DOMAIN pl.acts
  BY <1>2 DEF GoodPlan
<1>8. \A k \in Creates(pl) : /\ pl.acts[k].content \in Contents
                             /\ pl.acts[k].replaces \in Ids \cup {None}
  BY <1>7, ActionShape DEF Creates, Plans
<1>9. ASSUME NEW k \in Creates(pl)
      PROVE  memory'[f[k]] = NewEntry(a, pl.acts[k])
  <2>1. (CHOOSE j \in DOMAIN f : f[j] = f[k]) = k
    BY <1>4
  <2>2. QED BY <1>2, <1>4, <2>1 DEF Constructed
<1>10. \A i \in Ids : (\A k \in Creates(pl) : f[k] # i) => memory'[i] = memory[i]
  BY <1>2, <1>4 DEF Constructed
<1>11. \A k \in Creates(pl) : NewEntry(a, pl.acts[k]) \in Entries
  BY <1>6, <1>8 DEF NewEntry, Entries, Statuses, IInv, TypeOK
<1>12. memory' \in [Ids -> Entries]
  <2>1. \A i \in Ids : memory'[i] \in Entries
    BY <1>4, <1>5, <1>9, <1>10, <1>11
  <2>2. memory' = [i \in Ids |-> memory'[i]]
    BY <1>2 DEF Constructed
  <2>3. QED BY <2>1, <2>2
<1>13. /\ plan'[a] = pl /\ built'[a] = f /\ pc'[a] = "apply"
       /\ \A b \in Agents \ {a} : plan'[b] = plan[b] /\ built'[b] = built[b] /\ pc'[b] = pc[b]
  BY <1>2, <1>3 DEF IInv, TypeOK
<1>14. TypeOK'
  <2>1. plan' \in [Agents -> Plans]
    BY <1>2, <1>7 DEF IInv, TypeOK
  <2>2. built' = [b \in Agents |-> built'[b]]
    BY <1>2 DEF IInv, TypeOK
  <2>3. \A b \in Agents : /\ plan'[b].ok \subseteq DOMAIN plan'[b].acts
                          /\ built'[b] \in [Creates(plan'[b]) -> Ids]
    BY <1>4, <1>7, <1>13 DEF IInv, TypeOK
  <2>4. QED BY <1>3, <1>12, <2>1, <2>2, <2>3 DEF IInv, TypeOK, PCs
<1>15. \A k \in Creates(pl) : /\ memory'[f[k]].status = "built"
                              /\ memory'[f[k]].user = user[a]
                              /\ memory'[f[k]].replaces = pl.acts[k].replaces
  <2>1. \A act : /\ NewEntry(a, act).status = "built"
                 /\ NewEntry(a, act).user = user[a]
                 /\ NewEntry(a, act).replaces = act.replaces
    BY DEF NewEntry
  <2>2. QED BY <1>9, <2>1
<1>16. \A i \in Ids : InStore(i) => memory'[i] = memory[i]
  BY <1>4, <1>10 DEF InStore, Stored
<1>17. \A i \in Ids : InStore(i) => MemoryKept(i)
  BY <1>16 DEF MemoryKept, InStore, Active
<1>18. \A i \in Ids : memory[i].status # "unused" => memory'[i] = memory[i]
  BY <1>4, <1>10
<1>19. \A b \in Agents \ {a} : AgentInv(b)'
  <2> SUFFICES ASSUME NEW b \in Agents \ {a} PROVE AgentInv(b)'
    OBVIOUS
  <2>1. Shown(b)' = Shown(b) /\ Shown(b) \subseteq Ids
    BY <1>3 DEF Shown
  <2>2. ShownAreOwned(b)'
    BY <1>3, <1>16, <2>1 DEF IInv, AgentInv, ShownAreOwned, InStore
  <2>3. NothingBeforePlan(b)'
    BY <1>3, <1>13, <2>1 DEF IInv, AgentInv, NothingBeforePlan, Applying
  <2>4. PlanIsGood(b)'
    <3>1. OutOfReach(b) \subseteq OutOfReach(b)'
      BY <1>3, <1>17, ReachStable DEF OutOfReach
    <3>2. Applying(b)' => Applying(b)
      BY <1>13 DEF Applying
    <3>3. QED BY <3>1, <3>2, <2>1, <1>13, GoodPlanMonotone DEF IInv, AgentInv, PlanIsGood
  <2>5. EntriesMatchPlan(b)'
    <3> SUFFICES ASSUME NEW k \in Creates(plan[b]) PROVE EntryOf(b, k)'
      BY <1>13 DEF EntriesMatchPlan
    <3>1. EntryOf(b, k) /\ built[b][k] \in Ids
      BY DEF IInv, AgentInv, EntriesMatchPlan, TypeOK
    <3>2. memory[built[b][k]].status # "unused"
      BY <3>1 DEF EntryOf, Stored
    <3>3. QED BY <1>3, <1>13, <1>18, <3>1, <3>2 DEF EntryOf
  <2>6. RetirementsFirst(b)'
    <3>1. \A k \in Retirements(plan[b]) \cap done[b] :
              /\ ~ Active(plan[b].acts[k].memory_id)
              /\ plan[b].acts[k].memory_id \in Shown(b)
      BY DEF IInv, AgentInv, RetirementsFirst, NothingBeforePlan, PlanIsGood, GoodPlan
    <3>2. \A i \in Shown(b) : i \in Ids /\ InStore(i)
      BY <2>1 DEF IInv, AgentInv, ShownAreOwned
    <3>3. \A k \in Retirements(plan[b]) \cap done[b] :
              \E i \in Ids : plan[b].acts[k].memory_id = i /\ ~ Active(i)'
      BY <3>1, <3>2, <1>17 DEF MemoryKept
    <3>4. QED BY <3>3, <1>3, <1>13 DEF IInv, AgentInv, RetirementsFirst, ToRetire
  <2>7. QED BY <2>2, <2>3, <2>4, <2>5, <2>6 DEF AgentInv
<1>20. AgentInv(a)'
  <2>1. Shown(a)' = Shown(a) /\ Shown(a) \subseteq Ids /\ Applying(a)'
    BY <1>3, <1>13 DEF Shown, Applying
  <2>2. ShownAreOwned(a)'
    BY <1>3, <1>16, <2>1 DEF IInv, AgentInv, ShownAreOwned, InStore
  <2>3. NothingBeforePlan(a)'
    BY <1>3, <1>6, <1>13, <2>1 DEF NothingBeforePlan
  <2>4. PlanIsGood(a)'
    <3>1. OutOfReach(a) \subseteq OutOfReach(a)'
      BY <1>3, <1>17, ReachStable DEF OutOfReach
    <3>2. QED BY <3>1, <2>1, <1>2, <1>13, GoodPlanMonotone DEF PlanIsGood
  <2>5. EntriesMatchPlan(a)'
    BY <1>3, <1>6, <1>13, <1>15 DEF EntriesMatchPlan, EntryOf
  <2>6. RetirementsFirst(a)'
    BY <1>3, <1>6 DEF RetirementsFirst
  <2>7. QED BY <2>2, <2>3, <2>4, <2>5, <2>6 DEF AgentInv
<1>21. EntriesAreDistinct'
  <2> SUFFICES ASSUME NEW b \in Agents, NEW d \in Agents,
                      NEW j \in Creates(plan'[b]), NEW k \in Creates(plan'[d]),
                      built'[b][j] = built'[d][k]
               PROVE  b = d /\ j = k
    BY DEF EntriesAreDistinct
  <2>1. \A c \in Agents \ {a} : \A q \in Creates(plan[c]) :
            memory[built[c][q]].status # "unused"
    BY DEF IInv, AgentInv, EntriesMatchPlan, EntryOf, Stored
  <2>2. CASE b = a /\ d = a
    BY <2>2, <1>4, <1>13
  <2>3. CASE b = a /\ d # a
    BY <2>1, <2>3, <1>4, <1>13
  <2>4. CASE b # a /\ d = a
    BY <2>1, <2>4, <1>4, <1>13
  <2>5. CASE b # a /\ d # a
    BY <2>5, <1>13 DEF IInv, EntriesAreDistinct
  <2>6. QED BY <2>2, <2>3, <2>4, <2>5
<1>22. ASSUME NEW e \in Ids, NEW m \in Ids, memory'[e].replaces = m
       PROVE  InStore(m) /\ m # e
  <2>1. CASE \A k \in Creates(pl) : f[k] # e
    BY <2>1, <1>10, <1>22, VocabularyAssumption DEF IInv, ReplacedAreOlder
  <2>2. ASSUME NEW k \in Creates(pl), f[k] = e PROVE InStore(m) /\ m # e
    <3>1. pl.acts[k].replaces = m
      BY <2>2, <1>15, <1>22
    <3>2. m \in Shown(a) \cup OutOfReach(a)
      BY <3>1, <1>2, VocabularyAssumption DEF GoodPlan
    <3>3. InStore(m)
      BY <3>2 DEF IInv, AgentInv, ShownAreOwned, OutOfReach
    <3>4. QED BY <2>2, <3>3, <1>4 DEF InStore, Stored
  <2>3. QED BY <2>1, <2>2
<1>23. \A i \in Ids : memory'[i].replaces # None => memory'[i].replaces \in Ids
  BY <1>12 DEF Entries
<1>24. ReplacedAreOlder'
  <2>1. \A e \in Ids : memory'[e].status = "unused" => memory'[e].replaces = None
    BY <1>4, <1>10, <1>15 DEF IInv, ReplacedAreOlder
  <2>2. \A m \in Ids : InStore(m) => InStore(m)'
    BY <1>16 DEF InStore
  <2>3. QED BY <2>1, <2>2, <1>22, <1>23 DEF ReplacedAreOlder
<1>25. ReplacementsFollowRetirement'
  <2> SUFFICES ASSUME PairedReplacements, NEW e \in Ids, InStore(e)', NEW m \in Ids,
                      memory'[e].replaces = m
               PROVE  ~ Active(m)' \/ memory'[m].user # memory'[e].user
    BY <1>23 DEF ReplacementsFollowRetirement
  <2>1. memory'[e] = memory[e]
    BY <1>10, <1>15 DEF InStore, Stored
  <2>2. InStore(e) /\ InStore(m)
    BY <2>1, <1>22 DEF InStore
  <2>3. memory'[m] = memory[m]
    BY <2>2, <1>16
  <2>4. ~ Active(m) \/ memory[m].user # memory[e].user
    BY <2>1, <2>2, VocabularyAssumption DEF IInv, ReplacementsFollowRetirement
  <2>5. QED BY <2>1, <2>3, <2>4 DEF Active
<1>26. QED BY <1>14, <1>19, <1>20, <1>21, <1>24, <1>25 DEF IInv

-----------------------------------------------------------------------------
LEMMA RestStep ==
    ASSUME IInv, UNCHANGED vars
    PROVE  IInv'
<1>1. /\ memory' = memory /\ retirements' = retirements /\ turns' = turns /\ turn' = turn
      /\ pc' = pc /\ user' = user /\ seen' = seen /\ plan' = plan /\ built' = built
      /\ done' = done /\ fetched' = fetched /\ outcome' = outcome
  BY DEF vars
<1>2. TypeOK'
  BY <1>1 DEF IInv, TypeOK
<1>3. \A b \in Agents : AgentInv(b)'
  <2> SUFFICES ASSUME NEW b \in Agents PROVE AgentInv(b)'
    OBVIOUS
  <2>1. LocalKept(b) /\ done'[b] = done[b]
    BY <1>1 DEF LocalKept
  <2>2. QED BY <1>1, <2>1, AgentFrame, StoreUntouched DEF IInv, TypeOK
<1>4. QED BY <1>1, <1>2, <1>3, StoreUntouched, DistinctFrame, ReplacementFrame DEF IInv

(* The inductive invariant holds in every state of every behaviour.         *)
THEOREM InvariantHolds == Spec => []IInv
<1>1. Init => IInv
  BY InitGood
<1>2. IInv /\ [Next]_vars => IInv'
  <2> SUFFICES ASSUME IInv, [Next]_vars PROVE IInv'
    OBVIOUS
  <2>1. ASSUME NEW a \in Agents, NEW u \in Users, Start(a, u) PROVE IInv'
    BY <2>1, StartStep
  <2>2. ASSUME NEW a \in Agents, Step(a) PROVE IInv'
    <3>1. CASE ReadSuperseded(a)
      BY <3>1, ReadStep
    <3>2. CASE Plan(a)
      BY <3>2, PlanStep
    <3>3. CASE PlanFails(a) \/ Respond(a) \/ ModelFails(a)
      BY <3>3, QuietEnd
    <3>4. CASE FetchOne(a) \/ Applied(a)
      BY <3>4, FetchStep
    <3>5. CASE RetireOne(a)
      BY <3>5, RetireStep
    <3>6. CASE AddOne(a)
      BY <3>6, AddStep
    <3>7. CASE ApplyFails(a)
      BY <3>7, ApplyFailsStep
    <3>8. QED BY <2>2, <3>1, <3>2, <3>3, <3>4, <3>5, <3>6, <3>7 DEF Step, Progress, Fails
  <2>3. CASE UNCHANGED vars
    BY <2>3, RestStep
  <2>4. QED BY <2>1, <2>2, <2>3 DEF Next, Rest
<1>3. QED BY <1>1, <1>2, PTL DEF Spec

(* Every variable keeps its type: what is planned, built and stored is a    *)
(* value the code can hold, whatever the policy and the controllers say.    *)
THEOREM TypeCorrect == Spec => []TypeOK
<1>1. IInv => TypeOK
  BY DEF IInv
<1>2. QED BY <1>1, InvariantHolds, PTL

(* A memory and the memory of its user that replaces it are never active    *)
(* together, however many agents share the store and wherever they fail,    *)
(* as long as the policy sends a replacing create with its supersede.       *)
THEOREM NeverBothActive ==
    ASSUME PairedReplacements
    PROVE  Spec => []ReplacedIsRetired
<1>1. IInv => ReplacedIsRetired
  BY DEF IInv, ReplacedAreOlder, ReplacementsFollowRetirement, ReplacedIsRetired,
         Active, InStore, Stored
<1>2. QED BY <1>1, InvariantHolds, PTL

(* A stored memory is changed only by an interaction of its owner, while    *)
(* that interaction applies its plan.                                       *)
THEOREM OnlyOwners == Spec => OwnersOnly
<1> DEFINE Owned(i) == InStore(i) /\ memory'[i] # memory[i] =>
                          \E a \in Agents : /\ done'[a] # done[a]
                                            /\ pc[a] \in {"apply", "write"}
                                            /\ user[a] = memory[i].user
<1>1. IInv /\ [Next]_vars => [\A i \in Ids : Owned(i)]_vars
  <2> SUFFICES ASSUME IInv, Next, NEW i \in Ids, InStore(i), memory'[i] # memory[i]
               PROVE  \E a \in Agents : /\ done'[a] # done[a]
                                        /\ pc[a] \in {"apply", "write"}
                                        /\ user[a] = memory[i].user
    OBVIOUS
  <2>1. ASSUME NEW a \in Agents, NEW u \in Users, Start(a, u) PROVE FALSE
    BY <2>1 DEF Start, ledger
  <2>2. ASSUME NEW a \in Agents, Plan(a) PROVE FALSE
    <3>1. PICK pl, f : /\ f \in FreshIds(Creates(pl))
                       /\ memory' = Constructed(a, pl, f)
      BY <2>2 DEF Plan
    <3>2. \A k \in DOMAIN f : memory[f[k]].status = "unused"
      BY <3>1 DEF FreshIds
    <3>3. \A k \in DOMAIN f : f[k] # i
      BY <3>2 DEF InStore, Stored
    <3>4. QED BY <3>1, <3>3 DEF Constructed
  <2>3. ASSUME NEW a \in Agents, RetireOne(a)
        PROVE  done'[a] # done[a] /\ pc[a] = "write" /\ user[a] = memory[i].user
    <3>1. PICK k \in ToRetire(a) :
             /\ memory' = [memory EXCEPT ![plan[a].acts[k].memory_id] =
                              RetiredEntry(a, plan[a].acts[k])]
             /\ done' = [done EXCEPT ![a] = @ \cup {k}]
      BY <2>3 DEF RetireOne
    <3>2. pc[a] = "write" /\ Applying(a)
      BY <2>3 DEF RetireOne, Applying
    <3>3. plan[a].acts[k].memory_id = i
      BY <3>1 DEF IInv, TypeOK
    <3>4. k \in Retirements(plan[a]) /\ k \notin done[a]
      BY DEF ToRetire
    <3>5. user[a] = memory[i].user
      BY <3>2, <3>3, <3>4, PlanFacts
    <3>6. done'[a] # done[a]
      BY <3>1, <3>4 DEF IInv, TypeOK
    <3>7. QED BY <3>2, <3>5, <3>6
  <2>4. ASSUME NEW a \in Agents, AddOne(a) PROVE FALSE
    <3>1. PICK k \in ToAdd(a) :
             memory' = [memory EXCEPT ![built[a][k]].status = "active"]
      BY <2>4 DEF AddOne
    <3>2. Applying(a) /\ k \in Creates(plan[a]) /\ k \notin done[a]
      BY <2>4 DEF AddOne, Applying, ToAdd
    <3>3. ~ InStore(built[a][k])
      BY <3>2, PlanFacts DEF EntryOf, InStore, Stored
    <3>4. QED BY <3>1, <3>3 DEF IInv, TypeOK
  <2>5. ASSUME NEW a \in Agents, ApplyFails(a) PROVE FALSE
    BY <2>5 DEF ApplyFails, InStore, Stored
  <2>6. ASSUME NEW a \in Agents,
               \/ ReadSuperseded(a) \/ PlanFails(a) \/ FetchOne(a)
               \/ Applied(a) \/ Respond(a) \/ ModelFails(a)
        PROVE  FALSE
    BY <2>6 DEF ReadSuperseded, PlanFails, FetchOne, Applied, Respond, ModelFails, ledger
  <2>7. ASSUME Rest PROVE FALSE
    BY <2>7 DEF Rest, vars
  <2>8. QED BY <2>1, <2>2, <2>3, <2>4, <2>5, <2>6, <2>7 DEF Next, Step, Progress, Fails
<1>2. QED BY <1>1, InvariantHolds, PTL DEF Spec, OwnersOnly

-----------------------------------------------------------------------------
(* The history the store keeps: lineage for any number of agents, no       *)
(* duplicates and no second retirement for an agent alone with its store,  *)
(* and the lifecycle both implement.                                       *)

-----------------------------------------------------------------------------
(* What each step does, with its witnesses named. *)

(* The steps of an agent leave the variables of the others alone.           *)
LocalSame(b) ==
    /\ turn'[b] = turn[b] /\ pc'[b] = pc[b] /\ user'[b] = user[b]
    /\ seen'[b] = seen[b] /\ plan'[b] = plan[b] /\ built'[b] = built[b]
    /\ done'[b] = done[b] /\ fetched'[b] = fetched[b]

LEMMA OthersSame ==
    ASSUME IInv, NEW a \in Agents, Step(a) \/ \E u \in Users : Start(a, u),
           NEW b \in Agents, b # a
    PROVE  LocalSame(b)
<1>1. /\ DOMAIN turn = Agents /\ DOMAIN pc = Agents /\ DOMAIN user = Agents
      /\ DOMAIN seen = Agents /\ DOMAIN plan = Agents /\ DOMAIN built = Agents
      /\ DOMAIN done = Agents /\ DOMAIN fetched = Agents
  BY DEF IInv, TypeOK
<1>2. ASSUME NEW u \in Users, Start(a, u) PROVE LocalSame(b)
  BY <1>1, <1>2 DEF Start, LocalSame
<1>3. CASE ReadSuperseded(a)
  BY <1>1, <1>3 DEF ReadSuperseded, LocalSame
<1>4. CASE Plan(a)
  BY <1>1, <1>4 DEF Plan, LocalSame
<1>5. CASE FetchOne(a)
  BY <1>1, <1>5 DEF FetchOne, LocalSame
<1>6. CASE RetireOne(a)
  BY <1>1, <1>6 DEF RetireOne, LocalSame
<1>7. CASE AddOne(a)
  BY <1>1, <1>7 DEF AddOne, LocalSame
<1>8. CASE Applied(a)
  BY <1>1, <1>8 DEF Applied, local, LocalSame
<1>9. ASSUME NEW how, Ends(a, how) PROVE LocalSame(b)
  BY <1>1, <1>9 DEF Ends, LocalSame
<1>10. QED BY <1>2, <1>3, <1>4, <1>5, <1>6, <1>7, <1>8, <1>9
           DEF Step, Progress, Fails, PlanFails, ApplyFails, Respond, ModelFails

(* The steps that do not touch the store. *)
Quiet(a) ==
    \/ ReadSuperseded(a) \/ FetchOne(a) \/ Applied(a) \/ Respond(a)
    \/ PlanFails(a) \/ ModelFails(a) \/ \E u \in Users : Start(a, u)

LEMMA QuietSteps ==
    ASSUME NEW a \in Agents, Quiet(a)
    PROVE  UNCHANGED <<memory, retirements>>
  BY DEF Quiet, ReadSuperseded, FetchOne, Applied, Respond, PlanFails, ModelFails,
         Start, ledger

LEMMA PlanDetail ==
    ASSUME IInv, NEW a \in Agents, Plan(a)
    PROVE  \E b \in Batches, x \in Extractions, s \in Translations :
             LET pl == ValidActions(a, b, x, s)
             IN  /\ NamesOnly(b, Nameable(a))
                 /\ plan'[a] = pl
                 /\ Creates(pl) = DOMAIN built'[a]
                 /\ \A k \in Creates(pl) :
                       /\ built'[a][k] \in Ids
                       /\ memory[built'[a][k]].status = "unused"
                       /\ memory'[built'[a][k]] = NewEntry(a, pl.acts[k])
                 /\ \A i \in Ids : \/ memory'[i] = memory[i]
                                   \/ \E k \in Creates(pl) : built'[a][k] = i
<1>1. PICK b \in Batches, x \in Extractions, s \in Translations :
         /\ NamesOnly(b, Nameable(a))
         /\ \E f \in FreshIds(Creates(ValidActions(a, b, x, s))) :
               /\ plan' = [plan EXCEPT ![a] = ValidActions(a, b, x, s)]
               /\ built' = [built EXCEPT ![a] = f]
               /\ memory' = Constructed(a, ValidActions(a, b, x, s), f)
  BY DEF Plan
<1> DEFINE pl == ValidActions(a, b, x, s)
<1> HIDE DEF pl
<1>2. PICK f \in FreshIds(Creates(pl)) :
         /\ plan' = [plan EXCEPT ![a] = pl]
         /\ built' = [built EXCEPT ![a] = f]
         /\ memory' = Constructed(a, pl, f)
  BY <1>1 DEF pl
<1>3. plan'[a] = pl /\ built'[a] = f
  BY <1>2 DEF IInv, TypeOK
<1>4. /\ f \in [Creates(pl) -> Ids]
      /\ \A j, k \in Creates(pl) : f[j] = f[k] => j = k
      /\ \A k \in Creates(pl) : memory[f[k]].status = "unused"
  BY DEF FreshIds
<1>5. ASSUME NEW k \in Creates(pl)
      PROVE  memory'[f[k]] = NewEntry(a, pl.acts[k])
  <2>1. (CHOOSE j \in DOMAIN f : f[j] = f[k]) = k
    BY <1>4
  <2>2. QED BY <1>2, <1>4, <2>1 DEF Constructed
<1>6. \A i \in Ids : (\A k \in Creates(pl) : f[k] # i) => memory'[i] = memory[i]
  BY <1>2, <1>4 DEF Constructed
<1>7. /\ NamesOnly(b, Nameable(a))
      /\ plan'[a] = pl
      /\ Creates(pl) = DOMAIN built'[a]
      /\ \A k \in Creates(pl) :
            /\ built'[a][k] \in Ids
            /\ memory[built'[a][k]].status = "unused"
            /\ memory'[built'[a][k]] = NewEntry(a, pl.acts[k])
      /\ \A i \in Ids : \/ memory'[i] = memory[i]
                        \/ \E k \in Creates(pl) : built'[a][k] = i
  BY <1>1, <1>3, <1>4, <1>5, <1>6
<1>8. QED BY <1>7 DEF pl

LEMMA RetireDetail ==
    ASSUME IInv, NEW a \in Agents, RetireOne(a)
    PROVE  \E k \in ToRetire(a), m \in Ids :
             /\ IsFirst(k, ToRetire(a))
             /\ m = plan[a].acts[k].memory_id
             /\ m \in Shown(a) /\ InStore(m) /\ memory[m].user = user[a]
             /\ memory'[m] \in [status : {"superseded", "forgotten"},
                                user : {memory[m].user}, content : {memory[m].content},
                                replaces : {memory[m].replaces},
                                superseded_by : {fetched[a], Replacement(a, m)},
                                turn : {memory[m].turn}]
             /\ \A i \in Ids : i # m => memory'[i] = memory[i]
             /\ retirements'[m] = retirements[m] + 1
             /\ \A i \in Ids : i # m => retirements'[i] = retirements[i]
             /\ done'[a] = done[a] \cup {k}
<1>1. PICK k \in ToRetire(a) :
         /\ IsFirst(k, ToRetire(a))
         /\ memory' = [memory EXCEPT ![plan[a].acts[k].memory_id] = RetiredEntry(a, plan[a].acts[k])]
         /\ retirements' = [retirements EXCEPT ![plan[a].acts[k].memory_id] = @ + 1]
         /\ done' = [done EXCEPT ![a] = @ \cup {k}]
  BY DEF RetireOne
<1> DEFINE act == plan[a].acts[k]
<1>2. Applying(a)
  BY DEF RetireOne, Applying
<1>3. PICK m \in Ids : /\ m = act.memory_id /\ m \in Shown(a)
                      /\ InStore(m) /\ memory[m].user = user[a]
  BY <1>2, PlanFacts DEF ToRetire, GoodPlan
<1>4. memory[m] \in Entries /\ DOMAIN memory = Ids
  BY DEF IInv, TypeOK
<1>5. PICK st \in {"superseded", "forgotten"}, sb \in {fetched[a], Replacement(a, m)} :
         RetiredEntry(a, act) = [memory[m] EXCEPT !.status = st, !.superseded_by = sb]
  BY <1>3 DEF RetiredEntry
<1>6. memory'[m] = [memory[m] EXCEPT !.status = st, !.superseded_by = sb]
  BY <1>1, <1>3, <1>4, <1>5
<1>7. memory'[m] \in [status : {"superseded", "forgotten"},
                      user : {memory[m].user}, content : {memory[m].content},
                      replaces : {memory[m].replaces},
                      superseded_by : {fetched[a], Replacement(a, m)},
                      turn : {memory[m].turn}]
  BY <1>4, <1>6 DEF Entries
<1>8. /\ retirements'[m] = retirements[m] + 1
      /\ \A i \in Ids : i # m => retirements'[i] = retirements[i]
      /\ done'[a] = done[a] \cup {k}
  BY <1>1, <1>3 DEF IInv, TypeOK
<1>9. \A i \in Ids : i # m => memory'[i] = memory[i]
  BY <1>1, <1>3, <1>4
<1>10. QED BY <1>1, <1>3, <1>7, <1>8, <1>9

LEMMA AddDetail ==
    ASSUME IInv, NEW a \in Agents, AddOne(a)
    PROVE  \E k \in ToAdd(a), e \in Ids :
             /\ e = built[a][k] /\ memory[e].status = "built"
             /\ memory[e].user = user[a] /\ user[a] \in Users
             /\ memory'[e] \in [status : {"active"},
                                user : {memory[e].user}, content : {memory[e].content},
                                replaces : {memory[e].replaces},
                                superseded_by : {memory[e].superseded_by},
                                turn : {memory[e].turn}]
             /\ \A i \in Ids : i # e => memory'[i] = memory[i]
             /\ done'[a] = done[a] \cup {k}
<1>1. PICK k \in ToAdd(a) :
         /\ memory' = [memory EXCEPT ![built[a][k]].status = "active"]
         /\ done' = [done EXCEPT ![a] = @ \cup {k}]
  BY DEF AddOne
<1>2. Applying(a) /\ k \in Creates(plan[a]) /\ k \notin done[a] /\ user[a] \in Users
  BY DEF AddOne, Applying, ToAdd, IInv, AgentInv, NothingBeforePlan
<1>3. PICK e \in Ids : e = built[a][k] /\ memory[e].status = "built" /\ memory[e].user = user[a]
  BY <1>2, PlanFacts DEF EntryOf
<1>4. memory[e] \in Entries /\ DOMAIN memory = Ids
  BY DEF IInv, TypeOK
<1>5. memory'[e] = [memory[e] EXCEPT !.status = "active"]
      /\ \A i \in Ids : i # e => memory'[i] = memory[i]
  BY <1>1, <1>3, <1>4
<1>6. memory'[e] \in [status : {"active"},
                      user : {memory[e].user}, content : {memory[e].content},
                      replaces : {memory[e].replaces},
                      superseded_by : {memory[e].superseded_by},
                      turn : {memory[e].turn}]
  BY <1>4, <1>5 DEF Entries
<1>7. done'[a] = done[a] \cup {k}
  BY <1>1 DEF IInv, TypeOK
<1>8. QED BY <1>2, <1>3, <1>5, <1>6, <1>7

LEMMA FailDetail ==
    ASSUME IInv, NEW a \in Agents, ApplyFails(a)
    PROVE  \A i \in Ids :
             \/ memory'[i] = memory[i] /\ ~ \E k \in ToAdd(a) : built[a][k] = i
             \/ /\ memory[i].status = "built"
                /\ memory'[i] = [memory[i] EXCEPT !.status = "lost"]
                /\ memory'[i].status = "lost"
<1> SUFFICES ASSUME NEW i \in Ids
             PROVE  \/ memory'[i] = memory[i] /\ ~ \E k \in ToAdd(a) : built[a][k] = i
                    \/ /\ memory[i].status = "built"
                       /\ memory'[i] = [memory[i] EXCEPT !.status = "lost"]
                       /\ memory'[i].status = "lost"
  OBVIOUS
<1>1. memory[i] \in Entries
  BY DEF IInv, TypeOK
<1>2. DOMAIN built[a] = Creates(plan[a])
  BY DEF IInv, TypeOK
<1>3. CASE memory[i].status = "built" /\ \E k \in DOMAIN built[a] : built[a][k] = i
  BY <1>1, <1>3 DEF ApplyFails, Entries
<1>4. CASE ~ (memory[i].status = "built" /\ \E k \in DOMAIN built[a] : built[a][k] = i)
  <2>1. memory'[i] = memory[i]
    BY <1>4 DEF ApplyFails
  <2>2. ASSUME NEW k \in ToAdd(a), built[a][k] = i PROVE FALSE
    <3>1. k \in Creates(plan[a]) /\ k \notin done[a]
      BY DEF ToAdd
    <3>2. memory[i].status = "built"
      BY <2>2, <3>1 DEF IInv, AgentInv, EntriesMatchPlan, EntryOf
    <3>3. QED BY <1>2, <1>4, <2>2, <3>1, <3>2
  <2>3. QED BY <2>1, <2>2
<1>5. QED BY <1>3, <1>4

-----------------------------------------------------------------------------
(* What no step changes about an entry once it is constructed. *)
EntryKept(i) ==
    /\ memory[i].status # "unused" =>
          /\ memory'[i].user = memory[i].user
          /\ memory'[i].content = memory[i].content
          /\ memory'[i].replaces = memory[i].replaces
          /\ memory'[i].turn = memory[i].turn
    /\ InStore(i) => InStore(i)'
    /\ RetiredInStore(i) => RetiredInStore(i)'
    /\ memory[i].status = "lost" => memory'[i].status = "lost"

LEMMA EntriesKept ==
    ASSUME IInv, NEW a \in Agents, Step(a) \/ \E u \in Users : Start(a, u),
           NEW i \in Ids
    PROVE  EntryKept(i)
<1>1. memory[i] \in Entries
  BY DEF IInv, TypeOK
<1>2. ASSUME memory'[i] = memory[i] PROVE EntryKept(i)
  BY <1>2 DEF EntryKept, InStore, RetiredInStore
<1>3. CASE Quiet(a)
  BY <1>2, <1>3, QuietSteps
<1>4. CASE Plan(a)
  <2>1. PICK pl : /\ \A k \in Creates(pl) : memory[built'[a][k]].status = "unused"
                  /\ \A i_1 \in Ids : \/ memory'[i_1] = memory[i_1]
                                      \/ \E k \in Creates(pl) : built'[a][k] = i_1
    BY <1>4, PlanDetail
  <2>2. memory'[i] = memory[i] \/ memory[i].status = "unused"
    BY <2>1
  <2>3. QED BY <2>2, <1>2 DEF EntryKept, InStore, RetiredInStore, Stored
<1>5. CASE RetireOne(a)
  <2>1. PICK m \in Ids :
           /\ InStore(m)
           /\ memory'[m] \in [status : {"superseded", "forgotten"},
                              user : {memory[m].user}, content : {memory[m].content},
                              replaces : {memory[m].replaces},
                              superseded_by : {fetched[a], Replacement(a, m)},
                              turn : {memory[m].turn}]
           /\ \A i_1 \in Ids : i_1 # m => memory'[i_1] = memory[i_1]
    BY <1>5, RetireDetail
  <2>2. CASE i = m
    BY <2>1, <2>2 DEF EntryKept, InStore, RetiredInStore, Stored
  <2>3. QED BY <2>1, <2>2, <1>2
<1>6. CASE AddOne(a)
  <2>1. PICK e \in Ids :
           /\ memory[e].status = "built"
           /\ memory'[e] \in [status : {"active"},
                              user : {memory[e].user}, content : {memory[e].content},
                              replaces : {memory[e].replaces},
                              superseded_by : {memory[e].superseded_by},
                              turn : {memory[e].turn}]
           /\ \A i_1 \in Ids : i_1 # e => memory'[i_1] = memory[i_1]
    BY <1>6, AddDetail
  <2>2. CASE i = e
    BY <1>1, <2>1, <2>2 DEF EntryKept, InStore, RetiredInStore, Stored, Entries
  <2>3. QED BY <2>1, <2>2, <1>2
<1>7. CASE ApplyFails(a)
  <2>1. CASE memory[i].status = "built" /\ memory'[i] = [memory[i] EXCEPT !.status = "lost"]
    BY <1>1, <2>1 DEF EntryKept, InStore, RetiredInStore, Stored, Entries
  <2>2. QED BY <1>2, <1>7, <2>1, FailDetail
<1>8. QED BY <1>3, <1>4, <1>5, <1>6, <1>7 DEF Quiet, Step, Progress, Fails

(* An entry about to be added stays so until it is in the store, or lost.   *)
LEMMA OnItsWay ==
    ASSUME IInv, HistoryInv, NEW a \in Agents, Step(a) \/ \E u \in Users : Start(a, u),
           NEW b \in Agents, NEW k \in ToAdd(b), NEW e, e = built[b][k]
    PROVE  \/ InStore(e)'
           \/ MayFail /\ memory'[e].status = "lost"
           \/ k \in ToAdd(b)' /\ built'[b] = built[b]
<1>1. k \in Creates(plan[b]) /\ k \notin done[b] /\ Applying(b)
  <2>1. Creates(NoPlan) = {}
    BY DEF NoPlan, Creates
  <2>2. QED BY <2>1 DEF ToAdd, IInv, AgentInv, NothingBeforePlan
<1>2. e \in Ids /\ Creates(plan[b]) \cap Retirements(plan[b]) = {}
  BY <1>1, PlanFacts
<1>3. CASE b # a
  BY <1>1, <1>3, OthersSame DEF LocalSame, ToAdd
<1>4. CASE b = a
  <2>1. CASE FetchOne(a) \/ Applied(a)
    BY <1>1, <2>1, <1>4 DEF FetchOne, Applied, local, ToAdd
  <2>2. CASE RetireOne(a)
    <3>1. PICK q \in ToRetire(a) : done' = [done EXCEPT ![a] = @ \cup {q}]
      BY <2>2 DEF RetireOne
    <3>2. done'[a] = done[a] \cup {q} /\ q # k
      BY <3>1, <1>1, <1>2, <1>4 DEF ToRetire, IInv, TypeOK
    <3>3. QED BY <1>1, <1>4, <2>2, <3>2 DEF RetireOne, ToAdd
  <2>3. CASE AddOne(a)
    <3>1. PICK q \in ToAdd(a), i \in Ids :
             /\ i = built[a][q] /\ memory'[i].status = "active"
             /\ done'[a] = done[a] \cup {q}
      BY <2>3, AddDetail
    <3>2. CASE q = k
      BY <1>4, <3>1, <3>2 DEF InStore, Stored
    <3>3. QED BY <1>1, <1>4, <2>3, <3>1, <3>2 DEF AddOne, ToAdd
  <2>4. CASE ApplyFails(a)
    <3>1. MayFail
      BY <2>4 DEF ApplyFails
    <3>2. \E q \in ToAdd(a) : built[a][q] = e
      BY <1>4
    <3>3. memory'[e].status = "lost"
      BY <1>2, <2>4, <3>2, FailDetail
    <3>4. QED BY <3>1, <3>3
  <2>5. pc[a] \in {"apply", "write"}
    BY <1>1, <1>4 DEF Applying, HistoryInv, PlanApplied
  <2>6. QED BY <2>1, <2>2, <2>3, <2>4, <2>5
        DEF Step, Progress, Fails, Start, ReadSuperseded, Plan, PlanFails, Respond, ModelFails
<1>5. QED BY <1>3, <1>4

LEMMA ReplacesKept ==
    ASSUME IInv, HistoryInv, NEW a \in Agents, Step(a) \/ \E u \in Users : Start(a, u),
           NEW e \in Ids, NEW m \in Ids, InStore(m), Replaces(e, m)
    PROVE  Replaces(e, m)'
<1>1. memory[e].status # "unused" /\ memory[m].status # "unused"
  BY VocabularyAssumption DEF Replaces, IInv, ReplacedAreOlder, InStore, Stored
<1>2. EntryKept(e) /\ EntryKept(m)
  BY EntriesKept
<1>3. memory'[e].replaces = m /\ memory'[e].user = memory'[m].user
  BY <1>1, <1>2 DEF EntryKept, Replaces
<1>4. \/ InStore(e)'
      \/ MayFail /\ memory'[e].status = "lost"
      \/ \E b \in Agents : \E k \in ToAdd(b)' : built'[b][k] = e
  <2>1. CASE InStore(e) \/ (MayFail /\ memory[e].status = "lost")
    BY <2>1, <1>2 DEF EntryKept
  <2>2. ASSUME NEW b \in Agents, NEW k \in ToAdd(b), built[b][k] = e
        PROVE  \/ InStore(e)'
               \/ MayFail /\ memory'[e].status = "lost"
               \/ k \in ToAdd(b)' /\ built'[b][k] = e
    BY <2>2, OnItsWay
  <2>3. CASE \E b \in Agents : \E k \in ToAdd(b) : built[b][k] = e
    <3>1. PICK b \in Agents : \E k \in ToAdd(b) : built[b][k] = e
      BY <2>3
    <3>2. PICK k \in ToAdd(b) : built[b][k] = e
      BY <3>1
    <3>3. QED BY <2>2, <3>2 DEF ToAdd
  <2>4. QED BY <2>1, <2>3 DEF Replaces
<1>5. QED BY <1>3, <1>4 DEF Replaces

(* What a retirement writes as lineage is lineage.                          *)
LEMMA WrittenIsLineage ==
    ASSUME IInv, HistoryInv, NEW a \in Agents, pc[a] = "write",
           NEW k \in ToRetire(a), IsFirst(k, ToRetire(a)),
           NEW m \in Ids, m = plan[a].acts[k].memory_id,
           NEW e \in {fetched[a], Replacement(a, m)}, e # None
    PROVE  e \in Ids /\ Replaces(e, m)
<1>1. Applying(a)
  BY DEF Applying
<1>2. CASE e = fetched[a]
  BY <1>2 DEF HistoryInv, FetchedIsLineage, IInv, TypeOK
<1>3. CASE e = Replacement(a, m)
  <2> DEFINE ks == {q \in Creates(plan[a]) : plan[a].acts[q].replaces = m}
  <2>1. PICK q \in ks : e = built[a][q]
    <3>1. \E q \in ks : IsLast(q, ks)
      BY <1>3 DEF Replacement
    <3>2. (CHOOSE q \in ks : IsLast(q, ks)) \in ks
      BY <3>1
    <3>3. e = built[a][CHOOSE q \in ks : IsLast(q, ks)]
      BY <1>3, <3>1 DEF Replacement
    <3>4. QED BY <3>2, <3>3
  <2>2. /\ e \in Ids /\ memory[e].replaces = m /\ memory[e].user = user[a]
        /\ memory[m].user = user[a]
    BY <1>1, <2>1, PlanFacts DEF EntryOf, ToRetire
  <2>3. q \in ToAdd(a)
    BY <2>1 DEF ToAdd, IInv, AgentInv, RetirementsFirst
  <2>4. QED BY <2>1, <2>2, <2>3 DEF Replaces
<1>4. QED BY <1>2, <1>3

LEMMA LineageKept ==
    ASSUME IInv, HistoryInv, NEW a \in Agents, Step(a) \/ \E u \in Users : Start(a, u)
    PROVE  LineageSound'
<1> SUFFICES ASSUME NEW m \in Ids, NEW e, e = memory'[m].superseded_by, e # None
             PROVE  /\ RetiredInStore(m)'
                    /\ Replaces(e, m)'
  BY DEF LineageSound, RetiredInStore, Replaces
<1>1. \A i \in Ids : memory[i] \in Entries
  BY DEF IInv, TypeOK
<1>2. ASSUME memory'[m].superseded_by = memory[m].superseded_by
      PROVE  RetiredInStore(m)' /\ Replaces(e, m)'
  <2>1. e \in Ids
    BY <1>1, <1>2 DEF Entries
  <2>2. RetiredInStore(m) /\ Replaces(e, m)
    BY <1>2 DEF HistoryInv, LineageSound, RetiredInStore, Replaces
  <2>3. InStore(m)
    BY <2>2 DEF RetiredInStore, InStore, Stored
  <2>4. QED BY <2>1, <2>2, <2>3, ReplacesKept, EntriesKept DEF EntryKept
<1>3. CASE Quiet(a)
  BY <1>2, <1>3, QuietSteps
<1>4. CASE Plan(a)
  <2>1. PICK pl : /\ \A k \in Creates(pl) : memory'[built'[a][k]] = NewEntry(a, pl.acts[k])
                  /\ \A i \in Ids : \/ memory'[i] = memory[i]
                                    \/ \E k \in Creates(pl) : built'[a][k] = i
    BY <1>4, PlanDetail
  <2>2. \A act : NewEntry(a, act).superseded_by = None
    BY DEF NewEntry
  <2>3. QED BY <1>2, <2>1, <2>2
<1>5. CASE RetireOne(a)
  <2>1. PICK k \in ToRetire(a), r \in Ids :
           /\ IsFirst(k, ToRetire(a))
           /\ r = plan[a].acts[k].memory_id
           /\ InStore(r)
           /\ memory'[r] \in [status : {"superseded", "forgotten"},
                              user : {memory[r].user}, content : {memory[r].content},
                              replaces : {memory[r].replaces},
                              superseded_by : {fetched[a], Replacement(a, r)},
                              turn : {memory[r].turn}]
           /\ \A i \in Ids : i # r => memory'[i] = memory[i]
    BY <1>5, RetireDetail
  <2>2. CASE m = r
    <3>1. e \in {fetched[a], Replacement(a, m)} /\ RetiredInStore(m)'
      BY <2>1, <2>2 DEF RetiredInStore
    <3>2. pc[a] = "write"
      BY <1>5 DEF RetireOne
    <3>3. e \in Ids /\ Replaces(e, m)
      <4>1. m = plan[a].acts[k].memory_id /\ e \in {fetched[a], Replacement(a, m)}
        BY <2>1, <2>2, <3>1
      <4>2. IsFirst(k, ToRetire(a))
        BY <2>1
      <4>3. QED BY <3>2, <4>1, <4>2, WrittenIsLineage, Zenon
    <3>4. InStore(m)
      BY <2>1, <2>2
    <3>5. Replaces(e, m)'
      BY <3>3, <3>4, ReplacesKept, Zenon
    <3>6. QED BY <3>1, <3>5
  <2>3. CASE m # r
    <3>1. memory'[m] = memory[m]
      BY <2>1, <2>3
    <3>2. QED BY <1>2, <3>1
  <2>4. QED BY <2>2, <2>3
<1>6. CASE AddOne(a)
  <2>1. PICK x \in Ids :
           /\ memory'[x] \in [status : {"active"},
                              user : {memory[x].user}, content : {memory[x].content},
                              replaces : {memory[x].replaces},
                              superseded_by : {memory[x].superseded_by},
                              turn : {memory[x].turn}]
           /\ \A i \in Ids : i # x => memory'[i] = memory[i]
    BY <1>6, AddDetail
  <2>2. QED BY <1>2, <2>1
<1>7. CASE ApplyFails(a)
  BY <1>1, <1>2, <1>7, FailDetail DEF Entries
<1>8. QED BY <1>3, <1>4, <1>5, <1>6, <1>7 DEF Quiet, Step, Progress, Fails

LEMMA PlanAppliedKept ==
    ASSUME IInv, HistoryInv, NEW a \in Agents, Step(a) \/ \E u \in Users : Start(a, u),
           NEW b \in Agents
    PROVE  PlanApplied(b)'
<1>1. CASE b # a
  BY <1>1, OthersSame DEF LocalSame, HistoryInv, PlanApplied, ToRetire, ToAdd
<1>2. CASE b = a /\ Applied(a)
  BY <1>2 DEF Applied, local, PlanApplied, ToRetire, ToAdd
<1>3. CASE b = a /\ ~ Applied(a)
  <2>1. pc'[a] # "model"
    BY <1>3 DEF Step, Progress, Fails, Start, ReadSuperseded, Plan, PlanFails, FetchOne,
                RetireOne, AddOne, ApplyFails, Respond, ModelFails, Ends, IInv, TypeOK
  <2>2. QED BY <1>3, <2>1 DEF PlanApplied
<1>4. QED BY <1>1, <1>2, <1>3

LEMMA FetchedKept ==
    ASSUME IInv, HistoryInv, NEW a \in Agents, Step(a) \/ \E u \in Users : Start(a, u),
           NEW b \in Agents
    PROVE  FetchedIsLineage(b)'
<1> SUFFICES ASSUME pc'[b] = "write", NEW k \in ToRetire(b)',
                    IsFirst(k, ToRetire(b)'), NEW e, e = fetched'[b], e # None,
                    NEW m, m = plan'[b].acts[k].memory_id
             PROVE  Replaces(e, m)'
  BY DEF FetchedIsLineage
<1>1. CASE b # a
  <2>1. LocalSame(b)
    BY <1>1, OthersSame
  <2>2. /\ pc[b] = "write" /\ k \in ToRetire(b) /\ IsFirst(k, ToRetire(b))
        /\ e = fetched[b] /\ m = plan[b].acts[k].memory_id
    BY <2>1 DEF LocalSame, ToRetire
  <2>3. Replaces(e, m) /\ e \in Ids
    BY <2>2 DEF HistoryInv, FetchedIsLineage, IInv, TypeOK
  <2>4. m \in Ids /\ InStore(m)
    BY <2>2, PlanFacts DEF Applying, ToRetire
  <2>5. QED BY <2>3, <2>4, ReplacesKept
<1>2. CASE b = a /\ FetchOne(a)
  <2>1. PICK q \in ToRetire(a) :
           /\ IsFirst(q, ToRetire(a))
           /\ fetched' = [fetched EXCEPT ![a] =
                  memory[plan[a].acts[q].memory_id].superseded_by]
    BY <1>2 DEF FetchOne
  <2>2. Applying(a) /\ UNCHANGED <<plan, done>>
    BY <1>2 DEF FetchOne, Applying
  <2>3. k = q
    <3>1. ToRetire(a) \subseteq Nat
      BY <2>2, PlanFacts DEF ToRetire, Retirements, GoodPlan, Plans
    <3>2. IsFirst(k, ToRetire(a))
      BY <1>2, <2>2 DEF ToRetire
    <3>3. k <= q /\ q <= k /\ k \in Nat /\ q \in Nat
      BY <2>1, <3>1, <3>2 DEF IsFirst
    <3>4. QED BY <3>3
  <2>4. m = plan[a].acts[q].memory_id /\ e = memory[m].superseded_by
    BY <1>2, <2>1, <2>2, <2>3 DEF IInv, TypeOK
  <2>5. m \in Ids /\ InStore(m)
    BY <2>2, <2>4, PlanFacts DEF ToRetire
  <2>6. Replaces(e, m)
    <3>1. memory[m].superseded_by # None
      BY <2>4
    <3>2. LineageSound /\ m \in Ids
      BY <2>5 DEF HistoryInv
    <3>3. Replaces(memory[m].superseded_by, m)
      BY <3>1, <3>2 DEF LineageSound, Replaces
    <3>4. QED BY <2>4, <3>3
  <2>7. e \in Ids
    BY <2>4, <2>5 DEF IInv, TypeOK, Entries
  <2>8. QED BY <2>5, <2>6, <2>7, ReplacesKept
<1>3. CASE b = a /\ ~ FetchOne(a)
  <2>1. pc'[a] # "write"
    BY <1>3 DEF Step, Progress, Fails, Start, ReadSuperseded, Plan, PlanFails, Applied,
                RetireOne, AddOne, ApplyFails, Respond, ModelFails, Ends, IInv, TypeOK
  <2>2. QED BY <1>3, <2>1
<1>4. QED BY <1>1, <1>2, <1>3

LEMMA EntriesCarryKept ==
    ASSUME IInv, HistoryInv, NEW a \in Agents, Step(a) \/ \E u \in Users : Start(a, u),
           NEW b \in Agents
    PROVE  EntriesCarry(b)'
<1>1. Creates(NoPlan) = {}
  BY DEF NoPlan, Creates
<1>2. CASE b = a /\ Plan(a)
  <2>1. PICK pl : /\ plan'[a] = pl
                  /\ \A k \in Creates(pl) : memory'[built'[a][k]] = NewEntry(a, pl.acts[k])
    BY <1>2, PlanDetail
  <2>2. \A act : NewEntry(a, act).content = act.content /\ NewEntry(a, act).turn = turn[a]
    BY DEF NewEntry
  <2>3. turn' = turn
    BY <1>2 DEF Plan
  <2>4. QED BY <1>2, <2>1, <2>2, <2>3 DEF EntriesCarry
<1>3. ASSUME plan'[b] = plan[b], built'[b] = built[b], turn'[b] = turn[b]
      PROVE  EntriesCarry(b)'
  <2> SUFFICES ASSUME NEW k \in Creates(plan[b])
               PROVE  /\ memory'[built[b][k]].content = plan[b].acts[k].content
                      /\ memory'[built[b][k]].turn = turn[b]
    BY <1>3 DEF EntriesCarry
  <2>1. /\ memory[built[b][k]].content = plan[b].acts[k].content
        /\ memory[built[b][k]].turn = turn[b]
    BY DEF HistoryInv, EntriesCarry
  <2>2. built[b][k] \in Ids /\ memory[built[b][k]].status # "unused"
    BY DEF IInv, TypeOK, AgentInv, EntriesMatchPlan, EntryOf, Stored
  <2>3. QED BY <2>1, <2>2, EntriesKept DEF EntryKept
<1>4. ASSUME plan'[b] = NoPlan PROVE EntriesCarry(b)'
  BY <1>1, <1>4 DEF EntriesCarry
<1>5. CASE b # a
  BY <1>3, <1>5, OthersSame DEF LocalSame
<1>6. CASE b = a /\ ~ Plan(a)
  <2>1. ASSUME NEW u \in Users, Start(a, u) PROVE plan'[a] = NoPlan
    BY <2>1 DEF Start, IInv, AgentInv, NothingBeforePlan, Applying
  <2>2. ASSUME NEW how, Ends(a, how) PROVE plan'[a] = NoPlan
    BY <2>2 DEF Ends, IInv, TypeOK
  <2>3. CASE ReadSuperseded(a) \/ FetchOne(a) \/ Applied(a) \/ RetireOne(a) \/ AddOne(a)
    BY <2>3, <1>3, <1>6 DEF ReadSuperseded, FetchOne, Applied, RetireOne, AddOne, local
  <2>4. QED BY <1>4, <1>6, <2>1, <2>2, <2>3
        DEF Step, Progress, Fails, PlanFails, ApplyFails, Respond, ModelFails
<1>7. QED BY <1>2, <1>5, <1>6

LEMMA HistoryInit == Init => HistoryInv
<1> SUFFICES ASSUME Init PROVE HistoryInv
  OBVIOUS
<1>1. Creates(NoPlan) = {}
  BY DEF NoPlan, Creates
<1>2. LineageSound
  BY DEF Init, Unused, LineageSound
<1>3. \A a \in Agents : PlanApplied(a) /\ FetchedIsLineage(a) /\ EntriesCarry(a)
  BY <1>1 DEF Init, PlanApplied, FetchedIsLineage, EntriesCarry
<1>4. QED BY <1>2, <1>3 DEF HistoryInv

LEMMA HistoryUnchanged ==
    ASSUME HistoryInv, UNCHANGED vars
    PROVE  HistoryInv'
<1>1. /\ memory' = memory /\ turn' = turn /\ pc' = pc /\ user' = user
      /\ plan' = plan /\ built' = built /\ done' = done /\ fetched' = fetched
  BY DEF vars
<1>2. /\ \A a \in Agents : ToRetire(a)' = ToRetire(a) /\ ToAdd(a)' = ToAdd(a)
      /\ \A i \in Ids : InStore(i)' = InStore(i)
  BY <1>1 DEF ToRetire, ToAdd, InStore
<1>3. \A e, m : Replaces(e, m) => Replaces(e, m)'
  BY <1>1 DEF Replaces, InStore, ToAdd
<1>4. LineageSound'
  BY <1>1 DEF HistoryInv, LineageSound, InStore, ToAdd
<1>5. \A a \in Agents : PlanApplied(a)' /\ EntriesCarry(a)'
  BY <1>1, <1>2 DEF HistoryInv, PlanApplied, EntriesCarry
<1>6. \A a \in Agents : FetchedIsLineage(a)'
  <2> SUFFICES ASSUME NEW a \in Agents, pc[a] = "write", NEW k \in ToRetire(a),
                      IsFirst(k, ToRetire(a)), fetched[a] # None
               PROVE  Replaces(fetched[a], plan[a].acts[k].memory_id)'
    BY <1>1, <1>2 DEF FetchedIsLineage
  <2>1. Replaces(fetched[a], plan[a].acts[k].memory_id)
    BY DEF HistoryInv, FetchedIsLineage
  <2>2. QED BY <2>1, <1>1 DEF Replaces, InStore, ToAdd
<1>7. QED BY <1>4, <1>5, <1>6 DEF HistoryInv

LEMMA Steps ==
    ASSUME [Next]_vars
    PROVE  \/ UNCHANGED vars
           \/ \E a \in Agents : Step(a) \/ \E u \in Users : Start(a, u)
  BY DEF Next, Rest

(* What the store remembers of lineage and plans is true in every state.    *)
THEOREM HistoryHolds == Spec => []HistoryInv
<1>1. Init => HistoryInv
  BY HistoryInit
<1>2. IInv /\ HistoryInv /\ [Next]_vars => HistoryInv'
  <2> SUFFICES ASSUME IInv, HistoryInv, [Next]_vars PROVE HistoryInv'
    OBVIOUS
  <2>1. ASSUME NEW a \in Agents, Step(a) \/ \E u \in Users : Start(a, u)
        PROVE  HistoryInv'
    BY <2>1, LineageKept, PlanAppliedKept, FetchedKept, EntriesCarryKept DEF HistoryInv
  <2>2. QED BY <2>1, Steps, HistoryUnchanged
<1>3. QED BY <1>1, <1>2, InvariantHolds, PTL DEF Spec

(* superseded_by of a retired memory always names an entry of the same user *)
(* that replaces it, however many agents retire it again, and whichever of  *)
(* them fails between reading the row and writing it.                       *)
THEOREM LineageHolds == Spec => []LineageSound
<1>1. HistoryInv => LineageSound
  BY DEF HistoryInv
<1>2. QED BY <1>1, HistoryHolds, PTL

(* When the engine calls the model, every create of its plan is stored and  *)
(* every target of a retirement is inactive, whatever other agents do.      *)
THEOREM AppliedFirst == Spec => []AppliedBeforeAnswer
<1>1. IInv /\ HistoryInv => AppliedBeforeAnswer
  <2> SUFFICES ASSUME IInv, HistoryInv, NEW a \in Agents, pc[a] = "model"
               PROVE  /\ \A k \in Creates(plan[a]) : InStore(built[a][k])
                      /\ \A k \in Retirements(plan[a]) :
                            ~ Active(plan[a].acts[k].memory_id)
    BY DEF AppliedBeforeAnswer
  <2>1. \A k \in Creates(plan[a]) \cup Retirements(plan[a]) : k \in done[a]
    BY DEF HistoryInv, PlanApplied, ToRetire, ToAdd
  <2>2. QED BY <2>1 DEF IInv, AgentInv, EntriesMatchPlan, EntryOf, RetirementsFirst, InStore
<1>2. QED BY <1>1, InvariantHolds, HistoryHolds, PTL

-----------------------------------------------------------------------------
(* An agent alone with its store. *)

(* No step makes a memory active but the addition of a new entry.           *)
LEMMA ActiveAgain ==
    ASSUME IInv, NEW a \in Agents, Step(a) \/ \E u \in Users : Start(a, u),
           ~ AddOne(a), NEW i \in Ids, Active(i)'
    PROVE  Active(i) /\ memory'[i] = memory[i]
<1>1. CASE Quiet(a)
  BY <1>1, QuietSteps DEF Active
<1>2. CASE Plan(a)
  <2>1. PICK pl : /\ \A k \in Creates(pl) : memory'[built'[a][k]] = NewEntry(a, pl.acts[k])
                  /\ \A i_1 \in Ids : \/ memory'[i_1] = memory[i_1]
                                      \/ \E k \in Creates(pl) : built'[a][k] = i_1
    BY <1>2, PlanDetail
  <2>2. \A act : NewEntry(a, act).status = "built"
    BY DEF NewEntry
  <2>3. QED BY <2>1, <2>2 DEF Active
<1>3. CASE RetireOne(a)
  <2>1. PICK m \in Ids :
           /\ memory'[m] \in [status : {"superseded", "forgotten"},
                              user : {memory[m].user}, content : {memory[m].content},
                              replaces : {memory[m].replaces},
                              superseded_by : {fetched[a], Replacement(a, m)},
                              turn : {memory[m].turn}]
           /\ \A i_1 \in Ids : i_1 # m => memory'[i_1] = memory[i_1]
    BY <1>3, RetireDetail
  <2>2. QED BY <2>1 DEF Active
<1>4. CASE ApplyFails(a)
  BY <1>4, FailDetail DEF Active
<1>5. QED BY <1>1, <1>2, <1>3, <1>4 DEF Quiet, Step, Progress, Fails

(* What an agent was shown, and how its plan treats it, in its own steps.   *)
LEMMA ShownKept ==
    ASSUME IInv, NEW a \in Agents, Step(a) \/ \E u \in Users : Start(a, u)
    PROVE  \/ pc'[a] = "idle" /\ plan'[a] = NoPlan /\ Shown(a)' = {}
           \/ \E u \in Users : Start(a, u)
           \/ ReadSuperseded(a)
           \/ Plan(a)
           \/ /\ FetchOne(a) \/ RetireOne(a) \/ AddOne(a) \/ Applied(a)
              /\ pc[a] \in {"apply", "write"} /\ UNCHANGED <<turn, user, seen, plan>>
<1>1. ASSUME NEW how, Ends(a, how)
      PROVE  pc'[a] = "idle" /\ plan'[a] = NoPlan /\ Shown(a)' = {}
  BY <1>1 DEF Ends, IInv, TypeOK, Shown, Nothing
<1>2. CASE FetchOne(a) \/ RetireOne(a) \/ AddOne(a) \/ Applied(a)
  BY <1>2 DEF FetchOne, RetireOne, AddOne, Applied, local
<1>3. QED BY <1>1, <1>2 DEF Step, Progress, Fails, PlanFails, ApplyFails, Respond, ModelFails

LEMMA SnapshotKept ==
    ASSUME IInv, HistoryInv, AloneInv, OneAgent,
           NEW a \in Agents, Step(a) \/ \E u \in Users : Start(a, u)
    PROVE  SnapshotComplete(a)'
<1> SUFFICES ASSUME pc'[a] # "idle", NEW i \in Ids, Active(i)', memory'[i].user = user'[a]
             PROVE  i \in Shown(a)' \/ memory'[i].turn = turn'[a]
  BY DEF SnapshotComplete
<1>1. ASSUME NEW u \in Users, Start(a, u) PROVE i \in Shown(a)'
  <2>1. UNCHANGED memory /\ user'[a] = u
    BY <1>1 DEF Start, ledger, IInv, TypeOK
  <2>2. seen'[a][i] = "active"
    BY <1>1, <2>1 DEF Start, Active, IInv, TypeOK
  <2>3. QED BY <2>2 DEF Shown
<1>2. CASE ReadSuperseded(a)
  <2>1. UNCHANGED <<memory, user, turn>> /\ pc[a] = "read"
    BY <1>2 DEF ReadSuperseded, ledger
  <2>2. i \in Shown(a) \/ memory[i].turn = turn[a]
    BY <2>1 DEF AloneInv, SnapshotComplete, Active
  <2>3. seen[a][i] # "no" => seen'[a][i] # "no"
    BY <1>2 DEF ReadSuperseded, IInv, TypeOK
  <2>4. QED BY <2>1, <2>2, <2>3 DEF Shown
<1>3. CASE Plan(a)
  <2>1. UNCHANGED <<user, turn, seen>> /\ pc[a] = "plan" /\ ~ AddOne(a)
    BY <1>3 DEF Plan, AddOne
  <2>2. Active(i) /\ memory'[i] = memory[i]
    BY <2>1, ActiveAgain
  <2>3. QED BY <2>1, <2>2 DEF AloneInv, SnapshotComplete, Shown
<1>4. CASE pc[a] \in {"apply", "write"} /\ UNCHANGED <<turn, user, seen, plan>>
  <2>1. CASE ~ AddOne(a)
    BY <2>1, <1>4, ActiveAgain DEF AloneInv, SnapshotComplete, Shown
  <2>2. CASE AddOne(a)
    <3>1. PICK k \in ToAdd(a), e \in Ids :
             /\ e = built[a][k]
             /\ memory'[e] \in [status : {"active"},
                                user : {memory[e].user}, content : {memory[e].content},
                                replaces : {memory[e].replaces},
                                superseded_by : {memory[e].superseded_by},
                                turn : {memory[e].turn}]
             /\ \A i_1 \in Ids : i_1 # e => memory'[i_1] = memory[i_1]
      BY <2>2, AddDetail
    <3>2. CASE i = e
      BY <1>4, <3>1, <3>2 DEF HistoryInv, EntriesCarry, ToAdd
    <3>3. CASE i # e
      BY <1>4, <3>1, <3>3 DEF AloneInv, SnapshotComplete, Shown, Active
    <3>4. QED BY <3>2, <3>3
  <2>3. QED BY <2>1, <2>2
<1>5. QED BY <1>1, <1>2, <1>3, <1>4, ShownKept

LEMMA MatchesKept ==
    ASSUME IInv, AloneInv, NEW a \in Agents, Step(a) \/ \E u \in Users : Start(a, u)
    PROVE  MatchesRetire(a)'
<1>1. Creates(NoPlan) = {}
  BY DEF NoPlan, Creates
<1>2. ASSUME plan'[a] = NoPlan PROVE MatchesRetire(a)'
  BY <1>1, <1>2 DEF MatchesRetire
<1>3. \A i \in Shown(a) : i \in Ids /\ memory'[i].content = memory[i].content
  BY EntriesKept DEF EntryKept, IInv, AgentInv, ShownAreOwned, InStore, Stored, Shown
<1>4. ASSUME NEW u \in Users, Start(a, u) PROVE plan'[a] = NoPlan
  BY <1>4 DEF Start, IInv, AgentInv, NothingBeforePlan, Applying
<1>5. CASE ReadSuperseded(a)
  BY <1>2, <1>5 DEF ReadSuperseded, IInv, AgentInv, NothingBeforePlan, Applying
<1>6. CASE Plan(a)
  <2>1. PICK pl : \E b \in Batches, x \in Extractions, s \in Translations :
           /\ pl = ValidActions(a, b, x, s)
           /\ NamesOnly(b, Nameable(a))
           /\ plan'[a] = pl
    BY <1>6, PlanDetail
  <2>2. PICK b \in Batches, x \in Extractions, s \in Translations :
           /\ pl = ValidActions(a, b, x, s)
           /\ NamesOnly(b, Nameable(a))
           /\ plan'[a] = pl
    BY <2>1
  <2>3. GivesWay(pl, Shown(a), Text, RetiredBy(b, Shown(a)))
    BY <2>2, ValidActionsGiveWay
  <2>4. Shown(a)' = Shown(a)
    BY <1>6 DEF Plan, Shown
  <2>5. ASSUME NEW k \in Creates(pl), NEW i \in Shown(a),
               memory'[i].content = pl.acts[k].content
        PROVE  \E j \in Retirements(pl) : pl.acts[j].memory_id = i
    <3>1. i \in Matching(pl.acts[k].content, Shown(a), Text)
      BY <1>3, <2>5 DEF Matching, Text
    <3>2. QED BY <2>3, <3>1 DEF GivesWay
  <2>6. QED BY <2>2, <2>4, <2>5 DEF MatchesRetire
<1>7. CASE UNCHANGED <<seen, plan>>
  BY <1>3, <1>7 DEF AloneInv, MatchesRetire, Shown
<1>8. QED BY <1>2, <1>4, <1>5, <1>6, <1>7, ShownKept

LEMMA DuplicatesKept ==
    ASSUME IInv, HistoryInv, AloneInv, NEW a \in Agents,
           Step(a) \/ \E u \in Users : Start(a, u)
    PROVE  DuplicatesOnlyWithinTurn'
<1>1. CASE ~ AddOne(a)
  BY <1>1, ActiveAgain DEF AloneInv, DuplicatesOnlyWithinTurn
<1>2. CASE AddOne(a)
  <2>1. PICK k \in ToAdd(a), e \in Ids :
           /\ e = built[a][k] /\ memory[e].user = user[a]
           /\ memory'[e] \in [status : {"active"},
                              user : {memory[e].user}, content : {memory[e].content},
                              replaces : {memory[e].replaces},
                              superseded_by : {memory[e].superseded_by},
                              turn : {memory[e].turn}]
           /\ \A i \in Ids : i # e => memory'[i] = memory[i]
    BY <1>2, AddDetail
  <2>2. /\ k \in Creates(plan[a]) /\ pc[a] = "apply" /\ ToRetire(a) = {}
        /\ memory[e].content = plan[a].acts[k].content /\ memory[e].turn = turn[a]
    BY <1>2, <2>1 DEF AddOne, ToAdd, HistoryInv, EntriesCarry
  <2>3. ASSUME NEW i \in Ids, Active(i), memory[i].user = user[a],
               memory[i].content = memory[e].content
        PROVE  memory[i].turn = turn[a]
    <3>1. ASSUME i \in Shown(a) PROVE FALSE
      <4>1. PICK j \in Retirements(plan[a]) : plan[a].acts[j].memory_id = i
        BY <2>2, <2>3, <3>1 DEF AloneInv, MatchesRetire
      <4>2. j \in done[a]
        BY <2>2 DEF ToRetire
      <4>3. QED BY <2>3, <4>1, <4>2 DEF IInv, AgentInv, RetirementsFirst
    <3>2. QED BY <2>2, <2>3, <3>1 DEF AloneInv, SnapshotComplete
  <2>4. ASSUME NEW i \in Ids, NEW j \in Ids, Active(i)', Active(j)',
               memory'[i].user = memory'[j].user, memory'[i].content = memory'[j].content
        PROVE  memory'[i].turn = memory'[j].turn
    <3>1. \A x \in Ids : memory'[x].turn = memory[x].turn
                         /\ memory'[x].user = memory[x].user
                         /\ memory'[x].content = memory[x].content
                         /\ (x # e /\ Active(x)' => Active(x))
      BY <2>1 DEF Active
    <3>2. CASE i = e /\ j # e
      BY <2>1, <2>2, <2>3, <2>4, <3>1, <3>2
    <3>3. CASE i # e /\ j = e
      BY <2>1, <2>2, <2>3, <2>4, <3>1, <3>3
    <3>4. CASE i # e /\ j # e
      BY <2>4, <3>1, <3>4 DEF AloneInv, DuplicatesOnlyWithinTurn
    <3>5. QED BY <3>2, <3>3, <3>4
  <2>5. QED BY <2>4 DEF DuplicatesOnlyWithinTurn
<1>3. QED BY <1>1, <1>2

(* An agent alone with its store leaves no user with the same active memory *)
(* twice, but for a batch that holds one content twice: what a failed       *)
(* interaction stored is read, and matched, by the one that tries again.    *)
THEOREM NoDuplicates ==
    ASSUME OneAgent
    PROVE  Spec => []DuplicatesOnlyWithinTurn
<1>1. Init => AloneInv
  <2>1. Creates(NoPlan) = {}
    BY DEF NoPlan, Creates
  <2>2. Init => \A i \in Ids : ~ Active(i)
    BY DEF Init, Active, Unused
  <2>3. QED BY <2>1, <2>2 DEF Init, AloneInv, DuplicatesOnlyWithinTurn,
                SnapshotComplete, MatchesRetire
<1>2. IInv /\ HistoryInv /\ AloneInv /\ [Next]_vars => AloneInv'
  <2> SUFFICES ASSUME IInv, HistoryInv, AloneInv, [Next]_vars PROVE AloneInv'
    OBVIOUS
  <2>1. ASSUME NEW a \in Agents, Step(a) \/ \E u \in Users : Start(a, u)
        PROVE  AloneInv'
    <3>1. \A b \in Agents : b = a
      BY DEF OneAgent
    <3>2. SnapshotComplete(a)' /\ MatchesRetire(a)'
      BY <2>1, SnapshotKept, MatchesKept
    <3>3. DuplicatesOnlyWithinTurn'
      BY <2>1, DuplicatesKept
    <3>4. QED BY <3>1, <3>2, <3>3 DEF AloneInv
  <2>2. CASE UNCHANGED vars
    BY <2>2 DEF vars, AloneInv, DuplicatesOnlyWithinTurn, SnapshotComplete,
                MatchesRetire, Active, Shown
  <2>3. QED BY <2>1, <2>2, Steps
<1>3. AloneInv => DuplicatesOnlyWithinTurn
  BY DEF AloneInv
<1>4. QED BY <1>1, <1>2, <1>3, InvariantHolds, HistoryHolds, PTL DEF Spec

-----------------------------------------------------------------------------
(* The alone agent, without a controller that writes retirements of its     *)
(* own and without superseded memories in its context.                      *)
RetiresAlone == OneAgent /\ ~ WantsInactive /\ Grants = "none"

LEMMA OnceKept ==
    ASSUME IInv, OnceInv, RetiresAlone,
           NEW a \in Agents, Step(a) \/ \E u \in Users : Start(a, u)
    PROVE  RetiresOnce(a)'
<1>1. Creates(NoPlan) = {} /\ Retirements(NoPlan) = {}
  BY DEF NoPlan, Creates, Retirements
<1>2. CASE pc'[a] = "idle" /\ plan'[a] = NoPlan /\ Shown(a)' = {}
  BY <1>1, <1>2 DEF RetiresOnce
<1>3. ASSUME NEW u \in Users, Start(a, u) PROVE RetiresOnce(a)'
  <2>1. plan'[a] = NoPlan /\ pc'[a] # "read" /\ UNCHANGED memory
    BY <1>3 DEF Start, ledger, RetiresAlone, IInv, TypeOK, AgentInv, NothingBeforePlan, Applying
  <2>2. \A i \in Shown(a)' : Active(i)'
    BY <1>3, <2>1 DEF Start, Shown, Active, IInv, TypeOK
  <2>3. QED BY <1>1, <2>1, <2>2 DEF RetiresOnce
<1>4. CASE ReadSuperseded(a)
  BY <1>4 DEF ReadSuperseded, OnceInv, RetiresOnce
<1>5. CASE Plan(a)
  <2>1. PICK pl : \E b \in Batches, x \in Extractions, s \in Translations :
           /\ pl = ValidActions(a, b, x, s)
           /\ plan'[a] = pl
           /\ \A k \in Creates(pl) : memory[built'[a][k]].status = "unused"
           /\ \A i \in Ids : \/ memory'[i] = memory[i]
                             \/ \E k \in Creates(pl) : built'[a][k] = i
    BY <1>5, PlanDetail
  <2>2. PICK b \in Batches, x \in Extractions, s \in Translations :
           /\ pl = ValidActions(a, b, x, s)
           /\ plan'[a] = pl
           /\ \A k \in Creates(pl) : memory[built'[a][k]].status = "unused"
           /\ \A i \in Ids : \/ memory'[i] = memory[i]
                             \/ \E k \in Creates(pl) : built'[a][k] = i
    BY <2>1
  <2>3. Shown(a)' = Shown(a) /\ pc'[a] = "apply" /\ done[a] = {}
    BY <1>5 DEF Plan, Shown, IInv, TypeOK, AgentInv, NothingBeforePlan, Applying
  <2>4. Retirements(plan[a]) \cap done[a] = {}
    BY <2>3
  <2>5. \A i \in Shown(a) : i \in Ids /\ Active(i)
    BY <2>4 DEF OnceInv, RetiresOnce, Shown
  <2>6. \A i \in Shown(a) : Active(i)'
    BY <2>2, <2>5 DEF Active
  <2>7. \A j, k \in Retirements(pl) : pl.acts[j].memory_id = pl.acts[k].memory_id => j = k
    BY <2>2, ValidActionsRetireOnce DEF RetiresAlone
  <2>8. QED BY <2>2, <2>3, <2>6, <2>7 DEF RetiresOnce
<1>6. CASE /\ FetchOne(a) \/ RetireOne(a) \/ AddOne(a) \/ Applied(a)
           /\ pc[a] \in {"apply", "write"} /\ UNCHANGED <<turn, user, seen, plan>>
  <2>1. pc'[a] # "read"
    BY <1>6 DEF FetchOne, RetireOne, AddOne, Applied, IInv, TypeOK
  <2>2. \A j, k \in Retirements(plan[a]) :
           plan[a].acts[j].memory_id = plan[a].acts[k].memory_id => j = k
    BY DEF OnceInv, RetiresOnce
  <2>3. ASSUME NEW i \in Shown(a)
        PROVE  Active(i)' \/ \E k \in Retirements(plan[a]) \cap done'[a] :
                                plan[a].acts[k].memory_id = i
    <3>1. Active(i) \/ \E k \in Retirements(plan[a]) \cap done[a] :
                          plan[a].acts[k].memory_id = i
      BY DEF OnceInv, RetiresOnce
    <3>2. i \in Ids
      BY DEF Shown
    <3>3. CASE FetchOne(a) \/ Applied(a)
      BY <3>1, <3>3 DEF FetchOne, Applied, local, ledger, Active
    <3>4. CASE RetireOne(a)
      <4>1. PICK k \in ToRetire(a), m \in Ids :
               /\ m = plan[a].acts[k].memory_id
               /\ \A i_1 \in Ids : i_1 # m => memory'[i_1] = memory[i_1]
               /\ done'[a] = done[a] \cup {k}
        BY <3>4, RetireDetail
      <4>2. QED BY <3>1, <3>2, <4>1 DEF Active, ToRetire
    <3>5. CASE AddOne(a)
      <4>1. PICK k \in ToAdd(a), e \in Ids :
               /\ memory[e].status = "built"
               /\ \A i_1 \in Ids : i_1 # e => memory'[i_1] = memory[i_1]
               /\ done'[a] = done[a] \cup {k}
        BY <3>5, AddDetail
      <4>2. QED BY <3>1, <3>2, <4>1 DEF Active
    <3>6. QED BY <1>6, <3>3, <3>4, <3>5
  <2>4. QED BY <1>6, <2>1, <2>2, <2>3 DEF RetiresOnce, Shown
<1>7. QED BY <1>2, <1>3, <1>4, <1>5, <1>6, ShownKept

LEMMA CountKept ==
    ASSUME IInv, OnceInv, NEW a \in Agents, Step(a) \/ \E u \in Users : Start(a, u),
           NEW i \in Ids
    PROVE  retirements'[i] <= IF RetiredInStore(i)' THEN 1 ELSE 0
<1>1. retirements[i] \in Nat /\ retirements[i] <= IF RetiredInStore(i) THEN 1 ELSE 0
  BY DEF OnceInv, IInv, TypeOK
<1>2. RetiredInStore(i) => RetiredInStore(i)'
  BY EntriesKept DEF EntryKept
<1>3. CASE RetireOne(a)
  <2>1. PICK k \in ToRetire(a), m \in Ids :
           /\ m = plan[a].acts[k].memory_id /\ m \in Shown(a)
           /\ memory'[m] \in [status : {"superseded", "forgotten"},
                              user : {memory[m].user}, content : {memory[m].content},
                              replaces : {memory[m].replaces},
                              superseded_by : {fetched[a], Replacement(a, m)},
                              turn : {memory[m].turn}]
           /\ retirements'[m] = retirements[m] + 1
           /\ \A i_1 \in Ids : i_1 # m => retirements'[i_1] = retirements[i_1]
    BY <1>3, RetireDetail
  <2>2. CASE i = m
    <3>1. Active(m)
      BY <2>1 DEF OnceInv, RetiresOnce, ToRetire
    <3>2. ~ RetiredInStore(m) /\ RetiredInStore(m)'
      BY <2>1, <3>1 DEF Active, RetiredInStore
    <3>3. QED BY <1>1, <2>1, <2>2, <3>2
  <2>3. CASE i # m
    BY <1>1, <1>2, <2>1, <2>3
  <2>4. QED BY <2>2, <2>3
<1>4. CASE ~ RetireOne(a)
  <2>1. UNCHANGED retirements
    BY <1>4 DEF Step, Progress, Fails, Start, ReadSuperseded, Plan, PlanFails, FetchOne,
                AddOne, Applied, ApplyFails, Respond, ModelFails, ledger
  <2>2. QED BY <1>1, <1>2, <2>1
<1>5. QED BY <1>3, <1>4

LEMMA OnceHolds ==
    ASSUME RetiresAlone
    PROVE  Spec => []OnceInv
<1>1. Init => OnceInv
  <2>1. Retirements(NoPlan) = {}
    BY DEF NoPlan, Retirements
  <2>2. QED BY <2>1 DEF Init, OnceInv, RetiresOnce, RetiredInStore, Unused, Shown, Nothing
<1>2. IInv /\ OnceInv /\ [Next]_vars => OnceInv'
  <2> SUFFICES ASSUME IInv, OnceInv, [Next]_vars PROVE OnceInv'
    OBVIOUS
  <2>1. ASSUME NEW a \in Agents, Step(a) \/ \E u \in Users : Start(a, u)
        PROVE  OnceInv'
    <3>1. \A b \in Agents : b = a
      BY DEF RetiresAlone, OneAgent
    <3>2. RetiresOnce(a)'
      BY <2>1, OnceKept
    <3>3. \A i \in Ids : retirements'[i] <= IF RetiredInStore(i)' THEN 1 ELSE 0
      BY <2>1, CountKept
    <3>4. QED BY <3>1, <3>2, <3>3 DEF OnceInv
  <2>2. CASE UNCHANGED vars
    BY <2>2 DEF vars, OnceInv, RetiresOnce, RetiredInStore, Active, Shown
  <2>3. QED BY <2>1, <2>2, Steps
<1>3. QED BY <1>1, <1>2, InvariantHolds, PTL DEF Spec

(* An agent alone with its store supersedes or forgets a memory once in its *)
(* life, through any failure of its interactions: one batch retires it at   *)
(* most once, and the next interaction no longer reads it.                  *)
THEOREM RetiredOnce ==
    ASSUME RetiresAlone
    PROVE  Spec => []NoDoubleRetirement
<1>1. IInv /\ OnceInv => NoDoubleRetirement
  <2> SUFFICES ASSUME IInv, OnceInv, NEW i \in Ids PROVE retirements[i] <= 1
    BY DEF NoDoubleRetirement
  <2>1. retirements[i] \in Nat /\ retirements[i] <= IF RetiredInStore(i) THEN 1 ELSE 0
    BY DEF OnceInv, IInv, TypeOK
  <2>2. QED BY <2>1
<1>2. QED BY <1>1, InvariantHolds, OnceHolds, PTL

-----------------------------------------------------------------------------
(* The lifecycle the readers of the store see. *)

LEMMA LedgerSame ==
    ASSUME \A i \in Ids : \/ memory'[i] = memory[i]
                          \/ ~ InStore(i) /\ ~ InStore(i)'
    PROVE  UNCHANGED Ledger
  BY DEF Ledger, InStore

LEMMA AddRemembers ==
    ASSUME IInv, HistoryInv, NEW a \in Agents, AddOne(a)
    PROVE  \E i \in Ids, u \in Users, c \in Contents :
              Ledger[i] = None
              /\ Ledger' = [Ledger EXCEPT ![i] = [status |-> "active", user |-> u, content |-> c]]
<1>1. PICK k \in ToAdd(a), e \in Ids :
         /\ e = built[a][k] /\ memory[e].status = "built"
         /\ memory[e].user = user[a] /\ user[a] \in Users
         /\ memory'[e] \in [status : {"active"},
                            user : {memory[e].user}, content : {memory[e].content},
                            replaces : {memory[e].replaces},
                            superseded_by : {memory[e].superseded_by},
                            turn : {memory[e].turn}]
         /\ \A i \in Ids : i # e => memory'[i] = memory[i]
  BY AddDetail
<1>2. k \in Creates(plan[a]) /\ Applying(a)
  BY DEF AddOne, ToAdd, Applying
<1>3. memory[e].content = plan[a].acts[k].content
  BY <1>1, <1>2 DEF HistoryInv, EntriesCarry
<1>4. PICK c \in Contents : c = memory[e].content
  BY <1>2, <1>3, PlanFacts, ActionShape DEF GoodPlan, Plans, Creates
<1>5. PICK u \in Users : u = memory[e].user
  BY <1>1
<1>6. Ledger[e] = None
  BY <1>1 DEF Ledger, InStore, Stored
<1>7. \A i \in Ids : Ledger'[i] = IF i = e THEN [status |-> "active", user |-> u, content |-> c]
                                            ELSE Ledger[i]
  BY <1>1, <1>4, <1>5 DEF Ledger, InStore, Stored
<1>8. Ledger' = [Ledger EXCEPT ![e] = [status |-> "active", user |-> u, content |-> c]]
  BY <1>7 DEF Ledger
<1>9. QED BY <1>6, <1>8

Marks(m, s) == Ledger' = [Ledger EXCEPT ![m].status = s]

LEMMA RetireMarks ==
    ASSUME IInv, NEW a \in Agents, RetireOne(a)
    PROVE  \E k \in ToRetire(a), m \in Ids, s \in {"superseded", "forgotten"} :
              /\ m = plan[a].acts[k].memory_id /\ m \in Shown(a)
              /\ Ledger[m] # None
              /\ Ledger[m].status = memory[m].status
              /\ Marks(m, s)
<1>1. PICK k \in ToRetire(a), m \in Ids :
         /\ m = plan[a].acts[k].memory_id /\ m \in Shown(a) /\ InStore(m)
         /\ memory'[m] \in [status : {"superseded", "forgotten"},
                            user : {memory[m].user}, content : {memory[m].content},
                            replaces : {memory[m].replaces},
                            superseded_by : {fetched[a], Replacement(a, m)},
                            turn : {memory[m].turn}]
         /\ \A i \in Ids : i # m => memory'[i] = memory[i]
  BY RetireDetail
<1>2. Ledger[m] = [status |-> memory[m].status, user |-> memory[m].user,
                   content |-> memory[m].content]
  BY <1>1 DEF Ledger
<1>3. Ledger[m] # None
  <2>1. memory[m] \in Entries
    BY DEF IInv, TypeOK
  <2>2. Ledger[m] \in [status : Stored, user : Users \cup {None}, content : Contents \cup {None}]
    <3>1. /\ memory[m].status \in Stored
          /\ memory[m].user \in Users \cup {None} /\ memory[m].content \in Contents \cup {None}
      BY <1>1, <2>1 DEF Entries, InStore
    <3>2. QED BY <1>2, <3>1
  <2>3. QED BY <2>2, LedgerAssumption
<1>4. PICK s \in {"superseded", "forgotten"} : s = memory'[m].status
  BY <1>1
<1>5. Ledger'[m] = [status |-> s, user |-> memory[m].user, content |-> memory[m].content]
  BY <1>1, <1>4 DEF Ledger, InStore, Stored
<1>6. Ledger'[m] = [Ledger[m] EXCEPT !.status = s]
  BY <1>2, <1>5
<1>7. \A i \in Ids : i # m => Ledger'[i] = Ledger[i]
  BY <1>1 DEF Ledger, InStore
<1>8. Ledger' = [Ledger EXCEPT ![m] = [Ledger[m] EXCEPT !.status = s]]
  BY <1>6, <1>7 DEF Ledger
<1>9. Marks(m, s)
  BY <1>8 DEF Marks
<1>10. /\ m = plan[a].acts[k].memory_id /\ m \in Shown(a)
       /\ Ledger[m].status = memory[m].status
  <2>1. \A status, owner, said :
            [status |-> status, user |-> owner, content |-> said].status = status
    OBVIOUS
  <2>2. Ledger[m].status = memory[m].status
    BY <1>2, <2>1
  <2>3. QED BY <1>1, <2>2, Zenon
<1>11. QED BY <1>3, <1>9, <1>10, Zenon

LEMMA LedgerSteps ==
    ASSUME IInv, NEW a \in Agents, Step(a) \/ \E u \in Users : Start(a, u),
           ~ AddOne(a), ~ RetireOne(a)
    PROVE  UNCHANGED Ledger
<1>1. CASE Quiet(a)
  BY <1>1, QuietSteps, LedgerSame
<1>2. CASE Plan(a)
  <2>1. PICK pl : /\ \A k \in Creates(pl) : memory[built'[a][k]].status = "unused"
                  /\ \A k \in Creates(pl) : memory'[built'[a][k]] = NewEntry(a, pl.acts[k])
                  /\ \A i \in Ids : \/ memory'[i] = memory[i]
                                    \/ \E k \in Creates(pl) : built'[a][k] = i
    BY <1>2, PlanDetail
  <2>2. \A act : NewEntry(a, act).status = "built"
    BY DEF NewEntry
  <2>3. QED BY <2>1, <2>2, LedgerSame DEF InStore, Stored
<1>3. CASE ApplyFails(a)
  <2>1. \A i \in Ids : \/ memory'[i] = memory[i]
                       \/ memory[i].status = "built" /\ memory'[i].status = "lost"
    BY <1>3, FailDetail
  <2>2. QED BY <2>1, LedgerSame DEF InStore, Stored
<1>4. QED BY <1>1, <1>2, <1>3 DEF Quiet, Step, Progress, Fails

LEMMA LedgerInit == Init => Ledger = [i \in Ids |-> None]
  BY DEF Init, Ledger, InStore, Unused, Stored

(* Whatever the agents do, the store is a ledger: memories appear active,   *)
(* keep owner and content, are only ever marked retired, never deleted and  *)
(* never active again.                                                      *)
THEOREM KeepsLooseLifecycle == Spec => ImplementsLooseLifecycle
<1>1. Init => LooseLifecycle!LInit
  BY LedgerInit DEF LooseLifecycle!LInit
<1>2. IInv /\ HistoryInv /\ [Next]_vars => [LooseLifecycle!LNext]_Ledger
  <2> SUFFICES ASSUME IInv, HistoryInv, [Next]_vars
               PROVE  LooseLifecycle!LNext \/ UNCHANGED Ledger
    OBVIOUS
  <2>1. ASSUME NEW a \in Agents, AddOne(a) PROVE LooseLifecycle!LNext
    BY <2>1, AddRemembers DEF LooseLifecycle!LNext, LooseLifecycle!Remember
  <2>2. ASSUME NEW a \in Agents, RetireOne(a) PROVE LooseLifecycle!LNext
    BY <2>2, RetireMarks
       DEF LooseLifecycle!LNext, LooseLifecycle!Retire, LooseLifecycle!RetiredStatuses, Marks
  <2>3. CASE UNCHANGED vars
    BY <2>3 DEF vars, Ledger, InStore
  <2>4. QED BY <2>1, <2>2, <2>3, Steps, LedgerSteps
<1>3. QED BY <1>1, <1>2, InvariantHolds, HistoryHolds, PTL
      DEF Spec, ImplementsLooseLifecycle, LooseLifecycle!LSpec

(* For an agent alone with its store, the strict lifecycle: only an active  *)
(* memory is ever retired.                                                  *)
THEOREM KeepsStrictLifecycle ==
    ASSUME RetiresAlone
    PROVE  Spec => ImplementsStrictLifecycle
<1>1. Init => StrictLifecycle!LInit
  BY LedgerInit DEF StrictLifecycle!LInit
<1>2. IInv /\ HistoryInv /\ OnceInv /\ [Next]_vars => [StrictLifecycle!LNext]_Ledger
  <2> SUFFICES ASSUME IInv, HistoryInv, OnceInv, [Next]_vars
               PROVE  StrictLifecycle!LNext \/ UNCHANGED Ledger
    OBVIOUS
  <2>1. ASSUME NEW a \in Agents, AddOne(a) PROVE StrictLifecycle!LNext
    BY <2>1, AddRemembers DEF StrictLifecycle!LNext, StrictLifecycle!Remember
  <2>2. ASSUME NEW a \in Agents, RetireOne(a) PROVE StrictLifecycle!LNext
    <3>1. PICK k \in ToRetire(a), m \in Ids, s \in {"superseded", "forgotten"} :
             /\ m = plan[a].acts[k].memory_id /\ m \in Shown(a)
             /\ Ledger[m] # None
             /\ Ledger[m].status = memory[m].status
             /\ Marks(m, s)
      BY <2>2, RetireMarks
    <3>2. Active(m)
      BY <3>1 DEF OnceInv, RetiresOnce, ToRetire
    <3>3. StrictLifecycle!Retire(m, s)
      BY <3>1, <3>2 DEF StrictLifecycle!Retire, Active, Marks
    <3>4. QED BY <3>3 DEF StrictLifecycle!LNext, StrictLifecycle!RetiredStatuses
  <2>3. CASE UNCHANGED vars
    BY <2>3 DEF vars, Ledger, InStore
  <2>4. QED BY <2>1, <2>2, <2>3, Steps, LedgerSteps
<1>3. QED BY <1>1, <1>2, InvariantHolds, HistoryHolds, OnceHolds, PTL
      DEF Spec, ImplementsStrictLifecycle, StrictLifecycle!LSpec
=============================================================================
