----------------------- MODULE ExperienceManagerProofs -----------------------
(***************************************************************************)
(* Proofs about ExperienceManager, for policies that return any number of  *)
(* any proposals: what reaches the engine is ManagerOutput, resolution     *)
(* keeps a supersede and its replacement together, and its loops compute   *)
(* the resolution that is documented (ResolutionIsDocumented).             *)
(***************************************************************************)
EXTENDS ExperienceManager, TLAPS

LEMMA AcceptedShape ==
    ASSUME NEW p \in Accepted
    PROVE  /\ p.act \in MemoryAction
           /\ IsCreate(p.act) <=> ~ Retires(p.act)
           /\ p.act.action \in {"create", "supersede", "forget"}
           /\ Retires(p.act) /\ p.act.action # "forget" => p.act = Supersede(p.act.memory_id)
<1>1. p.act \in MemoryAction
  BY DEF Accepted
<1>2. QED BY <1>1 DEF MemoryAction, IsCreate, Retires, RetireActions, Supersede

(* Contradiction is an equivalence on what was accepted: same target, or    *)
(* same created content.                                                    *)
LEMMA ContradictsEquivalence ==
    ASSUME NEW p \in Accepted, NEW q \in Accepted, NEW r \in Accepted
    PROVE  /\ Contradicts(p, p)
           /\ Contradicts(p, q) => Contradicts(q, p)
           /\ Contradicts(p, q) /\ Contradicts(q, r) => Contradicts(p, r)
  BY AcceptedShape DEF Contradicts, SameTarget, SameCreate, IsCreate, Retires, RetireActions

(* Whichever of two that contradict each other is kept, the places both     *)
(* hold are held still.                                                     *)
LEMMA OutranksHolds ==
    ASSUME NEW p \in Accepted, NEW q \in Accepted, NEW r \in Accepted
    PROVE  /\ Outranks(p, q) /\ Holds(q, r) => Holds(p, r)
           /\ Outranks(p, q) => Holds(p, p)
           /\ Contradicts(p, q) /\ ~ Outranks(p, q) => Holds(q, p)
<1>1. Outranks(p, q) => Contradicts(p, q) /\ p.act.action = "forget"
  BY DEF Outranks, Contradicts
<1>2. ASSUME Contradicts(p, q), ~ Outranks(p, q), p.act.action = "forget"
      PROVE  q.act.action = "forget"
  <2>1. SameTarget(p, q)
    BY <1>2 DEF Contradicts, SameCreate, IsCreate
  <2>2. q.act.action \in {"supersede", "forget"}
    BY <2>1 DEF SameTarget, Retires, RetireActions
  <2>3. QED BY <1>2, <2>1, <2>2 DEF Outranks
<1>3. QED BY <1>1, <1>2, ContradictsEquivalence DEF Holds

LEMMA InitGood == Init => ManagerInv
<1> SUFFICES ASSUME Init PROVE ManagerInv
  OBVIOUS
<1>1. TypeOK
  BY DEF Init, TypeOK, PCs
<1>2. QED BY <1>1 DEF Init, ManagerInv, ReasonIsTrue, ValidatedProposed, ResultIsResolved,
             PlacesKept, AnswerIsFiltered, Resolving, Filtering

(* A batch that is discarded leaves nothing behind. *)
LEMMA EmptyGood ==
    ASSUME ManagerInv, NoLists, next' = 1, pc' \in {"call", "raised"},
           source' \in {"primary", "fallback"}, reason' \in Reasons \cup {None},
           ReasonIsTrue'
    PROVE  ManagerInv'
<1>1. TypeOK'
  BY DEF NoLists, TypeOK, PCs
<1>2. QED BY <1>1 DEF NoLists, ManagerInv, ValidatedProposed, ResultIsResolved,
             PlacesKept, AnswerIsFiltered, Resolving, Filtering

LEMMA RefuseGood ==
    ASSUME ManagerInv, NEW r \in Reasons, Refuse(r)
    PROVE  ManagerInv'
<1>1. ReasonIsTrue /\ source \in {"primary", "fallback"} /\ reason \in Reasons \cup {None}
  BY DEF ManagerInv, TypeOK
<1>2. ReasonIsTrue' /\ source' \in {"primary", "fallback"} /\ reason' \in Reasons \cup {None}
  BY <1>1, ManagerAssumption DEF Refuse, ReasonIsTrue
<1>3. QED BY <1>2, EmptyGood DEF Refuse

(* Any batch may be handed over when the call starts.                       *)
LEMMA HandedGood ==
    ASSUME ManagerInv, pc = "call", pc' = "validate", proposals' \in Seq(Proposals),
           UNCHANGED <<source, reason, next, validated, result, answer>>
    PROVE  ManagerInv'
<1>1. TypeOK'
  BY DEF ManagerInv, TypeOK, PCs
<1>2. validated = <<>> /\ result = <<>> /\ answer = <<>> /\ next = 1
  BY DEF ManagerInv, ValidatedProposed, ResultIsResolved, AnswerIsFiltered,
         Resolving, Filtering
<1>3. \A j \in DOMAIN proposals' : ~ j < next'
  BY <1>2
<1>4. ValidatedProposed'
  BY <1>2, <1>3 DEF ValidatedProposed
<1>5. QED BY <1>1, <1>2, <1>4 DEF ManagerInv, ReasonIsTrue, ResultIsResolved,
             PlacesKept, AnswerIsFiltered, Resolving, Filtering

LEMMA ProposeGood ==
    ASSUME ManagerInv, Propose
    PROVE  ManagerInv'
<1>1. PICK n \in 0 .. MaxProposals : proposals' \in [1 .. n -> Proposals]
  BY DEF Propose
<1>2. proposals' \in Seq(Proposals)
  BY <1>1, ManagerAssumption
<1>3. QED BY <1>2, HandedGood DEF Propose

(* A step of the validation loop. *)
LEMMA ValidateGood ==
    ASSUME ManagerInv, ValidateOne
    PROVE  ManagerInv'
<1>1. /\ pc = "validate" /\ next \in DOMAIN proposals /\ proposals[next].valid
      /\ pc' = pc /\ next' = next + 1 /\ source' = source /\ reason' = reason
      /\ proposals' = proposals /\ result' = result /\ answer' = answer
  BY DEF ValidateOne
<1>2. TypeOK /\ result = <<>> /\ answer = <<>>
  BY <1>1 DEF ManagerInv, ResultIsResolved, AnswerIsFiltered, Resolving, Filtering
<1>3. CASE proposals[next].act = Noop
  <2>1. validated' = validated
    BY <1>3 DEF ValidateOne
  <2>2. \A j \in DOMAIN proposals : j < next + 1 => j < next \/ j = next
    BY <1>2 DEF TypeOK
  <2>3. ValidatedProposed'
    BY <1>1, <1>3, <2>1, <2>2 DEF ManagerInv, ValidatedProposed
  <2>4. TypeOK'
    BY <1>1, <1>2, <2>1 DEF TypeOK
  <2>5. QED BY <1>1, <1>2, <2>1, <2>3, <2>4 DEF ManagerInv, ReasonIsTrue,
             ResultIsResolved, PlacesKept, AnswerIsFiltered, Resolving, Filtering
<1>4. CASE proposals[next].act # Noop
  <2> DEFINE p == proposals[next]
  <2>1. validated' = Append(validated, p)
    BY <1>4 DEF ValidateOne
  <2>2. p \in Accepted
    <3>1. p \in Proposals
      BY <1>1, <1>2 DEF TypeOK
    <3>2. QED BY <1>1, <1>4, <3>1 DEF Proposals, Accepted
  <2>3. validated' \in Seq(Accepted)
    BY <1>2, <2>1, <2>2 DEF TypeOK
  <2>4. TypeOK'
    BY <1>1, <1>2, <2>3 DEF TypeOK
  <2>5. ValidatedProposed'
    <3>1. validated \in Seq(Accepted) /\ validated' = Append(validated, p)
      BY <1>2, <2>1 DEF TypeOK
    <3>2. /\ DOMAIN validated' = DOMAIN validated \cup {Len(validated) + 1}
          /\ validated'[Len(validated) + 1] = p
          /\ \A k \in DOMAIN validated : validated'[k] = validated[k]
      BY <3>1
    <3>3. \A k \in DOMAIN validated' : \E j \in DOMAIN proposals : validated'[k] = proposals[j]
      BY <1>1, <3>2 DEF ManagerInv, ValidatedProposed
    <3>4. \A j \in DOMAIN proposals : j < next + 1 => j < next \/ j = next
      BY <1>2 DEF TypeOK
    <3>5. \A j \in DOMAIN proposals : j < next + 1 /\ proposals[j].act # Noop =>
              \E k \in DOMAIN validated' : validated'[k] = proposals[j]
      BY <1>1, <3>2, <3>4 DEF ManagerInv, ValidatedProposed
    <3>6. QED BY <1>1, <3>3, <3>5 DEF ValidatedProposed
  <2>6. QED BY <1>1, <1>2, <2>4, <2>5 DEF ManagerInv, ReasonIsTrue,
             ResultIsResolved, PlacesKept, AnswerIsFiltered, Resolving, Filtering
<1>5. QED BY <1>3, <1>4

(* The steps that end a loop, and the answer: only pc and next change.      *)
LEMMA LoopEnds ==
    ASSUME ManagerInv, ValidateDone \/ ResolveDone \/ FilterDone \/ Answer
    PROVE  ManagerInv'
<1>1. /\ UNCHANGED <<source, reason, proposals, validated, result, answer>>
      /\ next' \in {1, next}
  BY DEF ValidateDone, ResolveDone, FilterDone, Answer, lists
<1>2. TypeOK'
  BY <1>1 DEF ManagerInv, TypeOK, PCs, ValidateDone, ResolveDone, FilterDone, Answer
<1>3. ReasonIsTrue'
  BY <1>1 DEF ManagerInv, ReasonIsTrue
<1> USE DEF ValidatedProposed, ResultIsResolved, PlacesKept, AnswerIsFiltered,
            Resolving, Filtering
<1>4. CASE ValidateDone
  <2>1. pc = "validate" /\ pc' = "resolve" /\ next' = 1 /\ result = <<>> /\ answer = <<>>
    BY <1>4 DEF ValidateDone, ManagerInv
  <2>2. \A j \in DOMAIN validated : ~ j < 1
    BY DEF ManagerInv, TypeOK
  <2>3. \A j \in DOMAIN proposals : j < next
    <3>1. next \in Nat \ {0} /\ proposals \in Seq(Proposals) /\ next \notin DOMAIN proposals
      BY <1>4 DEF ManagerInv, TypeOK, ValidateDone
    <3>2. QED BY <3>1
  <2>4. ValidatedProposed'
    BY <1>1, <2>1, <2>3 DEF ManagerInv
  <2>5. QED BY <1>1, <1>2, <1>3, <2>1, <2>2, <2>4 DEF ManagerInv
<1>5. CASE ResolveDone
  <2>1. pc = "resolve" /\ pc' = "filter" /\ next' = 1 /\ answer = <<>>
        /\ next \notin DOMAIN validated
    BY <1>5 DEF ResolveDone, ManagerInv
  <2>2. \A j \in DOMAIN result : ~ j < 1
    BY DEF ManagerInv, TypeOK
  <2>3. PlacesKept'
    <3>1. \A j \in DOMAIN validated : j < next
      <4>1. next \in Nat \ {0} /\ validated \in Seq(Accepted)
        BY DEF ManagerInv, TypeOK
      <4>2. QED BY <2>1, <4>1
    <3>2. QED BY <1>1, <2>1, <3>1 DEF ManagerInv
  <2>4. AnswerIsFiltered'
    BY <1>1, <2>1, <2>2
  <2>5. QED BY <1>1, <1>2, <1>3, <2>1, <2>3, <2>4 DEF ManagerInv
<1>6. CASE FilterDone
  <2>1. pc = "filter" /\ pc' = "check" /\ next \notin DOMAIN result
    BY <1>6 DEF FilterDone
  <2>2. \A j \in DOMAIN result : j < next
    <3>1. next \in Nat \ {0} /\ result \in Seq(Accepted)
      BY DEF ManagerInv, TypeOK
    <3>2. QED BY <2>1, <3>1
  <2>3. AnswerIsFiltered'
    BY <1>1, <2>1, <2>2 DEF ManagerInv, Orphaned
  <2>4. QED BY <1>1, <1>2, <1>3, <2>1, <2>3 DEF ManagerInv
<1>7. CASE Answer
  <2>1. pc = "check" /\ pc' = "answered"
    BY <1>7 DEF Answer
  <2>2. AnswerIsFiltered'
    BY <1>1, <2>1 DEF ManagerInv, Orphaned
  <2>3. QED BY <1>1, <1>2, <1>3, <2>1, <2>2 DEF ManagerInv
<1>8. QED BY <1>4, <1>5, <1>6, <1>7

(* A step of the resolution loop. *)
LEMMA ResolveGood ==
    ASSUME ManagerInv, ResolveOne
    PROVE  ManagerInv'
<1> DEFINE p == validated[next]
<1>1. /\ pc = "resolve" /\ next \in DOMAIN validated /\ pc' = pc /\ next' = next + 1
      /\ source' = source /\ reason' = reason /\ proposals' = proposals
      /\ validated' = validated /\ answer' = answer
  BY DEF ResolveOne
<1>2. /\ TypeOK /\ p \in Accepted /\ answer = <<>> /\ next \in Nat
      /\ result \in Seq(Accepted) /\ validated \in Seq(Accepted)
  BY <1>1 DEF ManagerInv, TypeOK, AnswerIsFiltered, Filtering
<1>3. /\ \A k \in DOMAIN result : \E j \in DOMAIN validated : result[k] = validated[j]
      /\ \A j, k \in DOMAIN result : Contradicts(result[j], result[k]) => j = k
      /\ \A j \in DOMAIN validated : j < next =>
            \E k \in DOMAIN result : Holds(result[k], validated[j])
  BY <1>1 DEF ManagerInv, ResultIsResolved, PlacesKept, Resolving
<1>4. SUFFICES /\ result' \in Seq(Accepted)
               /\ \A k \in DOMAIN result' : \E j \in DOMAIN validated : result'[k] = validated[j]
               /\ \A j, k \in DOMAIN result' : Contradicts(result'[j], result'[k]) => j = k
               /\ \A j \in DOMAIN validated : j < next + 1 =>
                     \E k \in DOMAIN result' : Holds(result'[k], validated[j])
  <2>1. TypeOK'
    BY <1>1, <1>2 DEF TypeOK
  <2>2. ResultIsResolved' /\ PlacesKept'
    BY <1>1 DEF ResultIsResolved, PlacesKept, Resolving
  <2>3. AnswerIsFiltered'
    BY <1>1, <1>2 DEF AnswerIsFiltered, Filtering
  <2>4. QED BY <1>1, <2>1, <2>2, <2>3 DEF ManagerInv, ReasonIsTrue, ValidatedProposed
<1>5. CASE /\ \E k \in DOMAIN result : Contradicts(p, result[k])
           /\ result' = [k \in DOMAIN result |->
                            IF Outranks(p, result[k]) THEN p ELSE result[k]]
  <2>1. DOMAIN result' = DOMAIN result /\ result' \in Seq(Accepted)
    <3> DEFINE R(k) == IF Outranks(p, result[k]) THEN p ELSE result[k]
    <3>1. /\ DOMAIN result = 1 .. Len(result) /\ Len(result) \in Nat
          /\ \A k \in DOMAIN result : R(k) \in Accepted
      BY <1>2
    <3>2. result' = [k \in 1 .. Len(result) |-> R(k)]
      BY <1>5, <3>1
    <3> HIDE DEF R
    <3>3. QED BY <3>1, <3>2
  <2>2. \A k \in DOMAIN result :
            \/ result'[k] = result[k]
            \/ result'[k] = p /\ SameTarget(p, result[k])
    BY <1>5 DEF Outranks
  <2>3. \A k \in DOMAIN result : result[k] \in Accepted /\ result'[k] \in Accepted
    BY <1>2, <2>1
  <2>4. \A j, k \in DOMAIN result' : Contradicts(result'[j], result'[k]) => j = k
    <3> SUFFICES ASSUME NEW j \in DOMAIN result, NEW k \in DOMAIN result,
                        Contradicts(result'[j], result'[k])
                 PROVE  j = k
      BY <2>1
    <3>1. /\ Contradicts(result[j], result'[j])
          /\ Contradicts(result'[k], result[k])
      BY <1>2, <2>2, <2>3, ContradictsEquivalence DEF Contradicts
    <3>2. Contradicts(result[j], result'[k])
      BY <2>3, <3>1, ContradictsEquivalence
    <3>3. Contradicts(result[j], result[k])
      BY <2>3, <3>1, <3>2, ContradictsEquivalence
    <3>4. QED BY <1>3, <3>3
  <2>5. ASSUME NEW j \in DOMAIN validated, j < next + 1
        PROVE  \E k \in DOMAIN result : Holds(result'[k], validated[j])
    <3>1. validated[j] \in Accepted
      BY <1>2
    <3>2. CASE j < next
      <4>1. PICK k \in DOMAIN result : Holds(result[k], validated[j])
        BY <1>3, <2>5, <3>2
      <4>2. CASE result'[k] = result[k]
        BY <4>1, <4>2
      <4>3. CASE result'[k] = p /\ Outranks(p, result[k])
        BY <1>2, <2>3, <3>1, <4>1, <4>3, OutranksHolds DEF Holds
      <4>4. QED BY <1>5, <4>2, <4>3
    <3>3. CASE j = next
      <4>1. PICK k \in DOMAIN result : Contradicts(p, result[k])
        BY <1>5
      <4>2. /\ Outranks(p, result[k]) => result'[k] = p
            /\ ~ Outranks(p, result[k]) => result'[k] = result[k]
        BY <1>5
      <4>3. QED BY <1>2, <2>3, <3>3, <4>1, <4>2, OutranksHolds
    <3>4. QED BY <1>1, <1>2, <2>5, <3>2, <3>3
  <2>6. \A k \in DOMAIN result' : \E j \in DOMAIN validated : result'[k] = validated[j]
    BY <1>1, <1>3, <2>1, <2>2
  <2>7. QED BY <2>1, <2>4, <2>5, <2>6
<1>6. CASE /\ ~ \E k \in DOMAIN result : Contradicts(p, result[k])
           /\ result' = Append(result, p)
  <2> DEFINE n == Len(result)
  <2>1. /\ result' \in Seq(Accepted) /\ n \in Nat /\ DOMAIN result = 1 .. n
        /\ DOMAIN result' = 1 .. n + 1 /\ result'[n + 1] = p
        /\ \A k \in DOMAIN result : k \in DOMAIN result' /\ result'[k] = result[k]
    BY <1>2, <1>6
  <2>2. \A k \in DOMAIN result : result[k] \in Accepted
    BY <1>2
  <2>3. \A k \in DOMAIN result : ~ Contradicts(p, result[k]) /\ ~ Contradicts(result[k], p)
    BY <1>2, <1>6, <2>2, ContradictsEquivalence
  <2>4. \A k \in DOMAIN result' : k \in DOMAIN result \/ k = n + 1
    BY <2>1
  <2>5. \A j, k \in DOMAIN result' : Contradicts(result'[j], result'[k]) => j = k
    BY <1>3, <2>1, <2>3, <2>4
  <2>6. ASSUME NEW j \in DOMAIN validated, j < next + 1
        PROVE  \E k \in DOMAIN result' : Holds(result'[k], validated[j])
    <3>1. CASE j < next
      BY <1>3, <2>1, <2>6, <3>1
    <3>2. CASE j = next
      <4>1. Holds(p, p)
        BY <1>2, ContradictsEquivalence DEF Holds
      <4>2. n + 1 \in DOMAIN result'
        BY <2>1
      <4>3. QED BY <2>1, <3>2, <4>1, <4>2
    <3>3. QED BY <1>1, <1>2, <2>6, <3>1, <3>2
  <2>7. \A k \in DOMAIN result' : \E j \in DOMAIN validated : result'[k] = validated[j]
    BY <1>1, <1>3, <2>1, <2>4
  <2>8. QED BY <2>1, <2>5, <2>6, <2>7
<1>7. QED BY <1>5, <1>6 DEF ResolveOne

(* A step of the final filter. *)
LEMMA FilterGood ==
    ASSUME ManagerInv, FilterOne
    PROVE  ManagerInv'
<1> DEFINE p == result[next]
<1>1. /\ pc = "filter" /\ next \in DOMAIN result /\ pc' = pc /\ next' = next + 1
      /\ source' = source /\ reason' = reason /\ proposals' = proposals
      /\ validated' = validated /\ result' = result
  BY DEF FilterOne
<1>2. /\ TypeOK /\ p \in Accepted /\ next \in Nat
      /\ result \in Seq(Accepted) /\ answer \in Seq(Accepted)
  BY <1>1 DEF ManagerInv, TypeOK
<1>3. /\ \A j, k \in DOMAIN result : Contradicts(result[j], result[k]) => j = k
      /\ \A k \in DOMAIN answer :
            ~ Orphaned(answer[k]) /\ \E j \in DOMAIN result : answer[k] = result[j] /\ j < next
      /\ \A j, k \in DOMAIN answer : Contradicts(answer[j], answer[k]) => j = k
      /\ \A j \in DOMAIN result : j < next =>
            Orphaned(result[j]) \/ \E k \in DOMAIN answer : answer[k] = result[j]
  BY <1>1 DEF ManagerInv, ResultIsResolved, AnswerIsFiltered, Filtering
<1>4. \A q : Orphaned(q)' <=> Orphaned(q)
  BY <1>1 DEF Orphaned
<1>5. SUFFICES /\ answer' \in Seq(Accepted)
               /\ \A k \in DOMAIN answer' :
                     /\ ~ Orphaned(answer'[k])
                     /\ \E j \in DOMAIN result : answer'[k] = result[j] /\ j < next + 1
               /\ \A j, k \in DOMAIN answer' : Contradicts(answer'[j], answer'[k]) => j = k
               /\ \A j \in DOMAIN result : j < next + 1 =>
                     Orphaned(result[j]) \/ \E k \in DOMAIN answer' : answer'[k] = result[j]
  <2>1. TypeOK'
    BY <1>1, <1>2 DEF TypeOK
  <2>2. AnswerIsFiltered'
    BY <1>1, <1>4 DEF AnswerIsFiltered, Filtering, Orphaned
  <2>3. ResultIsResolved' /\ PlacesKept'
    BY <1>1 DEF ManagerInv, ResultIsResolved, PlacesKept, Resolving, Filtering
  <2>4. QED BY <1>1, <2>1, <2>2, <2>3 DEF ManagerInv, ReasonIsTrue, ValidatedProposed
<1>6. \A j \in DOMAIN result : j < next + 1 => j < next \/ j = next
  BY <1>1, <1>2
<1>7. \A j \in DOMAIN result : j < next => j < next + 1
  BY <1>2
<1>8. CASE Orphaned(p) /\ answer' = answer
  BY <1>1, <1>2, <1>3, <1>6, <1>7, <1>8
<1>9. CASE ~ Orphaned(p) /\ answer' = Append(answer, p)
  <2> DEFINE n == Len(answer)
  <2>1. /\ answer' \in Seq(Accepted) /\ n \in Nat /\ DOMAIN answer = 1 .. n
        /\ DOMAIN answer' = 1 .. n + 1 /\ answer'[n + 1] = p
        /\ \A k \in DOMAIN answer : k \in DOMAIN answer' /\ answer'[k] = answer[k]
        /\ n + 1 \in DOMAIN answer'
    BY <1>2, <1>9
  <2>2. \A k \in DOMAIN answer' : k \in DOMAIN answer \/ k = n + 1
    BY <2>1
  <2>3. \A k \in DOMAIN answer : ~ Contradicts(p, answer[k]) /\ ~ Contradicts(answer[k], p)
    BY <1>1, <1>2, <1>3
  <2>4. \A j, k \in DOMAIN answer' : Contradicts(answer'[j], answer'[k]) => j = k
    BY <1>3, <2>1, <2>2, <2>3
  <2>5. next < next + 1
    BY <1>2
  <2>6. \A k \in DOMAIN answer' : /\ ~ Orphaned(answer'[k])
                                  /\ \E j \in DOMAIN result : answer'[k] = result[j] /\ j < next + 1
    BY <1>1, <1>3, <1>7, <1>9, <2>1, <2>2, <2>5
  <2>7. \A j \in DOMAIN result : j < next + 1 =>
            Orphaned(result[j]) \/ \E k \in DOMAIN answer' : answer'[k] = result[j]
    BY <1>3, <1>6, <2>1
  <2>8. QED BY <2>1, <2>4, <2>6, <2>7
<1>10. QED BY <1>8, <1>9 DEF FilterOne

LEMMA StutterGood ==
    ASSUME ManagerInv, UNCHANGED <<pc, source, reason, proposals, next, validated, result, answer>>
    PROVE  ManagerInv'
<1>1. /\ pc' = pc /\ source' = source /\ reason' = reason /\ next' = next
      /\ proposals' = proposals /\ validated' = validated /\ result' = result
      /\ answer' = answer
  OBVIOUS
<1>2. QED BY <1>1 DEF ManagerInv, TypeOK, ReasonIsTrue, ValidatedProposed,
              ResultIsResolved, PlacesKept, AnswerIsFiltered, Resolving, Filtering,
              Orphaned

LEMMA ReturnGood ==
    ASSUME ManagerInv, Return
    PROVE  ManagerInv'
  BY EmptyGood DEF Return, ReasonIsTrue

-----------------------------------------------------------------------------
(* The loops keep their invariant. *)
THEOREM ManagerInvariantHolds == Spec => []ManagerInv
<1>1. ManagerInv /\ [Next]_vars => ManagerInv'
  <2> SUFFICES ASSUME ManagerInv, [Next]_vars PROVE ManagerInv'
    OBVIOUS
  <2>1. \A r \in Reasons : Refuse(r) => ManagerInv'
    BY RefuseGood
  <2>2. CASE PolicyRaises \/ InvalidProposal \/ TooUncertain
    BY <2>1, <2>2 DEF PolicyRaises, InvalidProposal, TooUncertain, Reasons
  <2>3. CASE Return
    BY <2>3, ReturnGood
  <2>4. CASE UNCHANGED vars
    BY <2>4, StutterGood DEF vars, lists
  <2>5. QED BY <2>2, <2>3, <2>4, ProposeGood, ValidateGood, ResolveGood, FilterGood, LoopEnds
            DEF Next, Work
<1>2. QED BY InitGood, <1>1, PTL DEF Spec

(* Whatever the policy proposes, the engine is handed at most one           *)
(* retirement per memory, and no replacement of a memory the same batch     *)
(* forgets.                                                                 *)
THEOREM AnswersAreManagerOutput == Spec => []AnswerIsManagerOutput
<1>1. ManagerInv => AnswerIsManagerOutput
  <2> SUFFICES ASSUME ManagerInv, pc = "answered" PROVE ManagerOutput(Actions(answer))
    BY DEF AnswerIsManagerOutput, Answered
  <2>1. /\ DOMAIN Actions(answer) = DOMAIN answer
        /\ \A k \in DOMAIN answer : Actions(answer)[k] = answer[k].act
    BY DEF Actions
  <2>2. OneRetirementEach(Actions(answer))
    BY <2>1 DEF ManagerInv, AnswerIsFiltered, OneRetirementEach, Contradicts, SameTarget
  <2>3. NoReplacementOfForgotten(Actions(answer))
    BY <2>1 DEF ManagerInv, AnswerIsFiltered, Filtering, NoReplacementOfForgotten, Orphaned
  <2>4. QED BY <2>2, <2>3 DEF ManagerOutput
<1>2. QED BY <1>1, ManagerInvariantHolds, PTL

LEMMA LinkedAnswer == ManagerInv => CoveredBecomesLinked
<1> SUFFICES ASSUME ManagerInv, pc = "answered", Covered(Actions(validated)),
                    NEW k \in DOMAIN answer, IsCreate(answer[k].act),
                    answer[k].act.replaces # None
             PROVE  \E j \in DOMAIN answer : answer[j].act = Supersede(answer[k].act.replaces)
  BY DEF CoveredBecomesLinked, Answered, Linked, Actions
<1> DEFINE m == answer[k].act.replaces
<1>1. /\ validated \in Seq(Accepted) /\ result \in Seq(Accepted) /\ ~ Orphaned(answer[k])
      /\ \A j \in DOMAIN result : Orphaned(result[j]) \/ \E i \in DOMAIN answer : answer[i] = result[j]
  BY DEF ManagerInv, TypeOK, AnswerIsFiltered, Filtering
<1>2. PICK i \in DOMAIN validated : answer[k] = validated[i]
  BY DEF ManagerInv, AnswerIsFiltered, ResultIsResolved
<1>3. PICK j \in DOMAIN validated : Retires(validated[j].act) /\ validated[j].act.memory_id = m
  BY <1>2 DEF Covered, Actions
<1>4. PICK q \in DOMAIN result : Holds(result[q], validated[j])
  BY DEF ManagerInv, PlacesKept, Resolving, Filtering
<1>5. SameTarget(result[q], validated[j])
  BY <1>1, <1>3, <1>4, AcceptedShape DEF Holds, Contradicts, SameCreate
<1>6. /\ result[q] \in Accepted /\ Retires(result[q].act) /\ result[q].act.memory_id = m
  BY <1>1, <1>3, <1>5 DEF SameTarget
<1>7. result[q].act.action # "forget"
  BY <1>1, <1>6 DEF Orphaned
<1>8. result[q].act = Supersede(m)
  BY <1>6, <1>7, AcceptedShape
<1>9. ~ Orphaned(result[q])
  BY <1>6, AcceptedShape DEF Orphaned
<1>10. QED BY <1>1, <1>8, <1>9

(* What the proposals cover, the validated ones cover.                      *)
LEMMA CoveredValidated ==
    ASSUME ManagerInv, Answered, Covered(Actions(proposals))
    PROVE  Covered(Actions(validated))
<1> SUFFICES ASSUME NEW k \in DOMAIN validated, IsCreate(validated[k].act),
                    validated[k].act.replaces # None
             PROVE  \E j \in DOMAIN validated :
                        /\ Retires(validated[j].act)
                        /\ validated[j].act.memory_id = validated[k].act.replaces
  BY DEF Covered, Actions
<1>1. PICK i \in DOMAIN proposals : validated[k] = proposals[i]
  BY DEF ManagerInv, ValidatedProposed
<1>2. PICK j \in DOMAIN proposals :
          /\ Retires(proposals[j].act)
          /\ proposals[j].act.memory_id = validated[k].act.replaces
  BY <1>1 DEF Covered, Actions
<1>3. proposals[j].act # Noop
  BY <1>2 DEF Noop, Retires, RetireActions
<1>4. \E n \in DOMAIN validated : validated[n] = proposals[j]
  BY <1>3 DEF ManagerInv, ValidatedProposed, Answered
<1>5. QED BY <1>2, <1>4

(* Nothing proposed is lost, but for the creates of a content of which one  *)
(* replaces a memory the answer forgets.                                    *)
LEMMA PlaceInAnswer ==
    ASSUME ManagerInv, Answered, NEW k \in DOMAIN proposals, proposals[k].act # Noop
    PROVE  \/ \E j \in DOMAIN answer : Holds(answer[j], proposals[k])
           \/ \E j \in DOMAIN answer, l \in DOMAIN proposals :
                 /\ SameCreate(proposals[l], proposals[k])
                 /\ answer[j].act.action = "forget"
                 /\ answer[j].act.memory_id = proposals[l].act.replaces
<1>1. /\ validated \in Seq(Accepted) /\ result \in Seq(Accepted)
      /\ \A j \in DOMAIN result :
            Orphaned(result[j]) \/ \E i \in DOMAIN answer : answer[i] = result[j]
  BY DEF ManagerInv, TypeOK, AnswerIsFiltered, Filtering, Answered
<1>2. PICK v \in DOMAIN validated : validated[v] = proposals[k]
  BY DEF ManagerInv, ValidatedProposed, Answered
<1>3. PICK q \in DOMAIN result : Holds(result[q], proposals[k])
  BY <1>2 DEF ManagerInv, PlacesKept, Resolving, Filtering, Answered
<1>4. CASE ~ Orphaned(result[q])
  BY <1>1, <1>3, <1>4
<1>5. CASE Orphaned(result[q])
  <2>1. PICK f \in DOMAIN result : /\ result[f].act.action = "forget"
                                   /\ result[f].act.memory_id = result[q].act.replaces
    BY <1>5 DEF Orphaned
  <2>2. ~ Orphaned(result[f])
    BY <2>1 DEF Orphaned, IsCreate
  <2>3. PICK j \in DOMAIN answer : answer[j] = result[f]
    BY <1>1, <2>2
  <2>4. PICK l \in DOMAIN proposals : result[q] = proposals[l]
    BY DEF ManagerInv, ResultIsResolved, ValidatedProposed
  <2>5. SameCreate(result[q], proposals[k])
    <3>1. ~ Retires(result[q].act)
      BY <1>5 DEF Orphaned, IsCreate, Retires, RetireActions
    <3>2. QED BY <1>3, <3>1 DEF Holds, Contradicts, SameTarget
  <2>6. QED BY <2>1, <2>3, <2>4, <2>5
<1>6. QED BY <1>4, <1>5

(* Resolution never splits a pair, and undoes those whose memory is forgotten. *)
THEOREM PairsStayTogether == Spec => []CoveredBecomesLinked
  BY LinkedAnswer, ManagerInvariantHolds, PTL

(* Every accepted proposal was made by the policy the result names.         *)
THEOREM AnswersFromOneSource == Spec => []OneSource
<1>1. ManagerInv => OneSource
  BY DEF ManagerInv, OneSource, Answered, ReasonIsTrue, AnswerIsFiltered,
         ResultIsResolved, ValidatedProposed
<1>2. QED BY <1>1, ManagerInvariantHolds, PTL

-----------------------------------------------------------------------------
(* What the loops compute: the places held, in the order of the proposals.  *)

(* Who holds a place contradicts the proposal that claimed it.              *)
LEMMA HolderContradicts ==
    ASSUME NEW s \in Seq(Accepted), NEW n \in Nat, n <= Len(s),
           NEW k \in 1 .. n, NEW p, HoldsPlace(s, n, k, p)
    PROVE  p \in Accepted /\ Contradicts(p, s[k])
<1>1. \A j \in 1 .. n : s[j] \in Accepted
  OBVIOUS
<1>2. CASE ForgetsOf(s, n, k) = {} /\ p = s[k]
  BY <1>1, <1>2, ContradictsEquivalence
<1>3. CASE \E j \in ForgetsOf(s, n, k) : IsFirst(j, ForgetsOf(s, n, k)) /\ p = s[j]
  <2>1. PICK j \in 1 .. n : SameTarget(s[k], s[j]) /\ p = s[j]
    BY <1>3 DEF ForgetsOf
  <2>2. Contradicts(s[k], s[j])
    BY <2>1 DEF Contradicts
  <2>3. QED BY <1>1, <2>1, <2>2, ContradictsEquivalence
<1>4. QED BY <1>2, <1>3 DEF HoldsPlace

(* Before the loop no place is claimed, and nothing is held.                *)
LEMMA HoldersAtStart ==
    ASSUME NEW s
    PROVE  HoldersOf(s, 0, Claims(s, 0), <<>>)
<1>1. Claims(s, 0) = {} /\ DOMAIN <<>> = {}
  BY DEF Claims
<1>2. <<>> \in [DOMAIN <<>> -> Claims(s, 0)]
  BY <1>1
<1>3. Lists(<<>>, Claims(s, 0))
  BY <1>1 DEF Lists
<1>4. QED BY <1>1, <1>2, <1>3 DEF HoldersOf

(* A proposal that contradicts a kept one claims no place: it takes the     *)
(* place of a supersede it outranks, or is dropped.                         *)
LEMMA HolderKept ==
    ASSUME NEW s \in Seq(Accepted), NEW n \in Nat, n + 1 <= Len(s),
           NEW k \in 1 .. n, NEW q, HoldsPlace(s, n, k, q), ~ Outranks(s[n + 1], q)
    PROVE  HoldsPlace(s, n + 1, k, q)
<1> DEFINE p == s[n + 1]
<1>1. /\ \A j \in 1 .. n + 1 : s[j] \in Accepted
      /\ \A j \in 1 .. n + 1 : j \in 1 .. n \/ j = n + 1
      /\ \A j \in 1 .. n : j \in 1 .. n + 1
      /\ n + 1 \in 1 .. n + 1
  OBVIOUS
<1>2. CASE ForgetsOf(s, n, k) = {} /\ q = s[k]
  <2>1. ~ (SameTarget(s[k], p) /\ p.act.action = "forget")
    <3> SUFFICES ASSUME SameTarget(s[k], p), p.act.action = "forget" PROVE FALSE
      OBVIOUS
    <3>1. s[k].act.action \in {"supersede", "forget"}
      BY DEF SameTarget, Retires, RetireActions
    <3>2. SameTarget(p, s[k])
      BY DEF SameTarget
    <3>3. s[k].act.action = "forget"
      BY <1>2, <3>1, <3>2 DEF Outranks
    <3>4. SameTarget(s[k], s[k])
      BY DEF SameTarget
    <3>5. k \in ForgetsOf(s, n, k)
      BY <3>3, <3>4 DEF ForgetsOf
    <3>6. QED BY <1>2, <3>5
  <2>2. ForgetsOf(s, n + 1, k) = {}
    BY <1>1, <1>2, <2>1 DEF ForgetsOf
  <2>3. QED BY <1>2, <2>2 DEF HoldsPlace
<1>3. CASE \E j \in ForgetsOf(s, n, k) : IsFirst(j, ForgetsOf(s, n, k)) /\ q = s[j]
  <2>1. PICK j \in ForgetsOf(s, n, k) : IsFirst(j, ForgetsOf(s, n, k)) /\ q = s[j]
    BY <1>3
  <2>2. j \in ForgetsOf(s, n + 1, k) /\ j \in 1 .. n
    BY <1>1, <2>1 DEF ForgetsOf
  <2>3. \A i \in ForgetsOf(s, n + 1, k) : i \in ForgetsOf(s, n, k) \/ i = n + 1
    BY <1>1 DEF ForgetsOf
  <2>4. j <= n + 1
    BY <2>2
  <2>5. IsFirst(j, ForgetsOf(s, n + 1, k))
    BY <2>1, <2>2, <2>3, <2>4 DEF IsFirst
  <2>6. QED BY <2>1, <2>2, <2>5 DEF HoldsPlace
<1>4. QED BY <1>2, <1>3 DEF HoldsPlace

(* The forget that outranks the holder is the first forget of its target.   *)
LEMMA HolderReplaced ==
    ASSUME NEW s \in Seq(Accepted), NEW n \in Nat, n + 1 <= Len(s),
           NEW k \in 1 .. n, NEW q, HoldsPlace(s, n, k, q), Outranks(s[n + 1], q)
    PROVE  HoldsPlace(s, n + 1, k, s[n + 1])
<1> DEFINE p == s[n + 1]
<1>1. /\ \A j \in 1 .. n + 1 : j \in 1 .. n \/ j = n + 1
      /\ n + 1 \in 1 .. n + 1
  OBVIOUS
<1>2. q.act.action = "supersede" /\ p.act.action = "forget" /\ SameTarget(p, q)
  BY DEF Outranks
<1>3. ~ \E j \in ForgetsOf(s, n, k) : q = s[j]
  BY <1>2 DEF ForgetsOf
<1>4. ForgetsOf(s, n, k) = {} /\ q = s[k]
  BY <1>3 DEF HoldsPlace
<1>5. SameTarget(s[k], p)
  BY <1>2, <1>4 DEF SameTarget
<1>6. n + 1 \in ForgetsOf(s, n + 1, k)
  BY <1>1, <1>2, <1>5 DEF ForgetsOf
<1>7. \A j \in ForgetsOf(s, n + 1, k) : j = n + 1
  BY <1>1, <1>4 DEF ForgetsOf
<1>8. n + 1 <= n + 1
  OBVIOUS
<1>9. IsFirst(n + 1, ForgetsOf(s, n + 1, k))
  BY <1>6, <1>7, <1>8 DEF IsFirst
<1>10. QED BY <1>6, <1>9 DEF HoldsPlace

(* A step of the loop on a proposal that contradicts a kept one.            *)
LEMMA HoldersContradicted ==
    ASSUME NEW s \in Seq(Accepted), NEW n \in Nat, n + 1 <= Len(s),
           NEW r \in Seq(Accepted), HoldersOf(s, n, Claims(s, n), r),
           NEW c \in DOMAIN r, Contradicts(s[n + 1], r[c])
    PROVE  HoldersOf(s, n + 1, Claims(s, n + 1),
                     [k \in DOMAIN r |-> IF Outranks(s[n + 1], r[k]) THEN s[n + 1] ELSE r[k]])
<1> DEFINE p  == s[n + 1]
           r2 == [k \in DOMAIN r |-> IF Outranks(p, r[k]) THEN p ELSE r[k]]
<1>1. PICK order \in [DOMAIN r -> Claims(s, n)] :
          /\ Lists(order, Claims(s, n))
          /\ \A k \in DOMAIN r : HoldsPlace(s, n, order[k], r[k])
  BY DEF HoldersOf
<1>2. \A k \in DOMAIN r : order[k] \in 1 .. n
  BY <1>1 DEF Claims
<1>3. Claims(s, n + 1) = Claims(s, n)
  <2>1. /\ \A k \in 1 .. n + 1 : k \in 1 .. n \/ k = n + 1
        /\ \A k \in 1 .. n : k \in 1 .. n + 1
        /\ 1 .. (n + 1) - 1 = 1 .. n
        /\ \A k \in 1 .. n + 1 : s[k] \in Accepted
    OBVIOUS
  <2>2. r[c] \in Accepted /\ Contradicts(r[c], s[order[c]])
    BY <1>1, <1>2, HolderContradicts
  <2>3. Contradicts(p, s[order[c]])
    BY <1>2, <2>1, <2>2, ContradictsEquivalence
  <2>4. n + 1 \notin Claims(s, n + 1)
    BY <1>2, <2>1, <2>3 DEF Claims
  <2>5. \A k \in 1 .. n : k \in Claims(s, n + 1) <=> k \in Claims(s, n)
    BY <2>1 DEF Claims
  <2>6. \A k \in Claims(s, n + 1) : k \in 1 .. n + 1
    BY DEF Claims
  <2>7. \A k \in Claims(s, n) : k \in 1 .. n
    BY DEF Claims
  <2>8. QED BY <2>1, <2>4, <2>5, <2>6, <2>7
<1>4. ASSUME NEW k \in DOMAIN r
      PROVE  HoldsPlace(s, n + 1, order[k], r2[k])
  <2>1. HoldsPlace(s, n, order[k], r[k]) /\ order[k] \in 1 .. n
    BY <1>1, <1>2
  <2>2. CASE Outranks(p, r[k])
    <3>1. r2[k] = p
      BY <2>2
    <3>2. QED BY <2>1, <2>2, <3>1, HolderReplaced
  <2>3. CASE ~ Outranks(p, r[k])
    <3>1. r2[k] = r[k]
      BY <2>3
    <3>2. QED BY <2>1, <2>3, <3>1, HolderKept
  <2>4. QED BY <2>2, <2>3
<1>5. DOMAIN r2 = DOMAIN r
  OBVIOUS
<1> HIDE DEF r2
<1>6. order \in [DOMAIN r2 -> Claims(s, n + 1)] /\ Lists(order, Claims(s, n + 1))
  BY <1>1, <1>3, <1>5
<1>7. HoldersOf(s, n + 1, Claims(s, n + 1), r2)
  BY <1>4, <1>5, <1>6 DEF HoldersOf
<1>8. QED BY <1>7 DEF r2

(* A later position at the end of a list keeps it in order.                 *)
Appended(order, m, x) == [i \in 1 .. m + 1 |-> IF i = m + 1 THEN x ELSE order[i]]

LEMMA ListsAppend ==
    ASSUME NEW m \in Nat, NEW S \in SUBSET Nat, NEW order \in [1 .. m -> S],
           Lists(order, S), NEW x \in Nat, \A k \in S : k < x
    PROVE  /\ Appended(order, m, x) \in [1 .. m + 1 -> S \cup {x}]
           /\ Lists(Appended(order, m, x), S \cup {x})
<1> DEFINE order2 == Appended(order, m, x)
<1> USE DEF Appended
<1>1. /\ DOMAIN order2 = 1 .. m + 1 /\ order2[m + 1] = x
      /\ \A i \in 1 .. m : order2[i] = order[i] /\ order[i] \in S
      /\ \A i \in 1 .. m + 1 : i \in 1 .. m \/ i = m + 1
      /\ \A i \in 1 .. m : i \in 1 .. m + 1
      /\ m + 1 \in 1 .. m + 1
  OBVIOUS
<1>2. order2 \in [1 .. m + 1 -> S \cup {x}]
  OBVIOUS
<1> HIDE DEF order2, Appended
<1>3. ASSUME NEW i \in 1 .. m + 1, NEW j \in 1 .. m + 1, i < j
      PROVE  order2[i] < order2[j]
  <2>1. i \in 1 .. m
    BY <1>3
  <2>2. CASE j = m + 1
    BY <1>1, <2>1, <2>2
  <2>3. CASE j \in 1 .. m
    <3>1. order[i] < order[j]
      BY <1>3, <2>1, <2>3 DEF Lists
    <3>2. QED BY <1>1, <2>1, <2>3, <3>1
  <2>4. QED BY <1>1, <2>2, <2>3
<1>4. ASSUME NEW k \in S \cup {x}
      PROVE  \E i \in 1 .. m + 1 : order2[i] = k
  <2>1. CASE k = x
    BY <1>1, <2>1
  <2>2. CASE k \in S
    <3>1. PICK i \in 1 .. m : order[i] = k
      BY <2>2 DEF Lists
    <3>2. QED BY <1>1, <3>1
  <2>3. QED BY <2>1, <2>2
<1>5. Lists(order2, S \cup {x})
  BY <1>1, <1>3, <1>4 DEF Lists
<1>6. QED BY <1>2, <1>5 DEF order2

(* A step of the loop on a proposal that contradicts none of the kept ones. *)
LEMMA HoldersAppended ==
    ASSUME NEW s \in Seq(Accepted), NEW n \in Nat, n + 1 <= Len(s),
           NEW r \in Seq(Accepted), HoldersOf(s, n, Claims(s, n), r),
           \A j \in 1 .. n : \E k \in DOMAIN r : Contradicts(r[k], s[j]),
           \A k \in DOMAIN r : ~ Contradicts(s[n + 1], r[k])
    PROVE  HoldersOf(s, n + 1, Claims(s, n + 1), Append(r, s[n + 1]))
<1> DEFINE p == s[n + 1]
           m == Len(r)
           r2 == Append(r, p)
<1>1. /\ \A k \in 1 .. n + 1 : s[k] \in Accepted
      /\ \A k \in 1 .. n + 1 : k \in 1 .. n \/ k = n + 1
      /\ \A k \in 1 .. n : k \in 1 .. n + 1
      /\ (n + 1) - 1 = n /\ n + 1 \in 1 .. n + 1
      /\ m \in Nat /\ DOMAIN r = 1 .. m
      /\ \A k \in DOMAIN r : r[k] \in Accepted
      /\ \A k \in 1 .. m + 1 : k \in 1 .. m \/ k = m + 1
  OBVIOUS
<1>2. /\ DOMAIN r2 = 1 .. m + 1 /\ r2[m + 1] = p
      /\ \A k \in 1 .. m : r2[k] = r[k]
  BY <1>1
<1>3. PICK order \in [1 .. m -> Claims(s, n)] :
          /\ Lists(order, Claims(s, n))
          /\ \A k \in 1 .. m : HoldsPlace(s, n, order[k], r[k])
  BY <1>1 DEF HoldersOf
<1>4. \A k \in 1 .. m : order[k] \in 1 .. n
  BY <1>3 DEF Claims
<1>5. \A j \in 1 .. n : ~ Contradicts(p, s[j])
  <2> SUFFICES ASSUME NEW j \in 1 .. n, Contradicts(p, s[j]) PROVE FALSE
    OBVIOUS
  <2>1. PICK k \in DOMAIN r : Contradicts(r[k], s[j])
    OBVIOUS
  <2>2. Contradicts(p, r[k])
    BY <1>1, <2>1, ContradictsEquivalence
  <2>3. QED BY <2>2
<1>6. Claims(s, n + 1) = Claims(s, n) \cup {n + 1}
  <2>1. n + 1 \in Claims(s, n + 1)
    BY <1>1, <1>5 DEF Claims
  <2>2. \A k \in 1 .. n : k \in Claims(s, n + 1) <=> k \in Claims(s, n)
    BY <1>1 DEF Claims
  <2>3. \A k \in Claims(s, n + 1) : k \in 1 .. n + 1
    BY DEF Claims
  <2>4. \A k \in Claims(s, n) : k \in 1 .. n
    BY DEF Claims
  <2>5. QED BY <1>1, <2>1, <2>2, <2>3, <2>4
<1> DEFINE order2 == Appended(order, m, n + 1)
<1>7. /\ order2 \in [1 .. m + 1 -> Claims(s, n) \cup {n + 1}]
      /\ Lists(order2, Claims(s, n) \cup {n + 1})
      /\ order2[m + 1] = n + 1
      /\ \A i \in 1 .. m : order2[i] = order[i]
  <2>1. Claims(s, n) \in SUBSET Nat /\ n + 1 \in Nat /\ \A k \in Claims(s, n) : k < n + 1
    BY DEF Claims
  <2>2. m \in Nat /\ order \in [1 .. m -> Claims(s, n)] /\ Lists(order, Claims(s, n))
    BY <1>1, <1>3
  <2> HIDE DEF m
  <2>3. /\ order2 \in [1 .. m + 1 -> Claims(s, n) \cup {n + 1}]
        /\ Lists(order2, Claims(s, n) \cup {n + 1})
    BY <2>1, <2>2, ListsAppend
  <2>4. order2[m + 1] = n + 1 /\ \A i \in 1 .. m : order2[i] = order[i]
    BY <2>2 DEF Appended
  <2>5. QED BY <2>3, <2>4
<1> HIDE DEF order2
<1>8. HoldsPlace(s, n + 1, n + 1, p)
  <2>1. \A j \in ForgetsOf(s, n + 1, n + 1) : j = n + 1
    BY <1>1, <1>5 DEF ForgetsOf, Contradicts
  <2>2. CASE ForgetsOf(s, n + 1, n + 1) = {}
    BY <2>2 DEF HoldsPlace
  <2>3. CASE n + 1 \in ForgetsOf(s, n + 1, n + 1)
    <3>1. IsFirst(n + 1, ForgetsOf(s, n + 1, n + 1))
      BY <2>1, <2>3 DEF IsFirst
    <3>2. QED BY <2>3, <3>1 DEF HoldsPlace
  <2>4. QED BY <2>1, <2>2, <2>3
<1>9. ASSUME NEW k \in 1 .. m
      PROVE  HoldsPlace(s, n + 1, order[k], r[k])
  <2>1. ~ Outranks(p, r[k])
    BY <1>1 DEF Outranks, Contradicts
  <2>2. QED BY <1>3, <1>4, <2>1, HolderKept
<1>10. \A k \in 1 .. m + 1 : HoldsPlace(s, n + 1, order2[k], r2[k])
  BY <1>1, <1>2, <1>7, <1>8, <1>9
<1> HIDE DEF r2
<1>11. HoldersOf(s, n + 1, Claims(s, n + 1), r2)
  BY <1>2, <1>6, <1>7, <1>10 DEF HoldersOf
<1>12. QED BY <1>11 DEF r2

(* A step of the resolution loop keeps the places in order. *)
LEMMA ResolveHolds ==
    ASSUME OrderInv, ResolveOne
    PROVE  PlacesHeld'
<1> DEFINE n == next - 1
           p == validated[next]
<1>1. /\ pc = "resolve" /\ pc' = pc /\ next \in DOMAIN validated
      /\ next' = next + 1 /\ validated' = validated
  BY DEF ResolveOne
<1>2. /\ validated \in Seq(Accepted) /\ result \in Seq(Accepted) /\ next \in Nat \ {0}
  BY DEF OrderInv, ManagerInv, TypeOK
<1>3. /\ n \in Nat /\ n + 1 = next /\ n + 1 <= Len(validated)
      /\ \A j \in 1 .. n : j \in DOMAIN validated /\ j < next
      /\ next' - 1 = n + 1 /\ next' <= Len(validated) + 1
  BY <1>1, <1>2
<1>4. HoldersOf(validated, n, Claims(validated, n), result)
  BY <1>1 DEF OrderInv, PlacesHeld, Resolving, Passed
<1>5. \A j \in 1 .. n : \E k \in DOMAIN result : Contradicts(result[k], validated[j])
  BY <1>1, <1>3 DEF OrderInv, ManagerInv, PlacesKept, Resolving, Holds
<1>6. HoldersOf(validated, n + 1, Claims(validated, n + 1), result')
  <2>1. CASE /\ \E k \in DOMAIN result : Contradicts(p, result[k])
             /\ result' = [k \in DOMAIN result |->
                              IF Outranks(p, result[k]) THEN p ELSE result[k]]
    <3>1. PICK c \in DOMAIN result : Contradicts(validated[n + 1], result[c])
      BY <1>3, <2>1
    <3>2. result' = [k \in DOMAIN result |->
                        IF Outranks(validated[n + 1], result[k])
                        THEN validated[n + 1] ELSE result[k]]
      BY <1>3, <2>1
    <3> HIDE DEF n
    <3>3. QED BY <1>2, <1>3, <1>4, <3>1, <3>2, HoldersContradicted
  <2>2. CASE /\ ~ \E k \in DOMAIN result : Contradicts(p, result[k])
             /\ result' = Append(result, p)
    <3>1. /\ result' = Append(result, validated[n + 1])
          /\ \A k \in DOMAIN result : ~ Contradicts(validated[n + 1], result[k])
      BY <1>3, <2>2
    <3> HIDE DEF n
    <3>2. QED BY <1>2, <1>3, <1>4, <1>5, <3>1, HoldersAppended
  <2>3. QED BY <2>1, <2>2 DEF ResolveOne
<1>7. pc' = "resolve" /\ Passed' = n + 1
  BY <1>1, <1>3 DEF Passed
<1>8. HoldersOf(validated, Passed, Claims(validated, Passed), result)'
  BY <1>1, <1>6, <1>7
<1>9. QED BY <1>1, <1>3, <1>7, <1>8 DEF PlacesHeld

(* A step of the filter lists one more survivor, or none. *)
LEMMA FilterLists ==
    ASSUME OrderInv, FilterOne
    PROVE  SurvivorsListed'
<1> DEFINE p == result[next]
           m == Len(answer)
<1>1. /\ pc = "filter" /\ next \in DOMAIN result /\ pc' = pc /\ next' = next + 1
      /\ result' = result
  BY DEF FilterOne
<1>2. /\ next \in Nat /\ DOMAIN result \in SUBSET Nat /\ answer \in Seq(Accepted)
      /\ \A j \in DOMAIN result : j < next + 1 <=> j < next \/ j = next
  BY <1>1 DEF OrderInv, ManagerInv, TypeOK
<1>3. /\ m \in Nat /\ DOMAIN answer = 1 .. m
      /\ \A k \in 1 .. m + 1 : k \in 1 .. m \/ k = m + 1
      /\ DOMAIN Append(answer, p) = 1 .. m + 1 /\ Append(answer, p)[m + 1] = p
      /\ \A k \in 1 .. m : Append(answer, p)[k] = answer[k]
  BY <1>2
<1>4. \A q : Orphaned(q)' <=> Orphaned(q)
  BY <1>1 DEF Orphaned
<1>5. /\ Survivors = {j \in DOMAIN result : j < next /\ ~ Orphaned(result[j])}
      /\ Survivors' = {j \in DOMAIN result : j < next + 1 /\ ~ Orphaned(result[j])}
  BY <1>1, <1>4 DEF Survivors
<1>6. PICK order \in [DOMAIN answer -> Survivors] : Selects(order)
  BY <1>1 DEF OrderInv, SurvivorsListed, Filtering
<1>7. CASE Orphaned(p) /\ answer' = answer
  <2>1. Survivors' = Survivors
    BY <1>2, <1>5, <1>7
  <2>2. order \in [DOMAIN answer' -> Survivors']
    BY <1>6, <1>7, <2>1
  <2>3. Lists(order, Survivors') /\ \A k \in DOMAIN answer' : answer'[k] = result'[order[k]]
    BY <1>1, <1>6, <1>7, <2>1 DEF Selects
  <2>4. QED BY <2>2, <2>3 DEF SurvivorsListed, Selects
<1>8. CASE ~ Orphaned(p) /\ answer' = Append(answer, p)
  <2> DEFINE order2 == Appended(order, m, next)
  <2>1. Survivors' = Survivors \cup {next}
    BY <1>1, <1>2, <1>5, <1>8
  <2>2. /\ order \in [1 .. m -> Survivors] /\ Lists(order, Survivors)
        /\ \A k \in 1 .. m : answer[k] = result[order[k]]
    BY <1>3, <1>6 DEF Selects
  <2>3. Survivors \in SUBSET Nat /\ \A k \in Survivors : k < next
    BY <1>2, <1>5
  <2>4. order2[m + 1] = next /\ \A i \in 1 .. m : order2[i] = order[i]
    BY <1>3 DEF Appended
  <2>5. m \in Nat
    BY <1>3
  <2> HIDE DEF m
  <2>6. order2 \in [1 .. m + 1 -> Survivors \cup {next}] /\ Lists(order2, Survivors \cup {next})
    BY <1>2, <2>2, <2>3, <2>5, ListsAppend
  <2> HIDE DEF order2
  <2>7. PICK longer : longer = order2
    OBVIOUS
  <2>8. DOMAIN answer' = 1 .. m + 1
    BY <1>3, <1>8
  <2>9. longer \in [DOMAIN answer' -> Survivors'] /\ Lists(longer, Survivors')
    BY <2>1, <2>6, <2>7, <2>8
  <2>10. \A k \in 1 .. m + 1 : answer'[k] = result[longer[k]]
    BY <1>3, <1>8, <2>2, <2>4, <2>7
  <2>11. Selects(longer)'
    BY <1>1, <2>8, <2>9, <2>10 DEF Selects
  <2>12. QED BY <2>9, <2>11 DEF SurvivorsListed
<1>9. QED BY <1>7, <1>8 DEF FilterOne

(* The steps that end a loop pass its list to the next one. *)
LEMMA LoopEndsListed ==
    ASSUME OrderInv, ValidateDone \/ ResolveDone \/ FilterDone \/ Answer
    PROVE  PlacesHeld' /\ SurvivorsListed'
<1>1. UNCHANGED <<validated, result, answer>>
  BY DEF ValidateDone, ResolveDone, FilterDone, Answer, lists
<1>2. /\ validated \in Seq(Accepted) /\ result \in Seq(Accepted) /\ next \in Nat \ {0}
      /\ Len(validated) \in Nat
  BY DEF OrderInv, ManagerInv, TypeOK
<1>3. \A q : Orphaned(q)' <=> Orphaned(q)
  BY <1>1 DEF Orphaned
<1>4. CASE ValidateDone
  <2>1. pc = "validate" /\ pc' = "resolve" /\ next' = 1 /\ result = <<>>
    BY <1>4 DEF ValidateDone, OrderInv, ManagerInv, ResultIsResolved, Resolving, Filtering
  <2>2. next' <= Len(validated) + 1 /\ next' - 1 = 0
    BY <1>2, <2>1
  <2>3. Passed' = 0
    BY <2>1, <2>2 DEF Passed
  <2>4. HoldersOf(validated, Passed, Claims(validated, Passed), result)'
    BY <1>1, <2>1, <2>3, HoldersAtStart
  <2>5. QED BY <1>1, <2>1, <2>2, <2>4 DEF PlacesHeld, SurvivorsListed, Filtering
<1>5. CASE ResolveDone
  <2>1. /\ pc = "resolve" /\ pc' = "filter" /\ next' = 1 /\ answer = <<>>
        /\ next \notin DOMAIN validated
    BY <1>5 DEF ResolveDone, OrderInv, ManagerInv, AnswerIsFiltered, Filtering
  <2>2. next <= Len(validated) + 1
    BY <2>1 DEF OrderInv, PlacesHeld
  <2>3. next - 1 = Len(validated)
    BY <1>2, <2>1, <2>2
  <2>4. Passed = Len(validated) /\ Passed' = Len(validated)
    BY <1>1, <2>1, <2>3 DEF Passed
  <2>5. HoldersOf(validated, Passed, Claims(validated, Passed), result)
    BY <2>1 DEF OrderInv, PlacesHeld, Resolving
  <2>6. PlacesHeld'
    BY <1>1, <2>1, <2>4, <2>5 DEF PlacesHeld
  <2>7. Survivors' = {}
    <3>1. \A j \in DOMAIN result : ~ j < 1
      BY <1>2
    <3>2. QED BY <1>1, <2>1, <3>1 DEF Survivors
  <2>8. DOMAIN answer' = {} /\ answer' = <<>>
    BY <1>1, <2>1
  <2>9. <<>> \in [DOMAIN answer' -> Survivors']
    BY <2>8
  <2>10. Selects(<<>>)'
    BY <2>7, <2>8 DEF Selects, Lists
  <2>11. QED BY <2>6, <2>9, <2>10 DEF SurvivorsListed
<1>6. CASE FilterDone \/ Answer
  <2>1. Filtering /\ pc # "resolve" /\ pc' # "resolve" /\ pc' # "filter"
    BY <1>6 DEF FilterDone, Answer, Filtering
  <2>2. Passed = Len(validated) /\ Passed' = Len(validated)
    BY <1>1, <2>1 DEF Passed
  <2>3. HoldersOf(validated, Passed, Claims(validated, Passed), result)
    BY <2>1 DEF OrderInv, PlacesHeld, Resolving
  <2>4. PlacesHeld'
    BY <1>1, <2>1, <2>2, <2>3 DEF PlacesHeld
  <2>5. Survivors' = Survivors
    <3>1. pc = "filter" => \A j \in DOMAIN result : j < next
      BY <1>2, <1>6 DEF FilterDone, Answer
    <3>2. QED BY <1>1, <1>3, <2>1, <3>1 DEF Survivors
  <2>6. PICK order \in [DOMAIN answer -> Survivors] : Selects(order)
    BY <2>1 DEF OrderInv, SurvivorsListed
  <2>7. Selects(order)' /\ order \in [DOMAIN answer' -> Survivors']
    BY <1>1, <2>5, <2>6 DEF Selects
  <2>8. QED BY <2>4, <2>7 DEF SurvivorsListed
<1>7. QED BY <1>4, <1>5, <1>6

(* The order of the proposals is kept through both loops, for any number of *)
(* any proposals.                                                           *)
LEMMA OrderInvariantHolds == Spec => []OrderInv
<1>1. Init => PlacesHeld /\ SurvivorsListed
  BY DEF Init, PlacesHeld, SurvivorsListed, Resolving, Filtering
<1>2. OrderInv /\ [Next]_vars => PlacesHeld' /\ SurvivorsListed'
  <2> SUFFICES ASSUME OrderInv, [Next]_vars PROVE PlacesHeld' /\ SurvivorsListed'
    OBVIOUS
  <2>1. ASSUME pc' \in {"call", "raised", "validate"}
        PROVE  PlacesHeld' /\ SurvivorsListed'
    BY <2>1 DEF PlacesHeld, SurvivorsListed, Resolving, Filtering
  <2>2. CASE \/ Propose \/ PolicyRaises \/ ValidateOne \/ InvalidProposal
             \/ TooUncertain \/ Return
    BY <2>1, <2>2 DEF Propose, PolicyRaises, ValidateOne, InvalidProposal, TooUncertain,
                      Return, Refuse
  <2>3. CASE ResolveOne
    <3>1. pc' = "resolve"
      BY <2>3 DEF ResolveOne
    <3>2. QED BY <2>3, <3>1, ResolveHolds DEF SurvivorsListed, Filtering
  <2>4. CASE FilterOne
    <3>1. pc = "filter" /\ pc' = pc /\ validated' = validated /\ result' = result
      BY <2>4 DEF FilterOne
    <3>2. PlacesHeld'
      BY <3>1 DEF OrderInv, PlacesHeld, Resolving, Filtering, Passed
    <3>3. QED BY <2>4, <3>2, FilterLists
  <2>5. CASE UNCHANGED vars
    <3>1. /\ pc' = pc /\ next' = next /\ validated' = validated /\ result' = result
          /\ answer' = answer
      BY <2>5 DEF vars, lists
    <3>2. PlacesHeld'
      BY <3>1 DEF OrderInv, PlacesHeld, Resolving, Filtering, Passed
    <3>3. SurvivorsListed'
      BY <3>1, ZenonT(30) DEF OrderInv, SurvivorsListed, Filtering, Survivors, Selects, Orphaned
    <3>4. QED BY <3>2, <3>3
  <2>6. QED BY <2>2, <2>3, <2>4, <2>5, LoopEndsListed DEF Next, Work
<1>3. ManagerInv /\ PlacesHeld /\ SurvivorsListed <=> OrderInv
  BY DEF OrderInv
<1>4. QED BY <1>1, <1>2, <1>3, ManagerInvariantHolds, PTL DEF Spec

(* An orphan among the kept is a create whose memory some proposal forgets. *)
LEMMA OrphanOf ==
    ASSUME ManagerInv, Answered, NEW q \in DOMAIN result, NEW k \in DOMAIN validated,
           HoldsPlace(validated, Len(validated), k, result[q])
    PROVE  Orphaned(result[q]) <=>
               \E j \in DOMAIN validated :
                  /\ validated[j].act.action = "forget"
                  /\ IsCreate(validated[k].act)
                  /\ validated[j].act.memory_id = validated[k].act.replaces
<1>1. /\ validated \in Seq(Accepted) /\ result \in Seq(Accepted)
      /\ Len(validated) \in Nat /\ DOMAIN validated = 1 .. Len(validated)
      /\ \A j \in DOMAIN validated : validated[j] \in Accepted
      /\ \A j \in DOMAIN result : result[j] \in Accepted
  BY DEF ManagerInv, TypeOK
<1>2. Contradicts(result[q], validated[k])
  BY <1>1, HolderContradicts
<1>3. IsCreate(result[q].act) <=> IsCreate(validated[k].act)
  BY <1>1, <1>2, AcceptedShape DEF Contradicts, SameTarget, SameCreate
<1>4. IsCreate(result[q].act) => result[q] = validated[k]
  <2> SUFFICES ASSUME IsCreate(result[q].act) PROVE result[q] = validated[k]
    OBVIOUS
  <2>1. ~ Retires(validated[k].act)
    BY <1>1, <1>3, AcceptedShape
  <2>2. ForgetsOf(validated, Len(validated), k) = {}
    BY <2>1 DEF ForgetsOf, SameTarget
  <2>3. QED BY <2>2 DEF HoldsPlace
<1>5. ASSUME NEW m
      PROVE  (\E j \in DOMAIN result : /\ result[j].act.action = "forget"
                                       /\ result[j].act.memory_id = m)
             <=> \E j \in DOMAIN validated : /\ validated[j].act.action = "forget"
                                             /\ validated[j].act.memory_id = m
  <2>1. ASSUME NEW j \in DOMAIN result, result[j].act.action = "forget",
               result[j].act.memory_id = m
        PROVE  \E i \in DOMAIN validated : /\ validated[i].act.action = "forget"
                                           /\ validated[i].act.memory_id = m
    BY <2>1 DEF ManagerInv, ResultIsResolved
  <2>2. ASSUME NEW j \in DOMAIN validated, validated[j].act.action = "forget",
               validated[j].act.memory_id = m
        PROVE  \E i \in DOMAIN result : /\ result[i].act.action = "forget"
                                        /\ result[i].act.memory_id = m
    <3>1. PICK i \in DOMAIN result : Holds(result[i], validated[j])
      BY DEF ManagerInv, PlacesKept, Resolving, Filtering, Answered
    <3>2. SameTarget(result[i], validated[j])
      BY <2>2, <3>1 DEF Holds, Contradicts, SameCreate, IsCreate
    <3>3. QED BY <2>2, <3>1, <3>2 DEF Holds, SameTarget
  <2>3. QED BY <2>1, <2>2
<1>6. QED BY <1>3, <1>4, <1>5 DEF Orphaned

(* For any number of any proposals the two loops of _resolve_contradictions *)
(* compute the documented resolution: the first proposal for a target or a  *)
(* content keeps its place in the order, the first forget of its target     *)
(* takes it over, and nothing but the replacements of forgotten memories is *)
(* left out of these.                                                       *)
THEOREM ResolutionIsDocumented == Spec => []ResolvesAsDocumented
<1>1. OrderInv => ResolvesAsDocumented
  <2> SUFFICES ASSUME OrderInv, Answered
               PROVE  HoldersOf(validated, Len(validated), Kept(validated), answer)
    BY DEF ResolvesAsDocumented
  <2> DEFINE n == Len(validated)
  <2>1. /\ ManagerInv /\ n \in Nat /\ DOMAIN validated = 1 .. n
        /\ pc = "answered" /\ Resolving /\ Filtering /\ Passed = n
    BY DEF OrderInv, ManagerInv, TypeOK, Answered, Resolving, Filtering, Passed
  <2>2. PICK places \in [DOMAIN result -> Claims(validated, n)] :
            /\ Lists(places, Claims(validated, n))
            /\ \A q \in DOMAIN result : HoldsPlace(validated, n, places[q], result[q])
    BY <2>1 DEF OrderInv, PlacesHeld, HoldersOf
  <2>3. PICK order \in [DOMAIN answer -> Survivors] : Selects(order)
    BY <2>1 DEF OrderInv, SurvivorsListed
  <2>4. Survivors = {q \in DOMAIN result : ~ Orphaned(result[q])}
    BY <2>1 DEF Survivors
  <2>5. \A q \in DOMAIN result : places[q] \in 1 .. n
    BY <2>2 DEF Claims
  <2>6. \A q \in DOMAIN result : q \in Survivors <=> places[q] \in Kept(validated)
    <3> SUFFICES ASSUME NEW q \in DOMAIN result
                 PROVE  q \in Survivors <=> places[q] \in Kept(validated)
      OBVIOUS
    <3>1. places[q] \in DOMAIN validated
      BY <2>1, <2>5
    <3>2. HoldsPlace(validated, Len(validated), places[q], result[q])
      BY <2>2
    <3>3. Orphaned(result[q]) <=>
              \E j \in DOMAIN validated :
                 /\ validated[j].act.action = "forget"
                 /\ IsCreate(validated[places[q]].act)
                 /\ validated[j].act.memory_id = validated[places[q]].act.replaces
      BY <2>1, <3>1, <3>2, OrphanOf
    <3>4. places[q] \in Claims(validated, Len(validated))
      BY <2>2
    <3>5. QED BY <2>4, <3>3, <3>4 DEF Kept
  <2> DEFINE whole == [k \in DOMAIN answer |-> places[order[k]]]
  <2>7. /\ DOMAIN whole = DOMAIN answer
        /\ \A k \in DOMAIN answer : /\ order[k] \in Survivors
                                    /\ order[k] \in DOMAIN result
                                    /\ whole[k] = places[order[k]]
    BY <2>3, <2>4
  <2> HIDE DEF whole
  <2>8. whole \in [DOMAIN answer -> Kept(validated)]
    BY <2>6, <2>7 DEF whole
  <2>9. Lists(whole, Kept(validated))
    <3>1. ASSUME NEW i \in DOMAIN answer, NEW j \in DOMAIN answer, i < j
          PROVE  whole[i] < whole[j]
      <4>1. order[i] < order[j]
        BY <2>3, <3>1 DEF Selects, Lists
      <4>2. places[order[i]] < places[order[j]]
        BY <2>2, <2>7, <4>1 DEF Lists
      <4>3. QED BY <2>7, <4>2
    <3>2. ASSUME NEW k \in Kept(validated)
          PROVE  \E i \in DOMAIN answer : whole[i] = k
      <4>1. k \in Claims(validated, n)
        BY DEF Kept
      <4>2. PICK q \in DOMAIN result : places[q] = k
        BY <2>2, <4>1 DEF Lists
      <4>3. q \in Survivors
        BY <2>6, <4>2
      <4>4. PICK i \in DOMAIN answer : order[i] = q
        BY <2>3, <4>3 DEF Selects, Lists
      <4>5. QED BY <2>7, <4>2, <4>4
    <3>3. QED BY <2>7, <3>1, <3>2 DEF Lists
  <2>10. \A k \in DOMAIN answer : HoldsPlace(validated, n, whole[k], answer[k])
    BY <2>2, <2>3, <2>7 DEF Selects
  <2>11. QED BY <2>8, <2>9, <2>10 DEF HoldersOf
<1>2. QED BY <1>1, OrderInvariantHolds, PTL
=============================================================================
