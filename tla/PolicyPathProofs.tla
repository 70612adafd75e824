--------------------------- MODULE PolicyPathProofs ---------------------------
(***************************************************************************)
(* Proofs about PolicyPath: the manager keeps its invariant on the path of *)
(* any policy, a covered batch reaches the engine linked, and of a batch   *)
(* nothing is lost but to a forget.  The lemmas about the manager are      *)
(* those of ExperienceManagerProofs, with the variables of this path.      *)
(***************************************************************************)
EXTENDS PolicyPath, TLAPS

Proved == INSTANCE ExperienceManagerProofs
    WITH pc <- stage, next <- position, result <- resolved,
         HasFallback <- FALSE, MaxProposals <- 0

LEMMA ManagerAssumed == Proved!ManagerAssumption /\ Proved!VocabularyAssumption
  BY PathAssumption, VocabularyAssumption
     DEF Proved!ManagerAssumption, Proved!Reasons, Manager!Reasons, Proved!VocabularyAssumption

(* The two instances are of one module.                                     *)
LEMMA SameInvariant == Manager!ManagerInv <=> Proved!ManagerInv
  BY DEF Manager!ManagerInv, Proved!ManagerInv, Manager!TypeOK, Proved!TypeOK,
         Manager!PCs, Proved!PCs, Manager!Reasons, Proved!Reasons,
         Manager!Proposals, Proved!Proposals, Manager!Accepted, Proved!Accepted,
         Manager!Noop, Proved!Noop, Manager!ReasonIsTrue, Proved!ReasonIsTrue,
         Manager!ValidatedProposed, Proved!ValidatedProposed,
         Manager!ResultIsResolved, Proved!ResultIsResolved,
         Manager!PlacesKept, Proved!PlacesKept, Manager!Holds, Proved!Holds,
         Manager!AnswerIsFiltered, Proved!AnswerIsFiltered,
         Manager!Orphaned, Proved!Orphaned, Manager!Filtering, Proved!Filtering,
         Manager!Resolving, Proved!Resolving, Manager!Contradicts, Proved!Contradicts,
         Manager!SameTarget, Proved!SameTarget, Manager!SameCreate, Proved!SameCreate,
         Manager!MemoryAction, Proved!MemoryAction, Manager!IsCreate, Proved!IsCreate,
         Manager!Retires, Proved!Retires, Manager!RetireActions, Proved!RetireActions,
         Manager!LowConfidence, Proved!LowConfidence

LEMMA AcceptGood ==
    ASSUME Manager!ManagerInv, AcceptOne
    PROVE  Manager!ManagerInv'
<1> SUFFICES ASSUME Proved!ManagerInv PROVE Proved!ManagerInv'
  BY SameInvariant, PTL
<1>1. CASE Manager!ValidateOne
  <2>1. Proved!ValidateOne
    BY <1>1 DEF Manager!ValidateOne, Proved!ValidateOne, Manager!Noop, Proved!Noop
  <2>2. QED BY <2>1, ManagerAssumed, Proved!ValidateGood
<1>2. CASE Manager!ResolveOne
  <2>1. Proved!ResolveOne
    BY <1>2 DEF Manager!ResolveOne, Proved!ResolveOne, Manager!Contradicts, Proved!Contradicts,
             Manager!Outranks, Proved!Outranks, Manager!SameTarget, Proved!SameTarget,
             Manager!SameCreate, Proved!SameCreate,
             Manager!IsCreate, Proved!IsCreate, Manager!Retires, Proved!Retires,
             Manager!RetireActions, Proved!RetireActions
  <2>2. QED BY <2>1, ManagerAssumed, Proved!ResolveGood
<1>3. CASE Manager!FilterOne
  <2>1. Proved!FilterOne
    BY <1>3 DEF Manager!FilterOne, Proved!FilterOne, Manager!Orphaned, Proved!Orphaned,
             Manager!IsCreate, Proved!IsCreate
  <2>2. QED BY <2>1, ManagerAssumed, Proved!FilterGood
<1>4. CASE \/ Manager!ValidateDone \/ Manager!ResolveDone
           \/ Manager!FilterDone \/ Manager!Answer
  <2>1. \/ Proved!ValidateDone \/ Proved!ResolveDone
        \/ Proved!FilterDone \/ Proved!Answer
    BY <1>4 DEF Manager!ValidateDone, Proved!ValidateDone, Manager!ResolveDone,
             Proved!ResolveDone, Manager!FilterDone, Proved!FilterDone, Manager!Answer,
             Proved!Answer, Manager!LowConfidence, Proved!LowConfidence,
             Manager!lists, Proved!lists
  <2>2. QED BY <2>1, ManagerAssumed, Proved!LoopEnds
<1>5. QED BY <1>1, <1>2, <1>3, <1>4 DEF AcceptOne

LEMMA HandOverGood ==
    ASSUME Manager!ManagerInv, NEW batch \in Seq(MemoryAction), HandOver(batch)
    PROVE  Manager!ManagerInv'
<1>1. /\ stage = "call" /\ stage' = "validate" /\ proposals' = Handed(batch)
      /\ UNCHANGED <<source, reason, position, validated, resolved, answer>>
  BY DEF HandOver
<1>2. Handed(batch) \in Seq(Proved!Proposals)
  <2> DEFINE P(k) == [act |-> batch[k], valid |-> TRUE, confident |-> TRUE]
  <2>1. /\ DOMAIN batch = 1 .. Len(batch) /\ Len(batch) \in Nat
        /\ \A k \in DOMAIN batch : batch[k] \in Proved!MemoryAction
    BY DEF MemoryAction, RetireActions, Proved!MemoryAction, Proved!RetireActions
  <2>2. \A k \in DOMAIN batch : P(k) \in Proved!Proposals
    BY <2>1 DEF Proved!Proposals
  <2>3. Handed(batch) = [k \in 1 .. Len(batch) |-> P(k)]
    BY <2>1 DEF Handed
  <2> HIDE DEF P
  <2>4. QED BY <2>1, <2>2, <2>3
<1>3. Proved!ManagerInv'
  BY <1>1, <1>2, SameInvariant, ManagerAssumed, Proved!HandedGood
<1>4. QED BY <1>3, SameInvariant, PTL

LEMMA ManagerInitGood == Manager!Init => Manager!ManagerInv
<1>1. Manager!Init => Proved!Init
  BY DEF Manager!Init, Proved!Init
<1>2. QED BY <1>1, SameInvariant, ManagerAssumed, Proved!InitGood

LEMMA ManagerReturnGood ==
    ASSUME Manager!ManagerInv, Manager!Return
    PROVE  Manager!ManagerInv'
<1>1. Proved!Return
  BY DEF Manager!Return, Proved!Return, Manager!NoLists, Proved!NoLists
<1>2. Proved!ManagerInv'
  BY <1>1, SameInvariant, ManagerAssumed, Proved!ReturnGood
<1>3. QED BY <1>2, SameInvariant, PTL

LEMMA ManagerStutterGood ==
    ASSUME Manager!ManagerInv, UNCHANGED managerVars
    PROVE  Manager!ManagerInv'
<1>1. UNCHANGED <<stage, source, reason, proposals, position, validated, resolved, answer>>
  BY DEF managerVars
<1>2. Proved!ManagerInv'
  BY <1>1, SameInvariant, ManagerAssumed, Proved!StutterGood
<1>3. QED BY <1>2, SameInvariant, PTL

-----------------------------------------------------------------------------
(* What is covered in the batch of a policy is linked when it reaches the   *)
(* engine.                                                                  *)
LEMMA CoveredReachesLinked ==
    ASSUME Manager!ManagerInv, stage = "answered",
           NEW batch, proposals = Handed(batch), Covered(batch)
    PROVE  Linked(Routed)
<1>1. /\ DOMAIN proposals = DOMAIN batch
      /\ \A k \in DOMAIN batch : proposals[k].act = batch[k]
  BY DEF Handed
<1>2. Proved!Covered(Proved!Actions(proposals))
  BY <1>1 DEF Covered, IsCreate, Retires, RetireActions, Proved!Covered, Proved!Actions,
             Proved!IsCreate, Proved!Retires, Proved!RetireActions
<1>3. Proved!ManagerInv /\ Proved!Answered
  BY SameInvariant DEF Proved!Answered
<1>4. Proved!Covered(Proved!Actions(validated))
  BY <1>2, <1>3, ManagerAssumed, Proved!CoveredValidated
<1>5. Proved!CoveredBecomesLinked
  BY <1>3, ManagerAssumed, Proved!LinkedAnswer
<1>6. Proved!Linked(Proved!Actions(answer))
  BY <1>3, <1>4, <1>5 DEF Proved!CoveredBecomesLinked
<1>7. QED BY <1>6 DEF Routed, Linked, IsCreate, Supersede, Manager!Actions, Proved!Actions,
             Proved!Linked, Proved!IsCreate, Proved!Supersede

(* A linked batch is covered by its supersedes.                             *)
LEMMA LinkedIsCovered ==
    ASSUME NEW batch, Linked(batch)
    PROVE  Covered(batch)
  BY DEF Linked, Covered, Supersede, Retires, RetireActions

(* An action of the batch is lost only to a forget: of the memory it        *)
(* retires, or of one that the same statement was to replace.               *)
LEMMA LostToForget ==
    ASSUME Manager!ManagerInv, stage = "answered",
           NEW batch \in Seq(MemoryAction), proposals = Handed(batch), NEW k \in DOMAIN batch
    PROVE  \/ \E j \in DOMAIN Routed : Alike(Routed[j], batch[k])
           \/ \E j \in DOMAIN Routed, l \in DOMAIN batch :
                 /\ Alike(batch[l], batch[k])
                 /\ Routed[j].action = "forget"
                 /\ Routed[j].memory_id \in {batch[l].replaces, batch[l].memory_id}
<1>1. /\ DOMAIN proposals = DOMAIN batch
      /\ \A n \in DOMAIN batch : proposals[n].act = batch[n]
  BY DEF Handed
<1>2. DOMAIN Routed = DOMAIN answer /\ \A j \in DOMAIN answer : Routed[j] = answer[j].act
  BY DEF Routed, Manager!Actions
<1>3. Proved!ManagerInv /\ Proved!Answered
  BY SameInvariant DEF Proved!Answered
<1>4. batch[k] \in MemoryAction /\ batch[k] # Proved!Noop
  BY DEF MemoryAction, RetireActions, Proved!Noop
<1> USE DEF IsCreate, Retires, RetireActions, Proved!IsCreate, Proved!Retires,
            Proved!RetireActions, Proved!SameTarget, Proved!SameCreate, Proved!Contradicts
<1>5. \/ \E j \in DOMAIN answer : Proved!Holds(answer[j], proposals[k])
      \/ \E j \in DOMAIN answer, l \in DOMAIN proposals :
            /\ Proved!SameCreate(proposals[l], proposals[k])
            /\ answer[j].act.action = "forget"
            /\ answer[j].act.memory_id = proposals[l].act.replaces
  BY <1>1, <1>3, <1>4, ManagerAssumed, Proved!PlaceInAnswer
<1>6. ASSUME NEW j \in DOMAIN answer, Proved!Holds(answer[j], proposals[k])
      PROVE  \/ Alike(Routed[j], batch[k])
             \/ Routed[j].action = "forget" /\ Routed[j].memory_id = batch[k].memory_id
  <2>1. Routed[j] \in MemoryAction
    <3>1. answer \in Seq(Proved!Accepted)
      BY <1>3 DEF Proved!ManagerInv, Proved!TypeOK
    <3>2. answer[j] \in Proved!Accepted
      BY <3>1
    <3>3. QED BY <1>2, <3>2 DEF Proved!Accepted, Proved!MemoryAction, MemoryAction
  <2>2. CASE Routed[j].action = "supersede"
    <3>1. /\ batch[k].action = "supersede" /\ batch[k].memory_id = Routed[j].memory_id
      BY <1>1, <1>2, <1>4, <1>6, <2>2 DEF Proved!Holds, MemoryAction
    <3>2. Routed[j] = batch[k]
      BY <1>4, <2>1, <2>2, <3>1 DEF MemoryAction
    <3>3. QED BY <3>2 DEF Alike
  <2>3. CASE Routed[j].action = "forget"
    BY <1>1, <1>2, <1>6, <2>3 DEF Proved!Holds
  <2>4. CASE Routed[j].action = "create"
    BY <1>1, <1>2, <1>6, <2>4 DEF Proved!Holds, Alike
  <2>5. QED BY <2>1, <2>2, <2>3, <2>4 DEF MemoryAction
<1>7. Alike(batch[k], batch[k])
  BY DEF Alike
<1>8. CASE \E j \in DOMAIN answer : Proved!Holds(answer[j], proposals[k])
  BY <1>2, <1>6, <1>7, <1>8
<1>9. CASE \E j \in DOMAIN answer, l \in DOMAIN proposals :
              /\ Proved!SameCreate(proposals[l], proposals[k])
              /\ answer[j].act.action = "forget"
              /\ answer[j].act.memory_id = proposals[l].act.replaces
  BY <1>1, <1>2, <1>9 DEF Alike
<1>10. QED BY <1>5, <1>8, <1>9
=============================================================================
