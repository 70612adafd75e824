-------------------------- MODULE LocalPolicyProofs --------------------------
(***************************************************************************)
(* Proofs about LocalPolicyV2: whatever a local model answers and whatever *)
(* linked batch the planner made, the policy contains the answer.          *)
(***************************************************************************)
EXTENDS LocalPath, PolicyPathProofs

LEMMA NoneIsNoMemory ==
    /\ None \notin Ids
    /\ None \notin Contents
  BY VocabularyAssumption

LEMMA ActionShape ==
    ASSUME NEW act \in MemoryAction
    PROVE  /\ IsCreate(act) => /\ act.action = "create" /\ ~ Retires(act)
                               /\ act.content \in Contents
                               /\ act.replaces \in Ids \cup {None}
           /\ Retires(act) => act.memory_id \in Ids /\ ~ IsCreate(act)
           /\ act.action = "supersede" => Retires(act) /\ act = Supersede(act.memory_id)
           /\ act.action = "forget" => Retires(act) /\ act = Forget(act.memory_id)
           /\ act.action \in Everything
  BY DEF MemoryAction, IsCreate, Retires, RetireActions, Supersede, Forget, Everything

LEMMA ActionTypes ==
    ASSUME NEW i \in Ids, NEW c \in Contents, NEW r \in Ids \cup {None}
    PROVE  /\ Create(c, r) \in MemoryAction /\ IsCreate(Create(c, r))
           /\ Create(c, r).replaces = r /\ ~ Retires(Create(c, r))
           /\ Supersede(i) \in MemoryAction /\ ~ IsCreate(Supersede(i))
           /\ Retires(Supersede(i)) /\ Supersede(i).memory_id = i
           /\ Supersede(i).action = "supersede"
           /\ Forget(i) \in MemoryAction /\ ~ IsCreate(Forget(i))
           /\ Retires(Forget(i)) /\ Forget(i).memory_id = i
           /\ Forget(i).action = "forget" /\ Forget(i) # Supersede(i)
  BY DEF MemoryAction, Create, Supersede, Forget, IsCreate, Retires, RetireActions

-----------------------------------------------------------------------------
(* The merges are merges.                                                   *)
LEMMA BaselineType == Baseline \in Merges
<1>1. <<>> \in Seq(MemoryAction)
  OBVIOUS
<1>2. QED BY <1>1 DEF Baseline, Merges

LEMMA CreatedType ==
    ASSUME NEW c \in Contents
    PROVE  Baseline \in Merges /\ Created(c) \in Merges
<1>1. Create(c, None) \in MemoryAction
  BY DEF Create, MemoryAction
<1>2. <<Create(c, None)>> \in Seq(MemoryAction)
  BY <1>1
<1>3. QED BY <1>2, BaselineType DEF Created, Baseline, Merges

LEMMA UpdatedType ==
    ASSUME NEW i \in Ids, NEW c \in Contents
    PROVE  Updated(i, c) \in Merges
<1>1. Supersede(i) \in MemoryAction /\ Create(c, i) \in MemoryAction
  BY ActionTypes
<1>2. <<Supersede(i), Create(c, i)>> \in Seq(MemoryAction)
  BY <1>1
<1>3. QED BY <1>2 DEF Updated, Merges, Everything

LEMMA ForgottenType ==
    ASSUME NEW i \in Ids
    PROVE  Forgotten(i) \in Merges
<1>1. Forget(i) \in MemoryAction
  BY DEF Forget, MemoryAction, RetireActions
<1>2. <<Forget(i)>> \in Seq(MemoryAction)
  BY <1>1
<1>3. QED BY <1>2 DEF Forgotten, Merges

LEMMA RefusedType ==
    ASSUME NEW f \in {"remember", "update", "forget", "unclassified"}
    PROVE  Refused(f) \in Merges
<1>1. FallbackKinds(f) \in SUBSET Everything
  BY DEF FallbackKinds, Everything
<1>2. QED BY <1>1, BaselineType DEF Refused, Baseline, Merges

-----------------------------------------------------------------------------
(* Until the proposal has been decided on, a step only has to give it a     *)
(* form the parser lets pass.                                               *)
LEMMA GenerateFrame ==
    ASSUME LocalInv, pc = "generate", pc' \in {"generate", "apply"},
           UNCHANGED <<active, deterministic, fallback, merge, next, actions>>,
           attempt' \in 0 .. MaxRetries, rejected' \in BOOLEAN,
           proposal' \in Proposals \cup {None},
           proposal' # None => WellFormed(proposal')
    PROVE  LocalInv'
<1>1. TypeOK'
  BY DEF LocalInv, TypeOK, PCs
<1>2. BatchGood'
  BY DEF LocalInv, BatchGood, Retired
<1>3. ProposalGood'
  BY DEF ProposalGood, WellFormed
<1>4. MergeGood' /\ LoopKeeps' /\ Merged'
  BY DEF MergeGood, LoopKeeps, Merged, Planned
<1>5. QED BY <1>1, <1>2, <1>3, <1>4 DEF LocalInv, CallIdle

(* The proposer that serialises the batch says what the parser lets pass.   *)
LEMMA ScriptedWellFormed ==
    ASSUME LocalInv, Scripted
    PROVE  proposal' \in Proposals /\ WellFormed(proposal')
<1>1. /\ deterministic \in Seq(MemoryAction)
      /\ Retired(deterministic) \subseteq DOMAIN active /\ DOMAIN active \subseteq Ids
  BY DEF LocalInv, TypeOK, BatchGood
<1>2. \A k \in DOMAIN deterministic : deterministic[k] \in MemoryAction
  BY <1>1
<1>3. CASE SaysForget
  <2>1. PICK k \in OfKind("forget") : Says("forget", None, deterministic[k].memory_id)
    BY <1>3 DEF SaysForget
  <2>2. deterministic[k].memory_id \in Ids
    BY <1>2, <2>1, ActionShape DEF OfKind
  <2>3. QED BY <2>1, <2>2, NoneIsNoMemory DEF Says, Proposals, LocalActions, WellFormed
<1>4. CASE SaysUpdate
  <2>1. PICK k \in OfKind("supersede"), n \in OfKind("create") :
            Says("update", deterministic[n].content, deterministic[k].memory_id)
    BY <1>4 DEF SaysUpdate
  <2>2. deterministic[k].memory_id \in Ids /\ deterministic[n].content \in Contents
    BY <1>2, <2>1, ActionShape DEF OfKind, IsCreate
  <2>3. QED BY <2>1, <2>2, NoneIsNoMemory DEF Says, Proposals, LocalActions, WellFormed
<1>5. CASE SaysRemember
  <2>1. PICK n \in OfKind("create") : Says("remember", deterministic[n].content, None)
    BY <1>5 DEF SaysRemember
  <2>2. deterministic[n].content \in Contents
    BY <1>2, <2>1, ActionShape DEF OfKind, IsCreate
  <2>3. QED BY <2>1, <2>2, NoneIsNoMemory DEF Says, Proposals, LocalActions, WellFormed
<1>6. CASE SaysNothing
  BY <1>6 DEF SaysNothing, Says, Proposals, LocalActions, WellFormed
<1>7. QED BY <1>3, <1>4, <1>5, <1>6 DEF Scripted

(* A decision only has to be one of the five merges.                        *)
LEMMA DecideFrame ==
    ASSUME LocalInv, NEW m \in Merges,
           NEW f \in {"remember", "update", "forget", "unclassified", None},
           Decide(m, f), rejected' \in BOOLEAN, MergeGood'
    PROVE  LocalInv'
<1>1. /\ pc = "apply" /\ pc' = "merge" /\ merge' = m /\ fallback' = f
      /\ UNCHANGED <<active, deterministic, attempt, proposal, next, actions>>
  BY DEF Decide
<1>2. actions = <<>> /\ next = 1
  BY <1>1 DEF LocalInv, CallIdle
<1>3. TypeOK'
  BY <1>1 DEF LocalInv, TypeOK, PCs
<1>4. BatchGood'
  BY <1>1 DEF LocalInv, BatchGood, Retired
<1>5. ProposalGood'
  BY <1>1 DEF LocalInv, ProposalGood, WellFormed
<1>6. LoopKeeps'
  BY <1>1, <1>2, <1>3 DEF LoopKeeps, TypeOK
<1>7. Merged'
  BY <1>1 DEF Merged, Planned
<1>8. QED BY <1>1, <1>3, <1>4, <1>5, <1>6, <1>7 DEF LocalInv, CallIdle

LEMMA RefusalGood ==
    ASSUME LocalInv, NEW f \in {"remember", "update", "forget", "unclassified"}, FallBack(f)
    PROVE  LocalInv'
<1>1. Decide(Refused(f), f) /\ rejected' = TRUE
  BY DEF FallBack
<1>2. Refused(f) \in Merges
  BY <1>1, RefusedType
<1>3. f # None => MergeGood'
  BY <1>1 DEF Decide, MergeGood, Refused
<1>4. f # None
  BY LocalAssumption DEF LocalActions
<1>5. QED BY <1>1, <1>2, <1>3, <1>4, DecideFrame

LEMMA MergeCreateGood ==
    ASSUME LocalInv, NEW c \in Contents, MergeCreate(c)
    PROVE  LocalInv'
<1>1. rejected' \in BOOLEAN
  BY DEF MergeCreate, LocalInv, TypeOK
<1>2. Baseline \in Merges /\ Created(c) \in Merges
  BY CreatedType
<1>3. CASE Known(c)
  <2>1. Decide(Baseline, None)
    BY <1>3 DEF MergeCreate
  <2>2. MergeGood'
    BY <2>1 DEF Decide, MergeGood
  <2>3. QED BY <1>1, <1>2, <2>1, <2>2, DecideFrame
<1>4. CASE ~ Known(c)
  <2>1. Decide(Created(c), None)
    BY <1>4 DEF MergeCreate
  <2>2. MergeGood'
    BY <2>1 DEF Decide, MergeGood
  <2>3. QED BY <1>1, <1>2, <2>1, <2>2, DecideFrame
<1>5. QED BY <1>3, <1>4

(* What the parser lets pass has the fields its action needs.               *)
LEMMA ProposalShape ==
    ASSUME LocalInv, proposal # None
    PROVE  /\ proposal.action \in LocalActions
           /\ proposal.action \in {"remember", "update"} => proposal.content \in Contents
           /\ proposal.action = "none" => proposal.grounded
           /\ proposal.described # None => proposal.described \in DOMAIN active
           /\ DOMAIN active \subseteq Ids
<1>1. proposal \in Proposals /\ WellFormed(proposal) /\ DOMAIN active \subseteq Ids
  BY DEF LocalInv, TypeOK, ProposalGood
<1>2. QED BY <1>1 DEF Proposals, WellFormed

(* Every way to decide on the proposal keeps the invariant.                 *)
LEMMA DecisionGood ==
    ASSUME LocalInv,
           \/ NoProposal \/ Nothing \/ Ungrounded \/ Remember
           \/ Update \/ UpdateOfNone \/ UpdateRefused \/ ForgetIt \/ ForgetRefused
    PROVE  LocalInv'
<1>1. CASE NoProposal
  BY <1>1, RefusalGood DEF NoProposal
<1>2. CASE Nothing
  <2>1. Decide(Baseline, None) /\ rejected' \in BOOLEAN
    BY <1>2 DEF Nothing, LocalInv, TypeOK
  <2>2. Baseline \in Merges
    BY BaselineType
  <2>3. MergeGood'
    BY <2>1 DEF Decide, MergeGood
  <2>4. QED BY <2>1, <2>2, <2>3, DecideFrame
<1>3. CASE Ungrounded
  <2>1. proposal.action \in {"remember", "update", "forget"} /\ FallBack(proposal.action)
    BY <1>3, ProposalShape DEF Ungrounded, LocalActions
  <2>2. QED BY <2>1, RefusalGood
<1>4. CASE Remember
  BY <1>4, ProposalShape, MergeCreateGood DEF Remember, Proposes
<1>5. CASE Update
  <2>1. /\ Decide(Updated(proposal.named, proposal.content), None)
        /\ rejected' \in BOOLEAN /\ Proposes("update") /\ proposal.named \in DOMAIN active
    BY <1>5 DEF Update, LocalInv, TypeOK
  <2>2. proposal.named \in Ids /\ proposal.content \in Contents
    BY <2>1, ProposalShape DEF Proposes
  <2>3. Updated(proposal.named, proposal.content) \in Merges
    BY <2>2, UpdatedType
  <2>4. MergeGood'
    BY <2>1 DEF Decide, MergeGood, Applied, Proposes
  <2>5. QED BY <2>1, <2>3, <2>4, DecideFrame
<1>6. CASE UpdateOfNone
  BY <1>6, ProposalShape, MergeCreateGood DEF UpdateOfNone, Proposes
<1>7. CASE UpdateRefused
  BY <1>7, RefusalGood DEF UpdateRefused
<1>8. CASE ForgetIt
  <2>1. /\ Decide(Forgotten(ForgetTarget), None) /\ ForgetTarget # None
        /\ rejected' \in BOOLEAN /\ Proposes("forget")
    BY <1>8 DEF ForgetIt, LocalInv, TypeOK
  <2>2. ForgetTarget \in DOMAIN active /\ ForgetTarget \in Ids
    BY <2>1, ProposalShape DEF ForgetTarget, Proposes
  <2>3. PICK i : i = ForgetTarget
    OBVIOUS
  <2>4. Forgotten(i) \in Merges
    BY <2>2, <2>3, ForgottenType
  <2>5. MergeGood'
    BY <2>1, <2>2, <2>3 DEF Decide, MergeGood, Applied, Proposes
  <2>6. QED BY <2>1, <2>3, <2>4, <2>5, DecideFrame
<1>9. CASE ForgetRefused
  BY <1>9, RefusalGood DEF ForgetRefused
<1>10. QED BY <1>1, <1>2, <1>3, <1>4, <1>5, <1>6, <1>7, <1>8, <1>9

-----------------------------------------------------------------------------
(* The loop that builds the result.                                         *)
LEMMA MergeOneGood ==
    ASSUME LocalInv, MergeOne
    PROVE  LocalInv'
<1>1. /\ pc = "merge" /\ pc' = "merge" /\ next \in DOMAIN deterministic /\ next' = next + 1
      /\ UNCHANGED <<active, deterministic, attempt, rejected, proposal, fallback, merge>>
      /\ actions' = IF Keeps(deterministic[next]) THEN Append(actions, deterministic[next])
                    ELSE actions
  BY DEF MergeOne, callVars
<1>2. /\ actions \in Seq(MemoryAction) /\ deterministic \in Seq(MemoryAction)
      /\ next \in Nat \ {0} /\ LoopKeeps /\ TypeOK
  BY DEF LocalInv, TypeOK
<1>3. PICK act : act = deterministic[next]
  OBVIOUS
<1>4. act \in MemoryAction
  BY <1>1, <1>2, <1>3
<1>5. actions' \in Seq(MemoryAction)
  BY <1>1, <1>2, <1>3, <1>4
<1>6. TypeOK'
  BY <1>1, <1>2, <1>5 DEF TypeOK
<1>7. BatchGood' /\ ProposalGood' /\ MergeGood' /\ Merged'
  BY <1>1 DEF LocalInv, BatchGood, Retired, ProposalGood, WellFormed, MergeGood, Applied,
              Merged, Planned
<1>8. \A k \in DOMAIN actions' :
          \/ k \in DOMAIN actions /\ actions'[k] = actions[k]
          \/ actions'[k] = act /\ Keeps(act)
  BY <1>1, <1>2, <1>3, <1>4
<1>9. \A k \in DOMAIN actions : k \in DOMAIN actions' /\ actions'[k] = actions[k]
  BY <1>1, <1>2, <1>3, <1>4
<1>10. Keeps(act) => Len(actions) + 1 \in DOMAIN actions' /\ actions'[Len(actions) + 1] = act
  BY <1>1, <1>2, <1>3, <1>4
<1>11. ASSUME NEW j \in DOMAIN deterministic, j < next', Keeps(deterministic[j])
       PROVE  Has(actions', deterministic[j])
  <2>1. CASE j < next
    <3>1. Has(actions, deterministic[j])
      BY <1>1, <1>2, <1>11, <2>1 DEF LoopKeeps
    <3>2. QED BY <1>9, <3>1 DEF Has
  <2>2. CASE j = next
    BY <1>3, <1>10, <1>11, <2>2 DEF Has
  <2>3. QED BY <1>1, <1>2, <1>11, <2>1, <2>2
<1>12. ASSUME NEW k \in DOMAIN actions'
       PROVE  \E j \in DOMAIN deterministic :
                  actions'[k] = deterministic[j] /\ Keeps(deterministic[j])
  BY <1>1, <1>2, <1>3, <1>8, <1>12 DEF LoopKeeps
<1>13. LoopKeeps'
  BY <1>1, <1>11, <1>12 DEF LoopKeeps, Has, Keeps
<1>14. QED BY <1>1, <1>6, <1>7, <1>13 DEF LocalInv, CallIdle

LEMMA MergeDoneGood ==
    ASSUME LocalInv, MergeDone
    PROVE  LocalInv'
<1>1. /\ pc = "merge" /\ pc' = "planned" /\ next \notin DOMAIN deterministic /\ next' = 1
      /\ UNCHANGED <<active, deterministic, attempt, rejected, proposal, fallback, merge>>
      /\ actions' = actions \o merge.tail
  BY DEF MergeDone, callVars
<1>2. /\ actions \in Seq(MemoryAction) /\ deterministic \in Seq(MemoryAction)
      /\ merge.tail \in Seq(MemoryAction) /\ next \in Nat \ {0} /\ LoopKeeps /\ TypeOK
  BY DEF LocalInv, TypeOK, Merges
<1>3. actions' \in Seq(MemoryAction)
  BY <1>1, <1>2
<1>4. TypeOK'
  BY <1>1, <1>2, <1>3 DEF TypeOK, PCs
<1>5. BatchGood' /\ ProposalGood' /\ MergeGood' /\ LoopKeeps'
  BY <1>1 DEF LocalInv, BatchGood, Retired, ProposalGood, WellFormed, MergeGood, Applied,
              LoopKeeps
<1>6. PICK tail : tail = merge.tail
  OBVIOUS
<1>7. /\ \A k \in DOMAIN actions : k \in DOMAIN actions' /\ actions'[k] = actions[k]
      /\ \A k \in DOMAIN tail : /\ Len(actions) + k \in DOMAIN actions'
                                /\ actions'[Len(actions) + k] = tail[k]
      /\ \A k \in DOMAIN actions' :
            \/ k \in DOMAIN actions /\ actions'[k] = actions[k]
            \/ k - Len(actions) \in DOMAIN tail /\ actions'[k] = tail[k - Len(actions)]
  BY <1>1, <1>2, <1>6
<1>8. \A j \in DOMAIN deterministic : j < next
  BY <1>1, <1>2
<1>9. ASSUME NEW j \in DOMAIN deterministic, Keeps(deterministic[j])
      PROVE  Has(actions', deterministic[j])
  BY <1>1, <1>2, <1>7, <1>8, <1>9 DEF LoopKeeps, Has
<1>10. \A j \in DOMAIN tail : Has(actions', tail[j])
  BY <1>7 DEF Has
<1>11. ASSUME NEW k \in DOMAIN actions'
       PROVE  \/ \E j \in DOMAIN deterministic :
                    actions'[k] = deterministic[j] /\ Keeps(deterministic[j])
              \/ \E j \in DOMAIN tail : actions'[k] = tail[j]
  BY <1>1, <1>2, <1>7, <1>11 DEF LoopKeeps
<1>12. Merged'
  BY <1>1, <1>6, <1>9, <1>10, <1>11 DEF Merged, Has, Keeps
<1>13. QED BY <1>1, <1>4, <1>5, <1>12 DEF LocalInv, CallIdle

-----------------------------------------------------------------------------
LEMMA EmptyTypes ==
    /\ <<>> \in Seq(MemoryAction)
    /\ DOMAIN <<>> = {}
    /\ 0 \in 0 .. MaxRetries
  BY LocalAssumption

LEMMA InitGood == Init => LocalInv
<1> SUFFICES ASSUME Init PROVE LocalInv
  OBVIOUS
<1>1. TypeOK
  <2>1. /\ deterministic \in Seq(MemoryAction) /\ actions \in Seq(MemoryAction)
        /\ DOMAIN active = {} /\ attempt \in 0 .. MaxRetries
    BY EmptyTypes DEF Init
  <2>2. merge \in Merges
    BY BaselineType DEF Init
  <2>3. rejected \in BOOLEAN
    BY DEF Init
  <2>4. QED BY <2>1, <2>2, <2>3 DEF Init, TypeOK, PCs
<1>2. BatchGood
  BY DEF Init, BatchGood, Linked, Retired
<1>3. QED BY <1>1, <1>2 DEF Init, LocalInv, CallIdle, ProposalGood, MergeGood, LoopKeeps,
             Merged, Planned

LEMMA CallGood ==
    ASSUME LocalInv, Call
    PROVE  LocalInv'
<1>1. PICK n \in 0 .. MaxBatch : deterministic' \in [1 .. n -> MemoryAction]
  BY DEF Call
<1>2. deterministic' \in Seq(MemoryAction)
  BY <1>1, LocalAssumption
<1>3. PICK A \in SUBSET Ids : active' \in [A -> Contents]
  BY DEF Call
<1>4. /\ pc = "call" /\ pc' = "generate"
      /\ UNCHANGED <<attempt, rejected, proposal, fallback, merge, next, actions>>
      /\ Linked(deterministic') /\ Retired(deterministic') \subseteq DOMAIN active'
  BY DEF Call
<1>5. TypeOK'
  BY <1>2, <1>3, <1>4 DEF LocalInv, TypeOK, PCs
<1>6. BatchGood'
  BY <1>4 DEF BatchGood, Linked, Retired
<1>7. proposal = None
  BY <1>4 DEF LocalInv, CallIdle
<1>8. QED BY <1>4, <1>5, <1>6, <1>7 DEF LocalInv, ProposalGood, MergeGood, LoopKeeps,
              Merged, Planned, CallIdle

LEMMA ReturnedGood ==
    ASSUME LocalInv, Returned
    PROVE  LocalInv'
<1>1. TypeOK'
  <2>1. /\ deterministic' \in Seq(MemoryAction) /\ actions' \in Seq(MemoryAction)
        /\ DOMAIN active' = {} /\ attempt' \in 0 .. MaxRetries
    BY EmptyTypes DEF Returned
  <2>2. merge' \in Merges
    BY BaselineType DEF Returned
  <2>3. rejected' \in BOOLEAN
    BY DEF Returned
  <2>4. QED BY <2>1, <2>2, <2>3 DEF Returned, TypeOK, PCs
<1>2. BatchGood'
  BY DEF Returned, BatchGood, Linked, Retired
<1>3. QED BY <1>1, <1>2 DEF Returned, LocalInv, CallIdle, ProposalGood, MergeGood,
              LoopKeeps, Merged, Planned

LEMMA GenerateGood ==
    ASSUME LocalInv, Proposed \/ Unparseable \/ RunnerFails \/ Scripted
    PROVE  LocalInv'
<1>1. TypeOK /\ ProposalGood
  BY DEF LocalInv
<1>2. CASE Proposed
  <2>1. proposal' \in Proposals /\ WellFormed(proposal')
    BY <1>2 DEF Proposed
  <2>2. QED BY <1>1, <1>2, <2>1, GenerateFrame DEF Proposed, TypeOK
<1>3. CASE Unparseable
  <2>1. attempt' \in 0 .. MaxRetries
    BY <1>1, <1>3, LocalAssumption DEF Unparseable, TypeOK
  <2>2. QED BY <1>1, <1>3, <2>1, GenerateFrame DEF Unparseable, TypeOK, ProposalGood
<1>4. CASE RunnerFails
  BY <1>1, <1>4, GenerateFrame DEF RunnerFails, TypeOK, ProposalGood
<1>5. CASE Scripted
  BY <1>1, <1>5, ScriptedWellFormed, GenerateFrame DEF Scripted, TypeOK
<1>6. QED BY <1>2, <1>3, <1>4, <1>5

LEMMA StepGood ==
    ASSUME LocalInv, [Next]_vars
    PROVE  LocalInv'
<1>1. CASE UNCHANGED vars
  <2>1. /\ UNCHANGED <<pc, active, deterministic, attempt, rejected, proposal, fallback>>
        /\ UNCHANGED <<merge, next, actions>>
    BY <1>1 DEF vars, callVars
  <2>2. TypeOK'
    BY <2>1 DEF LocalInv, TypeOK
  <2>3. BatchGood' /\ ProposalGood' /\ MergeGood' /\ CallIdle'
    BY <2>1 DEF LocalInv, BatchGood, Retired, ProposalGood, WellFormed, MergeGood, Applied,
                CallIdle
  <2>4. LoopKeeps' /\ Merged'
    BY <2>1 DEF LocalInv, LoopKeeps, Merged, Planned, Keeps
  <2>5. QED BY <2>1, <2>2, <2>3, <2>4 DEF LocalInv
<1>2. CASE Next
  BY <1>2, CallGood, GenerateGood, DecisionGood, MergeOneGood, MergeDoneGood, ReturnedGood
     DEF Next, PlanOne
<1>3. QED BY <1>1, <1>2

(* For every linked batch of the planner and every answer of the model, the *)
(* result is what the merge keeps of the batch and its tail, and the merge  *)
(* is one of those plan knows.                                              *)
THEOREM LocalInvariantHolds == Spec => []LocalInv
<1>1. QED BY InitGood, StepGood, PTL DEF Spec

-----------------------------------------------------------------------------
(* What the merges have in common.                                          *)
LEMMA MergeFacts ==
    ASSUME LocalInv, Planned
    PROVE  /\ merge.tail \in Seq(MemoryAction)
           /\ "create" \in merge.kinds => "supersede" \in merge.kinds
           /\ merge.spared # None => merge.spared \in Retired(merge.tail)
           /\ Covered(merge.tail)
           /\ Retired(merge.tail) \subseteq DOMAIN active
<1>1. /\ merge \in Merges /\ MergeGood /\ pc = "planned" /\ DOMAIN active \subseteq Ids
      /\ fallback \in {"remember", "update", "forget", "unclassified", None}
  BY DEF LocalInv, Planned, TypeOK
<1>2. merge.tail \in Seq(MemoryAction)
  BY <1>1 DEF Merges
<1>3. CASE fallback # None /\ merge = Refused(fallback)
  <2>1. merge.tail = <<>> /\ merge.spared = None /\ merge.kinds = FallbackKinds(fallback)
    BY <1>3 DEF Refused, Baseline
  <2>2. "create" \in merge.kinds => "supersede" \in merge.kinds
    BY <1>1, <1>3, <2>1 DEF FallbackKinds, Everything
  <2>3. QED BY <1>2, <2>1, <2>2 DEF Covered, Retired
<1>4. CASE merge = Baseline
  BY <1>2, <1>4 DEF Baseline, Everything, Covered, Retired
<1>5. ASSUME NEW c \in Contents, merge = Created(c)
      PROVE  /\ "supersede" \in merge.kinds /\ merge.spared = None
             /\ Covered(merge.tail) /\ Retired(merge.tail) = {}
  <2>1. merge.tail = <<Create(c, None)>> /\ merge.spared = None /\ merge.kinds = Everything
    BY <1>5 DEF Created, Baseline
  <2>2. \A k \in DOMAIN merge.tail : merge.tail[k] = Create(c, None)
    BY <2>1
  <2>3. Create(c, None).replaces = None /\ ~ Retires(Create(c, None))
    BY DEF Create, Retires, RetireActions
  <2>4. Covered(merge.tail) /\ Retired(merge.tail) = {}
    BY <2>2, <2>3 DEF Covered, Retired
  <2>5. QED BY <2>1, <2>4 DEF Everything
<1>6. CASE /\ Applied("update") /\ proposal.named \in DOMAIN active
           /\ merge = Updated(proposal.named, proposal.content)
  <2>1. PICK i, c : i = proposal.named /\ c = proposal.content
    OBVIOUS
  <2>2. i \in Ids /\ i \in DOMAIN active /\ c \in Contents
    BY <1>1, <1>6, <2>1, ProposalShape DEF Applied
  <2>3. /\ merge.tail = <<Supersede(i), Create(c, i)>> /\ merge.spared = i
        /\ merge.kinds = {"supersede", "forget"}
    BY <1>6, <2>1 DEF Updated
  <2>4. /\ DOMAIN merge.tail = {1, 2}
        /\ merge.tail[1] = Supersede(i) /\ merge.tail[2] = Create(c, i)
    BY <2>3
  <2>5. /\ Retires(Supersede(i)) /\ Supersede(i).memory_id = i /\ ~ IsCreate(Supersede(i))
        /\ ~ Retires(Create(c, i)) /\ Create(c, i).replaces = i
    BY <2>2, ActionTypes
  <2>6. Covered(merge.tail) /\ Retired(merge.tail) = {i}
    BY <2>4, <2>5 DEF Covered, Retired
  <2>7. QED BY <1>2, <2>2, <2>3, <2>6
<1>7. ASSUME NEW i \in DOMAIN active, merge = Forgotten(i)
      PROVE  /\ "supersede" \in merge.kinds /\ merge.spared = i
             /\ Covered(merge.tail) /\ Retired(merge.tail) = {i}
  <2>1. merge.tail = <<Forget(i)>> /\ merge.spared = i /\ merge.kinds = Everything
    BY <1>7 DEF Forgotten
  <2>2. DOMAIN merge.tail = {1} /\ merge.tail[1] = Forget(i)
    BY <2>1
  <2>3. Retires(Forget(i)) /\ Forget(i).memory_id = i /\ ~ IsCreate(Forget(i))
    BY DEF Forget, Retires, IsCreate, RetireActions
  <2>4. Covered(merge.tail) /\ Retired(merge.tail) = {i}
    BY <2>2, <2>3 DEF Covered, Retired
  <2>5. QED BY <2>1, <2>4 DEF Everything
<1>8. CASE fallback = None /\ \E c \in Contents : merge = Created(c)
  BY <1>2, <1>5, <1>8
<1>9. CASE Applied("forget") /\ \E i \in DOMAIN active : merge = Forgotten(i)
  BY <1>2, <1>7, <1>9
<1>10. QED BY <1>1, <1>3, <1>4, <1>6, <1>8, <1>9 DEF MergeGood

LEMMA CoveredResult == LocalInv => BatchCovered
<1> SUFFICES ASSUME LocalInv, Planned,
                    NEW k \in DOMAIN actions, IsCreate(actions[k]), actions[k].replaces # None
             PROVE  \E j \in DOMAIN actions :
                        Retires(actions[j]) /\ actions[j].memory_id = actions[k].replaces
  BY DEF BatchCovered, Covered
<1>1. Merged /\ BatchGood /\ deterministic \in Seq(MemoryAction) /\ actions \in Seq(MemoryAction)
  BY DEF LocalInv, TypeOK
<1>2. PICK i : i = actions[k].replaces
  OBVIOUS
<1>3. i \in Ids
  BY <1>1, <1>2, ActionShape
<1>4. \A j \in DOMAIN merge.tail :
          Retires(merge.tail[j]) /\ merge.tail[j].memory_id = i =>
              \E n \in DOMAIN actions : Retires(actions[n]) /\ actions[n].memory_id = i
  BY <1>1 DEF Merged, Has
<1>5. CASE \E j \in DOMAIN merge.tail : actions[k] = merge.tail[j]
  <2>1. \E j \in DOMAIN merge.tail : Retires(merge.tail[j]) /\ merge.tail[j].memory_id = i
    BY <1>2, <1>5, MergeFacts DEF Covered
  <2>2. QED BY <1>2, <1>4, <2>1
<1>6. CASE \E j \in DOMAIN deterministic :
               actions[k] = deterministic[j] /\ Keeps(deterministic[j])
  <2>1. PICK j \in DOMAIN deterministic :
                 actions[k] = deterministic[j] /\ Keeps(deterministic[j])
    BY <1>6
  <2>2. PICK n \in DOMAIN deterministic : deterministic[n] = Supersede(i)
    BY <1>1, <1>2, <2>1 DEF BatchGood, Linked
  <2>3. "supersede" \in merge.kinds
    BY <2>1, MergeFacts DEF Keeps, IsCreate
  <2>4. /\ Supersede(i).action = "supersede" /\ Supersede(i).memory_id = i
        /\ Retires(Supersede(i))
    BY DEF Supersede, Retires, RetireActions
  <2>5. CASE i = merge.spared
    <3>1. i \in Retired(merge.tail)
      BY <1>3, <2>5, NoneIsNoMemory, MergeFacts
    <3>2. QED BY <1>2, <1>4, <3>1 DEF Retired
  <2>6. CASE i # merge.spared
    <3>1. Keeps(deterministic[n])
      BY <2>2, <2>3, <2>4, <2>6 DEF Keeps
    <3>2. Has(actions, Supersede(i))
      BY <1>1, <2>2, <3>1 DEF Merged
    <3>3. QED BY <1>2, <2>4, <3>2 DEF Has
  <2>7. QED BY <2>5, <2>6
<1>7. QED BY <1>1, <1>5, <1>6 DEF Merged

LEMMA InventionExcluded == LocalInv => NothingInvented
<1> SUFFICES ASSUME LocalInv, Planned, NEW k \in DOMAIN actions, Retires(actions[k])
             PROVE  actions[k].memory_id \in DOMAIN active
  BY DEF NothingInvented, Retired
<1>1. Merged /\ Retired(deterministic) \subseteq DOMAIN active
  BY DEF LocalInv, BatchGood
<1>2. Retired(merge.tail) \subseteq DOMAIN active
  BY MergeFacts
<1>3. QED BY <1>1, <1>2 DEF Merged, Retired

LEMMA RefusedForget == LocalInv => ForgetNeverCreates
<1> SUFFICES ASSUME LocalInv, Planned, fallback = "forget", NEW k \in DOMAIN actions
             PROVE  actions[k].action = "forget" /\ Has(deterministic, actions[k])
  BY DEF ForgetNeverCreates
<1>1. fallback # None
  BY LocalAssumption DEF LocalActions
<1>2. merge = Refused("forget")
  BY <1>1 DEF LocalInv, MergeGood, Planned, Applied
<1>3. merge.tail = <<>> /\ merge.kinds = {"forget"}
  BY <1>2 DEF Refused, Baseline, FallbackKinds
<1>4. PICK j \in DOMAIN deterministic :
               actions[k] = deterministic[j] /\ Keeps(deterministic[j])
  BY <1>3 DEF LocalInv, Merged
<1>5. QED BY <1>3, <1>4 DEF Keeps, Has

LEMMA ForgetsSurvive == LocalInv => UserForgetsKept
<1> SUFFICES ASSUME LocalInv, Planned, NEW k \in OfKind("forget"), NEW i,
                    i = deterministic[k].memory_id,
                    fallback \notin {"remember", "update"},
                    ~ (Applied("update") /\ proposal.named = i)
             PROVE  Has(actions, Forget(i))
  BY DEF UserForgetsKept
<1>1. /\ deterministic \in Seq(MemoryAction) /\ k \in DOMAIN deterministic
      /\ Merged /\ MergeGood /\ pc = "planned" /\ DOMAIN active \subseteq Ids
      /\ fallback \in {"remember", "update", "forget", "unclassified", None}
  BY DEF LocalInv, TypeOK, OfKind, Planned
<1>2. deterministic[k] = Forget(i) /\ i \in Ids
  BY <1>1, ActionShape DEF OfKind
<1>3. Forget(i).action = "forget" /\ Forget(i).memory_id = i
  BY DEF Forget
<1>4. "forget" \in merge.kinds /\ merge.spared # i => Has(actions, Forget(i))
  BY <1>1, <1>2, <1>3 DEF Merged, Keeps
<1>5. CASE fallback # None /\ merge = Refused(fallback)
  <2>1. merge.spared = None /\ merge.kinds = FallbackKinds(fallback)
    BY <1>5 DEF Refused, Baseline
  <2>2. "forget" \in merge.kinds
    BY <1>1, <1>5, <2>1 DEF FallbackKinds, Everything
  <2>3. QED BY <1>2, <1>4, <2>1, <2>2, NoneIsNoMemory
<1>6. CASE merge = Baseline \/ \E c \in Contents : merge = Created(c)
  <2>1. merge.spared = None /\ merge.kinds = Everything
    BY <1>6 DEF Created, Baseline
  <2>2. QED BY <1>2, <1>4, <2>1, NoneIsNoMemory DEF Everything
<1>7. CASE Applied("update") /\ merge = Updated(proposal.named, proposal.content)
  BY <1>4, <1>7 DEF Updated
<1>8. ASSUME NEW m \in DOMAIN active, merge = Forgotten(m)
      PROVE  Has(actions, Forget(i))
  <2>1. /\ merge.spared = m /\ merge.kinds = Everything /\ merge.tail = <<Forget(m)>>
    BY <1>8 DEF Forgotten
  <2>2. DOMAIN merge.tail = {1} /\ merge.tail[1] = Forget(m)
    BY <2>1
  <2>3. Has(actions, Forget(m))
    BY <1>1, <2>2 DEF Merged
  <2>4. QED BY <1>4, <2>1, <2>3 DEF Everything
<1>9. QED BY <1>1, <1>5, <1>6, <1>7, <1>8 DEF MergeGood

LEMMA PairsSurvive == LocalInv => PairsKept
<1> SUFFICES ASSUME LocalInv, Planned, ~ Applied("update"), NEW i \in DOMAIN active,
                    Has(actions, Supersede(i)), Replaced(deterministic, i)
             PROVE  Replaced(actions, i)
  BY DEF PairsKept
<1>1. /\ deterministic \in Seq(MemoryAction) /\ i \in Ids
      /\ Merged /\ MergeGood /\ pc = "planned"
      /\ fallback \in {"remember", "update", "forget", "unclassified", None}
  BY DEF LocalInv, TypeOK, Planned
<1>2. Supersede(i).action = "supersede"
  BY DEF Supersede
<1>3. \A k \in DOMAIN merge.tail : merge.tail[k].action # "supersede"
  <2>1. CASE merge = Baseline \/ \E f : merge = Refused(f)
    BY <2>1 DEF Baseline, Refused
  <2>2. ASSUME NEW c \in Contents, merge = Created(c)
        PROVE  merge.tail[1].action # "supersede" /\ DOMAIN merge.tail = {1}
    BY <2>2 DEF Created, Baseline, Create
  <2>3. ASSUME NEW m \in DOMAIN active, merge = Forgotten(m)
        PROVE  merge.tail[1].action # "supersede" /\ DOMAIN merge.tail = {1}
    BY <2>3 DEF Forgotten, Forget
  <2>4. QED BY <1>1, <2>1, <2>2, <2>3 DEF MergeGood
<1>4. "supersede" \in merge.kinds
  BY <1>1, <1>2, <1>3 DEF Merged, Has, Keeps
<1>5. "create" \in merge.kinds
  <2>1. CASE merge = Baseline \/ \E c \in Contents : merge = Created(c)
    BY <2>1 DEF Created, Baseline, Everything
  <2>2. CASE \E m \in DOMAIN active : merge = Forgotten(m)
    BY <2>2 DEF Forgotten, Everything
  <2>3. CASE fallback # None /\ merge = Refused(fallback)
    <3>1. merge.kinds = FallbackKinds(fallback)
      BY <2>3 DEF Refused, Baseline
    <3>2. QED BY <1>1, <1>4, <2>3, <3>1 DEF FallbackKinds, Everything
  <2>4. QED BY <1>1, <2>1, <2>2, <2>3 DEF MergeGood
<1>6. PICK j \in DOMAIN deterministic :
               IsCreate(deterministic[j]) /\ deterministic[j].replaces = i
  BY DEF Replaced
<1>7. Keeps(deterministic[j])
  BY <1>1, <1>5, <1>6, ActionShape DEF Keeps, IsCreate
<1>8. QED BY <1>1, <1>6, <1>7 DEF Merged, Has, Replaced

-----------------------------------------------------------------------------
(* No create of the result replaces a memory the result does not retire:    *)
(* what CoveredBecomesLinked of the manager asks of a policy.               *)
THEOREM LocalBatchesCovered == Spec => []BatchCovered
BY LocalInvariantHolds, CoveredResult, PTL

(* The model cannot have a memory retired that is not an active one of the  *)
(* context.                                                                 *)
THEOREM NothingIsInvented == Spec => []NothingInvented
BY LocalInvariantHolds, InventionExcluded, PTL

(* A refused forget leaves forgets of the planner and nothing else.         *)
THEOREM RefusedForgetsNeverCreate == Spec => []ForgetNeverCreates
BY LocalInvariantHolds, RefusedForget, PTL

(* What the message asks to forget is forgotten whatever the model answers, *)
(* but for a refused remember or update, and an update of that memory.      *)
THEOREM UserForgetsSurvive == Spec => []UserForgetsKept
BY LocalInvariantHolds, ForgetsSurvive, PTL

(* Short of an update, the answer of the model never leaves a supersede     *)
(* without the create the planner paired it with.                           *)
THEOREM PairsSurviveTheModel == Spec => []PairsKept
BY LocalInvariantHolds, PairsSurvive, PTL

-----------------------------------------------------------------------------
(***************************************************************************)
(* The path of the result to the engine.                                   *)
(***************************************************************************)
LEMMA PathStepGood == PathInv /\ [PathNext]_pathVars => PathInv'
<1> SUFFICES ASSUME PathInv, [PathNext]_pathVars PROVE PathInv'
  OBVIOUS
<1>1. LocalInv /\ Manager!ManagerInv
  BY DEF PathInv
<1>2. CASE Plan
  <2>1. LocalInv'
    BY <1>1, <1>2, StepGood DEF Plan, Next
  <2>2. stage' = "call" /\ Manager!ManagerInv'
    BY <1>1, <1>2, ManagerStutterGood DEF Plan, managerVars
  <2>3. QED BY <2>1, <2>2 DEF PathInv
<1>3. UNCHANGED vars => LocalInv' /\ actions' = actions /\ pc' = pc
  BY <1>1, StepGood DEF vars
<1>4. CASE Propose
  <2>1. Planned /\ HandOver(actions) /\ actions \in Seq(MemoryAction)
    BY <1>1, <1>4 DEF Propose, Planned, LocalInv, TypeOK
  <2>2. Manager!ManagerInv'
    BY <1>1, <2>1, HandOverGood
  <2>3. proposals' = Handed(actions)
    BY <2>1 DEF HandOver
  <2>4. QED BY <1>3, <1>4, <2>1, <2>2, <2>3 DEF Propose, PathInv, Planned
<1>5. CASE Accept
  <2>1. Manager!ManagerInv'
    BY <1>1, <1>5, AcceptGood DEF Accept
  <2>2. proposals' = proposals /\ (stage' # "call" => stage # "call")
    BY <1>5 DEF Accept, AcceptOne, Manager!ValidateOne, Manager!ValidateDone, Manager!ResolveOne,
           Manager!ResolveDone, Manager!FilterOne, Manager!FilterDone, Manager!Answer, Manager!lists
  <2>3. QED BY <1>3, <1>5, <2>1, <2>2 DEF Accept, PathInv, Planned
<1>6. CASE Return
  <2>1. Manager!ManagerInv' /\ stage' = "call"
    BY <1>1, <1>6, ManagerReturnGood DEF Return, Manager!Return
  <2>2. QED BY <1>1, <1>6, <2>1, ReturnedGood DEF Return, PathInv
<1>7. CASE UNCHANGED pathVars
  <2>1. UNCHANGED vars /\ UNCHANGED managerVars
    BY <1>7 DEF pathVars
  <2>2. stage' = stage /\ proposals' = proposals
    BY <2>1 DEF managerVars
  <2>3. QED BY <1>1, <1>3, <2>1, <2>2, ManagerStutterGood DEF PathInv, Planned
<1>8. QED BY <1>2, <1>4, <1>5, <1>6, <1>7 DEF PathNext

LEMMA PathInitGood == PathInit => PathInv
  BY InitGood, ManagerInitGood DEF PathInit, PathInv, Manager!Init

(* What the local policy hands to the engine through the manager is linked, *)
(* though a forget of the model may split a pair of the planner's.          *)
THEOREM LocalPathLinked == PathSpec => []LocalRoutedLinked
<1>1. PathSpec => []PathInv
  BY PathInitGood, PathStepGood, PTL DEF PathSpec
<1>2. PathInv => LocalRoutedLinked
  <2> SUFFICES ASSUME PathInv, stage = "answered" PROVE Linked(Routed)
    BY DEF LocalRoutedLinked
  <2>1. Planned /\ proposals = Handed(actions) /\ Manager!ManagerInv /\ BatchCovered
    BY CoveredResult DEF PathInv
  <2>2. QED BY <2>1, CoveredReachesLinked DEF BatchCovered
<1>3. QED BY <1>1, <1>2, PTL
=============================================================================
