---------------------------- MODULE LocalPolicyV2 ----------------------------
(***************************************************************************)
(* LocalPolicyV2.plan (policy/local_v2.py): one call computes the batch of *)
(* the deterministic planner, asks a local model for one proposal, at most *)
(* MaxRetries times more when the answer cannot be parsed, and merges the  *)
(* two: the proposal decides which deterministic actions are kept and what *)
(* is appended.  ScriptedLocalPolicyV2 proposes what the batch itself      *)
(* says.                                                                   *)
(*                                                                         *)
(* The planner is a parameter of the policy: any batch it may return is an *)
(* input, linked and about active memories, which SemanticPlannerProofs    *)
(* shows of the planners in this repository.  What the model answers is an *)
(* input too.  Counters and the log of audits are left out.                *)
(***************************************************************************)
EXTENDS MemoryActions

CONSTANTS Normal,       \* content -> representative of its normalised text
          Modes,        \* "model", "scripted": who proposes
          MaxRetries,
          MaxBatch      \* bound: actions of the deterministic batch

LocalActions == {"remember", "update", "forget", "none"}

ASSUME LocalAssumption ==
    /\ None \notin LocalActions \cup {"unclassified"}
    /\ Normal \in [Contents -> Contents]
    /\ Modes \subseteq {"model", "scripted"}
    /\ MaxRetries \in Nat
    /\ MaxBatch \in Nat

VARIABLES pc,
          active,         \* the active memories of the context: id -> content
          deterministic,  \* the planner's batch
          attempt,        \* 0, 1, ... of the calls of the model
          rejected,       \* audit.rejection_reason is set
          proposal,       \* the parsed proposal, None without one
          fallback,       \* audit.fallback_type, None without one
          merge,          \* what the proposal makes of the batch
          next, actions   \* the loop that builds the result

callVars == <<active, deterministic, attempt, rejected, proposal, fallback, merge>>
vars     == <<pc, callVars, next, actions>>

(* named: the memory whose id or alias the target gives, active or not;     *)
(* described: the one its description resolves to; grounded: the evidence   *)
(* is empty or a quotation of the message.                                  *)
Proposals ==
    [action : LocalActions, content : Contents \cup {None}, named : Ids \cup {None},
     described : Ids \cup {None}, grounded : BOOLEAN]

(* What the parser lets pass, the fields an action does not look at left out. *)
WellFormed(p) ==
    /\ p.action \in {"remember", "update"} <=> p.content # None
    /\ p.named # None => p.action \in {"update", "forget"} /\ p.described = None
    /\ p.described # None => p.action = "forget" /\ p.described \in DOMAIN active
    /\ p.action = "none" => p.grounded

Everything == {"create", "supersede", "forget"}

(* Of the deterministic batch the actions of these kinds are kept, those on *)
(* spared excepted, and tail follows.                                       *)
Merges == [kinds : SUBSET Everything, spared : Ids \cup {None}, tail : Seq(MemoryAction)]

Baseline == [kinds |-> Everything, spared |-> None, tail |-> <<>>]

PCs == {"call", "generate", "apply", "merge", "planned"}

TypeOK ==
    /\ pc \in PCs
    /\ DOMAIN active \subseteq Ids /\ \A i \in DOMAIN active : active[i] \in Contents
    /\ deterministic \in Seq(MemoryAction)
    /\ attempt \in 0 .. MaxRetries
    /\ rejected \in BOOLEAN
    /\ proposal \in Proposals \cup {None}
    /\ fallback \in {"remember", "update", "forget", "unclassified", None}
    /\ merge \in Merges
    /\ next \in Nat \ {0}
    /\ actions \in Seq(MemoryAction)

Init ==
    /\ pc = "call"
    /\ active = <<>> /\ deterministic = <<>>
    /\ attempt = 0 /\ rejected = FALSE
    /\ proposal = None /\ fallback = None /\ merge = Baseline
    /\ next = 1 /\ actions = <<>>

Retired(batch) == {batch[k].memory_id : k \in {j \in DOMAIN batch : Retires(batch[j])}}

(* plan computes the deterministic batch, whatever the model will say.      *)
Call ==
    /\ pc = "call"
    /\ \E A \in SUBSET Ids : active' \in [A -> Contents]
    /\ \E n \in 0 .. MaxBatch : deterministic' \in [1 .. n -> MemoryAction]
    /\ Linked(deterministic')
    /\ Retired(deterministic') \subseteq DOMAIN active'
    /\ pc' = "generate"
    /\ UNCHANGED <<attempt, rejected, proposal, fallback, merge, next, actions>>

-----------------------------------------------------------------------------
(* _generate: the model answers with a proposal ... *)
Proposed ==
    /\ pc = "generate" /\ "model" \in Modes
    /\ proposal' \in {p \in Proposals : WellFormed(p)}
    /\ pc' = "apply"
    /\ UNCHANGED <<active, deterministic, attempt, rejected, fallback, merge, next, actions>>

(* ... or with what cannot be parsed, which is retried.  The reason of the  *)
(* rejection stays in the audit.                                            *)
Unparseable ==
    /\ pc = "generate" /\ "model" \in Modes
    /\ rejected' = TRUE
    /\ IF attempt < MaxRetries
       THEN attempt' = attempt + 1 /\ UNCHANGED pc
       ELSE pc' = "apply" /\ UNCHANGED attempt
    /\ UNCHANGED <<active, deterministic, proposal, fallback, merge, next, actions>>

(* A LocalModelRunnerError is not retried.                                  *)
RunnerFails ==
    /\ pc = "generate" /\ "model" \in Modes
    /\ rejected' = TRUE
    /\ pc' = "apply"
    /\ UNCHANGED <<active, deterministic, attempt, proposal, fallback, merge, next, actions>>

(* The scripted proposer serialises the primary action of the batch: the    *)
(* first forget, else the first supersede with its create or, lacking that, *)
(* the first create, else the first create.                                 *)
OfKind(kind) == {k \in DOMAIN deterministic : deterministic[k].action = kind}

Paired(k) ==
    LET own == {n \in OfKind("create") : deterministic[n].replaces = deterministic[k].memory_id}
    IN  IF own # {} THEN own ELSE OfKind("create")

Says(action, c, i) ==
    proposal' = [action |-> action, content |-> c, named |-> i,
                 described |-> None, grounded |-> TRUE]

SaysForget ==
    \E k \in OfKind("forget") :
        /\ IsFirst(k, OfKind("forget"))
        /\ Says("forget", None, deterministic[k].memory_id)

SaysUpdate ==
    /\ OfKind("forget") = {}
    /\ \E k \in OfKind("supersede"), n \in OfKind("create") :
          /\ IsFirst(k, OfKind("supersede")) /\ IsFirst(n, Paired(k))
          /\ Says("update", deterministic[n].content, deterministic[k].memory_id)

SaysRemember ==
    /\ OfKind("forget") = {} /\ OfKind("supersede") = {}
    /\ \E n \in OfKind("create") :
          /\ IsFirst(n, OfKind("create"))
          /\ Says("remember", deterministic[n].content, None)

SaysNothing ==
    /\ OfKind("forget") = {} /\ OfKind("create") = {}
    /\ Says("none", None, None)

Scripted ==
    /\ pc = "generate" /\ "scripted" \in Modes
    /\ SaysForget \/ SaysUpdate \/ SaysRemember \/ SaysNothing
    /\ pc' = "apply"
    /\ UNCHANGED <<active, deterministic, attempt, rejected, fallback, merge, next, actions>>

-----------------------------------------------------------------------------
(* _apply_proposal and _fallback: what becomes of the batch. *)
Decide(m, f) ==
    /\ pc = "apply"
    /\ merge' = m /\ fallback' = f
    /\ pc' = "merge"
    /\ UNCHANGED <<active, deterministic, attempt, proposal, next, actions>>

(* Mutant: a refused forget falls back to the whole batch. *)
FallbackBroadly(action) ==
    IF action \in {"remember", "update"} THEN {"create", "supersede"} ELSE Everything

(* Mutant: what the model could not create is not created at all. *)
FallbackUncreated(action) ==
    CASE action = "forget" -> {"forget"}
      [] action \in {"remember", "update"} -> {"supersede"}
      [] action = "none" -> {}
      [] action = "unclassified" -> Everything

(* The kinds of deterministic actions a refused proposal leaves. *)
FallbackKinds(action) ==
    CASE action = "forget" -> {"forget"}
      [] action \in {"remember", "update"} -> {"create", "supersede"}
      [] action = "none" -> {}
      [] action = "unclassified" -> Everything

Refused(action) == [Baseline EXCEPT !.kinds = FallbackKinds(action)]

FallBack(action) ==
    /\ Decide(Refused(action), action)
    /\ rejected' = TRUE

NoProposal == proposal = None /\ FallBack("unclassified")

Proposes(action) == proposal # None /\ proposal.action = action

(* An explicit none is valid: the baseline applies. *)
Nothing == Proposes("none") /\ Decide(Baseline, None) /\ UNCHANGED rejected

Ungrounded ==
    /\ proposal # None /\ ~ proposal.grounded
    /\ FallBack(proposal.action)

(* _merge_create: a statement the batch creates or a memory holds is not    *)
(* created again.                                                           *)
Known(c) ==
    \/ \E k \in OfKind("create") : Normal[deterministic[k].content] = Normal[c]
    \/ \E i \in DOMAIN active : Normal[active[i]] = Normal[c]

Created(c) == [Baseline EXCEPT !.tail = <<Create(c, None)>>]

MergeCreate(c) ==
    /\ Decide(IF Known(c) THEN Baseline ELSE Created(c), None)
    /\ UNCHANGED rejected

Remember ==
    /\ Proposes("remember") /\ proposal.grounded
    /\ MergeCreate(proposal.content)

(* Mutant: an update replaces the whole batch. *)
UpdatedAlone(i, c) ==
    [kinds |-> {}, spared |-> i, tail |-> <<Supersede(i), Create(c, i)>>]

(* An update of a memory replaces every create of the batch, and whatever   *)
(* it does to that memory.                                                  *)
Updated(i, c) ==
    [kinds |-> {"supersede", "forget"}, spared |-> i,
     tail |-> <<Supersede(i), Create(c, i)>>]

Update ==
    /\ Proposes("update") /\ proposal.grounded
    /\ proposal.named \in DOMAIN active
    /\ Decide(Updated(proposal.named, proposal.content), None)
    /\ UNCHANGED rejected

(* An update that names no memory is a create, unless a rejection is noted. *)
UpdateOfNone ==
    /\ Proposes("update") /\ proposal.grounded
    /\ proposal.named = None /\ ~ rejected
    /\ MergeCreate(proposal.content)

UpdateRefused ==
    /\ Proposes("update") /\ proposal.grounded
    /\ IF proposal.named = None THEN rejected ELSE proposal.named \notin DOMAIN active
    /\ FallBack("update")

(* Mutant: a named memory need not be active. *)
ForgetTargetAny ==
    IF proposal.named # None THEN proposal.named
    ELSE IF ~ rejected THEN proposal.described ELSE None

(* The memory a forget is about: the active one it names, or, when it names *)
(* none and no rejection is noted, the one its description resolves to.     *)
ForgetTarget ==
    IF proposal.named \in DOMAIN active THEN proposal.named
    ELSE IF proposal.named = None /\ ~ rejected THEN proposal.described ELSE None

Forgotten(i) == [kinds |-> Everything, spared |-> i, tail |-> <<Forget(i)>>]

ForgetIt ==
    /\ Proposes("forget") /\ proposal.grounded
    /\ ForgetTarget # None
    /\ Decide(Forgotten(ForgetTarget), None)
    /\ UNCHANGED rejected

ForgetRefused ==
    /\ Proposes("forget") /\ proposal.grounded
    /\ ForgetTarget = None
    /\ FallBack("forget")

-----------------------------------------------------------------------------
Keeps(act) ==
    /\ act.action \in merge.kinds
    /\ Retires(act) => act.memory_id # merge.spared

MergeOne ==
    /\ pc = "merge"
    /\ next \in DOMAIN deterministic
    /\ actions' = IF Keeps(deterministic[next]) THEN Append(actions, deterministic[next])
                  ELSE actions
    /\ next' = next + 1
    /\ UNCHANGED <<pc, callVars>>

MergeDone ==
    /\ pc = "merge"
    /\ next \notin DOMAIN deterministic
    /\ actions' = actions \o merge.tail
    /\ pc' = "planned"
    /\ next' = 1
    /\ UNCHANGED callVars

PlanOne ==
    \/ Call
    \/ Proposed \/ Unparseable \/ RunnerFails \/ Scripted
    \/ NoProposal \/ Nothing \/ Ungrounded \/ Remember
    \/ Update \/ UpdateOfNone \/ UpdateRefused \/ ForgetIt \/ ForgetRefused
    \/ MergeOne \/ MergeDone

(* The proposals are returned; an audit begins anew with the next call.     *)
Returned ==
    /\ pc = "planned"
    /\ pc' = "call"
    /\ active' = <<>> /\ deterministic' = <<>>
    /\ attempt' = 0 /\ rejected' = FALSE
    /\ proposal' = None /\ fallback' = None /\ merge' = Baseline
    /\ next' = 1 /\ actions' = <<>>

Next == PlanOne \/ Returned

Spec == Init /\ [][Next]_vars

-----------------------------------------------------------------------------
(***************************************************************************)
(* Properties.                                                             *)
(***************************************************************************)
Planned == pc = "planned"

Has(batch, act) == \E k \in DOMAIN batch : batch[k] = act

Replaced(batch, i) ==
    \E k \in DOMAIN batch : IsCreate(batch[k]) /\ batch[k].replaces = i

(* A proposal about a memory takes effect: it was not refused.              *)
Applied(action) == proposal # None /\ proposal.action = action /\ fallback = None

(* "Invented targets are rejected": nothing is retired but memories of the  *)
(* context, whatever the model names.                                       *)
NothingInvented == Planned => Retired(actions) \subseteq DOMAIN active

(* Every memory a create replaces is retired with it, though the model may  *)
(* turn the supersede of a pair into a forget.                              *)
BatchCovered == Planned => Covered(actions)

(* "A malformed forget can only fall back to deterministic FORGET actions,  *)
(* never to creates."                                                       *)
ForgetNeverCreates ==
    Planned /\ fallback = "forget" => \A k \in DOMAIN actions :
        actions[k].action = "forget" /\ Has(deterministic, actions[k])

(* A memory the message asks to forget is forgotten, unless the model's     *)
(* remember or update was refused, or updates the very memory.              *)
UserForgetsKept ==
    Planned => \A k \in OfKind("forget") :
        LET i == deterministic[k].memory_id
        IN  \/ Has(actions, Forget(i))
            \/ fallback \in {"remember", "update"}
            \/ Applied("update") /\ proposal.named = i

(* A memory is superseded with something in its place, as the planner had   *)
(* it, unless the model's update took the place of all creates.             *)
PairsKept ==
    Planned /\ ~ Applied("update") => \A i \in DOMAIN active :
        Has(actions, Supersede(i)) /\ Replaced(deterministic, i) => Replaced(actions, i)

(* "A valid local proposal is validated and merged; an invalid one falls    *)
(* back": nothing but what the proposal says has it refused, so that the    *)
(* answer to a retry is worth what a first answer is.                       *)
ValidNotRefused ==
    Planned /\ proposal # None /\ fallback # None =>
        \/ ~ proposal.grounded
        \/ proposal.named \notin DOMAIN active \cup {None}
        \/ proposal.action = "forget" /\ proposal.named = None /\ proposal.described = None

-----------------------------------------------------------------------------
(***************************************************************************)
(* The inductive invariant: what the policy returns is what the merge      *)
(* keeps of the batch, and its tail; and the merge is one of five.         *)
(***************************************************************************)
CallIdle ==
    /\ pc \in {"call", "generate", "apply"} => actions = <<>> /\ next = 1
    /\ pc = "call" => proposal = None

BatchGood ==
    /\ Linked(deterministic)
    /\ Retired(deterministic) \subseteq DOMAIN active

ProposalGood == proposal # None => WellFormed(proposal)

MergeGood ==
    pc \in {"merge", "planned"} =>
        \/ fallback # None /\ merge = Refused(fallback)
        \/ /\ fallback = None
           /\ merge = Baseline \/ \E c \in Contents : merge = Created(c)
        \/ /\ Applied("update") /\ proposal.named \in DOMAIN active
           /\ merge = Updated(proposal.named, proposal.content)
        \/ Applied("forget") /\ \E i \in DOMAIN active : merge = Forgotten(i)

(* The loop has kept what it keeps of what it has passed, and nothing else. *)
LoopKeeps ==
    pc = "merge" =>
        /\ \A j \in DOMAIN deterministic :
              j < next /\ Keeps(deterministic[j]) => Has(actions, deterministic[j])
        /\ \A k \in DOMAIN actions : \E j \in DOMAIN deterministic :
              actions[k] = deterministic[j] /\ Keeps(deterministic[j])

Merged ==
    Planned =>
        /\ \A j \in DOMAIN deterministic :
              Keeps(deterministic[j]) => Has(actions, deterministic[j])
        /\ \A j \in DOMAIN merge.tail : Has(actions, merge.tail[j])
        /\ \A k \in DOMAIN actions :
              \/ \E j \in DOMAIN deterministic :
                    actions[k] = deterministic[j] /\ Keeps(deterministic[j])
              \/ \E j \in DOMAIN merge.tail : actions[k] = merge.tail[j]

LocalInv ==
    /\ TypeOK
    /\ CallIdle
    /\ BatchGood
    /\ ProposalGood
    /\ MergeGood
    /\ LoopKeeps
    /\ Merged
=============================================================================
