-------------------------- MODULE ExperienceManager --------------------------
(***************************************************************************)
(* ExperienceManager.plan (policy/manager.py): one call asks the memory    *)
(* policy for proposals, validates them, resolves their contradictions and *)
(* hands a batch of memory actions to the engine.  With a fallback policy  *)
(* a primary batch that raises, is invalid or is not confident enough is   *)
(* discarded as a whole, and the fallback is asked once.                   *)
(*                                                                         *)
(* The loops of the code are loops here: one step per proposal.  In this   *)
(* module a content is a (kind, exact text) pair: the manager compares the *)
(* text as it was proposed.                                                *)
(***************************************************************************)
EXTENDS MemoryActions

CONSTANTS HasFallback,   \* a fallback_policy was configured
          MaxProposals   \* bound: proposals a policy returns

(* Reasons of a fallback; "runner" stands for the reasons of a runner error. *)
Reasons == {"runner", "validation_failed", "low_confidence"}

ASSUME ManagerAssumption ==
    /\ None \notin Reasons
    /\ HasFallback \in BOOLEAN
    /\ MaxProposals \in Nat

VARIABLES pc,         \* where the call is
          source,     \* decision_source: whose proposals these are
          reason,     \* fallback_reason, None while there is none
          proposals,  \* what the policy returned
          next,       \* position of the current loop
          validated,  \* the loop of _accept
          result,     \* the loop of _resolve_contradictions
          answer      \* the accepted proposals, in order

lists == <<proposals, validated, result, answer>>
vars  == <<pc, source, reason, next, lists>>

Noop == [action |-> "noop", memory_id |-> None, content |-> None, replaces |-> None]

(* valid: what _validate says of it; confident: at least minimum_confidence. *)
Proposals ==
    [act : MemoryAction \cup {Noop}, valid : BOOLEAN, confident : BOOLEAN]

Accepted == [act : MemoryAction, valid : {TRUE}, confident : BOOLEAN]

PCs == {"call", "validate", "resolve", "filter", "check", "answered", "raised"}

TypeOK ==
    /\ pc \in PCs
    /\ source \in {"primary", "fallback"}
    /\ reason \in Reasons \cup {None}
    /\ next \in Nat \ {0}
    /\ proposals \in Seq(Proposals)
    /\ validated \in Seq(Accepted)
    /\ result \in Seq(Accepted)
    /\ answer \in Seq(Accepted)

Actions(s) == [k \in DOMAIN s |-> s[k].act]

NoLists == proposals' = <<>> /\ validated' = <<>> /\ result' = <<>> /\ answer' = <<>>

Init ==
    /\ pc = "call" /\ source = "primary" /\ reason = None /\ next = 1
    /\ proposals = <<>> /\ validated = <<>> /\ result = <<>> /\ answer = <<>>

-----------------------------------------------------------------------------
(* Mutant: the fallback is not told why it was asked. *)
RefuseUnstamped(r) ==
    /\ IF HasFallback /\ source = "primary"
       THEN pc' = "call" /\ source' = "fallback"
       ELSE pc' = "raised" /\ UNCHANGED source
    /\ next' = 1
    /\ UNCHANGED reason
    /\ NoLists

(* The batch is discarded: on to the fallback, which is asked once, or the  *)
(* exception leaves plan.                                                   *)
Refuse(r) ==
    /\ IF HasFallback /\ source = "primary"
       THEN pc' = "call" /\ source' = "fallback" /\ reason' = r
       ELSE pc' = "raised" /\ UNCHANGED <<source, reason>>
    /\ next' = 1
    /\ NoLists

(* policy.plan returns ... *)
Propose ==
    /\ pc = "call"
    /\ \E n \in 0 .. MaxProposals : proposals' \in [1 .. n -> Proposals]
    /\ pc' = "validate"
    /\ UNCHANGED <<source, reason, next, validated, result, answer>>

(* ... or raises: a LocalModelRunnerError gives its reason, any other       *)
(* exception counts as a validation failure.                                *)
PolicyRaises ==
    /\ pc = "call"
    /\ Refuse("runner") \/ Refuse("validation_failed")

-----------------------------------------------------------------------------
(* _accept: every proposal is validated, a noop is dropped. *)
ValidateOne ==
    /\ pc = "validate"
    /\ next \in DOMAIN proposals
    /\ proposals[next].valid
    /\ validated' = IF proposals[next].act = Noop THEN validated
                    ELSE Append(validated, proposals[next])
    /\ next' = next + 1
    /\ UNCHANGED <<pc, source, reason, proposals, result, answer>>

InvalidProposal ==
    /\ pc = "validate"
    /\ next \in DOMAIN proposals
    /\ ~ proposals[next].valid
    /\ Refuse("validation_failed")

ValidateDone ==
    /\ pc = "validate"
    /\ next \notin DOMAIN proposals
    /\ pc' = "resolve"
    /\ next' = 1
    /\ UNCHANGED <<source, reason, lists>>

-----------------------------------------------------------------------------
(* _resolve_contradictions, its loop. *)
SameTarget(p, q) ==
    Retires(p.act) /\ Retires(q.act) /\ p.act.memory_id = q.act.memory_id

(* Mutant: seen_creates is looked into and never filled. *)
NeverSame(p, q) == FALSE

SameCreate(p, q) ==
    IsCreate(p.act) /\ IsCreate(q.act) /\ p.act.content = q.act.content

Contradicts(p, q) == SameTarget(p, q) \/ SameCreate(p, q)

(* Mutant: a later forget gives way like any other. *)
NeverOutranks(p, q) == FALSE

(* A forget takes the place of the supersede of its target. *)
Outranks(p, q) ==
    /\ SameTarget(p, q)
    /\ p.act.action = "forget" /\ q.act.action = "supersede"

ResolveOne ==
    /\ pc = "resolve"
    /\ next \in DOMAIN validated
    /\ LET p == validated[next]
       IN  \/ /\ \E k \in DOMAIN result : Contradicts(p, result[k])
              /\ result' = [k \in DOMAIN result |->
                               IF Outranks(p, result[k]) THEN p ELSE result[k]]
           \/ /\ ~ \E k \in DOMAIN result : Contradicts(p, result[k])
              /\ result' = Append(result, p)
    /\ next' = next + 1
    /\ UNCHANGED <<pc, source, reason, proposals, validated, answer>>

ResolveDone ==
    /\ pc = "resolve"
    /\ next \notin DOMAIN validated
    /\ pc' = "filter"
    /\ next' = 1
    /\ UNCHANGED <<source, reason, lists>>

(* Mutant: the replacement of a forgotten memory is kept. *)
NeverOrphaned(p) == FALSE

(* Mutant: nor the replacement of one that is only superseded. *)
OrphanedByAny(p) ==
    /\ IsCreate(p.act)
    /\ \E k \in DOMAIN result : /\ Retires(result[k].act)
                                /\ result[k].act.memory_id = p.act.replaces

(* The replacement of a forgotten memory must not survive. *)
Orphaned(p) ==
    /\ IsCreate(p.act)
    /\ \E k \in DOMAIN result : /\ result[k].act.action = "forget"
                                /\ result[k].act.memory_id = p.act.replaces

FilterOne ==
    /\ pc = "filter"
    /\ next \in DOMAIN result
    /\ answer' = IF Orphaned(result[next]) THEN answer ELSE Append(answer, result[next])
    /\ next' = next + 1
    /\ UNCHANGED <<pc, source, reason, proposals, validated, result>>

FilterDone ==
    /\ pc = "filter"
    /\ next \notin DOMAIN result
    /\ pc' = "check"
    /\ next' = 1
    /\ UNCHANGED <<source, reason, lists>>

-----------------------------------------------------------------------------
(* Only a primary batch that could be replaced is held to the threshold.    *)
LowConfidence ==
    /\ HasFallback /\ source = "primary"
    /\ \E k \in DOMAIN answer : ~ answer[k].confident

Answer ==
    /\ pc = "check"
    /\ ~ LowConfidence
    /\ pc' = "answered"
    /\ UNCHANGED <<source, reason, next, lists>>

TooUncertain ==
    /\ pc = "check"
    /\ LowConfidence
    /\ Refuse("low_confidence")

(* plan has returned or raised; the manager keeps nothing for the next call. *)
Return ==
    /\ pc \in {"answered", "raised"}
    /\ pc' = "call" /\ source' = "primary" /\ reason' = None /\ next' = 1
    /\ NoLists

Work == \/ Propose \/ PolicyRaises
        \/ ValidateOne \/ InvalidProposal \/ ValidateDone
        \/ ResolveOne \/ ResolveDone
        \/ FilterOne \/ FilterDone
        \/ Answer \/ TooUncertain

Next == Work \/ Return

Spec == Init /\ [][Next]_vars

-----------------------------------------------------------------------------
(***************************************************************************)
(* Properties.                                                             *)
(***************************************************************************)
Answered == pc = "answered"

(* What the engine relies on: at most one retirement per memory, and no     *)
(* replacement of a memory the same batch forgets.                          *)
AnswerIsManagerOutput == Answered => ManagerOutput(Actions(answer))

(* When every memory a create replaces is retired by the proposals, resolution *)
(* leaves linked pairs: a replacing create is answered with the supersede of  *)
(* its memory, never without it and never beside a forget.                    *)
CoveredBecomesLinked ==
    Answered /\ Covered(Actions(validated)) => Linked(Actions(answer))

(* Whole-batch fallback: every accepted proposal was made by the policy the *)
(* result names, and a fallback always says why.                            *)
OneSource ==
    /\ Answered => \A k \in DOMAIN answer : \E j \in DOMAIN proposals :
                       answer[k] = proposals[j]
    /\ Answered => (source = "fallback" <=> reason # None)

(* What resolution promises, without its loops.  A proposal claims a place  *)
(* when none before it contradicts it; ...                                  *)
Claims(s, n) == {k \in 1 .. n : \A j \in 1 .. k - 1 : ~ Contradicts(s[k], s[j])}

(* ... the first forget of its target holds that place, or else itself.     *)
ForgetsOf(s, n, k) ==
    {j \in 1 .. n : SameTarget(s[k], s[j]) /\ s[j].act.action = "forget"}

HoldsPlace(s, n, k, p) ==
    \/ ForgetsOf(s, n, k) = {} /\ p = s[k]
    \/ \E j \in ForgetsOf(s, n, k) : IsFirst(j, ForgetsOf(s, n, k)) /\ p = s[j]

(* order lists the positions of S, each once, in their order. *)
Lists(order, S) ==
    /\ \A i, j \in DOMAIN order : i < j => order[i] < order[j]
    /\ \A k \in S : \E i \in DOMAIN order : order[i] = k

(* r lists who holds the places of S once n proposals have been seen. *)
HoldersOf(s, n, S, r) ==
    \E order \in [DOMAIN r -> S] :
        /\ Lists(order, S)
        /\ \A k \in DOMAIN r : HoldsPlace(s, n, order[k], r[k])

Kept(s) ==
    {k \in Claims(s, Len(s)) :
        ~ \E j \in DOMAIN s : /\ s[j].act.action = "forget"
                              /\ IsCreate(s[k].act)
                              /\ s[j].act.memory_id = s[k].act.replaces}

(* The documented resolution of _resolve_contradictions: proposal order is  *)
(* preserved, the first proposal for a target wins unless a later forget    *)
(* takes its place, exact duplicates and the replacements of forgotten      *)
(* memories are dropped, and nothing else is.                               *)
ResolvesAsDocumented ==
    Answered => HoldersOf(validated, Len(validated), Kept(validated), answer)

-----------------------------------------------------------------------------
(* The inductive invariant: what the loops have done before position next, *)
(* and what they leave to the loop after them.                             *)

Filtering == pc \in {"filter", "check", "answered"}
Resolving == pc = "resolve" \/ Filtering

(* What was validated is what the policy proposed, the noops aside.         *)
ValidatedProposed ==
    /\ pc \in {"call", "raised"} => proposals = <<>> /\ validated = <<>>
    /\ pc = "call" => next = 1
    /\ \A k \in DOMAIN validated : \E j \in DOMAIN proposals : validated[k] = proposals[j]
    /\ \A j \in DOMAIN proposals :
          (pc = "validate" => j < next) /\ proposals[j].act # Noop =>
              \E k \in DOMAIN validated : validated[k] = proposals[j]

(* The kept proposals were validated, and no two contradict each other. *)
ResultIsResolved ==
    /\ ~ Resolving => result = <<>>
    /\ \A k \in DOMAIN result : \E j \in DOMAIN validated : result[k] = validated[j]
    /\ \A j, k \in DOMAIN result : Contradicts(result[j], result[k]) => j = k

(* No place the loop has passed is lost: its target is still retired, and   *)
(* forgotten if a forget asked for it; its content is still created.        *)
Holds(p, q) ==
    Contradicts(p, q) /\ (q.act.action = "forget" => p.act.action = "forget")

PlacesKept ==
    Resolving => \A j \in DOMAIN validated :
        (pc = "resolve" => j < next) => \E k \in DOMAIN result : Holds(result[k], validated[j])

(* The answer holds what the filter has passed, but for the orphans. *)
AnswerIsFiltered ==
    /\ ~ Filtering => answer = <<>>
    /\ \A k \in DOMAIN answer :
          /\ ~ Orphaned(answer[k])
          /\ \E j \in DOMAIN result : answer[k] = result[j] /\ (pc = "filter" => j < next)
    /\ \A j, k \in DOMAIN answer : Contradicts(answer[j], answer[k]) => j = k
    /\ Filtering => \A j \in DOMAIN result :
          (pc = "filter" => j < next) =>
              Orphaned(result[j]) \/ \E k \in DOMAIN answer : answer[k] = result[j]

ReasonIsTrue == source = "fallback" <=> reason # None

ManagerInv ==
    /\ TypeOK
    /\ ReasonIsTrue
    /\ ValidatedProposed
    /\ ResultIsResolved
    /\ PlacesKept
    /\ AnswerIsFiltered

(* The places of the proposals the loop has passed are held, in order, ... *)
Passed == IF pc = "resolve" THEN next - 1 ELSE Len(validated)

PlacesHeld ==
    /\ pc = "resolve" => next <= Len(validated) + 1
    /\ Resolving => HoldersOf(validated, Passed, Claims(validated, Passed), result)

(* ... and the filter lists, in order, what it has passed and kept.        *)
Survivors == {j \in DOMAIN result : (pc = "filter" => j < next) /\ ~ Orphaned(result[j])}

Selects(order) ==
    /\ Lists(order, Survivors)
    /\ \A k \in DOMAIN answer : answer[k] = result[order[k]]

SurvivorsListed == Filtering => \E order \in [DOMAIN answer -> Survivors] : Selects(order)

OrderInv == ManagerInv /\ PlacesHeld /\ SurvivorsListed
=============================================================================
