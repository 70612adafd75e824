----------------------------- MODULE HybridPlanner -----------------------------
(***************************************************************************)
(* HybridMemoryPlanner (memory/hybrid_planner.py): the batch of the rules, *)
(* then what an extractor finds in the sentences no rule matched.          *)
(*                                                                         *)
(* Which sentences pass the durability gate, what the extractor proposes   *)
(* for them and what of it is schema-valid, grounded and durable is an     *)
(* input: any contents of Extracted, in any order.                         *)
(***************************************************************************)
EXTENDS SemanticPlanner

CONSTANTS Extracted,     \* contents an extractor can propose
          MaxCandidates  \* max_candidates_per_turn

ASSUME HybridAssumption == Extracted \subseteq Contents /\ MaxCandidates \in Nat

VARIABLES extracting,  \* the rules have run, candidates may follow
          accepted     \* accepted_this_turn

hybridVars == <<extracting, accepted>>

HybridInit == extracting = FALSE /\ accepted = 0

(* plan_memory_actions: the rules' batch stands, without veto and slots.    *)
ExtractionStarts ==
    /\ pc = "planned"
    /\ pc' = "done"
    /\ result' = actions
    /\ extracting' = TRUE
    /\ UNCHANGED <<inputs, next, seen, superseded, actions, entry, accepted>>

ActiveRead == {k \in DOMAIN existing : existing[k].active}

InBatch(c) == \E k \in DOMAIN result : IsCreate(result[k]) /\ Normal[result[k].content] = Normal[c]

Remembered(c) ==
    \E k \in ActiveRead :
        /\ Kind[existing[k].content] = Kind[c]
        /\ Normal[existing[k].content] = Normal[c]

Equivalent(c) == \E k \in ActiveRead : SameSlot(c, k) /\ SameValue(c, k)

(* Mutant: batch_texts is not updated with what was accepted. *)
AcceptedAgain(c) ==
    /\ ~ \E k \in DOMAIN actions : IsCreate(actions[k]) /\ Normal[actions[k].content] = Normal[c]
    /\ ~ Remembered(c) /\ ~ Equivalent(c)

(* _accept_candidate: in no create of the batch, and in no active memory by *)
(* its text or by its slot.                                                 *)
Accepted(c) == ~ InBatch(c) /\ ~ Remembered(c) /\ ~ Equivalent(c)

(* A candidate that is not accepted changes nothing.                        *)
CandidateOne ==
    /\ pc = "done" /\ extracting
    /\ accepted < MaxCandidates
    /\ Len(preferences) + Len(statements) + accepted < MaxStatements
    /\ \E c \in Extracted : Accepted(c) /\ result' = Append(result, Create(c, None))
    /\ accepted' = accepted + 1
    /\ UNCHANGED <<plannerVars, entry, extracting>>
=============================================================================
