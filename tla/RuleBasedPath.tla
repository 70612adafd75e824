---------------------------- MODULE RuleBasedPath ----------------------------
(***************************************************************************)
(* The default path of a message to the engine: RuleBasedMemoryPolicy      *)
(* (policy/rule_based.py) turns the planner's batch into proposals, action *)
(* by action, and the ExperienceManager validates and resolves them.  The  *)
(* planner and the manager are the modules of their own; here they take    *)
(* turns in one call.                                                      *)
(***************************************************************************)
EXTENDS TemporalPlanner, HybridPlanner, PolicyPath

strategyVars == <<temporalVars, hybridVars>>
pathVars     == <<vars, strategyVars, managerVars>>

PathInit == Init /\ TemporalInit /\ HybridInit /\ Manager!Init

(* The policy plans, with the planner it was built with: the temporal one   *)
(* carries on where the slots have ended, the hybrid one after the rules ...*)
Plan ==
    /\ stage = "call"
    /\ \/ PlanOne /\ UNCHANGED strategyVars
       \/ ~ extracting /\ TemporalStep /\ UNCHANGED hybridVars
       \/ (ExtractionStarts \/ CandidateOne) /\ UNCHANGED temporalVars
    /\ UNCHANGED managerVars

Ready == pc = "done" /\ (extracting \/ adding # None)

(* ... and its proposals carry the action, and full confidence.             *)
Propose ==
    /\ Ready
    /\ HandOver(result)
    /\ UNCHANGED <<vars, strategyVars>>

Accept == AcceptOne /\ UNCHANGED <<vars, strategyVars>>

(* The planners keep nothing that decides about the next call.              *)
Return ==
    /\ stage = "answered"
    /\ Manager!Return /\ Returned
    /\ adding' = None /\ historical' = FALSE /\ added' = 0 /\ past' = 0
    /\ extracting' = FALSE /\ accepted' = 0

PathNext == Plan \/ Propose \/ Accept \/ Return

PathSpec == PathInit /\ [][PathNext]_pathVars

-----------------------------------------------------------------------------
ActionsOf(batch) == {batch[k] : k \in DOMAIN batch}

(* A create that replaces a memory reaches the engine with the supersede of *)
(* that memory: what the engine needs to keep the two from being active     *)
(* together.                                                                *)
RoutedLinked == stage = "answered" => Linked(Routed)

(* An action is lost on the way to the engine only when the message also    *)
(* forgets the memory that it retires or was to replace.                    *)
LostOnlyToForget ==
    stage = "answered" => \A k \in DOMAIN result :
        \/ \E j \in DOMAIN Routed : Alike(Routed[j], result[k])
        \/ \E j \in DOMAIN Routed, l \in DOMAIN result :
              /\ Alike(result[l], result[k])
              /\ Routed[j].action = "forget"
              /\ Routed[j].memory_id \in {result[l].replaces, result[l].memory_id}

(* Scoped coexistence, for the planners that know scopes: no statement      *)
(* replaces a memory of the same attribute that speaks of another scope, or *)
(* of another time.                                                         *)
ScopesKept == ~ extracting => ScopesCoexist

(* The active memories of the slot that c has. *)
Current(c) == {k \in ActiveRead : SameSlot(c, k)}

(* A message about the past empties no slot by superseding: where it        *)
(* supersedes a memory, another active one of that slot is left alone, or   *)
(* is taken by a request to forget in the same message and by nothing else. *)
(* In the second case the slot may be left without a current fact.  So it   *)
(* supersedes only where a slot has two current facts; the code's comment   *)
(* that it never does is not what the veto achieves.                        *)
HistoricalLeavesOne ==
    Ready /\ historical =>
        \A j \in DOMAIN existing : Supersede(existing[j].id) \in ActionsOf(result) =>
            \E k \in Current(existing[j].content) :
                \/ ~ Retired(k)
                \/ /\ Forget(existing[k].id) \in ActionsOf(result)
                   /\ Supersede(existing[k].id) \notin ActionsOf(result)

-----------------------------------------------------------------------------
(* Two creates say the same: to an extractor, whatever their punctuation    *)
(* and case.                                                                *)
Repeats(c, d) == IF extracting THEN Normal[c] = Normal[d] ELSE c = d

(* No memory says it: for a candidate no active one, by its text or by its  *)
(* slot; for a past fact none that was read, by its exact text.             *)
Unsaid(c) == IF extracting THEN ~ Remembered(c) /\ ~ Equivalent(c) ELSE ~ Stated(c)

IsNew(k) ==
    /\ IsCreate(result[k])
    /\ \A j \in DOMAIN result \ {k} :
          IsCreate(result[j]) => ~ Repeats(result[k].content, result[j].content)
    /\ Unsaid(result[k].content)

(* Past facts and an extractor's candidates are checked when they are       *)
(* added, and whatever is added around them each repeats nothing.  The      *)
(* results of tools, what the user confirms and derived dates are appended  *)
(* unchecked, and are not meant here: see RoutedOnce.                       *)
AddedOnce ==
    Ready => \A k \in DOMAIN result : k > Len(result) - past - accepted => IsNew(k)

(* What is appended unchecked reaches the engine once: a tool reports it    *)
(* twice, the user confirms what a tool reported, or the message says it as *)
(* well, and the engine is handed one create of it.                         *)
RoutedOnce ==
    stage = "answered" => \A j, k \in DOMAIN Routed :
        IsCreate(Routed[j]) /\ IsCreate(Routed[k]) /\ j # k =>
            Routed[j].content # Routed[k].content
=============================================================================
