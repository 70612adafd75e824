---------------------------- MODULE TemporalPlanner ----------------------------
(***************************************************************************)
(* TemporalMemoryPlanner (memory/temporal_planner.py): the batch of the    *)
(* semantic planner, without its supersessions when the message as a whole *)
(* speaks of the past, then the facts of tool results, of a confirmed      *)
(* proposal and of a derived date, then the past facts of the message.     *)
(*                                                                         *)
(* The temporal and provenance metadata of a create decide nothing here    *)
(* and are left out.  So is the semantic planner used alone: its batch is  *)
(* this one's for a message that says nothing of time.                     *)
(***************************************************************************)
EXTENDS SemanticPlanner

CONSTANTS Ingestion,  \* assistant_ingestion
          Reported,   \* grounded facts of tool results
          Decided,    \* facts of unambiguous proposals the assistant made
          Derived,    \* end dates of trips
          Past        \* past facts, in a form the rules never find

(* What was added last. *)
Phases == {"reported", "decided", "derived", "past"}

ASSUME TemporalAssumption ==
    /\ None \notin Phases
    /\ Ingestion \in BOOLEAN
    /\ UNION {Reported, Decided, Derived, Past} \subseteq Contents

VARIABLES adding,      \* what is added, None until the scope has been read
          historical,  \* the message speaks of the past
          added,       \* creates added
          past         \* of them, past facts

temporalVars == <<adding, historical, added, past>>

TemporalInit == adding = None /\ historical = FALSE /\ added = 0 /\ past = 0

(* What the normaliser's patterns can find in a message: words for a scope, *)
(* a range, a date, an approximate time, and a relative time that was       *)
(* resolved against the reference date.                                     *)
ScopeWords == <<"recurring", "future", "historical", "current">>

Cues == Range(ScopeWords) \cup {"range", "date", "approximate", "ago", "ahead"}

(* _scope: the first kind of words that is found. *)
WordedScope(cues) ==
    IF \E k \in DOMAIN ScopeWords : ScopeWords[k] \in cues
    THEN ScopeWords[Min({k \in DOMAIN ScopeWords : ScopeWords[k] \in cues})]
    ELSE "unknown"

HistoricalUnlessWorded(cues) ==
    IF WordedScope(cues) = "unknown" THEN "historical" ELSE WordedScope(cues)

(* normalize: a range or an approximate time is of the past unless the      *)
(* words say otherwise; a relative time overrules the words, a date leaves  *)
(* them.                                                                    *)
ScopeOf(cues) ==
    CASE "range" \in cues -> HistoricalUnlessWorded(cues)
      [] "range" \notin cues /\ "date" \in cues -> WordedScope(cues)
      [] cues \cap {"range", "date"} = {} /\ "approximate" \in cues ->
            HistoricalUnlessWorded(cues)
      [] cues \cap {"range", "date", "approximate"} = {} /\ "ahead" \in cues -> "future"
      [] cues \cap {"range", "date", "approximate", "ahead"} = {} /\ "ago" \in cues ->
            "historical"
      [] OTHER -> WordedScope(cues)

Scopes == {ScopeOf(cues) : cues \in SUBSET Cues}

-----------------------------------------------------------------------------
Replaced(batch) ==
    {batch[k].replaces : k \in {j \in DOMAIN batch : IsCreate(batch[j])}} \ {None}

(* Mutant: the creates lose their links, the supersedes stay. *)
NeverVetoed(act) == FALSE

(* vetoed_targets: what a create of the batch replaced is not superseded.   *)
VetoedAsPast(act) == act.action = "supersede" /\ act.memory_id \in Replaced(actions)

ReadScope ==
    /\ pc = "done"
    /\ adding = None /\ adding' = "reported"
    /\ \E s \in Scopes : historical' = (s = "historical")
    /\ IF historical'
       THEN pc' = "coexist" /\ actions' = result /\ result' = <<>>
       ELSE UNCHANGED <<pc, actions, result>>
    /\ UNCHANGED <<inputs, next, seen, superseded, entry, added, past>>

(* _apply_temporal, of a historical message: a create replaces nothing.     *)
CoexistOne ==
    /\ pc = "coexist"
    /\ next \in DOMAIN actions
    /\ LET act == actions[next]
       IN  result' = IF VetoedAsPast(act) THEN result
                     ELSE Append(result, IF IsCreate(act) THEN Create(act.content, None) ELSE act)
    /\ next' = next + 1
    /\ UNCHANGED <<pc, inputs, seen, superseded, actions, entry, temporalVars>>

CoexistDone ==
    /\ pc = "coexist"
    /\ next \notin DOMAIN actions
    /\ pc' = "done"
    /\ next' = 1
    /\ UNCHANGED <<inputs, seen, superseded, actions, entry, result, temporalVars>>

(* Bound: the statements of a message are MaxStatements in all.             *)
Room == Len(preferences) + Len(statements) + added < MaxStatements

Add(c) ==
    /\ pc = "done" /\ Room
    /\ result' = Append(result, Create(c, None))
    /\ added' = added + 1
    /\ UNCHANGED <<plannerVars, entry, historical>>

(* _tool_actions: the results queued since the last call, whoever queued    *)
(* them.  One that is not grounded, or any without ingestion, adds nothing. *)
ReportedOne ==
    /\ adding = "reported" /\ Ingestion
    /\ \E c \in Reported : Add(c)
    /\ UNCHANGED <<adding, past>>

(* _confirmation_action: the message is a bare yes to the last answer noted *)
(* for the session, and that answer was one proposal.                       *)
Confirmed ==
    /\ adding = "reported" /\ adding' = "decided" /\ Ingestion
    /\ \E c \in Decided : Add(c)
    /\ UNCHANGED past

(* _derivation_action: a start date and a length in days. *)
DerivedOne ==
    /\ adding \in {"reported", "decided"} /\ adding' = "derived"
    /\ \E c \in Derived : Add(c)
    /\ UNCHANGED past

Planned(c) == \E k \in DOMAIN result : IsCreate(result[k]) /\ result[k].content = c

(* _historical_fact_actions: a past fact, unless its exact text is planned  *)
(* or is that of a memory read, active or not.                              *)
PastOne ==
    /\ adding # None /\ adding' = "past"
    /\ \E c \in Past : ~ Stated(c) /\ ~ Planned(c) /\ Add(c)
    /\ past' = past + 1

TemporalStep ==
    \/ ReadScope \/ CoexistOne \/ CoexistDone
    \/ ReportedOne \/ Confirmed \/ DerivedOne \/ PastOne
=============================================================================
