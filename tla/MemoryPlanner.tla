---------------------------- MODULE MemoryPlanner ----------------------------
(***************************************************************************)
(* MemoryPlanner.plan_memory_actions (memory/planner.py): from a message   *)
(* and the memories the interaction read to a batch of memory actions,     *)
(* one step per iteration of its three loops: the memories an explicit     *)
(* request forgets, the preferences stated, the facts and instructions     *)
(* stated.                                                                 *)
(*                                                                         *)
(* What the patterns find in the text is an input: any memories requested, *)
(* any statements, in any order the loops can meet them.  A content is a   *)
(* (kind, exact text) pair; Normal maps it to the representative of its    *)
(* normalised text, Key to its conflict key: domain and polarity of a      *)
(* preference, update key of a fact or an instruction, None without one.   *)
(***************************************************************************)
EXTENDS MemoryActions

CONSTANTS Kind, Normal, Key,
          Detected,       \* contents the patterns can find in a message
          ReadsInactive,  \* a temporal context builder passes superseded memories
          MaxMemories,    \* bound: memories the interaction read
          MaxForgets,     \* bound: forget requests of the message
          MaxStatements   \* bound: statements of the message

Kinds == {"preference", "fact", "instruction"}

ASSUME PlannerAssumption ==
    /\ Kind \in [Contents -> Kinds]
    /\ Normal \in [Contents -> Contents]
    /\ DOMAIN Key = Contents
    /\ Detected \subseteq Contents
    /\ ReadsInactive \in BOOLEAN
    /\ MaxMemories \in Nat
    /\ MaxForgets \in Nat
    /\ MaxStatements \in Nat

VARIABLES pc,           \* which loop
          existing,     \* the memories read, in the order they were read
          preferences,  \* preference statements of the message, in order
          statements,   \* its facts, then its instructions
          next,         \* position of the current loop
          seen,         \* normalised statements known or planned
          superseded,   \* superseded_ids: targets of the batch so far
          actions       \* the batch

inputs      == <<existing, preferences, statements>>
plannerVars == <<pc, inputs, next, seen, superseded, actions>>

(* A memory read is active, or superseded for a temporal context builder.   *)
Memories == [id : Ids, content : Contents, active : {TRUE, ~ ReadsInactive}]

Read == {existing[k].id : k \in DOMAIN existing}

PlannerPCs == {"idle", "forget", "preferences", "statements", "planned"}

PlannerTypeOK ==
    /\ existing \in Seq(Memories)
    /\ preferences \in Seq(Contents)
    /\ statements \in Seq(Contents)
    /\ next \in Nat \ {0}
    /\ seen \subseteq Contents
    /\ superseded \subseteq Ids
    /\ actions \in Seq(MemoryAction)

PlannerInit ==
    /\ pc = "idle"
    /\ existing = <<>> /\ preferences = <<>> /\ statements = <<>>
    /\ next = 1 /\ seen = {} /\ superseded = {} /\ actions = <<>>

UpTo(n, S) == UNION {[1 .. k -> S] : k \in 0 .. n}

(* The inputs of a call: a snapshot holds a memory once.                    *)
Asked ==
    /\ pc = "idle"
    /\ existing' \in UpTo(MaxMemories, Memories)
    /\ \A j, k \in DOMAIN existing' : existing'[j].id = existing'[k].id => j = k
    /\ preferences' \in UpTo(MaxStatements, {c \in Detected : Kind[c] = "preference"})
    /\ statements' \in UpTo(MaxStatements, {c \in Detected : Kind[c] # "preference"})
    /\ Len(preferences') + Len(statements') <= MaxStatements
    /\ \A j, k \in DOMAIN statements' : Kind[statements'[j]] = "instruction" /\ j < k
          => Kind[statements'[k]] = "instruction"
    /\ seen' = {Normal[existing'[k].content] : k \in DOMAIN existing'}
    /\ pc' = "forget"
    /\ UNCHANGED <<next, superseded, actions>>

-----------------------------------------------------------------------------
(* _plan_forgets: a request matches a memory that no request matched yet.   *)
Targeted(i) == \E k \in DOMAIN actions : actions[k] = Forget(i)

ForgetOne ==
    /\ pc = "forget"
    /\ Len(actions) < MaxForgets
    /\ \E i \in Read : ~ Targeted(i) /\ actions' = Append(actions, Forget(i))
    /\ UNCHANGED <<pc, inputs, next, seen, superseded>>

ForgetsDone ==
    /\ pc = "forget"
    /\ pc' = "preferences"
    /\ UNCHANGED <<inputs, next, seen, superseded, actions>>

-----------------------------------------------------------------------------
(* Mutant: any memory of the kind conflicts, whatever it is about. *)
ConflictsOfKind(c, spared) ==
    {k \in DOMAIN existing :
        /\ Key[c] # None
        /\ Kind[existing[k].content] = Kind[c]
        /\ existing[k].content # c
        /\ existing[k].id \notin spared}

(* _find_conflict and _find_update_conflict: another text of the same kind  *)
(* and key, among the memories the batch does not supersede yet.            *)
Conflicts(c, spared) ==
    {k \in DOMAIN existing :
        /\ Key[c] # None
        /\ Key[existing[k].content] = Key[c]
        /\ Kind[existing[k].content] = Kind[c]
        /\ existing[k].content # c
        /\ existing[k].id \notin spared}

(* The statement is created, and supersedes the first memory it conflicts   *)
(* with.                                                                    *)
Remember(c, spared) ==
    \/ /\ Conflicts(c, spared) = {}
       /\ actions' = Append(actions, Create(c, None))
       /\ UNCHANGED superseded
    \/ \E k \in Conflicts(c, spared) :
          /\ IsFirst(k, Conflicts(c, spared))
          /\ actions' = actions \o <<Supersede(existing[k].id), Create(c, existing[k].id)>>
          /\ superseded' = superseded \cup {existing[k].id}

Stated(c) == \E k \in DOMAIN existing : existing[k].content = c

(* Preferences compare exact texts and never look back at their batch.      *)
PreferenceOne ==
    /\ pc = "preferences"
    /\ next \in DOMAIN preferences
    /\ IF Stated(preferences[next])
       THEN UNCHANGED <<superseded, actions>>
       ELSE Remember(preferences[next], {})
    /\ next' = next + 1
    /\ UNCHANGED <<pc, inputs, seen>>

PreferencesDone ==
    /\ pc = "preferences"
    /\ next \notin DOMAIN preferences
    /\ pc' = "statements"
    /\ next' = 1
    /\ UNCHANGED <<inputs, seen, superseded, actions>>

(* Facts and instructions compare normalised texts, the batch included.     *)
StatementOne ==
    /\ pc = "statements"
    /\ next \in DOMAIN statements
    /\ IF Normal[statements[next]] \in seen
       THEN UNCHANGED <<superseded, actions>>
       ELSE Remember(statements[next], superseded)
    /\ seen' = seen \cup {Normal[statements[next]]}
    /\ next' = next + 1
    /\ UNCHANGED <<pc, inputs>>

StatementsDone ==
    /\ pc = "statements"
    /\ next \notin DOMAIN statements
    /\ pc' = "planned"
    /\ next' = 1
    /\ UNCHANGED <<inputs, seen, superseded, actions>>

PlannerStep ==
    \/ Asked
    \/ ForgetOne \/ ForgetsDone
    \/ PreferenceOne \/ PreferencesDone
    \/ StatementOne \/ StatementsDone

=============================================================================
