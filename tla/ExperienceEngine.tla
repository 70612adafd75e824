-------------------------- MODULE ExperienceEngine --------------------------
(***************************************************************************)
(* ExperienceEngine.run_interaction: one or more agents run interactions   *)
(* against one memory store.  An agent reads its user's memories, plans a  *)
(* batch of memory actions, and applies it with one store call per step:   *)
(* every retirement first, then every new entry.  Only then is the model   *)
(* called.  Each store call commits on its own (memory/sqlite_store.py),   *)
(* so other agents run between them and a failure leaves what was done.    *)
(*                                                                         *)
(* The memory policy is arbitrary here: any batch an ExperienceManager can *)
(* return, about any memory the policy can name.  What the engine promises *)
(* it promises whatever the policy proposes.                               *)
(***************************************************************************)
EXTENDS TransitionSeam

CONSTANTS Agents,             \* engine instances sharing the store
          Users,
          PairedReplacements, \* the policy's batches are Linked
          ExtractionAdopted,  \* the extraction seam runs in adopted mode
          WantsInactive,      \* context_builder.wants_inactive_candidates
          MayFail,            \* store errors, raising subscribers, crashes
          MaxTurns,           \* bound: interactions begun in a behaviour
          MaxBatch            \* bound: actions in a policy's batch

ASSUME EngineAssumption ==
    /\ PairedReplacements \in BOOLEAN
    /\ ExtractionAdopted \in BOOLEAN
    /\ WantsInactive \in BOOLEAN
    /\ MayFail \in BOOLEAN
    /\ MaxTurns \in Nat
    /\ MaxBatch \in Nat

VARIABLES
    memory,      \* id -> entry; see Entries for the lifecycle of the record
    retirements, \* id -> superseded and forgotten events published about it
    turns,       \* interactions begun so far
    turn,        \* agent -> number of its current interaction
    pc,          \* agent -> where its interaction is
    user,        \* agent -> the user of its interaction
    seen,        \* agent -> id -> how the memory was read ("no", or its status)
    plan,        \* agent -> the plan (valid_actions)
    built,       \* agent -> position of a create -> id of its new entry
    done,        \* agent -> positions of the plan already applied
    fetched,     \* agent -> superseded_by of the row it is about to write
    outcome      \* agent -> how its last interaction ended

ledger == <<memory, retirements>>
local  == <<turn, user, seen, plan, built, done, fetched>>
vars   == <<memory, retirements, turns, turn, pc, user, seen, plan, built, done, fetched, outcome>>

Stored == {"active", "superseded", "forgotten"}   \* MemoryStatus
(* An id is "unused" until its entry is constructed, "built" until the     *)
(* entry is added, and "lost" when the interaction ended before that.      *)
Statuses == Stored \cup {"unused", "built", "lost"}

Entries == [status : Statuses, user : Users \cup {None},
            content : Contents \cup {None}, replaces : Ids \cup {None},
            superseded_by : Ids \cup {None}, turn : Nat]

Unused == [status |-> "unused", user |-> None, content |-> None,
           replaces |-> None, superseded_by |-> None, turn |-> 0]

InStore(i)  == memory[i].status \in Stored
Active(i)   == memory[i].status = "active"
Text        == [i \in Ids |-> memory[i].content]

Shown(a)       == {i \in Ids : seen[a][i] # "no"}
ShownActive(a) == {i \in Ids : seen[a][i] = "active"}

Nothing == [i \in Ids |-> "no"]
NoPlan  == [acts |-> <<>>, ok |-> {}]
NoEntry == [k \in {} |-> None]

PCs == {"idle", "read", "plan", "apply", "write", "model"}

TypeOK ==
    /\ memory \in [Ids -> Entries]
    /\ retirements \in [Ids -> Nat]
    /\ turns \in Nat
    /\ turn \in [Agents -> Nat]
    /\ pc \in [Agents -> PCs]
    /\ user \in [Agents -> Users \cup {None}]
    /\ seen \in [Agents -> [Ids -> {"no", "active", "superseded"}]]
    /\ plan \in [Agents -> Plans]
    /\ \A a \in Agents : plan[a].ok \subseteq DOMAIN plan[a].acts
    /\ built = [a \in Agents |-> built[a]]
    /\ \A a \in Agents : built[a] \in [Creates(plan[a]) -> Ids]
    /\ done \in [Agents -> SUBSET (Nat \ {0})]
    /\ fetched \in [Agents -> Ids \cup {None}]
    /\ outcome \in [Agents -> {"none", "answered", "failed"}]

Init ==
    /\ memory = [i \in Ids |-> Unused]
    /\ retirements = [i \in Ids |-> 0]
    /\ turns = 0
    /\ turn = [a \in Agents |-> 0]
    /\ pc = [a \in Agents |-> "idle"]
    /\ user = [a \in Agents |-> None]
    /\ seen = [a \in Agents |-> Nothing]
    /\ plan = [a \in Agents |-> NoPlan]
    /\ built = [a \in Agents |-> NoEntry]
    /\ done = [a \in Agents |-> {}]
    /\ fetched = [a \in Agents |-> None]
    /\ outcome = [a \in Agents |-> "none"]

(* run_interaction returns or raises: its local state is gone. *)
Ends(a, how) ==
    /\ pc' = [pc EXCEPT ![a] = "idle"]
    /\ outcome' = [outcome EXCEPT ![a] = how]
    /\ user' = [user EXCEPT ![a] = None]
    /\ turn' = [turn EXCEPT ![a] = 0]
    /\ seen' = [seen EXCEPT ![a] = Nothing]
    /\ plan' = [plan EXCEPT ![a] = NoPlan]
    /\ built' = [built EXCEPT ![a] = NoEntry]
    /\ done' = [done EXCEPT ![a] = {}]
    /\ fetched' = [fetched EXCEPT ![a] = None]
    /\ UNCHANGED turns

-----------------------------------------------------------------------------
(* Reading: active_for_user, then the superseded for a temporal builder.    *)

(* Mutant: the memories of every user are read. *)
StartUnfiltered(a, u) ==
    /\ pc[a] = "idle"
    /\ turns < MaxTurns
    /\ turns' = turns + 1
    /\ turn' = [turn EXCEPT ![a] = turns + 1]
    /\ user' = [user EXCEPT ![a] = u]
    /\ seen' = [seen EXCEPT ![a] =
           [i \in Ids |-> IF Active(i) THEN "active" ELSE "no"]]
    /\ pc' = [pc EXCEPT ![a] = IF WantsInactive THEN "read" ELSE "plan"]
    /\ outcome' = [outcome EXCEPT ![a] = "none"]
    /\ UNCHANGED <<ledger, plan, built, done, fetched>>

Start(a, u) ==
    /\ pc[a] = "idle"
    /\ turns < MaxTurns
    /\ turns' = turns + 1
    /\ turn' = [turn EXCEPT ![a] = turns + 1]
    /\ user' = [user EXCEPT ![a] = u]
    /\ seen' = [seen EXCEPT ![a] =
           [i \in Ids |-> IF Active(i) /\ memory[i].user = u
                          THEN "active" ELSE "no"]]
    /\ pc' = [pc EXCEPT ![a] = IF WantsInactive THEN "read" ELSE "plan"]
    /\ outcome' = [outcome EXCEPT ![a] = "none"]
    /\ UNCHANGED <<ledger, plan, built, done, fetched>>

ReadSuperseded(a) ==
    /\ pc[a] = "read"
    /\ seen' = [seen EXCEPT ![a] =
           [i \in Ids |-> IF /\ seen[a][i] = "no"
                             /\ memory[i].status = "superseded"
                             /\ memory[i].user = user[a]
                          THEN "superseded" ELSE seen[a][i]]]
    /\ pc' = [pc EXCEPT ![a] = "plan"]
    /\ UNCHANGED <<ledger, turns, turn, user, plan, built, done, fetched, outcome>>

-----------------------------------------------------------------------------
(***************************************************************************)
(* Planning touches no shared state: the policy's batch, its admission,    *)
(* the extraction seam, the transition seam and the construction of the    *)
(* new entries are one step.  A policy                                     *)
(* names memories it was shown, or remembers ids of other users' memories  *)
(* and of memories that are no longer active; it has no way to name an     *)
(* active memory of its user that it was never shown.                      *)
(***************************************************************************)
OutOfReach(a) ==
    {i \in Ids : InStore(i) /\ (memory[i].user # user[a] \/ ~ Active(i))}

Nameable(a) == Shown(a) \cup OutOfReach(a)

Batches ==
    {b \in UNION {[1 .. n -> MemoryAction] : n \in 0 .. MaxBatch} :
        ManagerOutput(b) /\ (PairedReplacements => Linked(b))}

NamesOnly(b, S) ==
    \A k \in DOMAIN b : {b[k].memory_id, b[k].replaces} \subseteq S \cup {None}

Extractions ==
    {<<>>} \cup IF ExtractionAdopted THEN {CreateNew(c) : c \in Contents} ELSE {}

(* valid_actions after the three stages, for one choice of their inputs. *)
ValidActions(a, b, x, s) ==
    LET shown    == Shown(a)
        retired  == RetiredBy(b, shown)
        admitted == Admit(b, shown, Text)
        extended == AppendAdmissible(admitted, x, shown, Text, retired)
    IN  WithTransition(extended, Len(b), s, shown, ShownActive(a), Text, retired)

(* _apply_memory_actions, first pass: fresh ids for the entries of a plan. *)
FreshIds(S) ==
    {f \in [S -> {i \in Ids : memory[i].status = "unused"}] :
        \A j, k \in S : f[j] = f[k] => j = k}

(* Mutant: the entry does not say what it replaces. *)
NewEntryUnlinked(a, act) ==
    [status |-> "built", user |-> user[a], content |-> act.content,
     replaces |-> None, superseded_by |-> None, turn |-> turn[a]]

NewEntry(a, act) ==
    [status |-> "built", user |-> user[a], content |-> act.content,
     replaces |-> act.replaces, superseded_by |-> None, turn |-> turn[a]]

Constructed(a, pl, f) ==
    [i \in Ids |->
        IF \E k \in DOMAIN f : f[k] = i
        THEN NewEntry(a, pl.acts[CHOOSE k \in DOMAIN f : f[k] = i])
        ELSE memory[i]]

Plan(a) ==
    /\ pc[a] = "plan"
    /\ \E b \in Batches, x \in Extractions, s \in Translations :
          /\ NamesOnly(b, Nameable(a))
          /\ LET pl == ValidActions(a, b, x, s)
             IN  \E f \in FreshIds(Creates(pl)) :
                    /\ plan' = [plan EXCEPT ![a] = pl]
                    /\ built' = [built EXCEPT ![a] = f]
                    /\ memory' = Constructed(a, pl, f)
    /\ pc' = [pc EXCEPT ![a] = "apply"]
    /\ UNCHANGED <<retirements, turns, turn, user, seen, done, fetched, outcome>>

(* Context building or a primary-only policy raises: nothing was changed. *)
PlanFails(a) ==
    /\ pc[a] = "plan"
    /\ Ends(a, "failed")
    /\ UNCHANGED ledger

-----------------------------------------------------------------------------
(* _apply_memory_actions, the passes that call the store. *)
ToRetire(a) == Retirements(plan[a]) \ done[a]
ToAdd(a)    == Creates(plan[a]) \ done[a]

IsLast(k, S)  == k \in S /\ \A j \in S : j <= k

(* replacement_for: the last new entry that replaces the memory. *)
Replacement(a, m) ==
    LET ks == {k \in Creates(plan[a]) : plan[a].acts[k].replaces = m}
    IN  IF \E k \in ks : IsLast(k, ks)
        THEN built[a][CHOOSE k \in ks : IsLast(k, ks)]
        ELSE None

(* Mutant: a target that is no longer active is passed over, and waited for. *)
FetchOneActive(a) ==
    /\ pc[a] = "apply"
    /\ \E k \in ToRetire(a) :
          /\ Active(plan[a].acts[k].memory_id)
          /\ fetched' = [fetched EXCEPT ![a] =
                 memory[plan[a].acts[k].memory_id].superseded_by]
    /\ pc' = [pc EXCEPT ![a] = "write"]
    /\ UNCHANGED <<ledger, turns, turn, user, seen, plan, built, done, outcome>>

(* supersede and forget read the row (its metadata holds superseded_by) ...  *)
FetchOne(a) ==
    /\ pc[a] = "apply"
    /\ \E k \in ToRetire(a) :
          /\ IsFirst(k, ToRetire(a))
          /\ fetched' = [fetched EXCEPT ![a] =
                 memory[plan[a].acts[k].memory_id].superseded_by]
    /\ pc' = [pc EXCEPT ![a] = "write"]
    /\ UNCHANGED <<ledger, turns, turn, user, seen, plan, built, done, outcome>>

(* Mutant: a retired memory is deleted. *)
RetiredEntryDeleted(a, act) ==
    [memory[act.memory_id] EXCEPT !.status = "lost"]

(* ... and write it back, with the new status and the metadata they read;   *)
(* the event follows.                                                       *)
RetiredEntry(a, act) ==
    LET old == memory[act.memory_id]
        new == Replacement(a, act.memory_id)
    IN  IF act.action = "forget"
        THEN [old EXCEPT !.status = "forgotten", !.superseded_by = fetched[a]]
        ELSE [old EXCEPT !.status = "superseded",
                         !.superseded_by = IF new = None THEN fetched[a] ELSE new]

RetireOne(a) ==
    /\ pc[a] = "write"
    /\ \E k \in ToRetire(a) :
          /\ IsFirst(k, ToRetire(a))
          /\ LET act == plan[a].acts[k]
                 m   == act.memory_id
             IN  /\ memory' = [memory EXCEPT ![m] = RetiredEntry(a, act)]
                 /\ retirements' = [retirements EXCEPT ![m] = @ + 1]
          /\ done' = [done EXCEPT ![a] = @ \cup {k}]
    /\ fetched' = [fetched EXCEPT ![a] = None]
    /\ pc' = [pc EXCEPT ![a] = "apply"]
    /\ UNCHANGED <<turns, turn, user, seen, plan, built, outcome>>

(* MemoryStore.add: the entry becomes an active memory. *)
AddOne(a) ==
    /\ pc[a] = "apply"
    /\ ToRetire(a) = {}
    /\ \E k \in ToAdd(a) :
          /\ IsFirst(k, ToAdd(a))
          /\ memory' = [memory EXCEPT ![built[a][k]].status = "active"]
          /\ done' = [done EXCEPT ![a] = @ \cup {k}]
    /\ UNCHANGED <<retirements, turns, turn, pc, user, seen, plan, built,
                   fetched, outcome>>

(* Mutant: the model is called before the entries are added. *)
AppliedEarly(a) ==
    /\ pc[a] = "apply"
    /\ ToRetire(a) = {}
    /\ pc' = [pc EXCEPT ![a] = "model"]
    /\ UNCHANGED <<ledger, turns, local, outcome>>

Applied(a) ==
    /\ pc[a] = "apply"
    /\ ToRetire(a) = {} /\ ToAdd(a) = {}
    /\ pc' = [pc EXCEPT ![a] = "model"]
    /\ UNCHANGED <<ledger, turns, local, outcome>>

(* A store call or a subscriber raises, or the process dies: the entries   *)
(* that were not added yet are gone, what was applied stays.               *)
ApplyFails(a) ==
    /\ MayFail
    /\ pc[a] \in {"apply", "write"}
    /\ memory' = [i \in Ids |->
           IF memory[i].status = "built" /\ \E k \in DOMAIN built[a] : built[a][k] = i
           THEN [memory[i] EXCEPT !.status = "lost"] ELSE memory[i]]
    /\ Ends(a, "failed")
    /\ UNCHANGED retirements

-----------------------------------------------------------------------------
(* model.complete, and the events that end the interaction. *)
Respond(a) ==
    /\ pc[a] = "model"
    /\ Ends(a, "answered")
    /\ UNCHANGED ledger

ModelFails(a) ==
    /\ pc[a] = "model"
    /\ Ends(a, "failed")
    /\ UNCHANGED ledger

Progress(a) ==
    \/ ReadSuperseded(a)
    \/ Plan(a)
    \/ FetchOne(a)
    \/ RetireOne(a)
    \/ AddOne(a)
    \/ Applied(a)
    \/ Respond(a)

Fails(a) == PlanFails(a) \/ ApplyFails(a) \/ ModelFails(a)

Step(a) == Progress(a) \/ Fails(a)

(* Nobody has to speak: all agents idle, for as long as the users like. *)
Rest == (\A a \in Agents : pc[a] = "idle") /\ UNCHANGED vars

Next == \/ \E a \in Agents : Step(a) \/ \E u \in Users : Start(a, u)
        \/ Rest

Spec == Init /\ [][Next]_vars

(* The interpreter keeps running an interaction that has begun; nothing     *)
(* obliges a failure to come and end it.                                    *)
FairSpec == Spec /\ \A a \in Agents : WF_vars(Progress(a))

-----------------------------------------------------------------------------
(***************************************************************************)
(* Properties.                                                             *)
(***************************************************************************)

(* A memory and the memory that replaces it are never active together: the  *)
(* replaced one is retired before its replacement is added, by any number   *)
(* of agents, through failures, whatever a policy with linked batches       *)
(* proposed.                                                                *)
ReplacedIsRetired ==
    \A e \in Ids :
        LET m == memory[e].replaces
        IN  Active(e) /\ m # None => m # e /\ ~ (Active(m) /\ memory[m].user = memory[e].user)

(* Lineage: superseded_by of a retired memory names an entry of the same    *)
(* user that replaces it, and which is in the store, or about to be added   *)
(* by the interaction that is still applying, or lost with a failed one.    *)
LineageSound ==
    \A m \in Ids :
        LET e == memory[m].superseded_by
        IN  e # None =>
              /\ memory[m].status \in {"superseded", "forgotten"}
              /\ memory[e].replaces = m
              /\ memory[e].user = memory[m].user
              /\ \/ InStore(e)
                 \/ MayFail /\ memory[e].status = "lost"
                 \/ \E a \in Agents : \E k \in ToAdd(a) : built[a][k] = e

(* When the model is called, the whole plan is in the store: every create   *)
(* is a stored memory and no target of a retirement is active.              *)
AppliedBeforeAnswer ==
    \A a \in Agents : pc[a] = "model" =>
        /\ \A k \in Creates(plan[a]) : InStore(built[a][k])
        /\ \A k \in Retirements(plan[a]) : ~ Active(plan[a].acts[k].memory_id)

(* No two interactions of one agent leave a user with the same active       *)
(* memory twice; a batch can still hold one content twice (the manager      *)
(* compares exact text).  A failed interaction that is tried again adds     *)
(* nothing that survived its failure.                                       *)
DuplicatesOnlyWithinTurn ==
    \A i, j \in Ids :
        /\ Active(i) /\ Active(j)
        /\ memory[i].user = memory[j].user
        /\ memory[i].content = memory[j].content
        => memory[i].turn = memory[j].turn

(* A memory is superseded or forgotten once in its life: no second event,   *)
(* no rewritten lineage.                                                    *)
NoDoubleRetirement == \A i \in Ids : retirements[i] <= 1

(* The planner-precedence guard "avoids a double supersede or double        *)
(* forget": no plan forgets one memory twice.                               *)
NoDoubleForget ==
    \A a \in Agents : \A j, k \in Forgets(plan[a]) :
        plan[a].acts[j] = plan[a].acts[k] => j = k

(* Only an interaction of its owner ever changes a stored memory.           *)
OwnersOnly ==
    [][\A i \in Ids : InStore(i) /\ memory'[i] # memory[i] =>
          \E a \in Agents : /\ done'[a] # done[a]
                            /\ pc[a] \in {"apply", "write"}
                            /\ user[a] = memory[i].user]_vars

(* Every interaction ends.                                                  *)
InteractionsEnd ==
    \A a \in Agents : pc[a] # "idle" ~> pc[a] = "idle"

(* The ledger as its readers see it, and what it promises.                  *)
Ledger ==
    [i \in Ids |-> IF InStore(i)
                   THEN [status |-> memory[i].status, user |-> memory[i].user,
                         content |-> memory[i].content]
                   ELSE None]
=============================================================================
