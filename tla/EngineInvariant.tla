-------------------------- MODULE EngineInvariant --------------------------
(***************************************************************************)
(* The inductive invariant of ExperienceEngine: what is true between any   *)
(* two steps of any agents, and why a replaced memory is never active next *)
(* to its replacement.  TLC checks it in the runs, ExperienceEngineProofs  *)
(* proves it for every value of the constants.                             *)
(***************************************************************************)
EXTENDS ExperienceEngine

(* What planning leaves: actions of the vocabulary, admitted positions      *)
(* inside the list, retirements of memories that were shown, creates that   *)
(* replace memories shown or out of the interaction's reach (out), and, for *)
(* linked batches, the admitted retirement of every replaced memory that is *)
(* not out of reach.                                                        *)
GoodPlan(pl, shown, out) ==
    /\ pl \in Plans
    /\ pl.ok \subseteq DOMAIN pl.acts
    /\ \A k \in Retirements(pl) : pl.acts[k].memory_id \in shown
    /\ \A k \in Creates(pl) : pl.acts[k].replaces \in shown \cup out \cup {None}
    /\ PairedReplacements =>
       \A k \in Creates(pl) : pl.acts[k].replaces # None =>
          \/ \E j \in Retirements(pl) : pl.acts[j].memory_id = pl.acts[k].replaces
          \/ pl.acts[k].replaces \in out

Applying(a) == pc[a] \in {"apply", "write", "model"}

(* A memory an agent was shown is stored, and belongs to its user. *)
ShownAreOwned(a) ==
    \A i \in Shown(a) : InStore(i) /\ memory[i].user = user[a]

(* An idle agent has read nothing, and one that has not planned has no plan. *)
NothingBeforePlan(a) ==
    /\ pc[a] = "idle" => Shown(a) = {}
    /\ pc[a] # "idle" => user[a] \in Users
    /\ ~ Applying(a) => plan[a] = NoPlan /\ done[a] = {}

PlanIsGood(a) == Applying(a) => GoodPlan(plan[a], Shown(a), OutOfReach(a))

(* The entry of a create carries what the create says; it is in the store   *)
(* exactly when its position is done.                                       *)
EntryOf(a, k) ==
    LET e == memory[built[a][k]]
    IN  /\ e.user = user[a]
        /\ e.replaces = plan[a].acts[k].replaces
        /\ IF k \in done[a] THEN e.status \in Stored ELSE e.status = "built"

EntriesMatchPlan(a) == \A k \in Creates(plan[a]) : EntryOf(a, k)

(* No new entry before the last retirement, and what was retired stays so. *)
RetirementsFirst(a) ==
    /\ Creates(plan[a]) \cap done[a] # {} => ToRetire(a) = {}
    /\ \A k \in Retirements(plan[a]) \cap done[a] :
          ~ Active(plan[a].acts[k].memory_id)

AgentInv(a) ==
    /\ ShownAreOwned(a)
    /\ NothingBeforePlan(a)
    /\ PlanIsGood(a)
    /\ EntriesMatchPlan(a)
    /\ RetirementsFirst(a)

EntriesAreDistinct ==
    \A a, b \in Agents : \A j \in Creates(plan[a]), k \in Creates(plan[b]) :
        built[a][j] = built[b][k] => a = b /\ j = k

(* Only a constructed entry replaces anything, and it is not itself.       *)
ReplacedAreOlder ==
    \A e \in Ids :
        /\ memory[e].status = "unused" => memory[e].replaces = None
        /\ memory[e].replaces # None =>
              InStore(memory[e].replaces) /\ memory[e].replaces # e

(* A stored entry has the memory it replaces, when that is its user's,      *)
(* already retired.                                                         *)
ReplacementsFollowRetirement == PairedReplacements =>
    \A e \in Ids : InStore(e) /\ memory[e].replaces # None =>
        LET m == memory[e].replaces
        IN  ~ Active(m) \/ memory[m].user # memory[e].user

IInv ==
    /\ TypeOK
    /\ \A a \in Agents : AgentInv(a)
    /\ EntriesAreDistinct
    /\ ReplacedAreOlder
    /\ ReplacementsFollowRetirement

-----------------------------------------------------------------------------
(* What the store remembers of the interactions that changed it: lineage,  *)
(* the turn of every entry, how often a memory was retired.  The lifecycle *)
(* its readers see is stated as MemoryLifecycle, and the invariants say    *)
(* what each of these facts rests on.                                      *)

(* None stands for the absence of a row, and is not a row. *)
ASSUME LedgerAssumption ==
    None \notin [status : Stored, user : Users \cup {None}, content : Contents \cup {None}]

(* The strict lifecycle: a memory is retired at most once, and stays so. *)
StrictLifecycle == INSTANCE MemoryLifecycle
    WITH ledger <- Ledger, MayRetireAgain <- FALSE
ImplementsStrictLifecycle == StrictLifecycle!LSpec

(* The lifecycle that several agents, or a temporal builder, still keep. *)
LooseLifecycle == INSTANCE MemoryLifecycle
    WITH ledger <- Ledger, MayRetireAgain <- TRUE
ImplementsLooseLifecycle == LooseLifecycle!LSpec

-----------------------------------------------------------------------------
(* Lineage, for any agents. *)

RetiredInStore(i) == memory[i].status \in {"superseded", "forgotten"}

(* The entry of e replaces m, and is in the store, on its way, or lost. *)
Replaces(e, m) ==
    /\ memory[e].replaces = m
    /\ memory[e].user = memory[m].user
    /\ \/ InStore(e)
       \/ MayFail /\ memory[e].status = "lost"
       \/ \E a \in Agents : \E k \in ToAdd(a) : built[a][k] = e

(* The model is called with nothing left to apply. *)
PlanApplied(a) == pc[a] = "model" => ToRetire(a) = {} /\ ToAdd(a) = {}

(* What was read of a row before it is written is, or was, its lineage. *)
FetchedIsLineage(a) ==
    pc[a] = "write" => \A k \in ToRetire(a) :
        IsFirst(k, ToRetire(a)) /\ fetched[a] # None =>
            Replaces(fetched[a], plan[a].acts[k].memory_id)

(* An entry says what its create said, in which turn. *)
EntriesCarry(a) ==
    \A k \in Creates(plan[a]) :
        /\ memory[built[a][k]].content = plan[a].acts[k].content
        /\ memory[built[a][k]].turn = turn[a]

HistoryInv ==
    /\ LineageSound
    /\ \A a \in Agents : PlanApplied(a) /\ FetchedIsLineage(a) /\ EntriesCarry(a)

-----------------------------------------------------------------------------
(* An agent alone with the store. *)

OneAgent == \A a, b \in Agents : a = b

(* An active memory of the user was read, or is of this turn; and a memory  *)
(* of a content the plan creates gives way to it.                           *)
SnapshotComplete(a) == pc[a] # "idle" =>
    \A i \in Ids : Active(i) /\ memory[i].user = user[a] =>
        i \in Shown(a) \/ memory[i].turn = turn[a]

MatchesRetire(a) ==
    \A k \in Creates(plan[a]) : \A i \in Shown(a) :
        memory[i].content = plan[a].acts[k].content =>
            \E j \in Retirements(plan[a]) : plan[a].acts[j].memory_id = i

AloneInv ==
    /\ DuplicatesOnlyWithinTurn
    /\ \A a \in Agents : SnapshotComplete(a) /\ MatchesRetire(a)

(* What was read is active until the plan retires it, which it does once.   *)
RetiresOnce(a) ==
    /\ pc[a] # "read"
    /\ \A i \in Shown(a) :
          Active(i) \/ \E k \in Retirements(plan[a]) \cap done[a] :
                          plan[a].acts[k].memory_id = i
    /\ \A j, k \in Retirements(plan[a]) :
          plan[a].acts[j].memory_id = plan[a].acts[k].memory_id => j = k

OnceInv ==
    /\ \A i \in Ids : retirements[i] <= IF RetiredInStore(i) THEN 1 ELSE 0
    /\ \A a \in Agents : RetiresOnce(a)
=============================================================================
