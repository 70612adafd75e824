# ExperienceOS in TLA+

ExperienceOS gives an agent a memory. Each interaction reads the user's
memories, plans a batch of memory actions (create, supersede, forget), applies
the batch to a store, and only then calls the model. This directory models the
parts that decide what the ledger of memories may contain and what of it reaches
the model, checks the models with TLC, and proves the main results with TLAPS.

Contents: 1 the system; 2 the modules; 3 the runs; 4 fairness; 5 what is
proved; 6 what the code does that its documents do not say; 7 what is only
model-checked, and what is not modelled; 8 the plan; 9 how to run it.

## 1. The system

Paths are under `src/experienceos/` unless they start with `web/`, `demo/` or
`docs/`.

    user message
        |   sdk.py (wiring)
        v
    engine/experience_engine.py ---- reads ----> memory/store.py, sqlite_store.py
        |  batch <- policy/manager.py <- policy (rule_based | local_model | local_v2)
        |                                   \- memory/planner.py and its variants
        |  + creates <- memory/extraction_integration.py
        |  + actions <- memory/transition_integration.py + transition_authority.py
        |     (or a governed replacement: memory/action_replacement/)
        |  admission check, then apply: retire..., add... ----> store, events/bus.py
        v
    context/builder.py -> providers/ (the model) -> response

`web/server.py` runs one agent behind a lock for several HTTP handler threads.

### Components, their state, their operations, and what makes them correct

| component | state | operations | what must be true |
|---|---|---|---|
| engine (`engine/`) | none between interactions; within one: snapshot of memories, valid actions, built entries, position in the passes | `run_interaction`: read, plan, admit, extraction seam, transition seam, governed replacement, build context, apply in three passes, call the model | an action on a memory that was not read as active is never applied; a replaced memory is retired before its replacement appears; lineage names a real successor; a retry adds nothing twice; the plan is stored before the model answers |
| stores (`memory/store.py`, `memory/sqlite_store.py`, `memory/schema.py`) | the ledger: id -> status, owner, text, metadata (`replaces`, `superseded_by`) | `add`, `supersede`, `forget`, reads by user and status, `clear_user_memories` | nothing is deleted or reactivated; owner and text never change |
| event bus (`events/`) | history, subscribers | `publish`, `subscribe`, `clear` | synchronous; a raising subscriber stops the interaction where it is |
| manager (`policy/manager.py`, `policy/base.py`) | per call: proposals, position of a loop, reason of a fallback | `plan`, `_accept`, `_validate`, `_resolve_contradictions`, `_run_fallback`, `_result` | at most one retirement per memory; no replacement of a forgotten memory; whole-batch fallback: an answer holds the proposals of one policy |
| policies (`policy/rule_based.py`, `local_model.py`, `local_v2.py`, `local_extractor.py`, `local_runner.py`) | the loaded model; per-call retry counter | `plan`: proposals or an exception | bounded retries; what a model says is contained by the deterministic plan |
| planners (`memory/planner.py`, `semantic_planner.py`, `temporal_planner.py`, `hybrid_planner.py`) | queued tool results, last proposal of the assistant; within a call: seen and already-superseded sets | statement detection, conflict search, forget resolution, veto, slots, additions | a replacing create comes with its supersede; nothing of another scope or time is replaced; a statement is dropped only for a memory that says it; what is added repeats nothing |
| transition seam (`memory/transition_integration.py`, `transition_authority.py`, `transition_verification.py`, `identity.py`, `update_intelligence.py`, `forget.py`, `forget_intelligence.py`) | counters; receipts | `evaluate`: route to a controller, propose, verify, authorise, translate | only a verified and authorised transition adds actions, never one the batch already performs; it retires one memory at most, never a guess; what is applied is what was verified; a receipt retires once |
| action replacement (`memory/action_replacement/`) | none | match, plan, authorise, project | all or nothing: the batch stays as it was, or one create becomes a supersede/create pair |
| extraction seam (`memory/extraction_integration.py`, controllers) | counters | `evaluate`: extract, ground, authorise | only a grounded create in adopted mode reaches the batch |
| context (`context/`) | the strategy with its cache | `build`: retrieval, fusion, selection, compression | every memory offered is explained; what is selected is said once; a conflict is never concealed; scores are of the text that is scored |
| embeddings (`embeddings/`) | bounded cache | `embed`, `get`, `put` | evicts what was used longest ago |
| web server (`web/server.py`) | provider name, agent, ledger, turn list, turn counter, lock | GET state, ledger, turns; POST chat, provider, reset | turns numbered without gaps; the ledger only holds what chats stored since the last reset; the lock is always given back |
| demo, examples, benchmarks, experiments, scripts, deploy | presentation and measurement | - | not part of the running system |

### What is hard about it

* Agents that share one SQLite file: each reads a snapshot, plans on it, and
  writes back rows it read before; each store call commits on its own.
* An exception between two of those calls (store, subscriber, model) leaves what
  was done, and the user sends the message again.
* Five sources write into one action list: policy, manager, extraction,
  transition, governed replacement. Each has its own guards against the others.
* Contradictory proposals in one batch, a fallback that replaces a batch halfway.
* Decisions taken from an identity that a lexicon could or could not establish:
  duplicate, conflict, coexistence, another scope, another time, ambiguous.
* Receipts that outlive the process and the store they were issued for.
* Selection by penalties and limits, after which something must still be said of
  what was not selected; a cache of vectors that outlives the texts.
* Handler threads that wait for a lock while the state they will use is replaced.

`PROJECT.json` lists each hazard at its line, with the property that covers it.

## 2. The modules

| module | models | extends |
|---|---|---|
| `MemoryActions` | the action vocabulary of `memory/planner.py`, ordered batches, the engine's admission of a batch | - |
| `TransitionSeam` | what a verified transition adds to a batch; planner precedence; governed replacement | `MemoryActions` |
| `ExperienceEngine` | `run_interaction` of several agents on one store | `TransitionSeam` |
| `MemoryLifecycle` | abstract: what the ledger promises its readers | - |
| `EngineInvariant` | the inductive invariants of the engine and of what its store remembers, and the lifecycle it implements | `ExperienceEngine`, `MemoryLifecycle` (instances) |
| `ExperienceManager` | one call of `ExperienceManager.plan`, loop by loop, and its loop invariant | `MemoryActions` |
| `MemoryPlanner` | the rule-based planner, loop by loop | `MemoryActions` |
| `SemanticPlanner` | the slots variant: veto, duplicates, supersession by slot; the inductive invariant of both | `MemoryPlanner` |
| `PolicyPath` | how the batch of a policy becomes proposals, and the manager's answer to them | `MemoryActions`, `ExperienceManager` (instance) |
| `RuleBasedPath` | one of the planners, the rule-based policy and the manager in one call | `TemporalPlanner`, `HybridPlanner`, `PolicyPath` |
| `PathInvariant` | its inductive invariants: that what is replaced is superseded, and what a batch says | `RuleBasedPath` |
| `LocalPolicyV2` | `policy/local_v2.py`: retry, merge of one proposal with the planner's batch, fallback | `MemoryActions` |
| `LocalPath` | the local policy and the manager in one call | `LocalPolicyV2`, `PolicyPath` |
| `TemporalPlanner` | the scope of a message, the historical veto, the facts added from tools, confirmations, dates and the past | `SemanticPlanner` |
| `HybridPlanner` | what an extractor adds to the rules' batch | `SemanticPlanner` |
| `MemoryIdentity` | the lexicon: what a text is about, and how two texts relate | `MemoryActions`, `Checks` |
| `TransitionVerification` | the ordered checks of a proposal, its projection and verdict | `MemoryIdentity` |
| `UpdateIntelligence`, `ForgetTargets`, `ForgetIntelligence` | the two controllers: intent, target, proposal or refusal | `TransitionVerification`, `Tokens`, in that order |
| `ActionReplacement` | the matcher, the plan of a replacement and its authorisation | `MemoryIdentity`, `TransitionSeam` (instance) |
| `TransitionCoordinator` | routing, verification, receipts, translation, and what the engine makes of them, turn by turn | `ForgetIntelligence`, `ActionReplacement` |
| `Tokens`, `Checks` | token matching and query expansion; the first of several checks that fails | - |
| `TemporalValidity` | when a memory is true of the query's time; orders by several keys | `Checks` |
| `EmbeddingCache` | the bounded cache | - |
| `Retrieval` | what of the memories a query admits, what each is worth, the ranking | `TemporalValidity`, `Tokens`, `EmbeddingCache` |
| `CoverageSelection` | the greedy choice of what covers a query | `Retrieval` |
| `ContextBuilder` | memories come and go, contexts are built between | `CoverageSelection` |
| `WebServer` | the request handlers, the lock, reset and provider switch, and the inductive invariant | - |
| `ExperienceEngineProofs`, `ExperienceManagerProofs`, `PolicyPathProofs`, `SemanticPlannerProofs`, `LocalPolicyProofs`, `TransitionProofs`, `ContextProofs`, `WebServerProofs` | theorems | the modules above, TLAPS |
| `MC*` | model values, reference definitions | the modules above |

### The engine

`pc[a]` of an agent is a place in `run_interaction`:

| `pc` | code | leaves by |
|---|---|---|
| `idle` | no interaction | `Start`: `active_for_user` (one read) |
| `read` | temporal builder wants superseded memories | `ReadSuperseded`: the second read |
| `plan` | manager, admission, extraction, transition, context | `Plan`, or `PlanFails` |
| `apply` | between two store calls | `FetchOne` (row read), `AddOne`, `Applied`, `ApplyFails` |
| `write` | between the read and the write of a row | `RetireOne` (row written, event), `ApplyFails` |
| `model` | everything applied | `Respond`, `ModelFails` |

`Plan` is one step because it touches nothing shared: its inputs are a snapshot,
its output a plan that only the agent sees. The batch of the policy is *any*
batch the manager can return (`ManagerOutput`, which the manager's model proves
of its answers) over any memory it can name: those it was shown, and ids it may
remember of memories of other users or no longer active. So what the engine
promises it promises for every policy. A memory's kind and normalised text are
one `content`, because the engine compares nothing else of it; `Meaning` maps a
content to a representative of its semantic identity, the coarser equality the
replacement matcher uses. Ids are never reused; an id whose entry was built but
not added when its interaction failed is `lost`.

### The manager

One step per iteration of each loop: validation, contradiction resolution, the
filter of orphaned replacements, then the threshold. What a policy returns is a
sequence of arbitrary proposals, each marked valid or not and confident or not,
or an exception. `Refuse` is the whole of `_run_fallback` and of re-raising.
`ResolvesAsDocumented` compares the loops with a definition without loops: the
places of the proposals kept, increasing, each kept for a reason a document gives.

### The planners and the rule-based path

`MemoryPlanner` takes one step per iteration of `plan_memory_actions`: the
memories a forget request names, the preferences stated, then the facts and
instructions. What the regular expressions find is an input: any sequence of
statements, any memories requested. A content has a kind, a normal form and a
conflict key; the instance speaks of seats and home airports, which the rules
know, and of cities, which they do not, and gives each content a semantic
identity (attribute, scope, tense, value). `SemanticPlanner` then rewrites the
batch in the three passes of `semantic_planner.py`: the veto of pairs that cross
a scope, the duplicates, the supersessions of a slot. Both loops of a pass are
steps, because what can go wrong is a half-rewritten batch: a supersede dropped
and its create kept.

`TemporalPlanner` goes on from there when the policy was built with it. The
scope of a message is what `normalize` and `_scope` make of the kinds of words
and dates that are found in it, any combination of them. In a message about the
past, action by action, no create replaces anything any more, and the supersedes of
what the creates would have replaced are dropped (`CoexistOne`); then come the facts of tool results, of a
proposal the user confirms, of a derived date, and of the past. Tool results and
the last proposal are kept by the strategy between calls, for all its sessions:
they are inputs of the step. The semantic planner used alone is this one with a
message that says nothing of time. `HybridPlanner` goes on from the rules'
batch, without veto and slots, with up to `MaxCandidates` candidates that an
extractor found.

`RuleBasedPath` gives the batch to the policy, which turns each action into a
proposal of full confidence (`Handed`), and lets an instance of the manager resolve
them (`PolicyPath`), so that the properties compare what the user said with what the
engine gets. `StatementsAccounted` says what becomes of each statement of the message:
the batch creates it, or an active memory says it (`Heeded`); or one did that the same
message forgets or replaces (`Overruled`), or nothing but a superseded memory has its
text (`Outdated`). In the last two no active memory says it afterwards. What follows
the rules is of two sorts: past facts and candidates are compared with the batch and
with the memories when they are added (`AddedOnce`), while tool results, confirmed
proposals and derived dates are appended unchecked, and it is the manager that hands
the engine one create of each content (`RoutedOnce`).

### The local policy

`LocalPolicyV2` is one call of `plan`: the planner's batch, then the answers of
the model until one parses or the retries are used up, then the decision what to
make of the two, then the filter loop. The batch is *any* linked batch about
active memories, which is what `SemanticPlannerProofs` shows of the planners. An
answer is any proposal that passes the parser: an action, a content, a memory
named by alias or id (active or invented), a memory that a description resolves
to, and whether its evidence quotes the message. What is decided is a *merge*:
which kinds of the batch's actions stay, which memory they must spare, and what
follows them. There are five: `Baseline`, `Created`, `Updated`, `Forgotten`,
`Refused`. `rejected` is `audit.rejection_reason`, which the code also reads as
"the target was refused". `ScriptedLocalPolicyV2` is the second way to propose.
An update drops every create of the batch, those of other statements included:
a message that changes one preference and states another keeps only the first
under the scripted policy. `PairsKept` therefore excepts accepted updates.

`LocalPath` sends the result through the same `PolicyPath`.

### The transitions

A text is a value; what the regular expressions find in it is the constant
`Reading`: surface forms by attribute, scope phrase, marks of a question or of
the past, cues of a correction or of a removal, the parts of a request to forget.
Everything that is decided from these findings is modelled, in the order of the
code. `MemoryIdentity` projects a text to an identity, compares two, and resolves
one against the active memories. `UpdateIntelligence` and `ForgetIntelligence`
propose, or say why not. `TransitionVerification` is the chain of checks of a
proposal: structure, source, targets, relation, lifecycle, support, the
projected state, preservation, lineage. A digest is modelled by what it digests,
so two of them are equal exactly when the code means them to be.

`TransitionCoordinator` puts this to work. An interaction takes a statement and a
batch of the planner (silence, a note, a note that replaces any active memory, a
forget of any), evaluates the transition and applies what is left of both. It is
one step: interleavings are the engine's subject. An operator reviews a
statement and issues the receipt for it, or for the replacement of the planner's
note; a process is started again, with its request numbers from zero, the store
and the receipts as they were, and any configuration. `SeamCovers` ties the two
levels together: every plan this module makes is one of those that
`TransitionSeam` allows, and the engine's theorems are about all of these.

### The context

`Retrieval` is `HybridRetrievalStrategy.retrieve` up to its ranking, on the
lexical, the semantic and the fused path; `CoverageSelection` the greedy loop
with its gains and penalties and the scan for concealed conflicts after it;
`ContextBuilder` the records, the summaries with the space they save, and the
lines that remain. Numbers are those of the code, in thousandths and rounded
down; lengths, tokens and cosines of the instance are those of real texts, the
cosines computed with the deterministic provider. Between two contexts memories
are remembered, superseded and forgotten; the cache stays. The provider answers,
is not there, or fails when the cache has been read and nothing has been stored.

### The web server

A thread is waiting, holds the lock, or answers. The memories are the
sequence of chats whose actions are in the store; a chat may fail before or
after the engine applied its actions. `GET /api/state` takes no lock and reads
in two steps.

## 3. The runs

| run | instance | question |
|---|---|---|
| `EnginePlanner` | 1 agent, 2 users, 3 ids, 2 contents, 3 interactions, batches of 2, arbitrary policy, extraction, failures | is the ledger a strict lifecycle, does a retry add nothing twice, is the plan stored before the model answers, whatever a policy proposes? |
| `EngineShared` | 2 agents on one store, runtime authority, superseded memories read too, two paraphrases of one meaning, failures, weak fairness | what survives stale snapshots and interleaved row writes: is a replaced memory ever active beside its replacement, is lineage sound, does every interaction end? |
| `DoubleForget` | canonical composition | violation, see 6 |
| `ManagerFallback` | 3 arbitrary proposals, 2 memories, 2 contents, fallback | do the loops compute the documented resolution, from one source, and is a covered batch answered in linked pairs? |
| `RuleBased` | every message of up to 2 statements and a forget, 2 memories, 10 contents, all planners, superseded memories read | are pairs linked after every rewriting; are scopes and times kept apart; is every statement accounted for, is what is added new, does the engine get each create once, and is an action lost only to a forget? |
| `LocalPolicy` | every linked batch of up to 3 actions, 2 memories, 2 wordings, any answer, 1 retry, both proposers, the manager behind it | what can a model's answer do to the batch, and is what reaches the engine linked? |
| `LocalRetry` | batches of 1 action | violation, see 6 |
| `Transitions` | 7 statements about seats and a phone, 6 initial stores, 2 interactions, 3 configurations, 1 receipt, restarts | is what is accepted bounded, what is applied what was projected, nothing guessed, no receipt good twice? |
| `SwitchTakesNewValue` | 1 interaction with a switch | violation, see 6 |
| `Context` | 4 stories of 4 memories, 7 queries, 10 configurations, a cache of 2, a failing provider | is every memory explained, what is selected said once, no conflict concealed, no score stale? |
| `OnlyActiveCompressed` | the same | violation, see 6 |
| `WebRequests` | 2 threads, 4 requests | are numbering, ledger, agent and replies consistent; is the lock given back? |

Why the bounds are enough. Three ids make a chain (a memory, its replacement,
and the replacement of that) and let two agents hold one of them between read
and write while the third is built. `EngineShared` has batches of one action, so two
creates of one batch that replace the same memory are covered by the theorem
`LineageHolds` only. Three interactions are a first statement, a
failed change and its retry, or two concurrent changes of what a first one
stored. Two actions in a batch make every pair of contradictory or linked
actions; with the extraction and transition seams the plan grows to five. The
manager needs three proposals for a forget that displaces a supersede whose
replacement is also in the batch. The
planner needs two memories for a statement that contradicts several and for a
second conflict after the first, and two statements for those that share a key;
its ten contents are two values of a key, one in another scope, one in another
tense, one written twice, three values of an attribute only the slots know, and a
fact without a slot. With two statements in all, an added fact meets one the
rules found and another added one, or one result that a tool reports twice. The
local policy needs three actions for a pair and a forget, two memories for an
answer about another one than the batch is about. Two
contents separate "the same text" from "another text"; under `OneMeaning` they
are two wordings of one statement. Transitions need two turns for a receipt to be
used and tried again, stores with none, one and two memories a statement may
be about, in one scope and in two, and a correction that leaves its attribute
unsaid with a scope of its own. A cache of two vectors evicts with three
memories; four memories make two groups to summarise and a conflict that is not
selected, and the ten configurations take every path through retrieval. Every
bound is a constant: `MaxTurns`, `MaxBatch`, `MaxProposals`, `MaxRequests`,
`MaxStatements`, `MaxForgets`, `MaxMemories`, `MaxReceipts`, `MaxForgotten`;
`MaxRetries`, `MaxCandidates` and `MaxEntries` are the code's own, the first 1 by
default, the last far above the instance's 2.

Identifiers are symmetric in the engine's safety runs and users with them;
runs with a liveness property or an `a \in Agents`-dependent fairness use no
symmetry. Deadlock is checked: an engine that rests keeps resting
(`Rest`), a call of a planner or of the manager is followed by the next, contexts can
always be built. The exception is `Transitions`, whose behaviours end when its turns
and receipts are used up.

Every property of a passing run has a mutant of the code: a guard dropped, an
order changed, a reset forgotten. The mutated form stands next to the definition
it replaces and is marked `Mutant`.

## 4. Fairness

* `WF_vars(Progress(a))` per agent: an interaction runs in one Python call; once
  it has begun, the interpreter continues it. Failures (`Fails`) may happen at
  any of their places and are never obliged to. `Start` has no fairness: nobody
  has to speak.
* `WF_vars(Step(t))` per handler thread. Python's `Lock` promises no fairness
  between waiting threads, so no property says that a waiting request gets it;
  `LockReleased` says that a holder gives it back.

## 5. What is proved

`ExperienceEngineProofs` begins with planning: for every value of the constants,
the plan an interaction ends up with retires only memories it was shown, and every
create that replaces a memory is accompanied by the admitted retirement of that
memory or names one out of the interaction's reach (`ValidActionsGood`). This goes
through admission, the extraction seam, the transition append and the positions of
the governed replacement's projection. Then `InvariantHolds` (`Spec => []IInv`) for
any number of agents, users, memories and contents, every combination of seams, and
failures at every step; from it `TypeCorrect`, `NeverBothActive`
(`ReplacedIsRetired`, under `PairedReplacements`) and `OnlyOwners` (an action
property). `ReplacedIsRetired` is not inductive. What carries it: the order of
the passes (`RetirementsFirst`: once an entry of a plan is in the store, nothing
of the plan is left to retire), the plan's pairing (`PlanIsGood`), the fact that
a memory never becomes active again and that built entries belong to one agent
and position (`EntriesAreDistinct`), and ownership of what was shown. Other
agents can only make things *less* active between an agent's read and its write,
which is why stale snapshots do not hurt this property.

The second half of the module is about what the store remembers. For any number of agents:
`HistoryHolds` (`HistoryInv`), from it `LineageHolds` (`LineageSound`) and
`AppliedFirst` (`AppliedBeforeAnswer`), and `KeepsLooseLifecycle`, that the engine
implements `MemoryLifecycle`, step by step. Lineage needs that what an agent read of
a row, and will write back later, is or once was lineage of that row
(`FetchedIsLineage`), for other agents write the row in between; that the model is
called on an applied plan needs that nothing is ever taken back. Two properties hold
only without concurrency, and say so: for one agent (`OneAgent`) `NoDuplicates`
(`DuplicatesOnlyWithinTurn`), because its snapshot is all that is active but its own
entries (`SnapshotComplete`) and a plan retires every shown memory whose content it
creates (`MatchesRetire`); and for one agent that plans on active memories with no
transition granted (`RetiresAlone`), `RetiredOnce` (`NoDoubleRetirement`) and the
strict lifecycle (`KeepsStrictLifecycle`), because what it was shown is active until
its one retirement (`RetiresOnce`). `EngineShared` and `DoubleForget` show that the
conditions are needed. `LedgerAssumption` says that `None`, the absence of a row, is
not a row.

`ExperienceManagerProofs`: the loop invariant (`ManagerInvariantHolds`), for any
number of proposals; from it `AnswersAreManagerOutput`, which is exactly the
assumption `ManagerOutput` the engine makes of its batches, `PairsStayTogether`
(resolution turns a covered batch into a linked one) and
`AnswersFromOneSource`. The invariant keeps, for a proposal that is dropped, where the
one that outranks it stands (`PlacesKept`); from that `PlaceInAnswer`, that only a
forget of its memory takes an action out of a batch without contradictions.
`ResolutionIsDocumented` (`ResolvesAsDocumented`) goes further: the loops compute
exactly the documented resolution. `OrderInv` follows them: of the proposals passed,
the survivors are the holders of their places (`HoldsPlace`), listed in the order they
were proposed in; the last loop then drops the orphans among them and no others.

`PolicyPathProofs` reads the manager's theorems at the place of its instance: a batch
handed over with full confidence leaves the manager linked if it was covered, and
loses actions only to a forget. Both paths use it.

`SemanticPlannerProofs`: `PlannerInvariantHolds` and, from it,
`PlannerBatchesLinked`: for every message, every set of memories and every choice
of keys and identities the planner's batch is `Linked`. That the result is linked
is not inductive: while the slots rewrite the batch, the supersede of a create
that has already been copied may be in the result or still ahead
(`SlotsKeepPairs`); while the veto runs, what it keeps is linked in the batch it
came from, and only whole pairs are undone (`VetoUnlinks`); while one statement is
revised, everything the inner loop has passed is superseded
(`RevisionSupersedes`). With `PairsStayTogether` (a covered batch leaves the manager linked)
this discharges `PairedReplacements`, the assumption of `NeverBothActive`, for
the rule-based planner and its slots variant. `PathInvariantHolds` composes the
planner, what the temporal or the hybrid planner makes of its batch, and the
manager: the planner's invariant holds until a strategy takes the batch over
(`Extended`), from then on the batch is linked whenever it is whole, and while a
message about the past is rewritten nothing in its result replaces anything
(`StrategyInv`). From it `PathLinked` (`RoutedLinked`), the same discharge for
every planner the policy can be built with, and `PathLosesOnlyToForget`
(`LostOnlyToForget`).

The rest of that module is about what a batch says: `MeaningHolds` (`PathSpec =>
[]MeaningInv`), for any memories, statements, keys and identities. Each of its parts
carries one property through the loops that rewrite a batch, and names what has been
carried over so far:

* `NoStatementLost` (`StatementsAccounted`, whose exceptions section 6 explains): what
  the loops of the rules have read (`Heard`) is in the batch or remembered, every text in `seen` has a memory or a
  create behind it, and each rewriting loop has kept the creates it has passed, but
  for those whose value an active memory has (`VetoCarries`, `SlotsCarry`, `PastCarries`).
* `SupersedesHaveKin` (`SupersededByKin`) and `HistoricalKeepsSlots`
  (`HistoricalLeavesOne`): every supersede has a reason in the batch, a create that
  replaces the memory (`Paired`) or one of its slot that replaces another active
  memory of the slot (`Succeeded`). When a message about the past cuts the links, a
  paired supersede goes with its link, so one that is left is of the second kind, and
  the other memory of its slot is not superseded: it stays, unless the same message
  asks to forget it.
* `ScopesNeverCross` (`ScopesKept`): the veto unlinks all creates that replace a
  vetoed memory, and the slots only link within a scope (`ScopesApart`).
* `AddedTextsAreNew` (`AddedOnce`): the past facts and the candidates stand at the end
  of the batch, in any number, and each was new when it was added. It says nothing of
  what is appended unchecked before them; of that `RoutedSaysOnce` (`RoutedOnce`)
  shows, from the manager's invariant, that one create of each content is handed on.

Two facts hold all of it together: the snapshot of a call holds a memory once
(`ReadOnce`), so a memory's id is as good as its position, and all that a batch
retires was read (`TargetsRead`).

`LocalPolicyProofs`: `LocalInvariantHolds`, that the result of a call is what one
of the five merges keeps of the batch, followed by its tail, for any answer and
any number of retries; from it `LocalBatchesCovered` (a create never replaces a
memory the result does not retire), `NothingIsInvented`,
`RefusedForgetsNeverCreate`, `UserForgetsSurvive` and `PairsSurviveTheModel`. The
batch of the policy is not linked, because a forget of the model takes the
place of the supersede of a pair; it is covered, and the manager then drops the
create (`PairsStayTogether`: covered in, linked out). `LocalPathLinked`
(`LocalRoutedLinked`) composes the two, so `PairedReplacements` is discharged for the
local policy as well.

`WebServerProofs`: `WebInvariantHolds`, for any number of handler threads and
requests; from it `LedgerIsExplained`, `AgentStaysCurrent` and
`ChatsSeeThemselves` (the ledger in a reply, bounded from both sides). What carries
them: only the holder of the lock is inside a
handler (`HolderInside`), so at most one chat or reset is under way; the number of
a request is in no store before its chat applies (`Numbered`), so the store holds
nothing the turns, the failures or that chat do not explain; and every reset asked
for has an untouched, empty store ahead (`StoresLeft`, by the cardinality of the
set of pending resets).

`TransitionProofs`: `CoordinatorInvariant`, for any statements, any reading of them
by the patterns, any notes and batches of the planner, any configurations, receipts
and stores, and any number of turns, deployments and restarts. From it:

* `VerifierIsBounded` (`AcceptedIsBounded`), on `AcceptedProposalBounded`, which
  needs no state at all: whatever proposal is given to the verifier, sound or not.
  `FirstCode` of a chain of checks is the good outcome only if every check failed to
  fire (`FirstCodeDecides`), so an acceptance says of each stage what it excludes:
  one target, active, with one of the relations its type requires, to the statement
  that is to be stored. What the relation says of two identities is read off
  `Comparisons` in the same way, from the last comparison back.
* `RetirementNeverGuessed` (`NeverAGuess`), on what the controllers propose:
  `TargetOfConflict` (the one target of an update is the one memory in conflict) and
  `ForgetIsUnique` (a part of a request resolves to the best score by a margin, so
  to one memory at most, and what earlier parts have taken cannot change which).
  `Proposable` lists the shapes a proposal can have, and `Evaluate` passes no other
  on to have effect (`EvaluateCases`).
* `TransitionProjected` (`EffectIsProjected`), on the two ways a transition joins the
  planner's batch: `AppendedPlan`, and `RewrittenPlan` for the replaced create. Each
  retires what the batch retired and what the proposal names, and writes what either
  writes, but for the one create that gives way (`Outgrown`). `AppliedMemory` takes
  this through the passes that apply the plan.
* `ReceiptSpentOnce` (`RetireReceiptOnce`, an action property) from `SpentRetires`: of
  each receipt that retired a memory, the store remembers a memory that is active in
  the receipt's digest, under the text it still has, and is not active now. A
  request that repeated the receipt would have to read that memory as active. The
  request's name, which a restarted process repeats, is not needed for this; that
  memories are only ever retired is (`MemoriesOnlyRetired`).
* `CoordinatorInSeam` (`SeamCovers`): the level below implements the seam. The two
  admission rules are the same rule for the memories shown (`SeamAdmits`); what is
  appended, `TransitionSeam` appends (`SeamAppends`), and the create the matcher finds
  is the one the seam may rewrite (`SeamReplaces`, on `ReadyMeans`: a batch notes one
  memory, and a note that is a duplicate has the statement's meaning). That the ids of
  the memories are ids of the seam is an invariant of its own (`MemoryFits`).
* `CorrectionApplied` (`CorrectionTakesEffect`), of every statement whose note the
  matcher takes for a duplicate of it (`NoteMatches`). A conflict is proposed only when
  no active memory says the same (`Unsaid`, the precedence of `Best`), so the note is
  admitted, the bounded authority issues the receipt (`PairIsIssued`), the matcher finds
  the note and nothing else (`NoteIsMatched`), the pair is admissible without it
  (`CorrectionPlanned`), and one memory is active for the other (`CorrectedMemory`).

`AcceptedIsBounded` has three conditions that the proof shows to be necessary, each
the reach of a check of the code. The slot is only promised for a durable statement:
the relations required of a forget are compared for those alone. The scope is only
promised where the statement's attribute is known (section 6). And `NeverAGuess` speaks of the first three parts of a request, since
`_split_targets` reads no more.

`ContextProofs`: `ContextInvariantHolds`, for any stories, queries and configurations
and any bound of the cache; from it `ScoresFresh` (`ScoresAreFresh`) and `RecentStays`
(`CacheKeepsTheRecent`, an action property). The scores are fresh because the cache
holds one vector per text, and that of the text (`CacheInv`), and because what was
remembered keeps its embedding through every change of its status
(`RememberedInv`). What is evicted was used longest ago because the cache is ordered
by the last uses in a history (`Ordered`): the keys it held, then what the context
used. One use keeps this (`GetIsUse`, `PutIsUse`: an entry used becomes the newest,
`UsedIsNewest`, and the one that falls out is the oldest, `EvictedIsOldest`), and the
two loops of `_memory_vectors` are uses one after the other (`HitsAreUses`,
`PutsAreUses`). These loops are recursive functions in the model. An induction over a
set of numbers (`SetInduction`, from the well-foundedness of `<`) shows once that such
a function exists and what it keeps (`LoopRuns`, `LoopKeeps`).

Three more theorems follow a memory through a selection, for every strategy and both
directions of a conflict: `MemoriesAreExplained` (`EveryMemoryExplained`),
`SelectedAreSaid` (`SelectedIsSaidOnce`) and `ConflictsAreWarnedOf`
(`ConflictNeverConcealed`). The inductive invariant behind them is
`ContextIsOfSelection` (`BuiltInv`): a context that is there was built of the memories
that are there by a `GoodSelection`, one that lists some of the offered memories once
each (`Enumerates`), at most k, and whose records tell of every memory offered, with a
reason exactly when it was left out (`Tells`).

* What the code does to a list, filtering, sorting, cutting and joining, keeps the
  members and lists each once; a lemma for each says so. For a sort by the keys of the
  code (`Precedes`, a lexicographic order) it is `RanksAreTaken`: keys that differ give
  different numbers of members above, so every place is somebody's.
* The loop of coverage selection is `Greedy`, a recursive function of the turns made.
  Every turn keeps `Fair`: what is taken is ranked, nothing is taken twice, no more is
  taken than there were turns, and two memories taken that contradict each other have
  been warned of. What is left and contradicts what is taken, the scan after the loop
  reports (`Contained`).
* A summary stands for a group of one domain, a memory has one domain (`DomainOf`), so
  no two summaries share a member; what no kept summary covers is said by the section of
  its kind, and the kinds are the keys of `KindPriority`.

The only assumptions are the ones named in the modules: typed constants, and `None`
outside the ids, contents, reasons, rows and phases. Those of the transitions are
`CoordinatorAssumption` (statements and stores consist of texts, and an identifier is
not `None`), `ReasonAssumption` (nor is a reason of refusal), `PartsAssumption`
(a request to forget has a sequence of parts) and `VocabularyShared` (the ids and the
meanings the seam speaks of are those of the memories that fit, and a note the matcher
calls a duplicate of the statement means the same there). Those of the context are
`ContextAssumption` and `MaxEntriesAssumption` (the bound of the cache is not 0).
`ContextAssumption` says that a story is a sequence of entries with identifiers of
their own, and so are the queries; that an entry has its fields, counts that are numbers
and finite sets of tokens, a kind, a source and a time that the tables of the code know
(`WellFormed`); that every text has a cosine with every query and every token a weight
that is not negative; that k and the limit are numbers; and that `None` is not one of
the reasons for leaving a memory out.

## 6. Where the code and its documents disagree

* `DoubleForget`: `infer_existing_transition` does not see a forget in a batch
  that also creates something, so the planner-precedence guard, documented to
  avoid a double forget, lets the transition seam forget the same memory again.
* `LocalRetry`: a valid proposal is to be merged and an invalid one to fall back,
  but the reason the first answer was rejected for stays in the audit, and after a
  retry that succeeds a valid update without a target is refused, and a forget by
  description falls back without the description being resolved.

* `SwitchTakesNewValue`: "the new value always comes from the identity projection,
  never from the replaced clause", but the projection takes the longest form that
  occurs in the text: "I switched from window seats to aisle seats" is about window
  seats, and with window seats remembered it is dropped as a duplicate.
* `OnlyActiveCompressed`: "forgotten/superseded memories can never be compressed
  in", but the builder compresses all that was selected, and under a temporal policy
  a question about the past selects superseded memories. The summary states them as
  current, without the label their line would have had.

Observations without a run of their own; where one is an exception that a property
states, the property is named:

* The planner "plans memory actions from a user message and existing active memories"
  (`planner.py:303`), and the slots drop what duplicates "an active memory", but a
  statement is compared with all memories the planner was given, and a temporal context
  builder has the engine give it superseded ones too. "I prefer aisle seats." with the
  window seat active and the aisle seat superseded plans nothing: the user goes back to
  an earlier value, and no active memory says so. This is `Outdated` in
  `StatementsAccounted`; without superseded memories read it does not occur.
* "Unrelated and distinctly scoped memories must survive intact"
  (`transition_verification.py:1304`), but a correction without an attribute,
  "Actually, make it window for personal trips.", is related by its value's domain
  before scopes are compared (`identity.py:1117`), so with an aisle seat for work
  trips remembered it supersedes that memory and the verifier accepts it. This is
  the exception of unknown attributes in `AcceptedIsBounded`, which `Transitions`
  reaches.
* The manager keeps the first accepted proposal for a target, but the second
  replacement of that target is accepted without its supersede, so one memory gets
  two active replacements. "I prefer window seats and middle seats." with an active
  aisle preference reaches it. `CoveredBecomesLinked` holds all the same.
* A test says that "policy -> manager -> MemoryAction must equal the planner
  exactly". For "Forget my aisle seat preference. I prefer window seats." the
  planner forgets, supersedes and replaces the aisle preference; the manager keeps
  the forget and drops the other two, so the window preference is never stored.
  `LostOnlyToForget` says that this is the only way an action is lost. A statement
  that repeats what the same message forgets is lost earlier, as a duplicate.
* "A historical statement never supersedes a current fact" (`temporal_planner.py:15`),
  but the historical veto drops the supersede of the one memory a create names, though
  `semantic_planner.py` may supersede several for one statement: "Previously, I live in
  Lisbon." with "Home city is Rome." and "Lives in Oslo." active supersedes Oslo.
  `HistoricalLeavesOne` says what does hold: an active memory of the slot stays, or is
  forgotten because the same message asks for it. In that case the slot can be left
  without a current fact.
* A statement is compared with the memories as they were before the message, not with
  what is left of them (`planner.py:323`): "I prefer window seats. I prefer aisle
  seats." with the aisle seat active drops the second statement as known, while the
  first supersedes the memory that has it, so the earlier word of the message stands.
  This is `Overruled` in `StatementsAccounted`.
* A relative time overrules words of the present, so "I moved last month. I live in
  Oslo now." is historical, and the scope of a message is applied to all of its
  statements.
* `local_runner.py:132` says that "a failed load may be retried later";
  `availability` reports the failure, and `learned_extraction.py:392` asks it before
  every use, so a load that failed once is never retried there.
* The log of audits is commented "bounded (last 200)" and keeps the first 200.
* With a temporal context builder the engine checks targets against superseded
  memories too, so an action may re-target one, although a comment beside the check
  says a policy never can.
* A superseded memory is admitted for a point of time without looking at its
  interval, and a bound known to the year counts as earlier than any month of it.
* What the candidate limit cuts off never reaches the scan for conflicts, so
  `ConflictNeverConcealed` speaks of the memories that were ranked. Superseded
  memories that were not selected are not in the builder's `skipped`.
* Tool results, the last proposal of the assistant and the last forget intent are
  kept on a strategy shared by all users of a policy.

## 7. Model-checked only, and not modelled

Liveness (`InteractionsEnd`, `LockReleased`) is checked on the instances above and
not proved. Every invariant and every action property that a run checks is proved, but
for the ones that are expected to fail. One has a condition: `CorrectionTakesEffect`
asks that the planner's note of the statement is a duplicate of it to the matcher. In
the code these are two lexicons that agree text by text, not by a rule (`Noted` against
`Relation`), so the theorem speaks of the statements they agree on (`NoteMatches`), and
TLC evaluates that they agree on the durable ones of the instance (`NotesMatch`).

Not modelled: what regular expressions find in a text (statements, forget and
update cues, dates, sentences worth an extraction) and what an extractor or a
model answers are inputs, arbitrary in the engine, the planners and the local
policy, those of given texts in the transitions and the context; the validation
of a grounding; loading of models; vectors; SQL and JSON coding; HTTP; counters,
records and wording for diagnostics; the benchmark and experiment harnesses;
presentation. `PROJECT.json` gives the reason for each.

Simplified: the dimensions of the embedding provider are known from the start, as
they are for the ones the code can build, so the cache is always asked; a cached
vector is never corrupt; the builder passes no token budget.

## 8. The plan

1. `ExperienceEngine` and its proofs, `ExperienceManager` and its proofs,
   `WebServer`: done.
2. `MemoryPlanner`, `SemanticPlanner` and their proofs, `TemporalPlanner`,
   `HybridPlanner`, `RuleBasedPath`: done.
3. `LocalPolicyV2`, `LocalPath` and their proofs: done.
4. `TransitionCoordinator` with identity, verification, the two controllers and
   action replacement: done.
5. Retrieval, selection, cache and `ContextBuilder`: done.
6. Theorems about the engine, the manager, the planners, both policy paths, the
   transitions, the context with its cache, its scores and its selection, and the
   web server: done.

## 9. Running it

    tlc -workers 2 -config EngineShared.cfg MCExperienceEngine
    tlapm ExperienceEngineProofs.tla

Each run is a `.cfg` of the same name; `PROJECT.json` names its module.
