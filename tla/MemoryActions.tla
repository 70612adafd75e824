--------------------------- MODULE MemoryActions ---------------------------
(***************************************************************************)
(* The vocabulary every component of ExperienceOS plans in: the memory     *)
(* actions of memory/planner.py, ordered batches of them, and the          *)
(* engine's lifecycle admission of a batch against the memories that were  *)
(* read for the interaction (engine/experience_engine.py).                 *)
(*                                                                         *)
(* A memory's kind and normalised text are one value of Contents: the      *)
(* engine compares nothing else.  Meaning maps a content to the            *)
(* representative of its semantic slot and value (memory/identity.py),     *)
(* the coarser relation the replacement matcher uses.                      *)
(***************************************************************************)
EXTENDS Naturals, Sequences, FiniteSetsExt

CONSTANTS Ids,       \* memory identifiers (uuid4 strings)
          Contents,  \* (kind, normalised text) pairs
          Meaning,   \* content -> representative of its semantic identity
          None       \* Python's None

ASSUME VocabularyAssumption ==
    /\ None \notin Ids
    /\ None \notin Contents
    /\ Meaning \in [Contents -> Contents]

RetireActions == {"supersede", "forget"}

MemoryAction ==
    [action : {"create"}, memory_id : {None},
     content : Contents, replaces : Ids \cup {None}]
      \cup
    [action : RetireActions, memory_id : Ids,
     content : {None}, replaces : {None}]

Create(c, r) ==
    [action |-> "create", memory_id |-> None, content |-> c, replaces |-> r]
Supersede(i) ==
    [action |-> "supersede", memory_id |-> i, content |-> None, replaces |-> None]
Forget(i) ==
    [action |-> "forget", memory_id |-> i, content |-> None, replaces |-> None]

IsCreate(act) == act.action = "create"
Retires(act)  == act.action \in RetireActions

(***************************************************************************)
(* A plan is an ordered list of actions and the positions of those that    *)
(* are admitted: the engine's valid_actions, in order, without shifting.   *)
(***************************************************************************)
Plans == [acts : Seq(MemoryAction), ok : SUBSET (Nat \ {0})]

PlanOf(s) == [acts |-> s, ok |-> DOMAIN s]

Creates(pl)     == {k \in pl.ok : IsCreate(pl.acts[k])}
Retirements(pl) == {k \in pl.ok : Retires(pl.acts[k])}
Supersedes(pl)  == {k \in pl.ok : pl.acts[k].action = "supersede"}
Forgets(pl)     == {k \in pl.ok : pl.acts[k].action = "forget"}

(* The first position of a loop over the chosen positions. *)
IsFirst(k, S) == k \in S /\ \A j \in S : k <= j

-----------------------------------------------------------------------------
(***************************************************************************)
(* Lifecycle admission.  shown is the set of memories the interaction      *)
(* read, text the content of each, retired the targets the planner's batch *)
(* retires among them.                                                     *)
(***************************************************************************)
RetiredBy(batch, shown) ==
    {m \in shown : \E k \in DOMAIN batch :
                       Retires(batch[k]) /\ batch[k].memory_id = m}

Matching(c, shown, text) == {m \in shown : text[m] = c}

TargetUnchecked(act, shown) == FALSE    \* mutant: the guard dropped
TargetNotActive(act, shown) == Retires(act) /\ act.memory_id \notin shown

(* Mutant: one retired match excuses the others. *)
DuplicateOfAny(act, shown, text, retired) ==
    /\ IsCreate(act)
    /\ Matching(act.content, shown, text) # {}
    /\ Matching(act.content, shown, text) \cap retired = {}

DuplicateOfActive(act, shown, text, retired) ==
    /\ IsCreate(act)
    /\ ~ (Matching(act.content, shown, text) \subseteq retired)

Rejected(act, shown, text, retired) ==
    \/ TargetNotActive(act, shown)
    \/ DuplicateOfActive(act, shown, text, retired)

(* What the planner's batch leaves after the admission check. *)
Admit(batch, shown, text) ==
    [acts |-> batch,
     ok   |-> {k \in DOMAIN batch :
                 ~ Rejected(batch[k], shown, text, RetiredBy(batch, shown))}]

(* Controllers face one check more: no second create of a planned content. *)
DuplicateOfPlanned(act, pl) ==
    /\ IsCreate(act)
    /\ \E k \in Creates(pl) : pl.acts[k].content = act.content

ControllerRejected(act, shown, text, retired, pl) ==
    \/ Rejected(act, shown, text, retired)
    \/ DuplicateOfPlanned(act, pl)

AllAdmissible(s, shown, text, retired, pl) ==
    \A k \in DOMAIN s : ~ ControllerRejected(s[k], shown, text, retired, pl)

(* A controller's actions enter the plan together, at its end, or not at all. *)
AppendAdmissible(pl, s, shown, text, retired) ==
    IF AllAdmissible(s, shown, text, retired, pl)
    THEN [acts |-> pl.acts \o s,
          ok   |-> pl.ok \cup (Len(pl.acts) + 1 .. Len(pl.acts) + Len(s))]
    ELSE pl

-----------------------------------------------------------------------------
(***************************************************************************)
(* What ExperienceManager hands to the engine (policy/manager.py): at most *)
(* one retirement per memory and no replacement of a forgotten memory.     *)
(* Linked batches go further: a create that replaces a memory travels with *)
(* the supersede of that memory.  The rule-based planners send no other,   *)
(* and a local model's supersede is expanded to the pair; a plain create   *)
(* decision of a local model may still name a memory it does not supersede *)
(* (policy/local_model.py), and the manager lets it pass.                  *)
(***************************************************************************)
OneRetirementEach(batch) ==
    \A j, k \in DOMAIN batch :
        Retires(batch[j]) /\ Retires(batch[k])
          /\ batch[j].memory_id = batch[k].memory_id => j = k

NoReplacementOfForgotten(batch) ==
    \A j, k \in DOMAIN batch :
        batch[j].action = "forget" /\ IsCreate(batch[k])
            => batch[k].replaces # batch[j].memory_id

Linked(batch) ==
    \A k \in DOMAIN batch :
        IsCreate(batch[k]) /\ batch[k].replaces # None
            => \E j \in DOMAIN batch : batch[j] = Supersede(batch[k].replaces)

(* Weaker: the memory a create replaces is retired by the batch, be it that *)
(* the batch forgets it.                                                    *)
Covered(batch) ==
    \A k \in DOMAIN batch :
        IsCreate(batch[k]) /\ batch[k].replaces # None
            => \E j \in DOMAIN batch :
                  Retires(batch[j]) /\ batch[j].memory_id = batch[k].replaces

ManagerOutput(batch) ==
    /\ OneRetirementEach(batch)
    /\ NoReplacementOfForgotten(batch)
=============================================================================
