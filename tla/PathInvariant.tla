----------------------------- MODULE PathInvariant -----------------------------
(***************************************************************************)
(* The inductive invariant of RuleBasedPath: what the strategies after the *)
(* rules leave of the planner's invariant, and what the policy hands over. *)
(***************************************************************************)
EXTENDS RuleBasedPath

(* A strategy has taken the batch over. *)
Extended == adding # None \/ extracting

NothingReplaced(batch) ==
    \A k \in DOMAIN batch : IsCreate(batch[k]) => batch[k].replaces = None

(* Until then the planner's invariant holds; afterwards every batch that    *)
(* is whole is linked, and one of the past replaces nothing.                *)
StrategyInv ==
    /\ ~ Extended => PlannerInv
    /\ Extended =>
          /\ pc = "done" \/ (pc = "coexist" /\ ~ extracting)
          /\ next \in Nat \ {0}
          /\ actions \in Seq(MemoryAction) /\ result \in Seq(MemoryAction)
    /\ pc = "done" => Linked(result)
    /\ pc = "coexist" => NothingReplaced(result)

PathInv ==
    /\ StrategyInv
    /\ stage # "call" => Ready /\ proposals = Handed(result)
    /\ Manager!ManagerInv

-----------------------------------------------------------------------------
(* A second inductive invariant: what a batch says while the planner        *)
(* rewrites it, and why each of its supersedes is there.                   *)

Says(batch, c) == \E k \in DOMAIN batch : IsCreate(batch[k]) /\ batch[k].content = c

IsLinked(act) == IsCreate(act) /\ act.replaces # None

(* The snapshot holds a memory once. *)
ReadOnce == \A j, k \in DOMAIN existing : existing[j].id = existing[k].id => j = k

(* It holds superseded memories for a temporal context builder only. *)
ReadAsAsked == \A k \in DOMAIN existing : existing[k].active \/ ReadsInactive

-----------------------------------------------------------------------------
(* Why memory n is superseded: a create of its kind and key replaces it ... *)
Paired(batch, n) ==
    \E k \in DOMAIN batch :
        /\ IsCreate(batch[k]) /\ batch[k].replaces = existing[n].id
        /\ Kind[existing[n].content] = Kind[batch[k].content]
        /\ Key[existing[n].content] = Key[batch[k].content]

(* ... or one of its slot replaces an active memory of that slot.           *)
Succeeded(batch, n) ==
    \E k \in DOMAIN batch, m \in DOMAIN existing :
        /\ IsCreate(batch[k]) /\ batch[k].replaces = existing[m].id
        /\ SameSlot(batch[k].content, n)
        /\ existing[m].active /\ SameSlot(batch[k].content, m)

SupersededIn(batch) ==
    {n \in DOMAIN existing : \E k \in DOMAIN batch : batch[k] = Supersede(existing[n].id)}

AllPaired(batch) == \A n \in SupersededIn(batch) : Paired(batch, n)
Explained(batch) == \A n \in SupersededIn(batch) : Paired(batch, n) \/ Succeeded(batch, n)

(* What is left of it once the links are gone: a create of its kin.         *)
HasKin(batch) ==
    \A n \in SupersededIn(batch) : \E k \in DOMAIN batch :
        /\ IsCreate(batch[k])
        /\ \/ /\ Kind[existing[n].content] = Kind[batch[k].content]
              /\ Key[existing[n].content] = Key[batch[k].content]
           \/ SameSlot(batch[k].content, n)

LeavesOne(batch) ==
    \A n \in SupersededIn(batch) : \E m \in DOMAIN existing \ SupersededIn(batch) :
        existing[m].active /\ SameSlot(existing[n].content, m)

(* The rules pair every supersede, and so does what the veto leaves; ...    *)
RulesPair == ~ Extended \/ extracting => AllPaired(actions)

(* ... the slots add those they contradict; ...                             *)
SlotsExplain == pc \in {"semantic", "revise"} => \A n \in SupersededIn(result) :
    \/ Paired(actions, n) \/ Succeeded(result, n)
    \/ pc = "revise" /\ n \in Contradicted(actions[next].content)

(* ... and a strategy takes an explained batch over.                        *)
ResultExplained ==
    /\ pc = "done" /\ ~ Extended => Explained(result)
    /\ pc = "coexist" => Explained(actions)
    /\ pc = "done" => HasKin(result)
    /\ pc = "done" /\ historical => LeavesOne(result)

SupersedesExplained == RulesPair /\ SlotsExplain /\ ResultExplained

-----------------------------------------------------------------------------
(* An active memory has the value of the slot. *)
Known(c) == \E k \in DOMAIN existing : existing[k].active /\ SameSlot(c, k) /\ SameValue(c, k)

(* What the loops have carried over from actions to result. *)
VetoCarries == pc = "veto" =>
    /\ \A j \in DOMAIN actions : j < next /\ IsCreate(actions[j]) =>
          \E k \in DOMAIN result : result[k] = Unlinked(actions[j])
    /\ \A k \in DOMAIN result :
          /\ \E j \in DOMAIN actions : result[k] = Unlinked(actions[j])
          /\ result[k].action = "supersede" => result[k].memory_id \notin Vetoed

SlotsCarry == pc \in {"semantic", "revise"} =>
    /\ \A j \in DOMAIN actions : j < next /\ IsCreate(actions[j]) =>
          /\ Says(result, actions[j].content) \/ Known(actions[j].content)
          /\ IsLinked(actions[j]) => \E k \in DOMAIN result : result[k] = actions[j]
    /\ pc = "revise" => ~ IsLinked(actions[next])

PastCarries == pc = "coexist" =>
    /\ \A j \in DOMAIN actions : j < next /\ IsCreate(actions[j]) =>
          Says(result, actions[j].content)
    /\ \A k \in DOMAIN result : ~ IsCreate(result[k]) =>
          ~ VetoedAsPast(result[k]) /\ \E j \in DOMAIN actions : actions[j] = result[k]

-----------------------------------------------------------------------------
(* No statement is lost on the way. *)
TextKnown(c) == \E k \in DOMAIN existing : Normal[existing[k].content] = Normal[c]

SaysText(batch, c) ==
    \E k \in DOMAIN batch : IsCreate(batch[k]) /\ Normal[batch[k].content] = Normal[c]

Accounted(batch, c) ==
    \/ SaysText(batch, c) \/ TextKnown(c)
    \/ Semantic /\ \E d \in Uttered : Normal[d] = Normal[c] /\ Known(d)

(* What the loops of the rules have read so far. *)
Heard ==
    CASE pc = "preferences" -> {preferences[k] : k \in {j \in DOMAIN preferences : j < next}}
      [] pc = "statements"  -> {preferences[k] : k \in DOMAIN preferences}
                                 \cup {statements[k] : k \in {j \in DOMAIN statements : j < next}}
      [] pc \in {"idle", "forget"} -> {}
      [] OTHER -> Uttered

RulesHear == ~ Extended /\ pc # "done" =>
    \A c \in Heard : SaysText(actions, c) \/ TextKnown(c)

SeenHeard == pc \in {"idle", "forget", "preferences", "statements"} =>
    \A x \in seen : \/ \E k \in DOMAIN existing : Normal[existing[k].content] = x
                    \/ \E k \in DOMAIN actions :
                          IsCreate(actions[k]) /\ Normal[actions[k].content] = x

OnlyUttered == pc \in PlannerPCs \cup {"veto", "semantic", "revise"} =>
    \A k \in DOMAIN actions : IsCreate(actions[k]) => actions[k].content \in Uttered

AllAccounted ==
    /\ pc = "coexist" => \A c \in Uttered : Accounted(actions, c)
    /\ pc = "done" => \A c \in Uttered : Accounted(result, c)

StatementsHeard == RulesHear /\ SeenHeard /\ OnlyUttered /\ AllAccounted

-----------------------------------------------------------------------------
(* No link crosses a scope once the veto has undone those of the rules.     *)
ScopesApart(batch) ==
    \A k \in DOMAIN batch :
        IsLinked(batch[k]) => ~ AcrossScopes(batch[k].content, ContentOf(batch[k].replaces))

ScopesInv ==
    /\ pc \in {"semantic", "revise"} => ScopesApart(actions) /\ ScopesApart(result)
    /\ pc = "done" /\ Semantic /\ ~ extracting => ScopesApart(result)

-----------------------------------------------------------------------------
(* What is added at the end is new, and nothing else follows it.            *)
AddedInv ==
    /\ past \in Nat /\ accepted \in Nat
    /\ ~ extracting => accepted = 0
    /\ adding # "past" => past = 0
    /\ adding = None => ~ historical
    /\ extracting => adding = None
    /\ pc = "coexist" => adding = "reported"
    /\ ~ Extended => accepted = 0
    /\ past + accepted <= Len(result)
    /\ AddedOnce

MeaningInv ==
    /\ ReadOnce /\ ReadAsAsked
    /\ pc \in {"veto", "semantic", "revise"} => Semantic
    /\ pc \in {"idle", "forget", "done"} => next = 1
    /\ Extended => TargetsRead(result) /\ TargetsRead(actions)
    /\ SupersedesExplained
    /\ VetoCarries /\ SlotsCarry /\ PastCarries
    /\ StatementsHeard
    /\ ScopesInv
    /\ AddedInv
=============================================================================
