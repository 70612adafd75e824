--------------------------- MODULE SemanticPlanner ---------------------------
(***************************************************************************)
(* SemanticMemoryPlanner.plan_memory_actions (memory/semantic_planner.py): *)
(* the batch of the rule-based planner, with the pairs that cross a scope  *)
(* undone, statements already known by their meaning dropped, and the      *)
(* memories a new value contradicts superseded (memory/semantic.py).       *)
(* With Semantic = FALSE the rule-based batch is the result.               *)
(***************************************************************************)
EXTENDS MemoryPlanner

CONSTANTS Semantic,   \* the slots-v2 strategy
          Identity    \* content -> its semantic identity, or None

(* Subject and attribute are one here; sure: confidence is 1.0.             *)
IsIdentity(x) ==
    DOMAIN x = {"attribute", "scope", "value", "historical", "cardinality", "sure"}

ASSUME SemanticAssumption ==
    /\ Semantic \in BOOLEAN
    /\ DOMAIN Identity = Contents
    /\ \A c \in Contents : Identity[c] # None => IsIdentity(Identity[c])

VARIABLES entry,   \* position of the inner loop over the memories read
          result   \* the batch of this planner

vars == <<plannerVars, entry, result>>

TypeOK ==
    /\ pc \in PlannerPCs \cup {"veto", "semantic", "revise", "done"}
    /\ PlannerTypeOK
    /\ entry \in Nat \ {0}
    /\ result \in Seq(MemoryAction)

Init == PlannerInit /\ entry = 1 /\ result = <<>>

Rules == PlannerStep /\ UNCHANGED <<entry, result>>

RulesDone ==
    /\ pc = "planned"
    /\ IF Semantic
       THEN pc' = "veto" /\ UNCHANGED result
       ELSE pc' = "done" /\ result' = actions
    /\ UNCHANGED <<inputs, next, seen, superseded, actions, entry>>

-----------------------------------------------------------------------------
Meant(c) == Identity[c] # None

SameScope(x, y) == x.scope = y.scope /\ x.historical = y.historical

(* One attribute, said of different scopes, or of then and of now.          *)
AcrossScopes(c, d) ==
    /\ Meant(c) /\ Meant(d)
    /\ Identity[c].attribute = Identity[d].attribute
    /\ ~ SameScope(Identity[c], Identity[d])

ContentOf(i) == existing[CHOOSE k \in DOMAIN existing : existing[k].id = i].content

(* Mutant: scopes are compared, then and now are not. *)
VetoedByScope ==
    {i \in Read : \E k \in DOMAIN actions :
        /\ IsCreate(actions[k]) /\ actions[k].replaces = i
        /\ AcrossScopes(actions[k].content, ContentOf(i))
        /\ Identity[actions[k].content].scope # Identity[ContentOf(i)].scope}

Vetoed ==
    {i \in Read : \E k \in DOMAIN actions :
        /\ IsCreate(actions[k]) /\ actions[k].replaces = i
        /\ AcrossScopes(actions[k].content, ContentOf(i))}

Unlinked(act) ==
    IF IsCreate(act) /\ act.replaces \in Vetoed THEN Create(act.content, None) ELSE act

(* _veto_cross_scope_v1_pairs: all creates that replace a vetoed memory are *)
(* unlinked, all its supersedes go.                                         *)
VetoOne ==
    /\ pc = "veto"
    /\ next \in DOMAIN actions
    /\ result' = IF actions[next].action = "supersede" /\ actions[next].memory_id \in Vetoed
                 THEN result ELSE Append(result, Unlinked(actions[next]))
    /\ next' = next + 1
    /\ UNCHANGED <<pc, inputs, seen, superseded, actions, entry>>

VetoDone ==
    /\ pc = "veto"
    /\ next \notin DOMAIN actions
    /\ pc' = "semantic"
    /\ actions' = result
    /\ result' = <<>>
    /\ superseded' = superseded \ Vetoed
    /\ next' = 1
    /\ UNCHANGED <<inputs, seen, entry>>

-----------------------------------------------------------------------------
(* eligible: the active memories the rules left alone. *)
Eligible ==
    {k \in DOMAIN existing : existing[k].active /\ existing[k].id \notin superseded}

SameSlot(c, k) ==
    /\ Meant(c) /\ Meant(existing[k].content)
    /\ Identity[c].attribute = Identity[existing[k].content].attribute
    /\ SameScope(Identity[c], Identity[existing[k].content])

SameValue(c, k) == Identity[c].value = Identity[existing[k].content].value

(* Mutant: a statement of the slot is a duplicate, whatever its value. *)
DuplicatesOfSlot(c) == {k \in Eligible : SameSlot(c, k)}

(* evaluate_pair: duplicate ... *)
Duplicates(c) == {k \in Eligible : SameSlot(c, k) /\ SameValue(c, k)}

(* ... supersede, or, for anything else, coexist. *)
SingleValued(x, y) ==
    /\ "single" \in {x.cardinality, y.cardinality}
    /\ "multi" \notin {x.cardinality, y.cardinality}

Contradicted(c) ==
    {k \in Eligible :
        /\ SameSlot(c, k) /\ ~ SameValue(c, k)
        /\ ~ Identity[c].historical
        /\ SingleValued(Identity[c], Identity[existing[k].content])
        /\ Identity[c].sure /\ Identity[existing[k].content].sure}

Untouched(act) ==
    ~ IsCreate(act) \/ ~ Meant(act.content) \/ act.replaces # None

(* An equivalent value is active: no new record. *)
Dropped(act) == ~ Untouched(act) /\ Duplicates(act.content) # {}

Revises(act) ==
    ~ Untouched(act) /\ Duplicates(act.content) = {} /\ Contradicted(act.content) # {}

SemanticOne ==
    /\ pc = "semantic"
    /\ next \in DOMAIN actions
    /\ ~ Revises(actions[next])
    /\ result' = IF Dropped(actions[next]) THEN result ELSE Append(result, actions[next])
    /\ next' = next + 1
    /\ UNCHANGED <<pc, inputs, seen, superseded, actions, entry>>

(* All contradicted memories are superseded, in the order they were read,   *)
(* and the create replaces the first.                                       *)
RevisionStarts ==
    /\ pc = "semantic"
    /\ next \in DOMAIN actions
    /\ Revises(actions[next])
    /\ pc' = "revise"
    /\ UNCHANGED <<inputs, next, seen, superseded, actions, entry, result>>

SupersedeOne ==
    /\ pc = "revise"
    /\ entry \in DOMAIN existing
    /\ result' = IF entry \in Contradicted(actions[next].content)
                 THEN Append(result, Supersede(existing[entry].id)) ELSE result
    /\ entry' = entry + 1
    /\ UNCHANGED <<pc, inputs, next, seen, superseded, actions>>

Revised ==
    /\ pc = "revise"
    /\ entry \notin DOMAIN existing
    /\ LET c == actions[next].content
       IN  \E k \in Contradicted(c) :
              /\ IsFirst(k, Contradicted(c))
              /\ result' = Append(result, Create(c, existing[k].id))
    /\ entry' = 1 /\ next' = next + 1
    /\ pc' = "semantic"
    /\ UNCHANGED <<inputs, seen, superseded, actions>>

SemanticDone ==
    /\ pc = "semantic"
    /\ next \notin DOMAIN actions
    /\ pc' = "done"
    /\ next' = 1
    /\ UNCHANGED <<inputs, seen, superseded, actions, entry, result>>

PlanOne == Rules \/ RulesDone \/ VetoOne \/ VetoDone
             \/ SemanticOne \/ RevisionStarts \/ SupersedeOne \/ Revised \/ SemanticDone

(* The call returns its batch; the planner keeps nothing for the next one.  *)
Returned ==
    /\ pc = "done"
    /\ pc' = "idle"
    /\ existing' = <<>> /\ preferences' = <<>> /\ statements' = <<>>
    /\ next' = 1 /\ entry' = 1 /\ seen' = {} /\ superseded' = {}
    /\ actions' = <<>> /\ result' = <<>>

Next == PlanOne \/ Returned

Spec == Init /\ [][Next]_vars

-----------------------------------------------------------------------------
(***************************************************************************)
(* Properties.                                                             *)
(***************************************************************************)
Done == pc = "done"

(* A create that replaces a memory comes with the supersede of that memory, *)
(* after the veto has split pairs and the slots have added new ones: what   *)
(* keeps a replaced memory from staying active beside its replacement.      *)
ResultLinked == Done => Linked(result)

(* Scoped coexistence: no statement replaces a memory of the same attribute *)
(* that speaks of another scope, or of another time.                        *)
ScopesCoexist ==
    Done /\ Semantic => \A k \in DOMAIN result :
        IsCreate(result[k]) /\ result[k].replaces # None =>
            ~ AcrossScopes(result[k].content, ContentOf(result[k].replaces))

(* Nothing a memory says is lost in silence: a superseded memory has a      *)
(* create of its key or of its slot in the same batch.                      *)
SupersededByKin ==
    Done => \A j \in DOMAIN result : result[j].action = "supersede" =>
        \E k \in DOMAIN result :
            /\ IsCreate(result[k])
            /\ LET old == ContentOf(result[j].memory_id)
               IN  \/ Kind[old] = Kind[result[k].content] /\ Key[old] = Key[result[k].content]
                   \/ /\ Meant(old) /\ Meant(result[k].content)
                      /\ Identity[old].attribute = Identity[result[k].content].attribute
                      /\ SameScope(Identity[old], Identity[result[k].content])

Uttered == {preferences[k] : k \in DOMAIN preferences} \cup {statements[k] : k \in DOMAIN statements}

(* A memory says what was said: its text, punctuation and case aside, or,   *)
(* for the slots, its value.                                                *)
Alleges(k, c) ==
    \/ Normal[existing[k].content] = Normal[c]
    \/ Semantic /\ \E d \in Uttered :
          Normal[d] = Normal[c] /\ SameSlot(d, k) /\ SameValue(d, k)

Retired(k) ==
    \E j \in DOMAIN result : Retires(result[j]) /\ result[j].memory_id = existing[k].id

(* What becomes of a statement: the batch creates it, or an active memory   *)
(* that the batch leaves alone says it, ...                                 *)
Heeded(c) ==
    \/ \E k \in DOMAIN result :
          IsCreate(result[k]) /\ Normal[result[k].content] = Normal[c]
    \/ \E k \in DOMAIN existing : existing[k].active /\ Alleges(k, c) /\ ~ Retired(k)

(* ... or one that said it when the message came, and that the same message *)
(* forgets or replaces, ...                                                 *)
Overruled(c) ==
    \E k \in DOMAIN existing : existing[k].active /\ Alleges(k, c) /\ Retired(k)

(* ... or nothing but a superseded memory has its text.                     *)
Outdated(c) ==
    \E k \in DOMAIN existing : ~ existing[k].active /\ Normal[existing[k].content] = Normal[c]

(* A statement that the batch does not create is dropped for one of three   *)
(* reasons only: an active memory says it, or one did that the same message *)
(* retires, or, when superseded memories are read, one of these has its     *)
(* text.  The last two leave it said by no active memory: the code compares *)
(* with all memories it was given, as they were before the message.         *)
StatementsAccounted ==
    Done => \A c \in Uttered :
        Heeded(c) \/ Overruled(c) \/ (ReadsInactive /\ Outdated(c))

-----------------------------------------------------------------------------
(* The inductive invariant: where the supersede of a replacing create is    *)
(* while the batch is rewritten.                                           *)

Rewriting == pc \in {"semantic", "revise", "done"}

(* The batch of the rules is linked, before and after the veto.             *)
RulesLinked == Linked(actions)

TargetsRead(batch) == \A k \in DOMAIN batch :
    /\ Retires(batch[k]) => batch[k].memory_id \in Read
    /\ IsCreate(batch[k]) => batch[k].replaces \in Read \cup {None}

(* The veto has passed on every action before next, without the pairs it    *)
(* undoes.                                                                  *)
VetoUnlinks == pc = "veto" =>
    /\ \A j \in DOMAIN actions : j < next /\ ~ IsCreate(actions[j])
          /\ actions[j].memory_id \notin Vetoed =>
             \E k \in DOMAIN result : result[k] = actions[j]
    /\ \A k \in DOMAIN result : IsCreate(result[k]) /\ result[k].replaces # None =>
          /\ result[k].replaces \notin Vetoed
          /\ \E j \in DOMAIN actions : actions[j] = Supersede(result[k].replaces)

(* The slots have passed on every retirement before next, and a replacing   *)
(* create has its supersede in the result, or still ahead.                  *)
SlotsKeepPairs == Rewriting =>
    /\ \A j \in DOMAIN actions : ~ IsCreate(actions[j]) /\ (pc # "done" => j < next) =>
          \E k \in DOMAIN result : result[k] = actions[j]
    /\ \A k \in DOMAIN result : IsCreate(result[k]) /\ result[k].replaces # None =>
          \/ \E j \in DOMAIN result : result[j] = Supersede(result[k].replaces)
          \/ \E j \in DOMAIN actions : actions[j] = Supersede(result[k].replaces)

(* The inner loop has superseded what it has passed.                        *)
RevisionSupersedes == pc = "revise" =>
    /\ next \in DOMAIN actions
    /\ IsCreate(actions[next])
    /\ \A k \in Contradicted(actions[next].content) : k < entry =>
          \E j \in DOMAIN result : result[j] = Supersede(existing[k].id)

PlannerInv ==
    /\ TypeOK
    /\ Rewriting \/ pc = "veto" \/ result = <<>>
    /\ pc = "idle" => actions = <<>>
    /\ pc = "planned" => next = 1
    /\ pc # "revise" => entry = 1
    /\ RulesLinked
    /\ TargetsRead(actions)
    /\ TargetsRead(result)
    /\ VetoUnlinks
    /\ SlotsKeepPairs
    /\ RevisionSupersedes
=============================================================================
