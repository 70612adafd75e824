---------------------------- MODULE ForgetTargets ----------------------------
(***************************************************************************)
(* The canonical forget detector and target resolver (memory/forget.py),   *)
(* over the tokens of context/retrieval.py: each part of a request is      *)
(* scored against every active memory, and a part resolves only when its   *)
(* best score clears a minimum and the runner-up by a margin.  Scores are  *)
(* tenths.                                                                 *)
(*                                                                         *)
(* Reading[t].parts are the parts of the request, each with its tokens,    *)
(* entities and kind hint; Reading[m].tokens are the tokens of a memory    *)
(* and Reading[m].named the entities it contains.  Words maps an           *)
(* attribute, value or scope to its tokens.                                *)
(***************************************************************************)
EXTENDS UpdateIntelligence, Tokens

CONSTANT Words

ASSUME PartsAssumption ==
    \A t \in Contents :
        /\ Len(Reading[t].parts) \in Nat
        /\ DOMAIN Reading[t].parts = 1 .. Len(Reading[t].parts)
        /\ \A k \in DOMAIN Reading[t].parts :
              /\ IsFiniteSet(Reading[t].parts[k].tokens)
              /\ IsFiniteSet(Reading[t].parts[k].entities)

(* FORGET_WEIGHTS, MIN_SCORE, MIN_MARGIN; MAX_TARGETS is 3 *)
ForgetWeight == [exact |-> 50, attribute |-> 20, value |-> 15, scope |-> 10,
                 entity |-> 20, kind |-> 5, lexical |-> 6, coverage |-> 15]
MinScore   == 10
MinMargin  == 5

WordsOf(name) == IF name = Unknown THEN {} ELSE Words[name]

-----------------------------------------------------------------------------
(* ForgetIntentDetector.detect: the reading of a message, in this order. *)
Detected(cues, parts) == FirstCode(<<
    <<"negated", "negated_forget" \in cues>>,
    <<"question", "forget_question" \in cues>>,
    <<"hypothetical", "forget_hypothetical" \in cues>>,
    <<"quoted", "forget_quoted" \in cues>>,
    <<"current_turn", "current_turn" \in cues>>,
    <<"bulk", "bulk" \in cues>>,
    <<"directive", parts # <<>>>> >>, None)

ForgetIntents == {"bulk", "directive"}

-----------------------------------------------------------------------------
(* ForgetTargetResolver._score *)
Hints(part) == Touched(part.tokens)

AttributeHit(part, id) ==
    /\ id.attribute # Unknown
    /\ \/ AnyMatch(part.tokens \cup {c[1] : c \in Hints(part)}, WordsOf(id.attribute))
       \/ \E c \in Hints(part) : c[2] \cap WordsOf(id.value) # {}

LexicalHits(part, m) == {a \in part.tokens : AnyMatch({a}, Reading[m].tokens)}

Weight(name, hit) == IF hit THEN ForgetWeight[name] ELSE 0

Score(part, m) ==
    LET id == Identity[m]
    IN  Weight("exact", part.tokens = Reading[m].tokens)
          + Weight("attribute", AttributeHit(part, id))
          + Weight("value", AnyMatch(part.tokens, WordsOf(id.value)))
          + Weight("scope", AnyMatch(part.tokens, WordsOf(id.scope)))
          + ForgetWeight.entity * Cardinality(part.entities \cap Reading[m].named)
          + Weight("kind", part.kind = id.kind)
          + ForgetWeight.lexical * Cardinality(LexicalHits(part, m))
          + Weight("coverage", part.tokens # {} /\ LexicalHits(part, m) = part.tokens)

ScoreOf == [t \in Contents |->
               [k \in DOMAIN Reading[t].parts |-> [m \in Contents |-> Score(Reading[t].parts[k], m)]]]

(* _resolve_one, against the active memories no earlier part has taken. *)
Found(outcome, targets) == [outcome |-> outcome, targets |-> targets]

BestOf(before, score, positive) ==
    LET top == CHOOSE m \in positive : \A n \in positive : score[n] <= score[m]
    IN  IF positive = {}
        THEN Found(IF \E m \in DOMAIN before.mem \ ActiveIds(before) : score[m] >= MinScore
                   THEN "inactive_target_only" ELSE "no_active_candidates", {})
        ELSE IF score[top] < MinScore THEN Found("below_threshold", {})
        ELSE IF \E m \in positive \ {top} : score[top] - score[m] < MinMargin
             THEN Found("ambiguous", {})
        ELSE Found("resolved", {top})

Scored(before, taken, score) ==
    BestOf(before, score, {m \in ActiveIds(before) \ taken : score[m] > 0})

ResolvePart(t, k, before, taken) ==
    Scored(before, taken, [m \in DOMAIN before.mem |-> ScoreOf[t][k][before.mem[m].text]])

(* resolve: the first three parts, one after the other; one that fails *)
(* is passed over.                                                          *)
Taking(t, k, before, taken) ==
    IF k <= Len(Reading[t].parts) THEN taken \cup ResolvePart(t, k, before, taken).targets
    ELSE taken

ResolveParts(t, before) ==
    LET after == Taking(t, 3, before, Taking(t, 2, before, Taking(t, 1, before, {})))
    IN  IF Len(Reading[t].parts) = 1 THEN ResolvePart(t, 1, before, {})
        ELSE Found(IF after = {} THEN "below_threshold" ELSE "resolved", after)
=============================================================================
