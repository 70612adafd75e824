------------------------- MODULE CoverageSelection -------------------------
(***************************************************************************)
(* CoverageSelectionStrategy.select (context/selection.py): of the ranked  *)
(* candidates, at most k are taken one by one, each time the one that adds *)
(* most: what it is worth by itself, what it covers that nothing taken so  *)
(* far does, less what it repeats and what it contradicts.                 *)
(*                                                                         *)
(* A candidate is one of Retrieval's with its rank.  Utilities are         *)
(* thousandths.  The context builder passes no token budget.               *)
(***************************************************************************)
EXTENDS Retrieval

(* COVERAGE_WEIGHTS, but for confidence (a tenth) and token_efficiency *)
CoverageWeights == [facet |-> 600, attribute |-> 800, entity |-> 500, value |-> 700,
                    source |-> 400, instruction |-> 300, redundancy |-> 1200, conflict |-> 2000]

(* _NEAR_DUPLICATE_JACCARD: four fifths *)
NearDuplicate(S, T) ==
    S \cup T # {} /\ 5 * Cardinality(S \cap T) >= 4 * Cardinality(S \cup T)

Facets(type, names) == {<<type, n>> : n \in names}

(* extract_query_facets, and whether the query asks for several things. *)
QueryFacets(q) ==
    Facets("token", q.tokens) \cup Facets("entity", q.names)
        \cup Facets("attribute", {c[1] : c \in Touched(q.tokens)}) \cup Facets("domain", q.tags)
MultiFacet(q) ==
    "several" \in q.cues \/ Cardinality(q.names) >= 2 \/ Cardinality(Touched(q.tokens)) >= 2

(* candidate_facets *)
IdentityFacets(id) ==
    (IF id.attribute = None THEN {}
     ELSE {<<"attribute", id.attribute>>, <<"value", <<id.attribute, id.value>>>>})
        \cup (IF id.scope = "global" THEN {} ELSE {<<"scope", id.scope>>})
CandidateFacets(c) ==
    Facets("token", c.evidence.matched) \cup Facets("entity", c.evidence.names)
        \cup Facets("domain", c.evidence.domains)
        \cup IdentityFacets(c.entry.identity) \cup {<<"kind", c.entry.kind>>}

-----------------------------------------------------------------------------
(* redundancy_signals: what a candidate is to each of those taken. *)
SameSlot(e, f) == e.identity.attribute # None /\ SlotOf(e) = SlotOf(f)

Signal(c, taken) == FirstCode(<<
    <<"complement", SameSlot(c.entry, taken.entry) /\ c.entry.identity.multi
                    /\ c.entry.identity.value # taken.entry.identity.value>>,
    <<"same_slot_value", SameSlot(c.entry, taken.entry)
                         /\ c.entry.identity.value = taken.entry.identity.value>>,
    <<"conflicting_slot", SameSlot(c.entry, taken.entry)>>,
    <<"near_duplicate_text", NearDuplicate(c.evidence.tokens, taken.evidence.tokens)>>,
    <<"same_matched_evidence", c.evidence.matched # {}
                               /\ c.evidence.matched = taken.evidence.matched>> >>, None)

Signals(c, chosen) == [i \in DOMAIN chosen |-> Signal(c, chosen[i])]

Conflicting(signals) == \E i \in DOMAIN signals : signals[i] = "conflicting_slot"
Repeats(signals) ==
    Cardinality({i \in DOMAIN signals :
        signals[i] \in {"same_slot_value", "near_duplicate_text", "same_matched_evidence"}})

(* In the chronology modes two values of a slot are the history asked for. *)
InConflict(signals, mode) == mode \notin PastModes /\ Conflicting(signals)

-----------------------------------------------------------------------------
(* _utility.  So far: the candidates chosen, in order, the facets and      *)
(* attributes they cover, the sessions they come from, the steps that were *)
(* taken with a conflict warning, and the reason to stop.                  *)
AttributeGain(id, new, far) ==
    IF id.attribute = None THEN 0
    ELSE IF id.attribute \notin far.attributes THEN CoverageWeights.attribute
    ELSE CoverageWeights.value
         * Count(id.multi /\ <<"value", <<id.attribute, id.value>>>> \in new)

SourceGain(c, signals, several, asked, far) ==
    CoverageWeights.source
        * Count(/\ several /\ asked # {}
                /\ c.entry.session # "" /\ c.entry.session \notin far.sessions
                /\ \A i \in DOMAIN signals : signals[i] \in {None, "complement"})

Size(e) == (e.chars + 3) \div 4

Gains(c, new, asked) ==
      c.score + c.entry.identity.confidence
    + CoverageWeights.facet * Cardinality(asked)
    + CoverageWeights.entity * Cardinality({f \in new : f[1] = "entity"})
    + CoverageWeights.instruction * Count(c.entry.kind = "instruction" /\ new # {})
    + IF asked = {} THEN 0 ELSE 3000 \div (20 + Size(c.entry))

Costs(signals, mode) ==
    CoverageWeights.redundancy * Min({2, Repeats(signals)})
        + CoverageWeights.conflict * Count(InConflict(signals, mode))

Appraisal(c, q, new, signals, mode, far) ==
    [new     |-> new,
     warned  |-> InConflict(signals, mode),
     utility |-> Gains(c, new, new \cap QueryFacets(q))
                 + AttributeGain(c.entry.identity, new, far)
                 + SourceGain(c, SelectSeq(signals, LAMBDA s : s # "conflicting_slot"
                                                       \/ mode \notin PastModes),
                              MultiFacet(q), new \cap QueryFacets(q), far)
                 - Costs(signals, mode)]

UtilityKey(c, a) ==
    <<a.utility, Cardinality(a.new), c.score, c.evidence.direct, KindPriority[c.entry.kind],
      c.entry.identity.confidence, - Size(c.entry), - c.rank>>

(* One turn of the loop: the best of the rest is taken, or nothing is      *)
(* worth taking any more.                                                  *)
Nothing == [chosen |-> <<>>, covered |-> {}, attributes |-> {}, sessions |-> {},
            warned |-> 0, refused |-> {}]

Taking(c, a, far) ==
    IF a.utility <= 0 THEN [far EXCEPT !.refused = {c}]
    ELSE [chosen     |-> Append(far.chosen, c),
          covered    |-> far.covered \cup a.new,
          attributes |-> far.attributes \cup ({c.entry.identity.attribute} \ {None}),
          sessions   |-> far.sessions \cup ({c.entry.session} \ {""}),
          warned     |-> far.warned + Count(a.warned),
          refused    |-> {}]

TakeBest(appraised, far) ==
    LET best == CHOOSE c \in DOMAIN appraised : \A d \in DOMAIN appraised :
                    ~ Precedes(UtilityKey(c, appraised[c]), UtilityKey(d, appraised[d]))
    IN  Taking(best, appraised[best], far)

Step(ranked, q, mode, far) ==
    IF far.refused # {} \/ ToSet(ranked) \subseteq ToSet(far.chosen) THEN far
    ELSE TakeBest([c \in ToSet(ranked) \ ToSet(far.chosen) |->
                      Appraisal(c, q, CandidateFacets(c) \ far.covered,
                                Signals(c, far.chosen), mode, far)], far)

Greedy(ranked, q, mode, k) ==
    LET far[n \in 0 .. k] == IF n = 0 THEN Nothing ELSE Step(ranked, q, mode, far[n - 1])
    IN  far[k]

-----------------------------------------------------------------------------
(* The scan after the loop: what contradicts a selected memory is reported *)
(* even though the penalty kept it out.                                    *)
(* Mutant: no scan. *)
NoContainment(ranked, far, mode) == {}
Contained(ranked, far, mode) ==
    {c \in ToSet(ranked) \ ToSet(far.chosen) : InConflict(Signals(c, far.chosen), mode)}

SkipReason(c, far, contained, k) == FirstCode(<<
    <<"conflict_contained", c \in contained>>,
    <<"not_top_k", Len(far.chosen) >= k>>,
    <<"non_positive_utility", c \in far.refused>> >>, "not_selected_by_coverage")

(* Timeline order: by the derived start of validity, then by creation. *)
Start(time) == FirstKnown(<<time.from, time.event>>)
Chronological(chosen) ==
    Reverse(Descending(ToSet(chosen),
                       [c \in ToSet(chosen) |->
                           Start(c.entry.time) \o <<0, c.entry.created>>]))
=============================================================================
