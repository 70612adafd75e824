--------------------------- MODULE ContextBuilder ---------------------------
(***************************************************************************)
(* The memory side of a context: the engine hands the builder the memories *)
(* of the user, the retrieval strategy (or the builder's own keyword       *)
(* ranking) selects some, the compressor replaces groups of them by        *)
(* summaries where that saves space, and the rest is said line by line     *)
(* (context/builder.py, context/compression.py, and what of                *)
(* HybridRetrievalStrategy.retrieve comes after the ranking).  Between two *)
(* contexts memories are remembered, superseded and forgotten; the         *)
(* strategy and its embedding cache last.                                  *)
(*                                                                         *)
(* A configuration is [strategy: keyword or hybrid, mode, profile,         *)
(* coverage, temporal, compress, strict, limit (0: none), k, now].         *)
(***************************************************************************)
EXTENDS CoverageSelection

CONSTANTS Configs,       \* the ways the parts are put together
          Stories,       \* sequences of entries, in the order they are remembered
          Queries,
          Today,         \* the day a memory is superseded
          MaxForgotten

(* What an entry is made of: what is read of its text is finite, and what  *)
(* is counted of it is a number.                                           *)
Fields == {"id", "status", "kind", "chars", "created", "session", "tokens", "words", "phrases",
           "entities", "identity", "tags", "embeds", "time", "source", "travel",
           "supersededBy", "supersededAt"}

WellFormed(e) ==
    /\ Fields \subseteq DOMAIN e
    /\ e.kind \in DOMAIN KindPriority /\ e.travel \in BOOLEAN
    /\ e.source \in {""} \cup DOMAIN TrustOrder
    /\ {e.chars, e.identity.confidence} \subseteq Nat
    /\ {e.time.from, e.time.event} \subseteq Seq(Int)
    /\ \A part \in {e.tokens, e.words, e.phrases, e.entities, e.tags} : IsFiniteSet(part)

(* Memories have identifiers of their own, and so have the queries here; a *)
(* provider scores every text.  A token in all of the memories weighs      *)
(* least, and not less than nothing.                                       *)
ASSUME ContextAssumption ==
    /\ \A remembered \in Stories :
          /\ remembered \in Seq(ToSet(remembered))
          /\ \A i \in DOMAIN remembered :
                /\ WellFormed(remembered[i])
                /\ \A q \in Queries : q.cosine[remembered[i].embeds] \in Int
          /\ \A i, j \in DOMAIN remembered : remembered[i].id = remembered[j].id => i = j
          /\ \A n \in 1 .. Len(remembered) : \A df \in 1 .. n : LogRatio[n][df] \in Nat
    /\ \A q, r \in Queries : q.id = r.id => q = r
    /\ \A c \in Configs : {c.k, c.limit} \subseteq Nat
    /\ None \notin {"zero_relevance", "below_semantic_floor", "no_fused_evidence",
                    "below_candidate_limit", "not_top_k", "budget_reached", "conflict_contained",
                    "non_positive_utility", "not_selected_by_coverage"}

VARIABLES config, story, memories, cache, built
vars == <<config, story, memories, cache, built>>

(* run_interaction: active memories, then the superseded ones for a        *)
(* strategy with a temporal policy.                                        *)
WithStatus(status) == Those(memories, {e \in ToSet(memories) : e.status = status})
Pool == WithStatus("active")
            \o (IF config.strategy = "hybrid" /\ config.temporal
                THEN WithStatus("superseded") ELSE <<>>)

-----------------------------------------------------------------------------
(* A record says why a memory is in the context (None) or not. *)
Record(id, reason) == [id |-> id, reason |-> reason]
Chosen(entries, records, warnings, pairs) ==
    [entries |-> entries, records |-> records, warnings |-> warnings, pairs |-> pairs]

(* _rank_candidates: keywords in common, kind, recency. *)
KeywordKey(e, q) == <<Cardinality(e.words \cap q.words), KindPriority[e.kind], e.created>>

FirstOf(ranked, k) == SubSeq(ranked, 1, Min({k, Len(ranked)}))

ByKeyword(ranked, k) ==
    Chosen(FirstOf(ranked, k),
           [i \in DOMAIN ranked |-> Record(ranked[i].id, IF i <= k THEN None ELSE "budget_reached")],
           0, 0)

(* Step 5 of retrieve: the best k of the ranked, or the coverage strategy. *)
Entries(candidates) == [i \in DOMAIN candidates |-> candidates[i].entry]

TopK(ranked, k) ==
    Chosen(Entries(FirstOf(ranked, k)),
           [i \in DOMAIN ranked |->
               Record(ranked[i].entry.id, IF i <= k THEN None ELSE "not_top_k")],
           0, ConflictPairs(ToSet(Entries(FirstOf(ranked, k)))))

Covering(ranked, far, contained, mode, k) ==
    Chosen(Entries(IF mode \in PastModes THEN Chronological(far.chosen) ELSE far.chosen),
           [i \in DOMAIN ranked |->
               Record(ranked[i].entry.id,
                      IF ranked[i] \in ToSet(far.chosen) THEN None
                      ELSE SkipReason(ranked[i], far, contained, k))],
           far.warned + Cardinality(contained),
           ConflictPairs(ToSet(Entries(far.chosen))))

Contain(ranked, far, mode, k) == Covering(ranked, far, Contained(ranked, far, mode), mode, k)

Selected(ranked, q, mode, k) ==
    IF config.coverage THEN Contain(ranked, Greedy(ranked, q, mode, k), mode, k)
    ELSE TopK(ranked, k)

(* The records: the ranked first, then what was never ranked. *)
(* Mutant: what the candidate limit cuts off is dropped. *)
WithoutCutOff(chosen, excluded, cutoff) ==
    [chosen EXCEPT !.records = @ \o excluded]
WithExcluded(chosen, excluded, cutoff) ==
    [chosen EXCEPT !.records = @ \o excluded
        \o [i \in DOMAIN cutoff |-> Record(cutoff[i].entry.id, "below_candidate_limit")]]

Ranked(ordered) ==
    [i \in DOMAIN ordered |-> [entry |-> ordered[i].entry, evidence |-> ordered[i].evidence,
                               score |-> ordered[i].score, rank |-> i]]

Excluded(considered) ==
    LET out == Those(considered, {c \in ToSet(considered) : c.reason # None})
    IN  [i \in DOMAIN out |-> Record(out[i].entry.id, out[i].reason)]

Limited(ranked, limit, excluded, q, mode) ==
    WithExcluded(Selected(FirstOf(ranked, limit), q, mode, config.k), excluded,
                 SubSeq(ranked, limit + 1, Len(ranked)))

SelectRanked(considered, held, q, mode) ==
    Limited(Ranked(Ranking({c \in ToSet(considered) : c.reason = None})), Limit(config),
            held \o Excluded(considered), q, mode)

-----------------------------------------------------------------------------
(* Steps 1 to 3: the lifecycle filter, and only then the scores. *)
Intent(q) == IF config.temporal THEN Mode(q) ELSE "current"

Reason(e, q, mode) ==
    IF config.temporal THEN Held(e, q, mode, config.now)
    ELSE IF e.status = "active" THEN None ELSE "inactive"

Consider(e, q, mode, expanded, matched, admitted, embedded) ==
    Considered(e, Evidence(e, q, matched),
               Lexical(matched, admitted, LogRatio[Cardinality(admitted)]),
               Structured(e, q, expanded),
               IF embedded THEN Semantic(e, q, cache) ELSE 0,
               IF config.temporal THEN Bonus(e, q, mode, ToSet(Pool)) ELSE 0,
               config, embedded)

Retrieve(admitted, held, q, mode, expanded, embedded) ==
    SelectRanked([i \in DOMAIN admitted |->
                     Consider(admitted[i], q, mode, expanded, Matched(admitted[i], expanded),
                              ToSet(admitted), embedded)], held, q, mode)

-----------------------------------------------------------------------------
(* ExperienceCompressor.compress: the memories about travel, two or more,  *)
(* and those of a kind, three or more, each group in the order selected.   *)
KindLabel == [preference |-> 10, fact |-> 4, instruction |-> 11]   \* letters
SummaryLabel(domain) == IF domain = "travel" THEN 27 ELSE KindLabel[domain] + 21

Sum(lengths) == FoldLeft(LAMBDA a, b : a + b, 0, lengths)

(* The length of clauses joined into one sentence. *)
Joined(lengths) ==
    Sum(lengths) + (IF Len(lengths) = 1 THEN 1 ELSE IF Len(lengths) = 2 THEN 6
                    ELSE 2 * Len(lengths) + 3)

Sentences(facts, others) ==
    [i \in DOMAIN facts |-> facts[i].sentence]
        \o (IF others = <<>> THEN <<>>
            ELSE <<Joined([i \in DOMAIN others |-> others[i].clause])>>)

TextLength(domain, group) ==
    IF domain = "travel"
    THEN Sum(Sentences(SelectSeq(group, LAMBDA e : e.kind = "fact"),
                       SelectSeq(group, LAMBDA e : e.kind # "fact")))
         + Cardinality({i \in DOMAIN group : group[i].kind = "fact"})
         - Count(\A i \in DOMAIN group : group[i].kind = "fact")
    ELSE Joined([i \in DOMAIN group |-> group[i].clause])

OriginalLength(group, kinds) ==
    Sum([i \in DOMAIN group |-> group[i].chars + 3])
        + MapThenSumSet(LAMBDA k : KindLabel[k] + 2, kinds) + 2 * (Cardinality(kinds) - 1)

Shrinks(domain, group) ==
    SummaryLabel(domain) + TextLength(domain, group)
        < OriginalLength(group, {group[i].kind : i \in DOMAIN group})

GroupOf(entries, domain) ==
    Those(entries, {e \in ToSet(entries) : IF domain = "travel" THEN e.travel
                                           ELSE ~ e.travel /\ e.kind = domain})
MinGroupSize(domain) == IF domain = "travel" THEN 2 ELSE 3

Ids(entries) == [i \in DOMAIN entries |-> entries[i].id]

Domains == {"travel", "preference", "fact", "instruction"}
Groups(entries) == {d \in Domains : Len(GroupOf(entries, d)) >= MinGroupSize(d)}

(* build_context: only summaries that save space are kept. *)
Summarised(entries) ==
    IF config.compress THEN {d \in Groups(entries) : Shrinks(d, GroupOf(entries, d))} ELSE {}

(* Mutant: the members of a summary that was not kept are left out too. *)
AllGrouped(entries, summarised) ==
    Those(entries, {e \in ToSet(entries) :
                       \A d \in Groups(entries) : e \notin ToSet(GroupOf(entries, d))})
Rendered(entries, summarised) ==
    Those(entries, {e \in ToSet(entries) :
                       \A d \in summarised : e \notin ToSet(GroupOf(entries, d))})

(* _kind_sections: a line each, by kind; a temporal policy labels them. *)
Line(e) == [id |-> e.id,
            label |-> IF config.strategy = "hybrid" /\ config.temporal THEN Annotation(e) ELSE {}]
Section(rendered, kind) ==
    LET section == Those(rendered, {e \in ToSet(rendered) : e.kind = kind})
    IN  [i \in DOMAIN section |-> Line(section[i])]
Lines(rendered) ==
    Section(rendered, "preference") \o Section(rendered, "fact") \o Section(rendered, "instruction")

Built(q, chosen, summarised, scores, uses) ==
    [query |-> q.id, offered |-> Ids(Pool), selected |-> Ids(chosen.entries),
     records |-> chosen.records, warnings |-> chosen.warnings, pairs |-> chosen.pairs,
     summaries |-> {Ids(GroupOf(chosen.entries, d)) : d \in summarised},
     lines |-> Lines(Rendered(chosen.entries, summarised)),
     scores |-> scores, uses |-> uses]

NotBuilt == [query |-> None]
Raised   == [query |-> "raised"]

-----------------------------------------------------------------------------
(* build_context, on what the strategy or the keyword ranking chose. *)
Build(q, chosen, scores, uses) ==
    built' = Built(q, chosen, Summarised(chosen.entries), scores, uses)

Admitted(q)  == Those(Pool, {e \in ToSet(Pool) : Reason(e, q, Intent(q)) = None})
HeldBack(q)  ==
    LET held == Those(Pool, {e \in ToSet(Pool) : Reason(e, q, Intent(q)) # None})
    IN  [i \in DOMAIN held |-> Record(held[i].id, Reason(held[i], q, Intent(q)))]

BuildByKeyword(q) ==
    /\ config.strategy = "keyword"
    /\ Build(q, ByKeyword(Descending(ToSet(Pool), [e \in ToSet(Pool) |-> KeywordKey(e, q)]), config.k),
             <<>>, <<>>)
    /\ UNCHANGED <<config, story, memories, cache>>

(* The lexical path: without a provider, or after it has failed. *)
Fallback(q) ==
    Build(q, Retrieve(Admitted(q), HeldBack(q), q, Intent(q), Expanded(q.tokens), FALSE), <<>>, <<>>)

BuildLexically(q) ==
    /\ config.strategy = "hybrid" /\ ~ AsksProvider(config)
    /\ Fallback(q)
    /\ UNCHANGED <<config, story, memories, cache>>

(* The provider is not available, or fails to embed the query: the cache   *)
(* has not been looked at.                                                 *)
FailOrFallBack(q) == IF config.strict THEN built' = Raised ELSE Fallback(q)

BuildUnavailable(q) ==
    /\ config.strategy = "hybrid" /\ AsksProvider(config)
    /\ FailOrFallBack(q)
    /\ UNCHANGED <<config, story, memories, cache>>

(* It fails to embed what the cache did not hold: what was read is newer,  *)
(* nothing is stored.                                                      *)
BuildHalfway(q) ==
    /\ config.strategy = "hybrid" /\ AsksProvider(config)
    /\ Pending(Admitted(q), cache) # <<>>
    /\ FailOrFallBack(q)
    /\ cache' = AfterHits(Hits(Admitted(q), cache), cache)
    /\ UNCHANGED <<config, story, memories>>

Uses(admitted) == Digests(Hits(admitted, cache)) \o Digests(Pending(admitted, cache))

BuildSemantically(q) ==
    /\ config.strategy = "hybrid" /\ AsksProvider(config)
    /\ Build(q, Retrieve(Admitted(q), HeldBack(q), q, Intent(q), Expanded(q.tokens), TRUE),
             [i \in DOMAIN Admitted(q) |-> [id |-> Admitted(q)[i].id,
                                            score |-> Semantic(Admitted(q)[i], q, cache)]],
             Uses(Admitted(q)))
    /\ cache' = AfterPuts(Pending(Admitted(q), cache), AfterHits(Hits(Admitted(q), cache), cache))
    /\ UNCHANGED <<config, story, memories>>

-----------------------------------------------------------------------------
(* What happens to the memories between two contexts. *)
New(e) == [e EXCEPT !.status = "active", !.created = Len(memories) + 1,
                    !.supersededBy = None, !.supersededAt = NoDate]

Remember ==
    /\ Len(memories) < Len(story)
    /\ memories' = Append(memories, New(story[Len(memories) + 1]))
    /\ built' = NotBuilt
    /\ UNCHANGED <<config, story, cache>>

Supersede(i) ==
    /\ Len(memories) < Len(story)
    /\ memories[i].status = "active"
    /\ SameSlot(memories[i], story[Len(memories) + 1])
    /\ memories' = Append([memories EXCEPT ![i] = [@ EXCEPT
                               !.status = "superseded", !.supersededAt = Today,
                               !.supersededBy = story[Len(memories) + 1].id]],
                          New(story[Len(memories) + 1]))
    /\ built' = NotBuilt
    /\ UNCHANGED <<config, story, cache>>

Forget(i) ==
    /\ memories[i].status = "active"
    /\ Len(WithStatus("forgotten")) < MaxForgotten
    /\ memories' = [memories EXCEPT ![i].status = "forgotten"]
    /\ built' = NotBuilt
    /\ UNCHANGED <<config, story, cache>>

Init ==
    /\ config \in Configs /\ story \in Stories
    /\ memories = <<>> /\ cache = <<>> /\ built = NotBuilt

Next ==
    \/ \E q \in Queries : \/ BuildByKeyword(q) \/ BuildLexically(q) \/ BuildUnavailable(q)
                          \/ BuildHalfway(q) \/ BuildSemantically(q)
    \/ Remember
    \/ \E i \in DOMAIN memories : Supersede(i) \/ Forget(i)

Spec == Init /\ [][Next]_vars

-----------------------------------------------------------------------------
Occurrences(seq, x) == Cardinality({i \in DOMAIN seq : seq[i] = x})
HasContext == built.query \notin {None, "raised"}
EntryOf(id) == CHOOSE e \in ToSet(memories) : e.id = id
QueryOf(id) == CHOOSE q \in Queries : q.id = id

(* Every memory offered to a strategy is accounted for exactly once: one   *)
(* record, without a reason exactly when the memory is in the context, and *)
(* no more than k of those.                                                *)
EveryMemoryExplained ==
    HasContext =>
        /\ Len(built.selected) <= config.k
        /\ \A i \in DOMAIN built.offered :
              LET mine == {r \in DOMAIN built.records : built.records[r].id = built.offered[i]}
              IN  /\ Cardinality(mine) = 1
                  /\ \A r \in mine : built.records[r].reason = None
                                      <=> built.offered[i] \in ToSet(built.selected)

(* What is selected reaches the model exactly once, as a line of its own   *)
(* or inside a summary: a memory is neither lost nor said twice when a     *)
(* group is summarised, or its summary is found not to save space.         *)
SelectedIsSaidOnce ==
    HasContext =>
        \A id \in ToSet(built.selected) :
            Cardinality({i \in DOMAIN built.lines : built.lines[i].id = id})
              + Cardinality({s \in built.summaries : id \in ToSet(s)}) = 1

(* "Unresolved active conflicts are warned about", in the words of         *)
(* context/selection.py: under coverage selection, when a ranked memory    *)
(* contradicts a selected one, whichever of them was kept out, the result  *)
(* says so.                                                                *)
Reached(r) == r.reason \in {None, "not_top_k", "conflict_contained", "non_positive_utility",
                            "not_selected_by_coverage"}
Contradicts(e, f) ==
    /\ SameSlot(e, f) /\ e.identity.value # f.identity.value
    /\ ~ e.identity.multi /\ ~ f.identity.multi
ConflictNeverConcealed ==
    HasContext /\ config.strategy = "hybrid" /\ config.coverage
        /\ Intent(QueryOf(built.query)) = "current" =>
        \A r \in ToSet(built.records), id \in ToSet(built.selected) :
            Reached(r) /\ Contradicts(EntryOf(r.id), EntryOf(id)) => built.warnings > 0

(* The score of a memory is that of its own embedding, though the vector   *)
(* may have been in the cache since another memory, or another wording of  *)
(* its identity, put it there.                                             *)
ScoresAreFresh ==
    HasContext =>
        \A i \in DOMAIN built.scores :
            built.scores[i].score
                = Max({0, QueryOf(built.query).cosine[EntryOf(built.scores[i].id).embeds]})

(* "Forgotten/superseded memories can never be compressed in": README.md,   *)
(* of the summaries a context is compressed into.                          *)
OnlyActiveCompressed ==
    HasContext =>
        \A s \in built.summaries : \A id \in ToSet(s) : EntryOf(id).status = "active"

(* A context leaves in the cache what was used last: nothing it used is    *)
(* gone while something used longer ago is still there.                    *)
LastUse(key, uses) ==
    LET all == [i \in DOMAIN cache |-> cache[i].key] \o uses
    IN  Max({0} \cup {i \in DOMAIN all : all[i] = key})
CacheKeepsTheRecent ==
    [][HasContext' =>
        \A old \in Keys(cache'), key \in Keys(cache) \cup ToSet(built'.uses) :
            key \notin Keys(cache') => LastUse(key, built'.uses) < LastUse(old, built'.uses)]_vars
=============================================================================
