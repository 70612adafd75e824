------------------------------ MODULE Retrieval ------------------------------
(***************************************************************************)
(* HybridRetrievalStrategy.retrieve up to its ranking                      *)
(* (context/retrieval.py, context/semantic.py, context/fusion.py): which   *)
(* memories of the pool a query admits, what each is worth to it, and in   *)
(* which order.  Weights, scores and cosines are thousandths, confidence   *)
(* hundredths.                                                             *)
(*                                                                         *)
(* A query is [tokens, names, cues, tags, reference, cosine]: its content  *)
(* tokens, its phrases and entities, and the cosine of its embedding with  *)
(* that of each text.  An entry is a stored memory:                        *)
(*    [id, status, kind, chars, created, session, tokens, phrases,         *)
(*     entities, identity, tags, embeds, time, source, ...]                *)
(* where embeds is memory_embedding_text, the text and the identity fields *)
(* as they are embedded, and identity is [subject, attribute, value,       *)
(* scope, multi, confidence, attributeTokens, valueTokens, scopeTokens],   *)
(* with attribute None when the memory has none.                           *)
(***************************************************************************)
EXTENDS TemporalValidity, Tokens, EmbeddingCache

CONSTANT LogRatio   \* LogRatio[n][df] is ln((n + 1) / (df + 1/2))

(* SCORING_WEIGHTS, DEFAULT_SEMANTIC_FLOOR and _KIND_PRIORITY *)
ScoringWeights == [phrase |-> 1500, entity |-> 2000, attribute |-> 1200, value |-> 1500,
                   scope |-> 800, domain |-> 600, kind |-> 150]
SemanticFloor  == 300
KindPriority   == [instruction |-> 2, fact |-> 1, preference |-> 0]

(* FUSION_PROFILES, in hundredths. *)
Profile(structured, lexical, semantic, temporal) ==
    [structured |-> structured, lexical |-> lexical, semantic |-> semantic, temporal |-> temporal]
FusionProfiles == [
    lexical_semantic    |-> Profile(0, 55, 45, 0),
    structured_semantic |-> Profile(55, 0, 45, 0),
    full_fusion         |-> Profile(25, 35, 30, 10)]

Count(P) == IF P THEN 1 ELSE 0

(* A loop over s that collects the members of S.                           *)
Those(s, S) ==
    LET those[n \in 0 .. Len(s)] ==
            IF n = 0 THEN <<>>
            ELSE IF s[n] \in S THEN Append(those[n - 1], s[n]) ELSE those[n - 1]
    IN  those[Len(s)]

-----------------------------------------------------------------------------
(* _score: a memory against a query.                                       *)
(* A token is matched when it is one of the expanded query's, or has a     *)
(* prefix in common with one of those the memory does not hold.            *)
Matched(e, expanded) ==
    {t \in e.tokens : t \in expanded \/ AnyMatch(expanded \ e.tokens, {t})}

DocFrequency(token, admitted) == Cardinality({e \in admitted : token \in e.tokens})

Lexical(matched, admitted, ratio) ==
    MapThenSumSet(LAMBDA t : ratio[DocFrequency(t, admitted)], matched)

Structured(e, q, expanded) ==
      ScoringWeights.phrase * Cardinality(e.phrases \cap q.names)
    + ScoringWeights.entity * Cardinality(e.entities \cap q.entities)
    + ScoringWeights.attribute * Count(e.identity.attributeTokens \cap expanded # {})
    + ScoringWeights.value * Count(e.identity.valueTokens # {}
                                   /\ e.identity.valueTokens \subseteq q.tokens)
    + (ScoringWeights.value \div 2) * Count(e.identity.valueTokens \cap q.tokens # {})
    + ScoringWeights.scope * Count(e.identity.scopeTokens \cap q.tokens # {})
    + ScoringWeights.domain * Cardinality(e.tags \cap q.tags)

(* Kind and confidence refine what is relevant; they make nothing so. *)
Refined(e, relevance) ==
    relevance + ScoringWeights.kind * KindPriority[e.kind] + e.identity.confidence

(* What of a memory a query matched; the semantic path looks at none of it. *)
Evidence(e, q, matched) ==
    [tokens |-> e.tokens, matched |-> matched,
     names |-> (e.phrases \cap q.names) \cup (e.entities \cap q.entities),
     direct |-> Cardinality(e.phrases \cap q.names) + Cardinality(e.entities \cap q.entities),
     domains |-> e.tags \cap q.tags]
NoEvidence == [tokens |-> {}, matched |-> {}, names |-> {}, direct |-> 0, domains |-> {}]

(* A RetrievalCandidate: reason is None while nothing has excluded it. *)
Candidate(e, evidence, score, reason) ==
    [entry |-> e, evidence |-> evidence, score |-> score, reason |-> reason]

LexicalCandidate(e, evidence, relevance, bonus) ==
    IF relevance = 0 THEN Candidate(e, evidence, 0, "zero_relevance")
    ELSE Candidate(e, evidence, Refined(e, relevance) + bonus, None)

-----------------------------------------------------------------------------
(* SemanticCandidateGenerator.score_memories: the vectors of the admitted  *)
(* entries come from the cache, the ones it lacks from the provider in one *)
(* call.  A vector is the text it is the embedding of.                     *)
(* Mutant: the digest is taken of the text of the memory alone. *)
DigestOfText(e) == e.text
Digest(e)       == e.embeds
Digests(s)      == [i \in DOMAIN s |-> Digest(s[i])]

Hits(admitted, cache) ==
    Those(admitted, {e \in ToSet(admitted) : Digest(e) \in Keys(cache)})
Pending(admitted, cache) ==
    Those(admitted, {e \in ToSet(admitted) : Digest(e) \notin Keys(cache)})

AfterHits(hits, cache) ==
    LET after[n \in 0 .. Len(hits)] ==
            IF n = 0 THEN cache ELSE Get(after[n - 1], Digest(hits[n]))
    IN  after[Len(hits)]

Stored(e) == [key |-> Digest(e), vector |-> e.embeds]
AfterPuts(pending, cache) ==
    LET after[n \in 0 .. Len(pending)] ==
            IF n = 0 THEN cache ELSE Put(after[n - 1], Stored(pending[n]))
    IN  after[Len(pending)]

VectorOf(e, cache) ==
    IF Digest(e) \in Keys(cache) THEN Lookup(cache, Digest(e)).vector ELSE e.embeds

(* max(0, cosine); the floor is exclusive. *)
Semantic(e, q, cache) == Max({0, q.cosine[VectorOf(e, cache)]})

SemanticCandidate(e, score) ==
    Candidate(e, NoEvidence, score, IF score > SemanticFloor THEN None ELSE "below_semantic_floor")

(* fuse_components, bounded_ratio-1: what is above no bound is squeezed    *)
(* under one, and the profile weighs the parts.                            *)
Squeezed(x, half) == (1000 * x) \div (x + half)

Fused(profile, lexical, structured, semantic, bonus) ==
    ( profile.lexical * Squeezed(lexical, 3000) + profile.structured * Squeezed(structured, 2000)
      + profile.semantic * semantic + profile.temporal * Min({bonus, 1000}) ) \div 100

(* A memory enters by lexical evidence or by a score above the floor. *)
FusedCandidate(e, evidence, lexical, structured, semantic, bonus, profile) ==
    IF lexical + structured > 0 \/ semantic > SemanticFloor
    THEN Candidate(e, evidence, Fused(profile, lexical, structured, semantic, bonus), None)
    ELSE Candidate(e, evidence, 0, "no_fused_evidence")

-----------------------------------------------------------------------------
(* Steps 2 and 3 of retrieve: the path the configuration and the outcome   *)
(* of the embedding provider choose.                                       *)
SemanticPath(config, embedded) ==
    /\ embedded
    /\ \/ config.mode = "semantic_only"
       \/ config.profile = "embedding_only"
FusedPath(config, embedded) ==
    embedded /\ config.mode = "fused" /\ config.profile \in DOMAIN FusionProfiles

(* The embedding provider is asked at all. *)
AsksProvider(config) ==
    config.mode # "disabled" /\ config.profile # "lexical_reference"

Considered(e, evidence, lexical, structured, semantic, bonus, config, embedded) == CASE
    SemanticPath(config, embedded) -> SemanticCandidate(e, semantic)
 [] FusedPath(config, embedded) ->
        FusedCandidate(e, evidence, lexical, structured, semantic, bonus,
                       FusionProfiles[config.profile])
 [] OTHER -> LexicalCandidate(e, evidence, lexical + structured, bonus)

(* Step 4: the ranking. *)
RankingKey(c) == <<c.score, c.evidence.direct, KindPriority[c.entry.kind],
                   c.entry.identity.confidence, c.entry.created>>

Ranking(scored) == Descending(scored, [c \in scored |-> RankingKey(c)])

(* What the candidate limit cuts off, never above the limit of selection. *)
Limit(config) == IF config.limit = 0 THEN 1000 ELSE Max({config.limit, config.k})

(* _conflict_pairs: slots the selected memories hold two values of. *)
SlotOf(e) == <<e.identity.subject, e.identity.attribute, e.identity.scope>>
Slotted(entries) == {e \in entries : e.identity.attribute # None /\ ~ e.identity.multi}
ConflictPairs(entries) ==
    Cardinality({s \in {SlotOf(e) : e \in Slotted(entries)} :
        Cardinality({e.identity.value : e \in {x \in Slotted(entries) : SlotOf(x) = s}}) > 1})
=============================================================================
