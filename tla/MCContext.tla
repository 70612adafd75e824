----------------------------- MODULE MCContext -----------------------------
(* What is remembered of a phone, of seats and of homes, and what is asked *)
(* of it.  Tokens, phrases, identities, lengths and cosines (of the        *)
(* deterministic embedding provider, in thousandths) are those of the      *)
(* texts in the comments.                                                  *)
EXTENDS ContextBuilder

Identity(attribute, value, multi, attributeTokens, valueTokens) ==
    [subject |-> "user", attribute |-> attribute, value |-> value, scope |-> "global",
     multi |-> multi, confidence |-> 100, attributeTokens |-> attributeTokens,
     valueTokens |-> valueTokens, scopeTokens |-> {}]

Entry(id, kind, chars, clause, sentence, tokens, phrases, entities) ==
    [id |-> id, kind |-> kind, chars |-> chars, clause |-> clause, sentence |-> sentence,
     text |-> id, embeds |-> id, tokens |-> tokens, words |-> tokens, phrases |-> phrases,
     entities |-> entities, identity |-> Identity(None, "", FALSE, {}, {}), tags |-> {},
     travel |-> FALSE, session |-> "", time |-> NoTime, source |-> "", provisional |-> FALSE,
     status |-> "active", created |-> 0, supersededBy |-> None, supersededAt |-> NoDate]

Fact(id, chars, clause, tokens, phrases, entities) ==
    Entry(id, "fact", chars, clause, chars + 11, tokens, phrases, entities)
Residence(id, chars, clause, tokens, phrases, entities) ==
    Entry(id, "fact", chars, clause, chars + 9, tokens, phrases, entities)
Preference(id, chars, clause, tokens, phrases, entities) ==
    Entry(id, "preference", chars, clause, 0, tokens, phrases, entities)
Instruction(id, chars, clause, tokens, phrases, entities) ==
    Entry(id, "instruction", chars, clause, 0, tokens, phrases, entities)

(* Phone is a Pixel 6. *)
pixelNote == Fact("pixelNote", 19, 18, {"6", "phone", "pixel"}, {"pixel 6"}, {"phone", "pixel 6"})
(* Phone is a Pixel 6. *)
pixel6 == [Fact("pixel6", 19, 18, {"6", "phone", "pixel"}, {"pixel 6"}, {"phone", "pixel 6"}) EXCEPT
    !.identity = Identity("current_phone", "pixel 6", FALSE, {"current", "phone"}, {"6", "pixel"}),
    !.session = "march",
    !.time = [NoTime EXCEPT !.scope = "current", !.from = <<2022>>, !.observed = <<2023, 3, 1>>],
    !.source = "user_asserted",
    !.text = "pixelNote"]
(* Phone is a Pixel 9. *)
pixel9 == [Fact("pixel9", 19, 18, {"9", "phone", "pixel"}, {"pixel 9"}, {"phone", "pixel 9"}) EXCEPT
    !.identity = Identity("current_phone", "pixel 9", FALSE, {"current", "phone"}, {"9", "pixel"}),
    !.session = "june",
    !.time = [NoTime EXCEPT !.scope = "current", !.from = <<2024, 5>>, !.observed = <<2024, 6, 1>>],
    !.source = "user_asserted"]
(* Order a screen protector for every new phone. *)
case == [Instruction("case", 45, 44, {"every", "new", "order", "phone", "protector", "screen"}, {}, {"order"}) EXCEPT
    !.session = "june"]
(* Prefers aisle seats. *)
aisle == [Preference("aisle", 20, 18, {"aisle", "prefer", "seat"}, {}, {"prefer"}) EXCEPT
    !.identity = Identity("preferred_seat", "aisle", FALSE, {"preferred", "seat"}, {"aisle"}),
    !.tags = {"flight", "seat", "travel"},
    !.travel = TRUE,
    !.session = "march"]
(* Prefers window seats. *)
window == [Preference("window", 21, 19, {"prefer", "seat", "window"}, {}, {"prefer"}) EXCEPT
    !.identity = Identity("preferred_seat", "window", FALSE, {"preferred", "seat"}, {"window"}),
    !.tags = {"flight", "seat", "travel"},
    !.travel = TRUE,
    !.session = "june"]
(* Prefers afternoon flights. *)
flights == [Preference("flights", 26, 24, {"afternoon", "flight", "prefer"}, {}, {"prefer"}) EXCEPT
    !.tags = {"flight", "timing", "travel"},
    !.travel = TRUE,
    !.session = "june"]
(* Confirm the hotel before booking flights. *)
hotel == [Instruction("hotel", 41, 40, {"before", "booking", "confirm", "flight", "hotel"}, {}, {"confirm"}) EXCEPT
    !.tags = {"flight", "hotel", "travel"},
    !.travel = TRUE,
    !.session = "march"]
(* Lives in Berlin. *)
berlin == [Residence("berlin", 16, 15, {"berlin", "live"}, {}, {"berlin", "live"}) EXCEPT
    !.identity = Identity("residence", "berlin", FALSE, {"residence"}, {"berlin"}),
    !.tags = {"location"},
    !.session = "march",
    !.time = [NoTime EXCEPT !.scope = "historical", !.until = <<2023, 5>>, !.observed = <<2023, 6, 1>>],
    !.source = "user_asserted"]
(* Lives in Lisbon. *)
lisbon == [Residence("lisbon", 16, 15, {"lisbon", "live"}, {}, {"lisbon", "live"}) EXCEPT
    !.identity = Identity("residence", "lisbon", FALSE, {"residence"}, {"lisbon"}),
    !.tags = {"location"},
    !.session = "march",
    !.time = [NoTime EXCEPT !.scope = "current", !.from = <<2024, 1>>, !.observed = <<2024, 1, 5>>, !.vague = TRUE],
    !.source = "assistant_derived",
    !.provisional = TRUE]
(* Lives in Madrid. *)
madrid == [Residence("madrid", 16, 15, {"live", "madrid"}, {}, {"live", "madrid"}) EXCEPT
    !.identity = Identity("residence", "madrid", FALSE, {"residence"}, {"madrid"}),
    !.tags = {"location"},
    !.session = "june",
    !.time = [NoTime EXCEPT !.scope = "future", !.from = <<2025, 1>>, !.observed = <<2024, 6, 1>>],
    !.source = "user_asserted"]
(* Speaks Spanish. *)
spanish == [Fact("spanish", 15, 14, {"spanish", "speak"}, {"speak spanish"}, {"speak spanish"}) EXCEPT
    !.identity = Identity("speaks_language", "spanish", TRUE, {"language", "speak"}, {"spanish"}),
    !.session = "march"]
(* Speaks French. *)
french == [Fact("french", 14, 13, {"french", "speak"}, {"speak french"}, {"speak french"}) EXCEPT
    !.identity = Identity("speaks_language", "french", TRUE, {"language", "speak"}, {"french"}),
    !.session = "june"]

Texts == {"pixelNote", "pixel6", "pixel9", "case", "aisle", "window", "flights", "hotel",
          "berlin", "lisbon", "madrid", "spanish", "french"}

Query(id, tokens, phrases, entities, words, tags, cues, reference, cosine) ==
    [id |-> id, tokens |-> tokens, names |-> phrases \cup entities, entities |-> entities,
     words |-> words, tags |-> tags, cues |-> cues, reference |-> reference,
     cosine |-> cosine @@ [t \in Texts |-> 0]]

(* Is my phone a Pixel 6? *)
phoneQuery == Query("phone", {"6", "phone", "pixel"}, {"pixel 6"}, {"pixel 6"},
    {"6", "phone", "pixel"}, {}, {}, <<>>,
    "pixelNote" :> 918 @@ "pixel6" :> 845 @@ "pixel9" :> 652 @@ "case" :> 320)
(* What was my old phone before? *)
oldPhoneQuery == Query("oldPhone", {"before", "old", "phone"}, {}, {},
    {"before", "old", "phone", "was", "what"}, {}, {"historical"}, <<>>,
    "pixelNote" :> 200 @@ "pixel6" :> 226 @@ "pixel9" :> 226 @@ "case" :> 121 @@ "flights" :> 12 @@ "hotel" :> 180 @@ "madrid" :> 66)
(* Plan my hotel and flights, and book a seat. *)
tripQuery == Query("trip", {"book", "flight", "hotel", "plan", "seat"}, {}, {"plan"},
    {"book", "flight", "hotel", "plan", "seat"}, {"flight", "hotel", "planning", "seat", "travel"}, {"several"}, <<>>,
    "pixelNote" :> 125 @@ "pixel6" :> 71 @@ "pixel9" :> 71 @@ "case" :> 102 @@ "aisle" :> 112 @@ "window" :> 110 @@ "flights" :> 189 @@ "hotel" :> 387 @@ "spanish" :> 5 @@ "french" :> 5)
(* What was my preferred seat on flights before? *)
seatBeforeQuery == Query("seatBefore", {"before", "flight", "preferred", "seat"}, {}, {},
    {"before", "flight", "preferred", "seat", "was", "what"}, {"flight", "seat", "travel"}, {"historical"}, <<>>,
    "pixel6" :> 5 @@ "pixel9" :> 5 @@ "case" :> -48 @@ "aisle" :> 297 @@ "window" :> 281 @@ "flights" :> 265 @@ "hotel" :> 310 @@ "madrid" :> 56)
(* Do I live in Lisbon, and which languages do I speak? *)
homeQuery == Query("home", {"language", "lisbon", "live", "speak"}, {"do i"}, {"do i", "lisbon"},
    {"do", "language", "lisbon", "live", "speak", "which"}, {"location"}, {"several"}, <<>>,
    "pixelNote" :> -27 @@ "pixel6" :> -30 @@ "pixel9" :> -30 @@ "case" :> -21 @@ "aisle" :> -19 @@ "window" :> -19 @@ "flights" :> -15 @@ "hotel" :> 6 @@ "berlin" :> 95 @@ "lisbon" :> 307 @@ "madrid" :> 95 @@ "spanish" :> 91 @@ "french" :> 55)
(* What city did I live in during 2023? *)
home2023Query == Query("home2023", {"2023", "city", "during", "live"}, {"during 2023"}, {},
    {"2023", "city", "did", "during", "live", "what"}, {"location"}, {"historical"}, <<2023>>,
    "case" :> -28 @@ "flights" :> 11 @@ "hotel" :> 24 @@ "berlin" :> 130 @@ "lisbon" :> 130 @@ "madrid" :> 188 @@ "spanish" :> 50)
(* How has my home city changed over time? *)
homesQuery == Query("homes", {"changed", "city", "home", "over", "time"}, {}, {},
    {"changed", "city", "has", "home", "how", "over", "time"}, {}, {"timeline"}, <<>>,
    "case" :> 7 @@ "hotel" :> 23 @@ "spanish" :> 6 @@ "french" :> 6)

MCStories == {<<pixelNote, pixel6, pixel9, case>>,
              <<aisle, hotel, window, flights>>,
              <<lisbon, spanish, french, madrid>>,
              <<berlin, lisbon, madrid, spanish>>}
MCQueries == {phoneQuery, oldPhoneQuery, tripQuery, seatBeforeQuery, homeQuery, home2023Query, homesQuery}

(* ln((n + 1) / (df + 1/2)), in thousandths. *)
MCLogRatio == [n \in 0 .. 5 |-> [df \in 1 .. 5 |->
    <<<<-405, -916, -1253, -1504, -1705>>,
      <<288, -223, -560, -811, -1012>>,
      <<693, 182, -154, -405, -606>>,
      <<981, 470, 134, -118, -318>>,
      <<1204, 693, 357, 105, -95>>,
      <<1386, 875, 539, 288, 87>>>>[n + 1][df]]]

Keyword == [strategy |-> "keyword", mode |-> "disabled", profile |-> "", coverage |-> FALSE,
            temporal |-> FALSE, compress |-> FALSE, strict |-> FALSE, limit |-> 0, k |-> 3,
            now |-> NoDate]
Hybrid  == [Keyword EXCEPT !.strategy = "hybrid"]
MCConfigs == {
    [Keyword EXCEPT !.compress = TRUE],
    [Hybrid EXCEPT !.temporal = TRUE, !.compress = TRUE, !.now = <<2024, 6, 1>>],
    [Hybrid EXCEPT !.temporal = TRUE, !.coverage = TRUE, !.k = 2],
    [Hybrid EXCEPT !.coverage = TRUE, !.compress = TRUE],
    [Hybrid EXCEPT !.mode = "semantic_only", !.limit = 1, !.k = 2],
    [Hybrid EXCEPT !.mode = "score_only", !.coverage = TRUE, !.strict = TRUE],
    [Hybrid EXCEPT !.mode = "fused", !.profile = "full_fusion", !.temporal = TRUE,
                   !.coverage = TRUE, !.limit = 3, !.k = 1],
    [Hybrid EXCEPT !.mode = "fused", !.profile = "embedding_only", !.coverage = TRUE, !.k = 2],
    [Hybrid EXCEPT !.mode = "fused", !.profile = "lexical_reference"],
    [Hybrid EXCEPT !.mode = "fused", !.profile = "structured_semantic"]}

MCToday == <<2024, 6, 1>>

MCPrefixed == {<<"prefer", "preferred">>, <<"preferred", "prefer">>}
=============================================================================
