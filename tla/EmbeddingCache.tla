--------------------------- MODULE EmbeddingCache ---------------------------
(***************************************************************************)
(* embeddings/cache.py: at most MaxEntries vectors, the one used longest   *)
(* ago evicted first.  The cache is the sequence of its [key, vector]      *)
(* entries in that order.  A key is the text that was embedded (its        *)
(* digest); provider, model and dimensions are one generator's own.        *)
(***************************************************************************)
EXTENDS Integers, Sequences, SequencesExt

CONSTANT MaxEntries
ASSUME MaxEntriesAssumption == MaxEntries \in Nat \ {0}

Keys(cache)           == {cache[i].key : i \in DOMAIN cache}
Lookup(cache, key)    == cache[SelectInSeq(cache, LAMBDA c : c.key = key)]
Without(cache, key)   == RemoveFirstMatch(cache, LAMBDA c : c.key = key)
Newest(cache)         == SubSeq(cache, Len(cache) - MaxEntries + 1, Len(cache))

(* get, of a key the cache holds: its entry becomes the newest. *)
(* Mutant: reading an entry leaves it where it was. *)
GetInPlace(cache, key) == cache
Get(cache, key)        == Append(Without(cache, key), Lookup(cache, key))

(* put: the entry becomes the newest, and the oldest goes above the bound. *)
Put(cache, entry) ==
    LET grown == Append(Without(cache, entry.key), entry)
    IN  IF Len(grown) > MaxEntries THEN Newest(grown) ELSE grown
=============================================================================
