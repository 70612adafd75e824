-------------------------- MODULE TemporalValidity --------------------------
(***************************************************************************)
(* The retrieval side of memory/temporal.py: which point of time a query   *)
(* asks about, when a memory was valid, what is admitted for a query, and  *)
(* the bonus and the label a memory earns.                                 *)
(*                                                                         *)
(* A date is the sequence of its parts, <<2024>>, <<2024, 6>> or           *)
(* <<2024, 6, 1>>, and NoDate is none.  An entry carries the temporal      *)
(* metadata it was stored with (scope, from, until, event, observed,       *)
(* vague; all unknown when it has none), its provenance (source, "" when   *)
(* it has none, and provisional), supersededAt and supersededBy.           *)
(***************************************************************************)
EXTENDS Checks, Integers, FiniteSets

CONSTANT None

(* The order of tuples of numbers: the first difference decides, and a      *)
(* beginning comes before what it begins.  It is how a sort key compares,   *)
(* and how dates written year-month-day compare, whatever their precision.  *)
Precedes(s, t) ==
    \E i \in DOMAIN t : /\ i > Len(s) \/ s[i] < t[i]
                        /\ \A j \in 1 .. i - 1 : j <= Len(s) /\ s[j] = t[j]

(* The members of a set in descending order of keys no two of which are     *)
(* equal.                                                                   *)
Descending(S, key) ==
    [k \in 1 .. Cardinality(S) |->
        CHOOSE x \in S : Cardinality({y \in S : Precedes(key[x], key[y])}) = k - 1]

NoDate == <<>>
NoTime == [scope |-> "unknown", from |-> NoDate, until |-> NoDate, event |-> NoDate,
           observed |-> NoDate, vague |-> FALSE]

(* interpret_query_mode: the point of time a query asks about. *)
Mode(q) == FirstCode(<<
    <<"timeline", "timeline" \in q.cues>>,
    <<"as_of", q.reference # NoDate>>,
    <<"historical", "historical" \in q.cues>> >>, "current")

PastModes == {"timeline", "as_of", "historical"}

-----------------------------------------------------------------------------
(* resolve_validity, against the entries of the request. *)
FirstKnown(dates) == FirstCode([k \in DOMAIN dates |-> <<dates[k], dates[k] # NoDate>>], NoDate)

TimeOf(id, pool) ==
    IF \E e \in pool : e.id = id THEN (CHOOSE e \in pool : e.id = id).time ELSE NoTime

EndOf(new, day) == FirstKnown(<<new.from, new.event, new.observed, day>>)

ValidUntil(e, pool) ==
    IF e.status = "superseded" /\ e.time.until = NoDate
    THEN EndOf(TimeOf(e.supersededBy, pool), e.supersededAt)
    ELSE e.time.until

(* within_reference: what is compared of a bound is as long as the         *)
(* reference; an unknown bound excludes nothing.                           *)
Truncated(date, reference) == SubSeq(date, 1, Min({Len(date), Len(reference)}))

WithinReference(from, until, reference) ==
    /\ from = NoDate \/ ~ Precedes(reference, Truncated(from, reference))
    /\ until = NoDate \/ ~ Precedes(Truncated(until, reference), reference)

NotYetValid(time, now) ==
    /\ time.scope = "future"
    /\ time.from = NoDate \/ now = NoDate \/ Precedes(now, time.from)

-----------------------------------------------------------------------------
(* TemporalRetrievalPolicy.admit: why an entry is held back, or None. *)
Held(e, q, mode, now) == FirstCode(<<
    <<"inactive_forgotten", e.status = "forgotten">>,
    <<"inactive_superseded", e.status = "superseded" /\ mode \notin PastModes>>,
    <<None, e.status = "superseded">>,
    <<"not_yet_valid", mode = "current" /\ NotYetValid(e.time, now)>>,
    <<"historical_only", mode = "current" /\ e.time.scope = "historical">>,
    <<"outside_as_of_interval",
      mode = "as_of" /\ ~ WithinReference(e.time.from, e.time.until, q.reference)>> >>, None)

(* TemporalRetrievalPolicy.score: the bonus of an entry, in thousandths. *)
FitsMode(e, q, mode, pool) == CASE
    mode = "current" -> e.status = "active" /\ ValidUntil(e, pool) = NoDate
 [] mode = "as_of" -> WithinReference(e.time.from, ValidUntil(e, pool), q.reference)
 [] OTHER -> e.status = "superseded" \/ e.time.scope = "historical"

TrustOrder == [tool_verified |-> 5, user_asserted |-> 4, jointly_confirmed |-> 3,
               system_observed |-> 2, assistant_derived |-> 1]
Trust(e)   == IF e.source = "" THEN 0 ELSE TrustOrder[e.source]

Bonus(e, q, mode, pool) ==
    50 * Trust(e) + (IF ~ FitsMode(e, q, mode, pool) THEN 0
                    ELSE IF mode = "current" THEN 400 ELSE 600)

(* TemporalRetrievalPolicy.annotate: the parts of the label of a line. *)
Era(e) == FirstCode(<<
    <<"historical, superseded", e.status = "superseded">>,
    <<"historical", e.time.scope = "historical">>,
    <<"future", e.time.scope = "future">>,
    <<"recurring", e.time.scope = "recurring">>,
    <<"current since", e.time.from # NoDate>>,
    <<"current", e.source # "" \/ e.time # NoTime>> >>, None)

Annotation(e) ==
    {p \in {e.source, Era(e),
            IF e.provisional THEN "provisional" ELSE "",
            IF e.time.vague THEN "approximate time" ELSE ""} : p # "" /\ p # None}
=============================================================================
