--------------------------- MODULE MemoryIdentity ---------------------------
(***************************************************************************)
(* How ExperienceOS decides that two statements are about the same thing   *)
(* (memory/identity.py): a bounded lexicon projects a text to an identity, *)
(* an ordered comparison relates two identities, and a set-level           *)
(* resolution relates a proposal to the memories that are active.          *)
(*                                                                         *)
(* A text, of a statement or of a memory, is a value of Contents.  What    *)
(* the regular expressions find in it is the constant Reading: the         *)
(* comparison form, the kind, the markers, the surface forms found for     *)
(* each attribute of the lexicon, the scope phrase and so on.  Everything  *)
(* decided from those findings is modelled.                                *)
(***************************************************************************)
EXTENDS MemoryActions, Checks

CONSTANT Reading   \* what the patterns find in each text

Unknown  == "unknown"    \* the projection could not establish the field
Unscoped == "general"    \* the statement names no scope

(* The readings of _temporal, strongest first, and the relation each forces. *)
NonDurable == <<"question", "hypothetical", "temporary", "historical">>
NonDurableRelation ==
    [question |-> "question", hypothetical |-> "hypothetical",
     temporary |-> "temporary_exception", historical |-> "historical"]
NonDurableRelations == {NonDurableRelation[m] : m \in DOMAIN NonDurableRelation}

Relations ==
    NonDurableRelations \cup
    {"exact_duplicate", "semantic_duplicate", "scoped_coexistence",
     "current_state_conflict", "unrelated", "ambiguous"}

DuplicateRelations == {"exact_duplicate", "semantic_duplicate"}

(* _ATTRIBUTES: subject, attribute, value domain, closed vocabulary. *)
Attributes == <<
    <<"travel", "seat", "seat", {"aisle", "window", "middle"}>>,
    <<"travel", "home_airport", "airport", {}>>,
    <<"travel", "work_flight_airport", "airport", {}>>,
    <<"travel", "ground_transport", "ground_transport", {"rental car", "public transit"}>>,
    <<"travel", "flight_time", "flight_time", {"morning", "afternoon", "evening", "red-eye"}>>,
    <<"food", "morning_drink", "drink", {"coffee", "tea"}>>,
    <<"food", "team_lunch_style", "cuisine", {"vegetarian"}>>,
    <<"work", "base_office", "office", {}>>,
    <<"work", "daily_status_channel", "channel", {}>>,
    <<"study", "time_of_day", "time_of_day", {"morning", "afternoon", "evening", "night"}>>,
    <<"devices", "phone_model", "phone_model", {}>>,
    <<"family", "soccer_practice_day", "weekday", {}>>,
    <<"dev", "editor_theme", "theme", {"dark", "light"}>>,
    <<"food", "allergy", "allergen", {}>>,
    <<"food", "dislike", "food_item", {}>>,
    <<"food", "pizza_friday", "food_item", {}>> >>

(* _VALUE_SYNONYMS: inside one domain, a surface form and its value. *)
Synonyms == {
    <<"seat", "aisle seat", "aisle">>, <<"seat", "aisle seats", "aisle">>,
    <<"seat", "window seat", "window">>, <<"seat", "window seats", "window">>,
    <<"seat", "middle seat", "middle">>, <<"seat", "middle seats", "middle">>,
    <<"ground_transport", "rental cars", "rental car">>,
    <<"ground_transport", "car rental", "rental car">>,
    <<"ground_transport", "car rentals", "rental car">>,
    <<"ground_transport", "public transportation", "public transit">>,
    <<"cuisine", "vegetarian restaurants", "vegetarian">>,
    <<"cuisine", "vegetarian places", "vegetarian">>}

Renamed(name, names) == IF names = {} THEN name ELSE CHOOSE n \in names : TRUE

CanonicalValue(domain, form) ==
    Renamed(form, {s[3] : s \in {x \in Synonyms : x[1] = domain /\ x[2] = form}})

(* _SCOPE_ALIASES, a phrase outside the table names itself; _SCOPE_PARENTS. *)
ScopeAliases == {
    <<"short work trips", "short_work_trip">>,
    <<"short business trips", "short_work_trip">>,
    <<"short domestic flights", "short_domestic">>,
    <<"short domestic trips", "short_domestic">>,
    <<"long international flights", "long_international">>,
    <<"long international trips", "long_international">>,
    <<"weekend personal trips", "weekend_personal">>,
    <<"personal trips", "personal">>,
    <<"work flights", "work">>,
    <<"work trips", "work_trip">>,
    <<"business trips", "work_trip">>}

ScopeParents == {
    <<"short_work_trip", "work_trip">>, <<"weekend_personal", "personal">>,
    <<"short_domestic", "domestic">>, <<"long_international", "international">>}

CanonicalScope(phrase) == Renamed(phrase, {a[2] : a \in {x \in ScopeAliases : x[1] = phrase}})

-----------------------------------------------------------------------------
(***************************************************************************)
(* IdentityProjector.project_text.  finds is a function from the           *)
(* attributes whose context and value pattern match (after "instead of"    *)
(* and the lead-in are stripped, in the clause after "used to ... now" when *)
(* there is one) to the surface forms found; elliptic is the bare value of *)
(* "make it window"; past is the value of the clause before "now".         *)
(***************************************************************************)
Compound(r) == r.compound /\ "question" \notin r.marks

Marks(r) == IF Compound(r) THEN r.marks \ {"historical"} ELSE r.marks

Temporal(marks) ==
    FirstCode([k \in DOMAIN NonDurable |-> <<NonDurable[k], NonDurable[k] \in marks>>],
              "current")

Durable(id) == id.temporal = "current"

(* _surface_forms: the longest form that occurs is the value.  Forms of one  *)
(* length come in the order of a set; the instances have no such pair.       *)
Longest(forms) == CHOOSE f \in forms : \A g \in forms : Len(g) <= Len(f)

(* _match_attribute and _elliptical: the first entry of the table that fits. *)
NamedSlot(entry, form) ==
    [subject |-> entry[1], attribute |-> entry[2], domain |-> entry[3],
     form |-> form, value |-> CanonicalValue(entry[3], form)]

BareSlot(domain, form) ==
    [subject |-> Unknown, attribute |-> Unknown, domain |-> domain, form |-> form, value |-> form]

Elliptic(bare, elliptic) ==
    IF elliptic = None THEN BareSlot(Unknown, Unknown)
    ELSE BareSlot(IF bare = {} THEN "airport" ELSE Attributes[Min(bare)][3], elliptic)

Named(entry, finds) == NamedSlot(entry, Longest(finds[entry[2]]))

Slot(named, bare, finds, elliptic) ==
    IF named = {} THEN Elliptic(bare, elliptic) ELSE Named(Attributes[Min(named)], finds)

Placed(r, slot) ==
    [surface |-> r.surface, kind |-> r.kind, scoped |-> r.scope # None,
     scope |-> IF r.scope = None THEN Unscoped ELSE CanonicalScope(r.scope),
     temporal |-> Temporal(Marks(r)), was |-> IF Compound(r) THEN r.past ELSE Unknown,
     subject |-> slot.subject, attribute |-> slot.attribute, domain |-> slot.domain,
     form |-> slot.form, value |-> slot.value]

Project(r) ==
    Placed(r, Slot({k \in DOMAIN Attributes : Attributes[k][2] \in DOMAIN r.finds},
                   {k \in DOMAIN Attributes : r.elliptic \in Attributes[k][4]},
                   r.finds, r.elliptic))

(* project_text is a function of the text alone. *)
Identity == [t \in Contents |-> Project(Reading[t])]

-----------------------------------------------------------------------------
(* IdentityComparer.compare, in the order of the code. *)
KindsCompatible(a, b) ==
    a.kind = b.kind \/ {a.kind, b.kind} = {"instruction", "preference"}

Differ(x, y) == x # Unknown /\ y # Unknown /\ x # y

(* Mutant: what a statement is limited to is not compared. *)
ScopeIgnored(old, new) == "compatible"

ScopeRelation(old, new) ==
    IF old.scoped # new.scoped THEN "unknown"
    ELSE IF old.scope = new.scope
         THEN IF old.scoped THEN "equal" ELSE "compatible"
    ELSE IF {<<old.scope, new.scope>>, <<new.scope, old.scope>>} \cap ScopeParents # {}
         THEN "overlapping"
    ELSE "disjoint"

ByValue(old, new) ==
    IF old.value = new.value THEN "semantic_duplicate" ELSE "current_state_conflict"

SameDomain(old, new) == new.domain # Unknown /\ new.domain = old.domain

Comparisons(old, new) ==
    LET scope == ScopeRelation(old, new)
    IN  <<<<"exact_duplicate", old.surface = new.surface /\ KindsCompatible(old, new)>>,
          <<IF Durable(new) THEN None ELSE NonDurableRelation[new.temporal], ~ Durable(new)>>,
          <<"unrelated", ~ KindsCompatible(old, new)>>,
          <<"unrelated", Differ(old.subject, new.subject)
                           \/ Differ(old.attribute, new.attribute)>>,
          <<"ambiguous", new.value = Unknown>>,
          <<ByValue(old, new), new.attribute = Unknown /\ SameDomain(old, new)>>,
          <<"ambiguous", Unknown \in {new.attribute, old.attribute}>>,
          <<"scoped_coexistence", scope = "disjoint">>,
          <<"ambiguous", scope = "overlapping">>>>

Compare(old, new) == FirstCode(Comparisons(old, new), ByValue(old, new))

Relation ==
    [old \in Contents |-> [new \in Contents |-> Compare(Identity[old], Identity[new])]]

(***************************************************************************)
(* resolve_identity: found relates the statement to each active memory, by *)
(* identifier, and identifiers are in store order.  A statement that is    *)
(* not durable relates to nothing, two candidates for one conflict are no  *)
(* candidate, and otherwise the strongest relation wins and names its      *)
(* first bearer.                                                           *)
(***************************************************************************)
Precedence == <<"exact_duplicate", "semantic_duplicate", "current_state_conflict",
                "scoped_coexistence", "ambiguous", "unrelated">>
Targetable == DuplicateRelations \cup {"current_state_conflict"}

Resolved(rel, m) == [relation |-> rel, target |-> m]

Bearers(found, rels) == {m \in DOMAIN found : found[m] \in rels}

SeveralConflicts(found) ==
    \E m, n \in Bearers(found, {"current_state_conflict"}) : m # n

Strongest(found) ==
    Precedence[Min({k \in DOMAIN Precedence : Bearers(found, {Precedence[k]}) # {}})]

Bearing(found, rel) ==
    Resolved(rel, IF rel \in Targetable THEN Min(Bearers(found, {rel})) ELSE None)

Best(found) ==
    LET fleeting == Bearers(found, NonDurableRelations)
    IN  IF fleeting # {} THEN Resolved(found[Min(fleeting)], None)
        ELSE IF DOMAIN found = {} THEN Resolved("unrelated", None)
        ELSE IF SeveralConflicts(found) THEN Resolved("ambiguous", None)
        ELSE Bearing(found, Strongest(found))

RelationsTo(new, texts) == [m \in DOMAIN texts |-> Relation[texts[m]][new]]
Resolve(new, texts)     == Best(RelationsTo(new, texts))
=============================================================================
