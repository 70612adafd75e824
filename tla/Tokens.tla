------------------------------- MODULE Tokens -------------------------------
(***************************************************************************)
(* The tokens of context/retrieval.py: how two of them match, and the      *)
(* alias classes that widen the ones of a query.  Prefixed holds the pairs *)
(* of distinct tokens of which one of five letters or more begins the      *)
(* other.                                                                  *)
(***************************************************************************)
EXTENDS Integers, FiniteSets

CONSTANT Prefixed

(* ALIAS_CLASSES, by canonical name. *)
AliasClasses == {
    <<"employer", {"employer", "work", "company", "employ", "job"}>>,
    <<"phone", {"phone", "mobile", "device", "handset", "use"}>>,
    <<"residence", {"residence", "live", "city", "home", "moved", "based"}>>,
    <<"seat", {"seat", "aisle", "window", "seating"}>>,
    <<"school", {"school", "attend", "goe", "studie"}>>,
    <<"language", {"language", "speak"}>>,
    <<"send", {"send", "route", "routing", "channel", "deliver"}>>,
    <<"weather", {"weather", "forecast", "temperature"}>>,
    <<"drink", {"drink", "coffee", "tea", "beverage"}>>,
    <<"food", {"food", "meal", "recipe", "snack", "eat", "eating", "dish", "cake",
               "dinner", "lunch", "breakfast", "cooking"}>>}

TokensMatch(a, b) == a = b \/ <<a, b>> \in Prefixed
AnyMatch(S, T)    == \E a \in S, b \in T : TokensMatch(a, b)

(* The alias classes that tokens touch, and expand_query_tokens. *)
Touched(tokens)  == {c \in AliasClasses : c[2] \cap tokens # {}}
Expanded(tokens) == tokens \cup UNION {c[2] : c \in Touched(tokens)}
=============================================================================
