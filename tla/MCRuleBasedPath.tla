-------------------------- MODULE MCRuleBasedPath --------------------------
(* Instances of RuleBasedPath for TLC: what a user can say of seats, of the *)
(* home airport, and of the city they live in.                              *)
EXTENDS RuleBasedPath, TLC

CONSTANTS m1, m2, aisle, work, sjc, SJC, sfo, was, rome, oslo, lima, other

KindOf == [c \in Contents |->
    IF c \in {aisle, work} THEN "preference" ELSE "fact"]

(* SJC is sjc written differently. *)
NormalOf == [c \in Contents |-> IF c = SJC THEN sjc ELSE c]

(* The rules know seats and home airports, and do not look at scope or      *)
(* tense: work is a seat on business trips, was a former airport.  They do  *)
(* not know cities.  other stands for every fact without a slot that only   *)
(* the temporal planner or an extractor finds.                              *)
KeyOf == [c \in Contents |->
    CASE c \in {aisle, work} -> "seat"
      [] c \in {sjc, SJC, sfo, was} -> "airport"
      [] OTHER -> None]

Said(a, s, v, h) ==
    [attribute |-> a, scope |-> s, value |-> v, historical |-> h,
     cardinality |-> "single", sure |-> TRUE]

IdentityOf ==
    (aisle :> Said("seat", "default", "aisle", FALSE)
       @@ work :> Said("seat", "business", "aisle", FALSE)
       @@ sjc :> Said("airport", "default", "sjc", FALSE)
       @@ SJC :> Said("airport", "default", "sjc", FALSE)
       @@ sfo :> Said("airport", "default", "sfo", FALSE)
       @@ was :> Said("airport", "default", "sfo", TRUE)
       @@ rome :> Said("city", "default", "rome", FALSE)
       @@ oslo :> Said("city", "default", "oslo", FALSE)
       @@ lima :> Said("city", "default", "lima", FALSE)
       @@ other :> None)

OwnMeaning == [c \in Contents |-> c]
IdSymmetry == Permutations(Ids)
=============================================================================
