----------------------------- MODULE MCLocalPath -----------------------------
(* Instances of LocalPath for TLC. *)
EXTENDS LocalPath, TLC

CONSTANTS m1, m2, said, SAID, other

(* SAID is said written differently. *)
NormalOf == [c \in Contents |-> IF c = SAID THEN said ELSE c]

OwnMeaning == [c \in Contents |-> c]
IdSymmetry == Permutations(Ids)
=============================================================================
