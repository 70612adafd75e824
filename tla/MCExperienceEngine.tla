------------------------ MODULE MCExperienceEngine ------------------------
(* Instances of ExperienceEngine for TLC. *)
EXTENDS EngineInvariant, TLC

CONSTANTS i1, i2, i3, i4, u1, u2, c1, c2, a1, a2

(* c1 and c2 say the same thing in different words. *)
OneMeaning == [c \in Contents |-> c1]
(* Every content is its own meaning. *)
OwnMeaning == [c \in Contents |-> c]

IdSymmetry == Permutations(Ids)
Symmetry == Permutations(Ids) \cup Permutations(Users)
=============================================================================
