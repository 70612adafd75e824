------------------------ MODULE MCExperienceManager ------------------------
(* Instances of ExperienceManager for TLC.                                  *)
EXTENDS ExperienceManager

CONSTANTS m1, m2, c1, c2

OwnMeaning == [c \in Contents |-> c]
=============================================================================
