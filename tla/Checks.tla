------------------------------- MODULE Checks -------------------------------
(***************************************************************************)
(* A chain of early returns: `if cond: return code`, one after the other.  *)
(* It is the sequence of its <<code, cond>> pairs; every condition is      *)
(* defined whatever the ones before it say.                                *)
(***************************************************************************)
EXTENDS Naturals, Sequences, FiniteSetsExt, SequencesExt, TLC

Failing(chain) == {k \in DOMAIN chain : chain[k][2]}

(* The code of the first condition that holds, or the default. *)
FirstCode(chain, default) ==
    IF Failing(chain) = {} THEN default ELSE chain[Min(Failing(chain))][1]
=============================================================================
