-------------------------- MODULE MemoryLifecycle --------------------------
(***************************************************************************)
(* What the memory ledger promises its readers, with no interaction, plan  *)
(* or agent in sight (memory/schema.py and the store protocol): a memory   *)
(* appears active, its owner and content never change, it is retired as    *)
(* superseded or forgotten, it is never deleted and never active again.    *)
(***************************************************************************)
CONSTANTS Ids, Users, Contents, None,
          MayRetireAgain   \* a retired memory may be marked once more

VARIABLE ledger   \* id -> [status, user, content], or None when not stored

RetiredStatuses == {"superseded", "forgotten"}

Records == [status : {"active"} \cup RetiredStatuses,
            user : Users, content : Contents]

LInit == ledger = [i \in Ids |-> None]

Remember(i, u, c) ==
    /\ ledger[i] = None
    /\ ledger' = [ledger EXCEPT
                     ![i] = [status |-> "active", user |-> u, content |-> c]]

Retire(i, s) ==
    /\ ledger[i] # None
    /\ ledger[i].status = "active" \/ MayRetireAgain
    /\ ledger' = [ledger EXCEPT ![i].status = s]

LNext == \E i \in Ids :
            \/ \E u \in Users, c \in Contents : Remember(i, u, c)
            \/ \E s \in RetiredStatuses : Retire(i, s)

LSpec == LInit /\ [][LNext]_ledger
=============================================================================
