------------------------------ MODULE WebServer ------------------------------
(***************************************************************************)
(* The ledger demo's HTTP server (web/server.py): a ThreadingHTTPServer    *)
(* whose handler threads share one STATE.  Chats, provider switches,       *)
(* resets and the reads of the ledger and of the turns run under           *)
(* STATE.lock; GET /api/state does not take it.  A chat changes the store  *)
(* before it is known whether the model answers, and a failed one is not   *)
(* recorded as a turn.                                                     *)
(*                                                                         *)
(* A chat is the number of its request, and so is what it wrote to the     *)
(* store.  Stores are numbered: a reset leaves the old one behind.         *)
(* Requests refused before the lock (empty message, unknown or             *)
(* unconfigured provider, unknown path) change nothing and are left out.   *)
(***************************************************************************)
EXTENDS Naturals, Sequences, FiniteSets

CONSTANTS Threads,     \* handler threads
          None,
          MaxRequests  \* bound: requests in a behaviour

ASSUME WebAssumption == None \notin Threads /\ MaxRequests \in Nat

Providers == {"qwen", "offline"}
Stores    == 0 .. MaxRequests
Numbers   == 1 .. MaxRequests

VARIABLES
    lock,      \* STATE.lock: the thread that holds it
    State,     \* the fields of _State
    written,   \* store -> chats whose memories it holds
    failed,    \* chats that were answered with an error
    requests,  \* requests so far
    pc,        \* thread -> where its handler is
    req,       \* thread -> its request
    reply      \* thread -> what it answered last

vars == <<lock, State, written, failed, requests, pc, req, reply>>

NoRequest == [kind |-> "none", number |-> 0, to |-> None]
NoReply   == [kind |-> "none", ledger |-> {}, provider |-> None, model |-> None]

Kinds == {"chat", "ledger", "turns", "reset", "provider", "state"}

TypeOK ==
    /\ lock \in Threads \cup {None}
    /\ State \in [provider : Providers, store : Stores,
                  agent : [model : Providers, store : Stores],
                  turns : Seq([seq : Nat, chat : Numbers]), turn_seq : Nat]
    /\ written \in [Stores -> SUBSET Numbers]
    /\ failed \subseteq Numbers
    /\ requests \in 0 .. MaxRequests
    /\ pc \in [Threads -> {"idle", "waiting", "locked", "applied", "renamed", "cleared", "named"}]
    /\ req \in [Threads -> [kind : Kinds \cup {"none"}, number : 0 .. MaxRequests,
                            to : Providers \cup {None}]]
    /\ reply \in [Threads -> [kind : Kinds \cup {"none", "error"}, ledger : SUBSET Numbers,
                              provider : Providers \cup {None}, model : Providers \cup {None}]]

Init ==
    /\ lock = None
    /\ \E p \in Providers :
          State = [provider |-> p, store |-> 0, agent |-> [model |-> p, store |-> 0],
                   turns |-> <<>>, turn_seq |-> 0]
    /\ written = [s \in Stores |-> {}]
    /\ failed = {}
    /\ requests = 0
    /\ pc = [t \in Threads |-> "idle"]
    /\ req = [t \in Threads |-> NoRequest]
    /\ reply = [t \in Threads |-> NoReply]

-----------------------------------------------------------------------------
Doing(t, p, kinds) == pc[t] = p /\ req[t].kind \in kinds
Goes(t, p) == pc' = [pc EXCEPT ![t] = p]

(* A handler thread gets a request. *)
Arrive(t) ==
    /\ pc[t] = "idle"
    /\ requests < MaxRequests
    /\ requests' = requests + 1
    /\ \E k \in Kinds, p \in Providers :
          req' = [req EXCEPT ![t] = [kind |-> k, number |-> requests + 1,
                                     to |-> IF k = "provider" THEN p ELSE None]]
    /\ Goes(t, "waiting")
    /\ UNCHANGED <<lock, State, written, failed, reply>>

Acquire(t) ==
    /\ Doing(t, "waiting", Kinds \ {"state"})
    /\ lock = None
    /\ lock' = t
    /\ Goes(t, "locked")
    /\ UNCHANGED <<State, written, failed, requests, req, reply>>

(* A handler answers; a thread that holds the lock lets it go after that.   *)
Answers(t, answer) ==
    /\ reply' = [reply EXCEPT ![t] = answer]
    /\ lock' = IF lock = t THEN None ELSE lock
    /\ Goes(t, "idle")
    /\ req' = [req EXCEPT ![t] = NoRequest]
    /\ UNCHANGED requests

AnswersLedger(t, kind, s) == Answers(t, [NoReply EXCEPT !.kind = kind, !.ledger = s])

(* GET /api/ledger and GET /api/turns. *)
Read(t) ==
    /\ Doing(t, "locked", {"ledger", "turns"})
    /\ AnswersLedger(t, req[t].kind, written[State.agent.store])
    /\ UNCHANGED <<State, written, failed>>

(* GET /api/state reads the provider's name again for the model, unlocked.  *)
ReadName(t) ==
    /\ Doing(t, "waiting", {"state"})
    /\ reply' = [reply EXCEPT ![t] = [NoReply EXCEPT !.provider = State.provider]]
    /\ Goes(t, "named")
    /\ UNCHANGED <<lock, State, written, failed, requests, req>>

ReadModel(t) ==
    /\ Doing(t, "named", {"state"})
    /\ Answers(t, [reply[t] EXCEPT !.kind = "state", !.model = State.provider])
    /\ UNCHANGED <<State, written, failed>>

-----------------------------------------------------------------------------
(* Mutant: the engine runs before the lock is taken. *)
ChatAppliesUnlocked(t) ==
    /\ pc[t] \in {"waiting", "locked"} /\ req[t].kind = "chat"
    /\ written' = [written EXCEPT ![State.agent.store] = @ \cup {req[t].number}]
    /\ Goes(t, "applied")
    /\ UNCHANGED <<lock, State, failed, requests, req, reply>>

(* POST /api/chat.  The engine applies its memory actions ... *)
ChatApplies(t) ==
    /\ Doing(t, "locked", {"chat"})
    /\ written' = [written EXCEPT ![State.agent.store] = @ \cup {req[t].number}]
    /\ Goes(t, "applied")
    /\ UNCHANGED <<lock, State, failed, requests, req, reply>>

(* Mutant: the error path returns with the lock. *)
ChatFailsLocked(t) ==
    /\ pc[t] \in {"locked", "applied"} /\ req[t].kind = "chat"
    /\ failed' = failed \cup {req[t].number}
    /\ reply' = [reply EXCEPT ![t] = [NoReply EXCEPT !.kind = "error"]]
    /\ req' = [req EXCEPT ![t] = NoRequest]
    /\ Goes(t, "idle")
    /\ UNCHANGED <<lock, requests, State, written>>

(* ... or raises before it applied any, or the model fails after it did.    *)
ChatFails(t) ==
    /\ pc[t] \in {"locked", "applied"} /\ req[t].kind = "chat"
    /\ failed' = failed \cup {req[t].number}
    /\ Answers(t, [NoReply EXCEPT !.kind = "error"])
    /\ UNCHANGED <<State, written>>

TurnRecorded(number) ==
    [State EXCEPT !.turn_seq = @ + 1,
                  !.turns = Append(@, [seq |-> State.turn_seq + 1, chat |-> number])]

ChatAnswered(t) ==
    /\ Doing(t, "applied", {"chat"})
    /\ State' = TurnRecorded(req[t].number)
    /\ AnswersLedger(t, "chat", written[State.agent.store])
    /\ UNCHANGED <<written, failed>>

-----------------------------------------------------------------------------
(* POST /api/provider: State.rebuild names the provider ... *)
Rename(t) ==
    /\ Doing(t, "locked", {"provider"})
    /\ State' = [State EXCEPT !.provider = req[t].to]
    /\ Goes(t, "renamed")
    /\ UNCHANGED <<lock, written, failed, requests, req, reply>>

(* ... and builds the agent over the store there is. *)
Rebuild(t) ==
    /\ Doing(t, "renamed", {"provider"})
    /\ State' = [State EXCEPT !.agent = [model |-> State.provider, store |-> State.store]]
    /\ Answers(t, [NoReply EXCEPT !.kind = "provider", !.provider = State.provider,
                                  !.model = State.provider])
    /\ UNCHANGED <<written, failed>>

(* POST /api/reset clears the user's memories in the store it leaves ... *)
ResetClears(t) ==
    /\ Doing(t, "locked", {"reset"})
    /\ written' = [written EXCEPT ![State.agent.store] = {}]
    /\ Goes(t, "cleared")
    /\ UNCHANGED <<lock, State, failed, requests, req, reply>>

(* Mutant: the agent keeps the store that was cleared. *)
ResetKeepsAgent(s) == [s EXCEPT !.store = @ + 1, !.turns = <<>>, !.turn_seq = 0]

(* Mutant: the traces of the old store stay. *)
ResetKeepsTurns(s) ==
    [s EXCEPT !.store = @ + 1,
              !.agent = [model |-> s.provider, store |-> s.store + 1]]

(* ... and starts over: a new store, an agent on it, no turns. *)
StartedOver(s) ==
    [s EXCEPT !.store = @ + 1,
              !.agent = [model |-> s.provider, store |-> s.store + 1],
              !.turns = <<>>, !.turn_seq = 0]

ResetDone(t) ==
    /\ Doing(t, "cleared", {"reset"})
    /\ State' = StartedOver(State)
    /\ AnswersLedger(t, "reset", written[State'.agent.store])
    /\ UNCHANGED <<written, failed>>

Step(t) ==
    \/ Acquire(t) \/ Read(t) \/ ReadName(t) \/ ReadModel(t)
    \/ ChatApplies(t) \/ ChatFails(t) \/ ChatAnswered(t)
    \/ Rename(t) \/ Rebuild(t) \/ ResetClears(t) \/ ResetDone(t)

(* Nobody has to send a request. *)
Quiet == (\A t \in Threads : pc[t] = "idle") /\ UNCHANGED vars

Next == (\E t \in Threads : Arrive(t) \/ Step(t)) \/ Quiet

Spec == Init /\ [][Next]_vars

(* A thread that can run gets to run. *)
FairSpec == Spec /\ \A t \in Threads : WF_vars(Step(t))

-----------------------------------------------------------------------------
(* Nothing in the ledger is unexplained, nothing traced is missing from it: *)
(* the store holds what the recorded turns wrote, and besides only what     *)
(* failed chats or the one under way left there; and the turns are numbered *)
(* 1, 2, ... since the last reset, whatever ran between them.               *)
LedgerExplained ==
    LET traced == {State.turns[k].chat : k \in DOMAIN State.turns}
        shown  == written[State.agent.store]
    IN  /\ shown \subseteq traced \cup failed \cup {req[t].number : t \in Threads}
        /\ (\A t \in Threads : pc[t] # "cleared") => traced \subseteq shown
        /\ \A k \in DOMAIN State.turns : State.turns[k].seq = k
        /\ State.turn_seq = Len(State.turns)

(* Between requests the agent works on the shared store, with the model the *)
(* settings name: a switch of provider keeps the memory.                    *)
AgentIsCurrent ==
    lock = None => State.agent = [model |-> State.provider, store |-> State.store]

(* The ledger in a chat's reply is that of the moment its turn is recorded: *)
(* it shows what this chat and every chat recorded since the last reset     *)
(* wrote, and besides only what chats that have failed left behind: nothing *)
(* of a chat that waits for the lock, or that comes after it.               *)
ChatSeesItself ==
    [][\A t \in Threads :
         reply'[t] # reply[t] /\ reply'[t].kind = "chat" =>
             LET recorded == {State'.turns[k].chat : k \in DOMAIN State'.turns}
             IN  /\ recorded \cup {req[t].number} \subseteq reply'[t].ledger
                 /\ reply'[t].ledger \subseteq recorded \cup failed]_vars

(* The lock is always given back, also by chats that fail.                  *)
LockReleased == \A t \in Threads : lock = t ~> lock # t

-----------------------------------------------------------------------------
(* The inductive invariant: what the handlers can rely on because of the   *)
(* lock and because the numbers of requests are their own.                 *)

Inside == {"locked", "applied", "renamed", "cleared"}

(* Only the holder of the lock is inside a handler that needs it. *)
HolderInside == \A t \in Threads : pc[t] \in Inside <=> lock = t

(* A handler is where its request can have brought it. *)
Handling ==
    \A t \in Threads :
        /\ pc[t] = "idle" <=> req[t] = NoRequest
        /\ req[t].kind = "none" => req[t] = NoRequest
        /\ req[t].kind = "provider" => req[t].to \in Providers
        /\ pc[t] = "named" => reply[t].kind # "chat"
        /\ pc[t] = "applied" => req[t].kind = "chat"
        /\ pc[t] = "renamed" => req[t].kind = "provider"
        /\ pc[t] = "cleared" => req[t].kind = "reset"

(* A request's number is its own, and in no store before its chat applies. *)
Numbered ==
    /\ \A t \in Threads : req[t].number <= requests
    /\ \A t \in Threads : req[t].number = 0 <=> req[t] = NoRequest
    /\ \A t, u \in Threads : req[t].number = req[u].number /\ req[t].number # 0 => t = u
    /\ \A s \in Stores : \A n \in written[s] : n <= requests
    /\ \A t \in Threads : pc[t] # "applied" => \A s \in Stores : req[t].number \notin written[s]
    /\ \A t \in Threads : pc[t] = "applied" => req[t].number \in written[State.store]

(* The agent never lags behind the store, and behind the provider only      *)
(* while it is being rebuilt.                                               *)
AgentFollows ==
    /\ State.agent.store = State.store
    /\ (\A t \in Threads : pc[t] # "renamed") => State.agent.model = State.provider

(* There is a store left for every reset that has been asked for. *)
Resetting == {t \in Threads : req[t].kind = "reset"}

StoresLeft ==
    /\ IsFiniteSet(Resetting)
    /\ State.store + Cardinality(Resetting) <= requests
    /\ \A s \in Stores : s > State.store => written[s] = {}

WebInv ==
    /\ TypeOK /\ HolderInside /\ Handling /\ Numbered /\ AgentFollows /\ StoresLeft
    /\ LedgerExplained
=============================================================================
