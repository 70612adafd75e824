--------------------------- MODULE WebServerProofs ---------------------------
(***************************************************************************)
(* Proofs about WebServer, for any number of handler threads and requests: *)
(* the ledger is explained by the turns, the agent is the one the settings *)
(* name, and a chat's reply shows what the chat did.                       *)
(***************************************************************************)
EXTENDS WebServer, FiniteSetTheorems, TLAPS

LEMMA InitGood == Init => WebInv
<1> SUFFICES ASSUME Init PROVE WebInv
  OBVIOUS
<1>1. PICK p \in Providers :
          State = [provider |-> p, store |-> 0, agent |-> [model |-> p, store |-> 0],
                   turns |-> <<>>, turn_seq |-> 0]
  BY DEF Init
<1>2. TypeOK
  <2>1. State \in [provider : Providers, store : Stores,
                   agent : [model : Providers, store : Stores],
                   turns : Seq([seq : Nat, chat : Numbers]), turn_seq : Nat]
    BY <1>1, WebAssumption DEF Stores
  <2>2. QED BY <2>1, WebAssumption DEF Init, TypeOK, NoRequest, NoReply, Numbers, Stores
<1>3. HolderInside /\ Handling
  BY WebAssumption DEF Init, HolderInside, Handling, Inside, NoRequest, NoReply
<1>4. Numbered
  BY WebAssumption DEF Init, Numbered, NoRequest
<1>5. AgentFollows
  BY <1>1 DEF AgentFollows
<1>6. StoresLeft
  <2>1. Resetting = {}
    BY DEF Init, Resetting, NoRequest
  <2>2. QED BY <1>1, <2>1, FS_EmptySet DEF Init, StoresLeft
<1>7. LedgerExplained
  BY <1>1, WebAssumption DEF Init, LedgerExplained, Stores
<1>8. QED BY <1>2, <1>3, <1>4, <1>5, <1>6, <1>7 DEF WebInv

-----------------------------------------------------------------------------
(* What every handler that answers leaves behind. *)
LEMMA AnsweredGood ==
    ASSUME WebInv, NEW t \in Threads, NEW x, Answers(t, x), written' = written,
           pc[t] \in Inside \cup {"named"}, pc[t] = "named" => State' = State
    PROVE  HolderInside' /\ Handling' /\ Numbered'
<1>1. /\ pc' = [pc EXCEPT ![t] = "idle"] /\ req' = [req EXCEPT ![t] = NoRequest]
      /\ reply' = [reply EXCEPT ![t] = x] /\ requests' = requests
      /\ lock' = IF lock = t THEN None ELSE lock
  BY DEF Answers, Goes
<1>2. /\ DOMAIN pc = Threads /\ DOMAIN req = Threads /\ DOMAIN reply = Threads
      /\ lock \in Threads \cup {None} /\ requests \in Nat
  BY WebAssumption DEF WebInv, TypeOK
<1>3. HolderInside'
  BY <1>1, <1>2, WebAssumption DEF WebInv, HolderInside, Inside
<1>4. Handling'
  BY <1>1, <1>2 DEF WebInv, Handling, NoRequest
<1>5. Numbered'
  <2>1. \A u \in Threads : pc'[u] = "applied" => u # t /\ pc[u] = "applied" /\ State' = State
    BY <1>1, <1>2, WebAssumption DEF WebInv, HolderInside, Inside
  <2>2. \A s \in Stores : \A n \in written[s] : n \in Numbers
    BY DEF WebInv, TypeOK
  <2>3. QED BY <1>1, <1>2, <2>1, <2>2 DEF WebInv, Numbered, NoRequest, Numbers
<1>6. QED BY <1>3, <1>4, <1>5

(* ... and nobody resets who did not before. *)
LEMMA AnsweredStores ==
    ASSUME WebInv, NEW t \in Threads, NEW x, Answers(t, x), written' = written,
           State'.store = State.store
    PROVE  StoresLeft'
<1>1. req' = [req EXCEPT ![t] = NoRequest] /\ requests' = requests
  BY DEF Answers
<1>2. Resetting' = Resetting \ {t}
  BY <1>1 DEF Resetting, NoRequest, WebInv, TypeOK
<1>3. IsFiniteSet(Resetting') /\ Cardinality(Resetting') <= Cardinality(Resetting)
      /\ Cardinality(Resetting) \in Nat /\ Cardinality(Resetting') \in Nat
  BY <1>2, FS_Subset, FS_CardinalityType DEF WebInv, StoresLeft
<1>4. State.store \in Nat /\ requests \in Nat
  BY WebAssumption DEF WebInv, TypeOK, Stores
<1>5. QED BY <1>1, <1>3, <1>4 DEF WebInv, StoresLeft

(* The ledger, when a handler answers and leaves the trace as it is: its    *)
(* number, if it is a chat's, is then among the failed ones.                *)
LEMMA AnsweredLedger ==
    ASSUME WebInv, NEW t \in Threads, NEW x, Answers(t, x), written' = written,
           State'.agent.store = State.agent.store,
           State'.turns = State.turns, State'.turn_seq = State.turn_seq,
           pc[t] # "cleared", failed \subseteq failed',
           pc[t] = "applied" => req[t].number \in failed'
    PROVE  LedgerExplained'
<1>1. /\ pc' = [pc EXCEPT ![t] = "idle"] /\ req' = [req EXCEPT ![t] = NoRequest]
      /\ DOMAIN pc = Threads /\ DOMAIN req = Threads
  BY DEF Answers, Goes, WebInv, TypeOK
<1>2. State.agent.store \in Stores
  BY DEF WebInv, TypeOK
<1>3. \A n \in written[State.agent.store] : n = req[t].number => n \in failed'
  BY <1>2 DEF WebInv, Numbered
<1>4. (\A u \in Threads : pc'[u] # "cleared") => \A u \in Threads : pc[u] # "cleared"
  BY <1>1
<1>5. QED BY <1>1, <1>3, <1>4 DEF WebInv, LedgerExplained

-----------------------------------------------------------------------------
LEMMA AtMostOneMore ==
    ASSUME NEW S, NEW x, NEW R \in {S, S \cup {x}}, IsFiniteSet(S)
    PROVE  /\ IsFiniteSet(R) /\ Cardinality(R) \in Nat
           /\ Cardinality(R) <= Cardinality(S) + 1 /\ Cardinality(S) \in Nat
<1>1. Cardinality(S) \in Nat
  BY FS_CardinalityType
<1>2. CASE R = S
  BY <1>1, <1>2
<1>3. CASE R = S \cup {x}
  <2>1. /\ IsFiniteSet(R)
        /\ Cardinality(R) \in {Cardinality(S), Cardinality(S) + 1}
    BY <1>3, FS_AddElement
  <2>2. QED BY <1>1, <2>1
<1>4. QED BY <1>2, <1>3

LEMMA ArriveGood ==
    ASSUME WebInv, NEW t \in Threads, Arrive(t)
    PROVE  WebInv'
<1>1. PICK k \in Kinds, p \in Providers :
          req' = [req EXCEPT ![t] = [kind |-> k, number |-> requests + 1,
                                     to |-> IF k = "provider" THEN p ELSE None]]
  BY DEF Arrive
<1>2. /\ pc[t] = "idle" /\ requests < MaxRequests /\ requests' = requests + 1
      /\ pc' = [pc EXCEPT ![t] = "waiting"]
      /\ UNCHANGED <<lock, State, written, failed, reply>>
  BY DEF Arrive, Goes
<1>3. /\ DOMAIN pc = Threads /\ DOMAIN req = Threads /\ requests \in Nat
      /\ req[t] = NoRequest
  BY <1>2, WebAssumption DEF WebInv, TypeOK, Handling
<1>4. TypeOK'
  <2>1. requests' \in 0 .. MaxRequests
    BY <1>2, <1>3, WebAssumption
  <2>2. req' \in [Threads -> [kind : Kinds \cup {"none"}, number : 0 .. MaxRequests,
                              to : Providers \cup {None}]]
    BY <1>1, <1>2, <2>1 DEF WebInv, TypeOK
  <2>3. QED BY <1>2, <2>1, <2>2 DEF WebInv, TypeOK
<1>5. HolderInside'
  BY <1>2, <1>3 DEF WebInv, HolderInside, Inside
<1>6. Handling'
  <2>1. req'[t].kind \in Kinds /\ req'[t] # NoRequest /\ req'[t].number = requests + 1
    BY <1>1, <1>3 DEF NoRequest, Kinds
  <2>2. req'[t].kind = "provider" => req'[t].to \in Providers
    BY <1>1, <1>3
  <2>3. QED BY <1>1, <1>2, <1>3, <2>1, <2>2 DEF WebInv, Handling, Kinds
<1>7. Numbered'
  <2>1. /\ req'[t].number = requests + 1 /\ req'[t] # NoRequest
        /\ \A u \in Threads \ {t} : req'[u] = req[u]
    BY <1>1, <1>3 DEF NoRequest, Kinds
  <2>2. /\ \A u \in Threads : req[u].number \in Nat /\ req[u].number <= requests
        /\ \A s \in Stores : \A n \in written[s] : n \in Nat /\ n <= requests
    BY WebAssumption DEF WebInv, TypeOK, Numbered, Numbers
  <2>3. \A u \in Threads : pc'[u] = "applied" => u # t /\ pc[u] = "applied"
    BY <1>2, <1>3
  <2>4. \A u \in Threads : u # t /\ pc'[u] # "applied" => pc[u] # "applied"
    BY <1>2, <1>3
  <2>5. \A u, v \in Threads :
            req'[u].number = req'[v].number /\ req'[u].number # 0 => u = v
    BY <1>3, <2>1, <2>2 DEF WebInv, Numbered
  <2>6. \A u \in Threads : pc'[u] # "applied" => \A s \in Stores : req'[u].number \notin written[s]
    BY <1>3, <2>1, <2>2, <2>4 DEF WebInv, Numbered
  <2>7. \A u \in Threads : req'[u].number = 0 <=> req'[u] = NoRequest
    BY <1>3, <2>1 DEF WebInv, Numbered
  <2>8. /\ \A u \in Threads : req'[u].number <= requests'
        /\ \A s \in Stores : \A n \in written'[s] : n <= requests'
    BY <1>2, <1>3, <2>1, <2>2
  <2>9. \A u \in Threads : pc'[u] = "applied" => req'[u].number \in written'[State'.store]
    BY <1>2, <2>1, <2>3 DEF WebInv, Numbered
  <2>10. QED BY <1>2, <2>5, <2>6, <2>7, <2>8, <2>9 DEF Numbered
<1>8. AgentFollows'
  BY <1>2, <1>3 DEF WebInv, AgentFollows
<1>9. StoresLeft'
  <2>1. Resetting' \in {Resetting, Resetting \cup {t}}
    BY <1>1, <1>3 DEF Resetting, NoRequest
  <2>2. /\ IsFiniteSet(Resetting') /\ Cardinality(Resetting') \in Nat
        /\ Cardinality(Resetting') <= Cardinality(Resetting) + 1
        /\ Cardinality(Resetting) \in Nat
    BY <2>1, AtMostOneMore DEF WebInv, StoresLeft
  <2>3. State.store \in Nat
    BY WebAssumption DEF WebInv, TypeOK, Stores
  <2>4. QED BY <1>2, <1>3, <2>2, <2>3 DEF WebInv, StoresLeft
<1>10. LedgerExplained'
  <2>1. 0 \notin written[State.agent.store]
    BY DEF WebInv, TypeOK, Numbers
  <2>2. QED BY <1>1, <1>2, <1>3, <2>1 DEF WebInv, LedgerExplained, NoRequest
<1>11. QED BY <1>4, <1>5, <1>6, <1>7, <1>8, <1>9, <1>10 DEF WebInv

LEMMA AcquireGood ==
    ASSUME WebInv, NEW t \in Threads, Acquire(t)
    PROVE  WebInv'
<1>1. /\ pc[t] = "waiting" /\ lock = None /\ lock' = t /\ pc' = [pc EXCEPT ![t] = "locked"]
      /\ UNCHANGED <<State, written, failed, requests, req, reply>>
  BY DEF Acquire, Doing, Goes
<1>2. DOMAIN pc = Threads /\ req[t] # NoRequest
  BY <1>1 DEF WebInv, TypeOK, Handling
<1>3. TypeOK'
  BY <1>1 DEF WebInv, TypeOK
<1>4. HolderInside'
  BY <1>1, <1>2, WebAssumption DEF WebInv, HolderInside, Inside
<1>5. Handling' /\ Numbered'
  BY <1>1, <1>2 DEF WebInv, Handling, Numbered, NoRequest
<1>6. AgentFollows' /\ StoresLeft'
  BY <1>1, <1>2 DEF WebInv, AgentFollows, StoresLeft, Resetting
<1>7. LedgerExplained'
  BY <1>1, <1>2 DEF WebInv, LedgerExplained
<1>8. QED BY <1>3, <1>4, <1>5, <1>6, <1>7 DEF WebInv

(* A handler that answers and leaves the shared state as it is. *)
LEMMA UnchangedAnswerGood ==
    ASSUME WebInv, NEW t \in Threads, NEW x, Answers(t, x),
           x \in [kind : Kinds \cup {"none", "error"}, ledger : SUBSET Numbers,
                  provider : Providers \cup {None}, model : Providers \cup {None}],
           pc[t] \in {"locked", "applied", "named"},
           UNCHANGED <<State, written>>, failed' \in SUBSET Numbers, failed \subseteq failed',
           pc[t] = "applied" => req[t].number \in failed'
    PROVE  WebInv'
<1>1. /\ pc' = [pc EXCEPT ![t] = "idle"] /\ req' = [req EXCEPT ![t] = NoRequest]
      /\ reply' = [reply EXCEPT ![t] = x] /\ requests' = requests
      /\ lock' = IF lock = t THEN None ELSE lock
      /\ DOMAIN pc = Threads /\ UNCHANGED <<State, written>>
  BY DEF Answers, Goes, WebInv, TypeOK
<1>2. TypeOK'
  <2>1. NoRequest \in [kind : Kinds \cup {"none"}, number : 0 .. MaxRequests,
                       to : Providers \cup {None}]
    BY WebAssumption DEF NoRequest
  <2>2. QED BY <1>1, <2>1 DEF WebInv, TypeOK
<1>3. HolderInside' /\ Handling' /\ Numbered'
  BY <1>1, AnsweredGood DEF Inside
<1>4. AgentFollows'
  BY <1>1 DEF WebInv, AgentFollows
<1>5. StoresLeft'
  BY <1>1, AnsweredStores
<1>6. LedgerExplained'
  BY <1>1, AnsweredLedger
<1>7. QED BY <1>2, <1>3, <1>4, <1>5, <1>6 DEF WebInv

LEMMA ReadGood ==
    ASSUME WebInv, NEW t \in Threads, Read(t)
    PROVE  WebInv'
<1> DEFINE x == [NoReply EXCEPT !.kind = req[t].kind, !.ledger = written[State.agent.store]]
<1>1. /\ Answers(t, x) /\ pc[t] = "locked" /\ req[t].kind \in {"ledger", "turns"}
      /\ UNCHANGED <<State, written, failed>>
  BY DEF Read, AnswersLedger, Doing
<1>2. x \in [kind : Kinds \cup {"none", "error"}, ledger : SUBSET Numbers,
             provider : Providers \cup {None}, model : Providers \cup {None}]
  BY <1>1 DEF NoReply, Kinds, WebInv, TypeOK
<1>3. failed' \in SUBSET Numbers
  BY <1>1 DEF WebInv, TypeOK
<1> HIDE DEF x
<1>4. QED BY <1>1, <1>2, <1>3, UnchangedAnswerGood

LEMMA ReadModelGood ==
    ASSUME WebInv, NEW t \in Threads, ReadModel(t)
    PROVE  WebInv'
<1> DEFINE x == [reply[t] EXCEPT !.kind = "state", !.model = State.provider]
<1>1. Answers(t, x) /\ pc[t] = "named" /\ UNCHANGED <<State, written, failed>>
  BY DEF ReadModel, Doing
<1>2. x \in [kind : Kinds \cup {"none", "error"}, ledger : SUBSET Numbers,
             provider : Providers \cup {None}, model : Providers \cup {None}]
  <2>1. reply[t] \in [kind : Kinds \cup {"none", "error"}, ledger : SUBSET Numbers,
                     provider : Providers \cup {None}, model : Providers \cup {None}]
    BY DEF WebInv, TypeOK
  <2>2. State.provider \in Providers \cup {None}
    BY DEF WebInv, TypeOK
  <2>3. "state" \in Kinds \cup {"none", "error"}
    BY DEF Kinds
  <2>4. QED BY <2>1, <2>2, <2>3
<1>3. failed' \in SUBSET Numbers
  BY <1>1 DEF WebInv, TypeOK
<1> HIDE DEF x
<1>4. QED BY <1>1, <1>2, <1>3, UnchangedAnswerGood

LEMMA ChatFailsGood ==
    ASSUME WebInv, NEW t \in Threads, ChatFails(t)
    PROVE  WebInv'
<1> DEFINE x == [NoReply EXCEPT !.kind = "error"]
<1>1. /\ Answers(t, x) /\ pc[t] \in {"locked", "applied"} /\ UNCHANGED <<State, written>>
      /\ failed' = failed \cup {req[t].number}
  BY DEF ChatFails
<1>2. x \in [kind : Kinds \cup {"none", "error"}, ledger : SUBSET Numbers,
             provider : Providers \cup {None}, model : Providers \cup {None}]
  BY DEF NoReply
<1>3. failed' \in SUBSET Numbers
  <2>1. req[t] # NoRequest
    BY <1>1 DEF WebInv, Handling
  <2>2. req[t].number \in 0 .. MaxRequests /\ req[t].number # 0
    BY <2>1 DEF WebInv, TypeOK, Numbered
  <2>3. req[t].number \in Numbers
    BY <2>2, WebAssumption DEF Numbers
  <2>4. QED BY <1>1, <2>3 DEF WebInv, TypeOK
<1> HIDE DEF x
<1>4. QED BY <1>1, <1>2, <1>3, UnchangedAnswerGood

LEMMA ReadNameGood ==
    ASSUME WebInv, NEW t \in Threads, ReadName(t)
    PROVE  WebInv'
<1>1. /\ pc[t] = "waiting" /\ req[t].kind = "state" /\ pc' = [pc EXCEPT ![t] = "named"]
      /\ reply' = [reply EXCEPT ![t] = [NoReply EXCEPT !.provider = State.provider]]
      /\ UNCHANGED <<lock, State, written, failed, requests, req>>
  BY DEF ReadName, Doing, Goes
<1>2. DOMAIN pc = Threads /\ DOMAIN reply = Threads /\ req[t] # NoRequest
  BY <1>1 DEF WebInv, TypeOK, Handling
<1>3. TypeOK'
  BY <1>1 DEF WebInv, TypeOK, NoReply
<1>4. HolderInside'
  BY <1>1, <1>2 DEF WebInv, HolderInside, Inside
<1>5. Handling' /\ Numbered'
  BY <1>1, <1>2 DEF WebInv, Handling, Numbered, NoRequest, NoReply
<1>6. AgentFollows' /\ StoresLeft'
  BY <1>1, <1>2 DEF WebInv, AgentFollows, StoresLeft, Resetting
<1>7. LedgerExplained'
  BY <1>1, <1>2 DEF WebInv, LedgerExplained
<1>8. QED BY <1>3, <1>4, <1>5, <1>6, <1>7 DEF WebInv

-----------------------------------------------------------------------------
(* Only the holder is inside, so nobody else is when it moves. *)
LEMMA Alone ==
    ASSUME WebInv, NEW t \in Threads, pc[t] \in Inside
    PROVE  lock = t /\ \A u \in Threads : pc[u] \in Inside => u = t
  BY DEF WebInv, HolderInside

LEMMA ChatAppliesGood ==
    ASSUME WebInv, NEW t \in Threads, ChatApplies(t)
    PROVE  WebInv'
<1> DEFINE s == State.agent.store
           n == req[t].number
<1>1. /\ pc[t] = "locked" /\ req[t].kind = "chat" /\ pc' = [pc EXCEPT ![t] = "applied"]
      /\ written' = [written EXCEPT ![s] = @ \cup {n}]
      /\ UNCHANGED <<lock, State, failed, requests, req, reply>>
  BY DEF ChatApplies, Doing, Goes
<1>2. /\ DOMAIN pc = Threads /\ DOMAIN written = Stores /\ s \in Stores /\ s = State.store
      /\ s \in Nat /\ State.store \in Nat
  BY WebAssumption DEF WebInv, TypeOK, AgentFollows, Stores
<1>3. n \in Numbers /\ n # 0 /\ n <= requests /\ req[t] # NoRequest
  <2>1. req[t] # NoRequest
    BY <1>1 DEF WebInv, Handling
  <2>2. n \in 0 .. MaxRequests /\ n # 0 /\ n <= requests
    BY <2>1 DEF WebInv, TypeOK, Numbered
  <2>3. QED BY <2>1, <2>2, WebAssumption DEF Numbers
<1>4. \A u \in Threads : u # t => pc[u] \notin Inside
  BY <1>1, Alone DEF Inside
<1>5. TypeOK'
  <2>1. written' \in [Stores -> SUBSET Numbers]
    BY <1>1, <1>2, <1>3 DEF WebInv, TypeOK
  <2>2. QED BY <1>1, <2>1 DEF WebInv, TypeOK
<1>6. HolderInside'
  BY <1>1, <1>2 DEF WebInv, HolderInside, Inside
<1>7. Handling'
  BY <1>1, <1>2, <1>3 DEF WebInv, Handling
<1>8. Numbered'
  <2>1. \A r \in Stores : \A k \in written'[r] : k = n \/ k \in written[r]
    BY <1>1, <1>2
  <2>2. \A r \in Stores : \A k \in written'[r] : k <= requests
    BY <1>3, <2>1 DEF WebInv, Numbered
  <2>3. \A u \in Threads : u # t => req[u].number # n
    BY <1>3 DEF WebInv, Numbered
  <2>4. \A u \in Threads : pc'[u] # "applied" => u # t /\ pc[u] # "applied"
    BY <1>1, <1>2
  <2>5. \A u \in Threads : pc'[u] # "applied" => \A r \in Stores : req[u].number \notin written'[r]
    BY <2>1, <2>3, <2>4 DEF WebInv, Numbered
  <2>6. \A u \in Threads : pc'[u] = "applied" => u = t
    BY <1>1, <1>2, <1>4 DEF Inside
  <2>7. n \in written'[State.store]
    BY <1>1, <1>2
  <2>8. QED BY <1>1, <2>2, <2>5, <2>6, <2>7 DEF WebInv, Numbered
<1>9. AgentFollows'
  BY <1>1, <1>2 DEF WebInv, AgentFollows
<1>10. StoresLeft'
  <2>1. \A r \in Stores : r > State.store => r # s
    BY <1>2
  <2>2. \A r \in Stores : r > State.store => written'[r] = {}
    BY <1>1, <1>2, <2>1 DEF WebInv, StoresLeft
  <2>3. QED BY <1>1, <2>2 DEF WebInv, StoresLeft, Resetting
<1>11. LedgerExplained'
  <2>1. written'[s] = written[s] \cup {n}
    BY <1>1, <1>2
  <2>2. (\A u \in Threads : pc'[u] # "cleared") => \A u \in Threads : pc[u] # "cleared"
    BY <1>1, <1>2
  <2>3. QED BY <1>1, <2>1, <2>2 DEF WebInv, LedgerExplained
<1>12. QED BY <1>5, <1>6, <1>7, <1>8, <1>9, <1>10, <1>11 DEF WebInv

LEMMA RenameGood ==
    ASSUME WebInv, NEW t \in Threads, Rename(t)
    PROVE  WebInv'
<1>1. /\ pc[t] = "locked" /\ req[t].kind = "provider" /\ pc' = [pc EXCEPT ![t] = "renamed"]
      /\ State' = [State EXCEPT !.provider = req[t].to]
      /\ UNCHANGED <<lock, written, failed, requests, req, reply>>
  BY DEF Rename, Doing, Goes
<1>2. /\ DOMAIN pc = Threads /\ req[t].to \in Providers /\ req[t] # NoRequest
  BY <1>1 DEF WebInv, TypeOK, Handling
<1>3. /\ State'.store = State.store /\ State'.agent = State.agent
      /\ State'.turns = State.turns /\ State'.turn_seq = State.turn_seq
  BY <1>1 DEF WebInv, TypeOK
<1>4. TypeOK'
  BY <1>1, <1>2 DEF WebInv, TypeOK
<1>5. HolderInside'
  BY <1>1, <1>2 DEF WebInv, HolderInside, Inside
<1>6. Handling' /\ Numbered'
  BY <1>1, <1>2, <1>3 DEF WebInv, Handling, Numbered
<1>7. AgentFollows' /\ StoresLeft'
  BY <1>1, <1>2, <1>3 DEF WebInv, AgentFollows, StoresLeft, Resetting
<1>8. LedgerExplained'
  BY <1>1, <1>2, <1>3 DEF WebInv, LedgerExplained
<1>9. QED BY <1>4, <1>5, <1>6, <1>7, <1>8 DEF WebInv

LEMMA ResetClearsGood ==
    ASSUME WebInv, NEW t \in Threads, ResetClears(t)
    PROVE  WebInv'
<1>1. /\ pc[t] = "locked" /\ req[t].kind = "reset" /\ pc' = [pc EXCEPT ![t] = "cleared"]
      /\ written' = [written EXCEPT ![State.agent.store] = {}]
      /\ UNCHANGED <<lock, State, failed, requests, req, reply>>
  BY DEF ResetClears, Doing, Goes
<1>2. /\ DOMAIN pc = Threads /\ DOMAIN written = Stores /\ State.agent.store \in Stores
      /\ req[t] # NoRequest
  BY <1>1 DEF WebInv, TypeOK, Handling
<1>3. \A u \in Threads : u # t => pc[u] \notin Inside
  BY <1>1, Alone DEF Inside
<1>4. \A r \in Stores : written'[r] \subseteq written[r]
  BY <1>1, <1>2
<1>5. TypeOK'
  BY <1>1, <1>2 DEF WebInv, TypeOK
<1>6. HolderInside'
  BY <1>1, <1>2 DEF WebInv, HolderInside, Inside
<1>7. Handling'
  BY <1>1, <1>2 DEF WebInv, Handling
<1>8. Numbered'
  <2>1. \A u \in Threads : pc'[u] # "applied"
    BY <1>1, <1>2, <1>3 DEF Inside
  <2>2. \A u \in Threads : pc[u] # "applied"
    BY <1>1, <1>3 DEF Inside
  <2>3. \A u \in Threads : \A r \in Stores : req[u].number \notin written[r]
    BY <2>2 DEF WebInv, Numbered
  <2>4. \A r \in Stores : \A k \in written'[r] : k <= requests
    BY <1>4 DEF WebInv, Numbered
  <2>5. \A u \in Threads : \A r \in Stores : req[u].number \notin written'[r]
    BY <1>4, <2>3
  <2>6. QED BY <1>1, <2>1, <2>4, <2>5 DEF WebInv, Numbered
<1>9. AgentFollows'
  BY <1>1, <1>2 DEF WebInv, AgentFollows
<1>10. StoresLeft'
  <2>1. \A r \in Stores : r > State.store => written'[r] = {}
    BY <1>4 DEF WebInv, StoresLeft
  <2>2. QED BY <1>1, <2>1 DEF WebInv, StoresLeft, Resetting
<1>11. LedgerExplained'
  <2>1. written'[State.agent.store] = {} /\ pc'[t] = "cleared"
    BY <1>1, <1>2
  <2>2. QED BY <1>1, <2>1 DEF WebInv, LedgerExplained
<1>12. QED BY <1>5, <1>6, <1>7, <1>8, <1>9, <1>10, <1>11 DEF WebInv

LEMMA RebuildGood ==
    ASSUME WebInv, NEW t \in Threads, Rebuild(t)
    PROVE  WebInv'
<1> DEFINE x == [NoReply EXCEPT !.kind = "provider", !.provider = State.provider,
                                !.model = State.provider]
<1>1. /\ pc[t] = "renamed" /\ req[t].kind = "provider" /\ Answers(t, x)
      /\ State' = [State EXCEPT !.agent = [model |-> State.provider, store |-> State.store]]
      /\ UNCHANGED <<written, failed>>
  BY DEF Rebuild, Doing
<1>2. /\ pc' = [pc EXCEPT ![t] = "idle"] /\ req' = [req EXCEPT ![t] = NoRequest]
      /\ reply' = [reply EXCEPT ![t] = x] /\ requests' = requests
      /\ lock' = IF lock = t THEN None ELSE lock
  BY <1>1 DEF Answers, Goes
<1>3. /\ State'.store = State.store /\ State'.turns = State.turns
      /\ State'.turn_seq = State.turn_seq /\ State'.provider = State.provider
      /\ State'.agent = [model |-> State.provider, store |-> State.store]
  BY <1>1 DEF WebInv, TypeOK
<1>4. State'.agent.store = State.agent.store
  BY <1>3 DEF WebInv, AgentFollows
<1>5. TypeOK'
  <2>1. x \in [kind : Kinds \cup {"none", "error"}, ledger : SUBSET Numbers,
               provider : Providers \cup {None}, model : Providers \cup {None}]
    BY DEF NoReply, Kinds, WebInv, TypeOK
  <2>2. NoRequest \in [kind : Kinds \cup {"none"}, number : 0 .. MaxRequests,
                       to : Providers \cup {None}]
    BY WebAssumption DEF NoRequest
  <2>3. State' \in [provider : Providers, store : Stores,
                    agent : [model : Providers, store : Stores],
                    turns : Seq([seq : Nat, chat : Numbers]), turn_seq : Nat]
    BY <1>1 DEF WebInv, TypeOK
  <2> HIDE DEF x
  <2>4. QED BY <1>1, <1>2, <2>1, <2>2, <2>3 DEF WebInv, TypeOK
<1> HIDE DEF x
<1>6. HolderInside' /\ Handling' /\ Numbered'
  BY <1>1, AnsweredGood DEF Inside
<1>7. AgentFollows'
  BY <1>3 DEF AgentFollows
<1>8. StoresLeft'
  BY <1>1, <1>3, AnsweredStores
<1>9. LedgerExplained'
  BY <1>1, <1>3, <1>4, AnsweredLedger
<1>10. QED BY <1>5, <1>6, <1>7, <1>8, <1>9 DEF WebInv

(* The fields of _State with turns replaced, and started over. *)
LEMMA StateWith ==
    ASSUME NEW P, NEW S, NEW A, NEW T, NEW r,
           r \in [provider : P, store : S, agent : A, turns : T, turn_seq : Nat],
           NEW st \in S, NEW ag \in A, NEW tu \in T, NEW q \in Nat
    PROVE  /\ [r EXCEPT !.turn_seq = q, !.turns = tu]
                \in [provider : P, store : S, agent : A, turns : T, turn_seq : Nat]
           /\ [r EXCEPT !.store = st, !.agent = ag, !.turns = tu, !.turn_seq = q]
                \in [provider : P, store : S, agent : A, turns : T, turn_seq : Nat]
  OBVIOUS

LEMMA ChatAnsweredGood ==
    ASSUME WebInv, NEW t \in Threads, ChatAnswered(t)
    PROVE  WebInv'
<1> DEFINE s == State.agent.store
           n == req[t].number
           x == [NoReply EXCEPT !.kind = "chat", !.ledger = written[s]]
           turn == [seq |-> State.turn_seq + 1, chat |-> n]
<1>1. /\ pc[t] = "applied" /\ req[t].kind = "chat" /\ Answers(t, x)
      /\ State' = TurnRecorded(n) /\ UNCHANGED <<written, failed>>
  BY DEF ChatAnswered, AnswersLedger, Doing
<1>2. /\ pc' = [pc EXCEPT ![t] = "idle"] /\ req' = [req EXCEPT ![t] = NoRequest]
      /\ reply' = [reply EXCEPT ![t] = x] /\ requests' = requests
      /\ lock' = IF lock = t THEN None ELSE lock
      /\ DOMAIN req = Threads /\ DOMAIN pc = Threads
  BY <1>1 DEF Answers, Goes, WebInv, TypeOK
<1>3. /\ State'.store = State.store /\ State'.agent = State.agent
      /\ State'.provider = State.provider
      /\ State'.turns = Append(State.turns, turn) /\ State'.turn_seq = State.turn_seq + 1
  BY <1>1 DEF TurnRecorded, WebInv, TypeOK
<1>4. s = State.store /\ s \in Stores /\ n \in written[s] /\ written[s] \in SUBSET Numbers
  BY <1>1 DEF WebInv, TypeOK, AgentFollows, Numbered
<1>5. /\ State.turns \in Seq([seq : Nat, chat : Numbers]) /\ State.turn_seq \in Nat
      /\ State.turn_seq = Len(State.turns)
  BY DEF WebInv, TypeOK, LedgerExplained
<1>6. \A u \in Threads : pc[u] # "cleared"
  BY <1>1, Alone DEF Inside
<1>7. turn \in [seq : Nat, chat : Numbers]
  BY <1>4, <1>5
<1> HIDE DEF turn
<1>8. /\ State'.turns \in Seq([seq : Nat, chat : Numbers])
      /\ Len(State'.turns) = State.turn_seq + 1
      /\ DOMAIN State'.turns = DOMAIN State.turns \cup {State.turn_seq + 1}
      /\ \A k \in DOMAIN State.turns : State'.turns[k] = State.turns[k]
      /\ State'.turns[State.turn_seq + 1] = turn
  BY <1>3, <1>5, <1>7
<1>9. TypeOK'
  <2>1. x \in [kind : Kinds \cup {"none", "error"}, ledger : SUBSET Numbers,
               provider : Providers \cup {None}, model : Providers \cup {None}]
    BY <1>4 DEF NoReply, Kinds
  <2>2. NoRequest \in [kind : Kinds \cup {"none"}, number : 0 .. MaxRequests,
                       to : Providers \cup {None}]
    BY WebAssumption DEF NoRequest
  <2>3. State' \in [provider : Providers, store : Stores,
                    agent : [model : Providers, store : Stores],
                    turns : Seq([seq : Nat, chat : Numbers]), turn_seq : Nat]
    <3> DEFINE Turns == Seq([seq : Nat, chat : Numbers])
               Agents == [model : Providers, store : Stores]
    <3>1. PICK b : b = Append(State.turns, turn)
      OBVIOUS
    <3>2. State' = [State EXCEPT !.turn_seq = State.turn_seq + 1, !.turns = b]
      BY <1>1, <3>1 DEF TurnRecorded, turn, WebInv, TypeOK
    <3>3. b \in Turns /\ State.turn_seq + 1 \in Nat
      BY <1>3, <1>5, <1>8, <3>1
    <3>4. /\ State \in [provider : Providers, store : Stores, agent : Agents,
                        turns : Turns, turn_seq : Nat]
          /\ State.store \in Stores /\ State.agent \in Agents
      BY DEF WebInv, TypeOK
    <3> HIDE DEF Turns, Agents
    <3>5. QED BY <3>2, <3>3, <3>4, StateWith DEF Turns, Agents
  <2> HIDE DEF x
  <2>4. QED BY <1>1, <1>2, <2>1, <2>2, <2>3 DEF WebInv, TypeOK
<1> HIDE DEF x
<1>10. HolderInside' /\ Handling' /\ Numbered'
  BY <1>1, AnsweredGood DEF Inside
<1>11. AgentFollows'
  BY <1>1, <1>2, <1>3 DEF WebInv, AgentFollows
<1>12. StoresLeft'
  BY <1>1, <1>3, AnsweredStores
<1>13. LedgerExplained'
  <2> DEFINE traced == {State.turns[k].chat : k \in DOMAIN State.turns}
  <2>1. {State'.turns[k].chat : k \in DOMAIN State'.turns} = traced \cup {n}
    BY <1>8 DEF turn
  <2>2. written[s] \subseteq traced \cup failed \cup {req[u].number : u \in Threads}
    BY DEF WebInv, LedgerExplained
  <2>3. written[s] \subseteq (traced \cup {n}) \cup failed \cup {req'[u].number : u \in Threads}
    BY <1>2, <2>2
  <2>4. traced \subseteq written[s]
    BY <1>6 DEF WebInv, LedgerExplained
  <2>5. \A k \in DOMAIN State'.turns : State'.turns[k].seq = k
    BY <1>8 DEF WebInv, LedgerExplained, turn
  <2>6. State'.turn_seq = Len(State'.turns)
    BY <1>3, <1>8
  <2> HIDE DEF traced
  <2>7. QED BY <1>1, <1>3, <1>4, <2>1, <2>3, <2>4, <2>5, <2>6 DEF LedgerExplained
<1>14. QED BY <1>9, <1>10, <1>11, <1>12, <1>13 DEF WebInv

LEMMA ResetDoneGood ==
    ASSUME WebInv, NEW t \in Threads, ResetDone(t)
    PROVE  WebInv'
<1> DEFINE x == [NoReply EXCEPT !.kind = "reset", !.ledger = written[State'.agent.store]]
<1>1. /\ pc[t] = "cleared" /\ req[t].kind = "reset" /\ Answers(t, x)
      /\ State' = StartedOver(State) /\ UNCHANGED <<written, failed>>
  BY DEF ResetDone, AnswersLedger, Doing
<1>2. /\ pc' = [pc EXCEPT ![t] = "idle"] /\ req' = [req EXCEPT ![t] = NoRequest]
      /\ reply' = [reply EXCEPT ![t] = x] /\ requests' = requests
      /\ lock' = IF lock = t THEN None ELSE lock
  BY <1>1 DEF Answers, Goes
<1>3. /\ State'.store = State.store + 1 /\ State'.provider = State.provider
      /\ State'.agent = [model |-> State.provider, store |-> State.store + 1]
      /\ State'.turns = <<>> /\ State'.turn_seq = 0
  BY <1>1 DEF StartedOver, WebInv, TypeOK
<1>4. /\ Resetting' = Resetting \ {t} /\ t \in Resetting
      /\ IsFiniteSet(Resetting) /\ Cardinality(Resetting) \in Nat
  <2>1. t \in Resetting /\ IsFiniteSet(Resetting)
    BY <1>1 DEF Resetting, WebInv, StoresLeft
  <2>2. Resetting' = Resetting \ {t}
    BY <1>2 DEF Resetting, NoRequest, WebInv, TypeOK
  <2>3. QED BY <2>1, <2>2, FS_CardinalityType
<1>5. /\ IsFiniteSet(Resetting') /\ Cardinality(Resetting') = Cardinality(Resetting) - 1
      /\ Cardinality(Resetting') \in Nat
  BY <1>4, FS_RemoveElement, FS_CardinalityType
<1>6. State.store \in Nat /\ requests \in 0 .. MaxRequests
  BY WebAssumption DEF WebInv, TypeOK, Stores
<1>7. State.store + 1 \in Stores
  BY <1>4, <1>5, <1>6, WebAssumption DEF WebInv, StoresLeft, Stores
<1>8. written[State.store + 1] = {}
  BY <1>6, <1>7 DEF WebInv, StoresLeft
<1>9. TypeOK'
  <2>1. x \in [kind : Kinds \cup {"none", "error"}, ledger : SUBSET Numbers,
               provider : Providers \cup {None}, model : Providers \cup {None}]
    <3>1. PICK shown : shown = written[State'.agent.store]
      OBVIOUS
    <3>2. shown = {}
      BY <1>3, <1>8, <3>1
    <3>3. x = [NoReply EXCEPT !.kind = "reset", !.ledger = shown]
      BY <3>1
    <3> HIDE DEF x
    <3>4. QED BY <3>2, <3>3 DEF NoReply, Kinds
  <2>2. NoRequest \in [kind : Kinds \cup {"none"}, number : 0 .. MaxRequests,
                       to : Providers \cup {None}]
    BY WebAssumption DEF NoRequest
  <2>3. State' \in [provider : Providers, store : Stores,
                    agent : [model : Providers, store : Stores],
                    turns : Seq([seq : Nat, chat : Numbers]), turn_seq : Nat]
    <3> DEFINE Turns == Seq([seq : Nat, chat : Numbers])
               Agents == [model : Providers, store : Stores]
    <3>1. PICK ag : ag = [model |-> State.provider, store |-> State.store + 1]
      OBVIOUS
    <3>2. State' = [State EXCEPT !.store = State.store + 1, !.agent = ag,
                                 !.turns = <<>>, !.turn_seq = 0]
      BY <1>1, <3>1 DEF StartedOver
    <3>3. /\ State \in [provider : Providers, store : Stores, agent : Agents,
                        turns : Turns, turn_seq : Nat]
          /\ State.provider \in Providers
      BY DEF WebInv, TypeOK
    <3>4. ag \in Agents /\ <<>> \in Turns
      BY <1>7, <3>1, <3>3
    <3> HIDE DEF Turns, Agents
    <3>5. QED BY <1>7, <3>2, <3>3, <3>4, StateWith DEF Turns, Agents
  <2> HIDE DEF x
  <2>4. QED BY <1>1, <1>2, <2>1, <2>2, <2>3 DEF WebInv, TypeOK
<1> HIDE DEF x
<1>10. HolderInside' /\ Handling' /\ Numbered'
  BY <1>1, AnsweredGood DEF Inside
<1>11. AgentFollows'
  BY <1>3 DEF AgentFollows
<1>12. StoresLeft'
  <2>1. Cardinality(Resetting) \in Nat /\ State.store + Cardinality(Resetting) <= requests
    BY <1>4 DEF WebInv, StoresLeft
  <2>2. State'.store + Cardinality(Resetting') <= requests'
    BY <1>2, <1>3, <1>5, <1>6, <2>1
  <2>3. ASSUME NEW r \in Stores, r > State'.store PROVE written'[r] = {}
    <3>1. r > State.store
      BY <1>3, <1>6, <2>3, WebAssumption DEF Stores
    <3>2. QED BY <1>1, <3>1 DEF WebInv, StoresLeft
  <2>4. QED BY <1>5, <2>2, <2>3 DEF StoresLeft
<1>13. LedgerExplained'
  <2>1. written'[State'.agent.store] = {}
    BY <1>1, <1>3, <1>8
  <2>2. DOMAIN State'.turns = {} /\ Len(State'.turns) = 0
    BY <1>3
  <2>3. QED BY <1>3, <2>1, <2>2 DEF LedgerExplained
<1>14. QED BY <1>9, <1>10, <1>11, <1>12, <1>13 DEF WebInv

-----------------------------------------------------------------------------
LEMMA StepGood == WebInv /\ [Next]_vars => WebInv'
<1> SUFFICES ASSUME WebInv, [Next]_vars PROVE WebInv'
  OBVIOUS
<1>1. CASE UNCHANGED vars
  <2>1. TypeOK' /\ HolderInside' /\ Handling'
    BY <1>1 DEF vars, WebInv, TypeOK, HolderInside, Handling
  <2>2. Numbered' /\ AgentFollows'
    BY <1>1 DEF vars, WebInv, Numbered, AgentFollows
  <2>3. StoresLeft'
    BY <1>1 DEF vars, WebInv, StoresLeft, Resetting
  <2>4. LedgerExplained'
    BY <1>1 DEF vars, WebInv, LedgerExplained
  <2>5. QED BY <2>1, <2>2, <2>3, <2>4 DEF WebInv
<1>2. ASSUME NEW t \in Threads, Arrive(t) \/ Step(t) PROVE WebInv'
  BY <1>2, ArriveGood, AcquireGood, ReadGood, ReadNameGood, ReadModelGood, ChatAppliesGood,
     ChatFailsGood, ChatAnsweredGood, RenameGood, RebuildGood, ResetClearsGood, ResetDoneGood
     DEF Step
<1>3. QED BY <1>1, <1>2 DEF Next, Quiet

(* The inductive invariant, for any threads and any number of requests.     *)
THEOREM WebInvariantHolds == Spec => []WebInv
  BY InitGood, StepGood, PTL DEF Spec

(* The store of the agent holds what the recorded turns wrote and what      *)
(* chats that failed or are under way left there, and turns are numbered    *)
(* without gaps (chat and reset in web/server.py).            *)
THEOREM LedgerIsExplained == Spec => []LedgerExplained
<1>1. WebInv => LedgerExplained
  BY DEF WebInv
<1>2. QED BY <1>1, WebInvariantHolds, PTL

(* Whenever the lock is free, the agent is the one of the store and of the  *)
(* provider the settings name (_State.rebuild, web/server.py).              *)
THEOREM AgentStaysCurrent == Spec => []AgentIsCurrent
<1>1. WebInv => AgentIsCurrent
  <2> SUFFICES ASSUME WebInv, lock = None PROVE State.agent = [model |-> State.provider, store |-> State.store]
    BY DEF AgentIsCurrent
  <2>1. \A t \in Threads : pc[t] # "renamed"
    BY WebAssumption DEF WebInv, HolderInside, Inside
  <2>2. State.agent.store = State.store /\ State.agent.model = State.provider
    BY <2>1 DEF WebInv, AgentFollows
  <2>3. State.agent \in [model : Providers, store : Stores]
    BY DEF WebInv, TypeOK
  <2>4. QED BY <2>2, <2>3
<1>2. QED BY <1>1, WebInvariantHolds, PTL

-----------------------------------------------------------------------------
(* A change of a thread's reply to kind "chat" is the end of its chat. *)
LEMMA OnlyChatAnswers ==
    ASSUME WebInv, NEW t \in Threads, Step(t), NEW u \in Threads,
           reply'[u] # reply[u], reply'[u].kind = "chat"
    PROVE  u = t /\ ChatAnswered(t)
<1>1. DOMAIN reply = Threads /\ reply[t].kind \in Kinds \cup {"none", "error"}
  BY DEF WebInv, TypeOK
<1>2. reply[t] \in [kind : Kinds \cup {"none", "error"}, ledger : SUBSET Numbers,
                   provider : Providers \cup {None}, model : Providers \cup {None}]
  BY DEF WebInv, TypeOK
<1>3. CASE \/ Acquire(t) \/ ChatApplies(t) \/ Rename(t) \/ ResetClears(t)
  BY <1>3 DEF Acquire, ChatApplies, Rename, ResetClears
<1>4. CASE Read(t)
  <2>1. req[t].kind \in {"ledger", "turns"}
    BY <1>4 DEF Read, Doing
  <2>2. reply' = [reply EXCEPT ![t] = [NoReply EXCEPT !.kind = req[t].kind,
                                                      !.ledger = written[State.agent.store]]]
    BY <1>4 DEF Read, AnswersLedger, Answers
  <2>3. QED BY <1>1, <2>1, <2>2 DEF NoReply
<1>5. CASE ReadName(t)
  <2>1. reply' = [reply EXCEPT ![t] = [NoReply EXCEPT !.provider = State.provider]]
    BY <1>5 DEF ReadName
  <2>2. QED BY <1>1, <2>1 DEF NoReply
<1>6. CASE ReadModel(t)
  <2>1. reply' = [reply EXCEPT ![t] = [reply[t] EXCEPT !.kind = "state",
                                                       !.model = State.provider]]
    BY <1>6 DEF ReadModel, Answers
  <2>2. QED BY <1>1, <1>2, <2>1
<1>7. CASE ChatFails(t)
  <2>1. reply' = [reply EXCEPT ![t] = [NoReply EXCEPT !.kind = "error"]]
    BY <1>7 DEF ChatFails, Answers
  <2>2. QED BY <1>1, <2>1 DEF NoReply
<1>8. CASE Rebuild(t)
  <2>1. reply' = [reply EXCEPT ![t] = [NoReply EXCEPT !.kind = "provider",
                                !.provider = State.provider, !.model = State.provider]]
    BY <1>8 DEF Rebuild, Answers
  <2>2. QED BY <1>1, <2>1 DEF NoReply
<1>9. CASE ResetDone(t)
  <2>1. reply' = [reply EXCEPT ![t] = [NoReply EXCEPT !.kind = "reset",
                                                !.ledger = written[State'.agent.store]]]
    BY <1>9 DEF ResetDone, AnswersLedger, Answers
  <2>2. QED BY <1>1, <2>1 DEF NoReply
<1>10. CASE ChatAnswered(t)
  <2>1. PICK x : reply' = [reply EXCEPT ![t] = x]
    BY <1>10 DEF ChatAnswered, AnswersLedger, Answers
  <2>2. QED BY <1>1, <1>10, <2>1
<1>11. QED BY <1>3, <1>4, <1>5, <1>6, <1>7, <1>8, <1>9, <1>10 DEF Step

(* What a reply to t shows, in the step that gives it: see ChatSeesItself. *)
ReplyBounded(t) ==
    LET recorded == {State'.turns[k].chat : k \in DOMAIN State'.turns}
    IN  /\ recorded \cup {req[t].number} \subseteq reply'[t].ledger
        /\ reply'[t].ledger \subseteq recorded \cup failed

LEMMA AnsweredSees ==
    ASSUME WebInv, NEW t \in Threads, ChatAnswered(t)
    PROVE  ReplyBounded(t)
<1> DEFINE n == req[t].number
           turn == [seq |-> State.turn_seq + 1, chat |-> n]
<1>1. /\ pc[t] = "applied" /\ State' = TurnRecorded(n)
      /\ reply' = [reply EXCEPT ![t] = [NoReply EXCEPT !.kind = "chat",
                                                !.ledger = written[State.agent.store]]]
  BY DEF ChatAnswered, AnswersLedger, Answers, Doing
<1>2. reply'[t].ledger = written[State.agent.store]
  BY <1>1 DEF NoReply, WebInv, TypeOK
<1>3. n \in written[State.agent.store]
  BY <1>1 DEF WebInv, Numbered, AgentFollows
<1>4. \A u \in Threads : pc[u] # "cleared"
  BY <1>1, Alone DEF Inside
<1>5. \A k \in DOMAIN State.turns : State.turns[k].chat \in written[State.agent.store]
  BY <1>4 DEF WebInv, LedgerExplained
<1>6. State'.turns = Append(State.turns, turn)
  BY <1>1 DEF TurnRecorded, WebInv, TypeOK
<1>7. State.turns \in Seq([seq : Nat, chat : Numbers])
  BY DEF WebInv, TypeOK
<1>8. ASSUME NEW k \in DOMAIN State'.turns PROVE State'.turns[k].chat \in reply'[t].ledger
  <2>1. \/ k \in DOMAIN State.turns /\ State'.turns[k] = State.turns[k]
        \/ State'.turns[k] = turn
    BY <1>6, <1>7, <1>8
  <2>2. QED BY <1>2, <1>3, <1>5, <2>1
<1>9. ASSUME NEW w \in reply'[t].ledger
      PROVE  w \in {State'.turns[k].chat : k \in DOMAIN State'.turns} \cup failed
  <2>1. \/ \E k \in DOMAIN State.turns : w = State.turns[k].chat
        \/ w \in failed
        \/ \E u \in Threads : w = req[u].number
    BY <1>2, <1>9 DEF WebInv, LedgerExplained
  <2>2. ASSUME NEW k \in DOMAIN State.turns, w = State.turns[k].chat
        PROVE  \E j \in DOMAIN State'.turns : w = State'.turns[j].chat
    BY <1>6, <1>7, <2>2
  <2>3. ASSUME NEW u \in Threads, w = req[u].number PROVE u = t
    <3>1. State.agent.store \in Stores
      BY DEF WebInv, TypeOK
    <3>2. pc[u] = "applied"
      BY <1>2, <1>9, <2>3, <3>1 DEF WebInv, Numbered
    <3>3. QED BY <1>1, <3>2 DEF WebInv, HolderInside, Inside
  <2>4. /\ Len(State.turns) + 1 \in DOMAIN State'.turns
        /\ State'.turns[Len(State.turns) + 1].chat = n
    <3> HIDE DEF n
    <3>1. QED BY <1>6, <1>7
  <2>5. QED BY <2>1, <2>2, <2>3, <2>4
<1>10. QED BY <1>2, <1>3, <1>8, <1>9 DEF ReplyBounded

(* A chat's answer shows its own memories, those of every turn recorded and *)
(* what failed chats left, and nothing else (chat, web/server.py: the       *)
(* ledger is read after the turn, in the same hold of the lock).            *)
THEOREM ChatsSeeThemselves == Spec => ChatSeesItself
<1> DEFINE Sees == \A t \in Threads :
               reply'[t] # reply[t] /\ reply'[t].kind = "chat" => ReplyBounded(t)
<1>1. WebInv /\ [Next]_vars => [Sees]_vars
  <2> SUFFICES ASSUME WebInv, Next, NEW u \in Threads, reply'[u] # reply[u],
                      reply'[u].kind = "chat"
               PROVE  ReplyBounded(u)
    BY DEF vars
  <2>1. CASE Quiet
    BY <2>1 DEF Quiet, vars
  <2>2. ASSUME NEW t \in Threads, Arrive(t) PROVE FALSE
    BY <2>2 DEF Arrive
  <2>3. ASSUME NEW t \in Threads, Step(t) PROVE u = t /\ ChatAnswered(t)
    BY <2>3, OnlyChatAnswers
  <2>4. QED BY <2>1, <2>2, <2>3, AnsweredSees DEF Next
<1>2. [Sees]_vars <=> [\A t \in Threads :
         reply'[t] # reply[t] /\ reply'[t].kind = "chat" =>
             LET recorded == {State'.turns[k].chat : k \in DOMAIN State'.turns}
             IN  /\ recorded \cup {req[t].number} \subseteq reply'[t].ledger
                 /\ reply'[t].ledger \subseteq recorded \cup failed]_vars
  BY DEF ReplyBounded
<1>3. QED BY <1>1, <1>2, WebInvariantHolds, PTL DEF Spec, ChatSeesItself
=============================================================================
