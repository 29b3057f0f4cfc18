---------------------------- MODULE DiscordProofs ---------------------------
(***************************************************************************)
(* Proofs about the package discord (src/internal/discord): about Sender,  *)
(* for any set of concurrent calls, any number of retries and any waits    *)
(* Discord may announce, and about Gateway, for any number of connections  *)
(* and of heartbeats Discord may request.  The two share nothing but the   *)
(* bot.                                                                    *)
(*                                                                         *)
(* One inductive invariant carries the results about Sender: the types,    *)
(* the mutex (a call is past the lock exactly while it holds it), the      *)
(* attempt counter, and nextSend against the waits asked for.  Gateway has *)
(* three arguments: what a connection has while the reader is in it, how   *)
(* many heartbeats the loop may still send in silence, and which session   *)
(* the stored sequence number belongs to.                                  *)
(***************************************************************************)
EXTENDS Sender, Gateway, TLAPS

-----------------------------------------------------------------------------
(***************************************************************************)
(* Sender.                                                                 *)
(***************************************************************************)

(* The back-off of every attempt is a positive number of time units.       *)
LEMMA BackoffType == \A n \in Nat : retryBackoff(n) \in Nat \ {0}
<1> SUFFICES ASSUME NEW n \in Nat PROVE retryBackoff(n) \in Nat \ {0}
  OBVIOUS
<1>1. CASE n > 5
  BY <1>1 DEF retryBackoff
<1>2. CASE n \in {0, 1, 2, 3, 4, 5}
  BY <1>2 DEF retryBackoff
<1> QED
  BY <1>1, <1>2

Inv == TypeOK /\ OneAtATime /\ TriesBounded /\ Counting

(* Every step keeps the types. *)
LEMMA NextTypeOK == Inv /\ [Next]_vars => TypeOK'
<1> SUFFICES ASSUME Inv, [Next]_vars PROVE TypeOK'
  OBVIOUS
<1> USE SenderAssumption DEF Inv
<1>1. ASSUME NEW c \in Call, Begin(c) PROVE TypeOK'
  BY <1>1 DEF Begin, TypeOK, history, asked
<1>2. ASSUME NEW c \in Call, Lock(c) PROVE TypeOK'
  BY <1>2 DEF Lock, TypeOK, history, asked
<1>3. ASSUME NEW c \in Call, Request(c) PROVE TypeOK'
  BY <1>3 DEF Request, TypeOK, asked
<1>4. ASSUME NEW c \in Call, Answer(c) PROVE TypeOK'
  <2>1. attempt \in Nat /\ retryBackoff(attempt) \in Nat
    BY BackoffType DEF TypeOK
  <2>2. CASE NetError(c)
    BY <2>1, <2>2 DEF NetError, Create, Return, Backoff, TypeOK, asked
  <2>3. CASE ReadError(c)
    BY <2>3 DEF ReadError, Create, Return, TypeOK, asked
  <2>4. ASSUME NEW reset \in Wait \cup {0}, Success(c, reset) PROVE TypeOK'
    <3>1. limited' \in BOOLEAN
      BY <2>4 DEF Success, Asked
    <3> QED
      BY <2>4, <3>1 DEF Success, Create, Return, updateRateWindow, TypeOK, Asked
  <2>5. ASSUME NEW reset \in Wait \cup {0}, Rejected(c, reset) PROVE TypeOK'
    <3>1. limited' \in BOOLEAN
      BY <2>5 DEF Rejected, Asked
    <3> QED
      BY <2>5, <3>1 DEF Rejected, Return, updateRateWindow, TypeOK, Asked
  <2>6. ASSUME NEW reset \in Wait \cup {0}, ServerError(c, reset) PROVE TypeOK'
    <3>1. limited' \in BOOLEAN
      BY <2>6 DEF ServerError, Asked
    <3> QED
      BY <2>1, <2>6, <3>1
         DEF ServerError, Create, Return, Backoff, updateRateWindow, TypeOK, Asked
  <2>7. ASSUME NEW retry \in Wait \cup {0}, NEW reset \in Wait \cup {0},
               Limited(c, retry, reset)
        PROVE  TypeOK'
    <3>1. nextSend' \in Nat
      BY <2>1, <2>7 DEF Limited, TypeOK, Asked
    <3>2. attempt' \in 0..MaxRetries
      BY <2>7 DEF Limited, TypeOK, Asked
    <3>3. /\ mu' \in Call \cup {NoCall}
          /\ pc' \in [Call -> {"idle", "lock", "gate", "http", "backoff", "returned"}]
          /\ result' \in [Call -> {"none", "nil", "error"}]
      BY <2>7 DEF Limited, Return, TypeOK, Asked
    <3> QED
      BY <2>7, <3>1, <3>2, <3>3 DEF Limited, TypeOK, Asked
  <2> QED
    BY <1>4, <2>2, <2>3, <2>4, <2>5, <2>6, <2>7 DEF Answer
<1>5. ASSUME NEW c \in Call, Wake(c) PROVE TypeOK'
  <2>1. attempt + 1 \in 0..MaxRetries
    BY <1>5 DEF Wake, Counting, TypeOK, asked
  <2> QED
    BY <1>5, <2>1 DEF Wake, TypeOK, history, asked
<1>6. CASE Tick
  BY <1>6 DEF Tick, Less1, TypeOK
<1>7. CASE UNCHANGED vars
  BY <1>7 DEF vars, history, asked, TypeOK
<1>8. ASSUME NEW c \in Call, BadRequest(c) PROVE TypeOK'
  BY <1>8 DEF BadRequest, Return, history, asked, TypeOK
<1> QED
  BY <1>1, <1>2, <1>3, <1>4, <1>5, <1>6, <1>7, <1>8 DEF Next

(* The mutex is taken by Lock and released by Return, and by nothing else. *)
LEMMA NextOneAtATime == Inv /\ [Next]_vars => OneAtATime'
<1> SUFFICES ASSUME Inv, [Next]_vars PROVE OneAtATime'
  OBVIOUS
<1> USE SenderAssumption DEF Inv
<1>1. ASSUME NEW c \in Call, Begin(c) PROVE OneAtATime'
  BY <1>1 DEF Begin, history, asked, OneAtATime, Inside, TypeOK
<1>2. ASSUME NEW c \in Call, Lock(c) PROVE OneAtATime'
  BY <1>2 DEF Lock, history, asked, OneAtATime, Inside, TypeOK
<1>3. ASSUME NEW c \in Call, Request(c) PROVE OneAtATime'
  BY <1>3 DEF Request, OneAtATime, Inside, TypeOK, asked
<1>4. ASSUME NEW c \in Call, Answer(c) PROVE OneAtATime'
  <2>1. CASE NetError(c)
    BY <2>1 DEF NetError, Create, Return, Backoff, OneAtATime, Inside, TypeOK, asked
  <2>2. CASE ReadError(c)
    BY <2>2 DEF ReadError, Create, Return, OneAtATime, Inside, TypeOK, asked
  <2>3. ASSUME NEW reset \in Wait \cup {0}, Success(c, reset) PROVE OneAtATime'
    BY <2>3 DEF Success, Create, Return, OneAtATime, Inside, TypeOK, Asked
  <2>4. ASSUME NEW reset \in Wait \cup {0}, Rejected(c, reset) PROVE OneAtATime'
    BY <2>4 DEF Rejected, Return, OneAtATime, Inside, TypeOK, Asked
  <2>5. ASSUME NEW reset \in Wait \cup {0}, ServerError(c, reset) PROVE OneAtATime'
    BY <2>5 DEF ServerError, Create, Return, Backoff, OneAtATime, Inside, TypeOK, Asked
  <2>6. ASSUME NEW retry \in Wait \cup {0}, NEW reset \in Wait \cup {0},
               Limited(c, retry, reset)
        PROVE  OneAtATime'
    BY <2>6 DEF Limited, Return, OneAtATime, Inside, TypeOK, Asked
  <2> QED
    BY <1>4, <2>1, <2>2, <2>3, <2>4, <2>5, <2>6 DEF Answer
<1>5. ASSUME NEW c \in Call, Wake(c) PROVE OneAtATime'
  BY <1>5 DEF Wake, history, asked, OneAtATime, Inside, TypeOK
<1>6. CASE Tick
  BY <1>6 DEF Tick, OneAtATime, Inside, TypeOK
<1>7. CASE UNCHANGED vars
  BY <1>7 DEF vars, history, asked, OneAtATime, Inside, TypeOK
<1>8. ASSUME NEW c \in Call, BadRequest(c) PROVE OneAtATime'
  BY <1>8 DEF BadRequest, Return, history, asked, OneAtATime, Inside, TypeOK
<1> QED
  BY <1>1, <1>2, <1>3, <1>4, <1>5, <1>6, <1>7, <1>8 DEF Next

(* A request counts as the attempt the loop is in. *)
LEMMA NextTriesBounded == Inv /\ [Next]_vars => TriesBounded'
<1> SUFFICES ASSUME Inv, [Next]_vars PROVE TriesBounded'
  OBVIOUS
<1> USE SenderAssumption DEF Inv
<1>1. ASSUME NEW c \in Call, Begin(c) PROVE TriesBounded'
  BY <1>1 DEF Begin, history, asked, OneAtATime, Inside, TriesBounded, Counting, TypeOK
<1>2. ASSUME NEW c \in Call, Lock(c) PROVE TriesBounded'
  BY <1>2 DEF Lock, history, asked, OneAtATime, Inside, TriesBounded, Counting, TypeOK
<1>3. ASSUME NEW c \in Call, Request(c) PROVE TriesBounded'
  BY <1>3 DEF Request, OneAtATime, Inside, TriesBounded, Counting, TypeOK, asked
<1>4. ASSUME NEW c \in Call, Answer(c) PROVE TriesBounded'
  <2>1. CASE NetError(c)
    BY <2>1
       DEF NetError, Create, Return, Backoff, OneAtATime, Inside, TriesBounded,
           Counting, TypeOK, asked
  <2>2. CASE ReadError(c)
    BY <2>2
       DEF ReadError, Create, Return, OneAtATime, Inside, TriesBounded, Counting,
           TypeOK, asked
  <2>3. ASSUME NEW reset \in Wait \cup {0}, Success(c, reset) PROVE TriesBounded'
    BY <2>3
       DEF Success, Create, Return, OneAtATime, Inside, TriesBounded, Counting, TypeOK,
           Asked
  <2>4. ASSUME NEW reset \in Wait \cup {0}, Rejected(c, reset) PROVE TriesBounded'
    BY <2>4
       DEF Rejected, Return, OneAtATime, Inside, TriesBounded, Counting, TypeOK, Asked
  <2>5. ASSUME NEW reset \in Wait \cup {0}, ServerError(c, reset) PROVE TriesBounded'
    BY <2>5
       DEF ServerError, Create, Return, Backoff, OneAtATime, Inside, TriesBounded,
           Counting, TypeOK, Asked
  <2>6. ASSUME NEW retry \in Wait \cup {0}, NEW reset \in Wait \cup {0},
               Limited(c, retry, reset)
        PROVE  TriesBounded'
    BY <2>6 DEF Limited, Return, OneAtATime, Inside, TriesBounded, Counting, TypeOK, Asked
  <2> QED
    BY <1>4, <2>1, <2>2, <2>3, <2>4, <2>5, <2>6 DEF Answer
<1>5. ASSUME NEW c \in Call, Wake(c) PROVE TriesBounded'
  BY <1>5 DEF Wake, history, asked, OneAtATime, Inside, TriesBounded, Counting, TypeOK
<1>6. CASE Tick
  BY <1>6 DEF Tick, OneAtATime, Inside, TriesBounded, Counting, TypeOK
<1>7. CASE UNCHANGED vars
  BY <1>7 DEF vars, history, asked, OneAtATime, Inside, TriesBounded, Counting, TypeOK
<1>8. ASSUME NEW c \in Call, BadRequest(c) PROVE TriesBounded'
  BY <1>8
     DEF BadRequest, Return, history, asked, OneAtATime, Inside, TriesBounded,
         Counting, TypeOK
<1> QED
  BY <1>1, <1>2, <1>3, <1>4, <1>5, <1>6, <1>7, <1>8 DEF Next

(* Requests and results belong to the calls that have had the mutex. *)
LEMMA NextCounting == Inv /\ [Next]_vars => Counting'
<1> SUFFICES ASSUME Inv, [Next]_vars PROVE Counting'
  OBVIOUS
<1> USE SenderAssumption DEF Inv
<1>1. ASSUME NEW c \in Call, Begin(c) PROVE Counting'
  BY <1>1 DEF Begin, history, asked, OneAtATime, Inside, Counting, TypeOK
<1>2. ASSUME NEW c \in Call, Lock(c) PROVE Counting'
  BY <1>2 DEF Lock, history, asked, OneAtATime, Inside, Counting, TypeOK
<1>3. ASSUME NEW c \in Call, Request(c) PROVE Counting'
  BY <1>3 DEF Request, OneAtATime, Inside, Counting, TypeOK, asked
<1>4. ASSUME NEW c \in Call, Answer(c) PROVE Counting'
  <2>1. CASE NetError(c)
    BY <2>1
       DEF NetError, Create, Return, Backoff, OneAtATime, Inside, Counting, TypeOK, asked
  <2>2. CASE ReadError(c)
    BY <2>2 DEF ReadError, Create, Return, OneAtATime, Inside, Counting, TypeOK, asked
  <2>3. ASSUME NEW reset \in Wait \cup {0}, Success(c, reset) PROVE Counting'
    BY <2>3 DEF Success, Create, Return, OneAtATime, Inside, Counting, TypeOK, Asked
  <2>4. ASSUME NEW reset \in Wait \cup {0}, Rejected(c, reset) PROVE Counting'
    BY <2>4 DEF Rejected, Return, OneAtATime, Inside, Counting, TypeOK, Asked
  <2>5. ASSUME NEW reset \in Wait \cup {0}, ServerError(c, reset) PROVE Counting'
    BY <2>5
       DEF ServerError, Create, Return, Backoff, OneAtATime, Inside, Counting, TypeOK,
           Asked
  <2>6. ASSUME NEW retry \in Wait \cup {0}, NEW reset \in Wait \cup {0},
               Limited(c, retry, reset)
        PROVE  Counting'
    BY <2>6 DEF Limited, Return, OneAtATime, Inside, Counting, TypeOK, Asked
  <2> QED
    BY <1>4, <2>1, <2>2, <2>3, <2>4, <2>5, <2>6 DEF Answer
<1>5. ASSUME NEW c \in Call, Wake(c) PROVE Counting'
  BY <1>5 DEF Wake, history, asked, OneAtATime, Inside, Counting, TypeOK
<1>6. CASE Tick
  BY <1>6 DEF Tick, OneAtATime, Inside, Counting, TypeOK
<1>7. CASE UNCHANGED vars
  BY <1>7 DEF vars, history, asked, OneAtATime, Inside, Counting, TypeOK
<1>8. ASSUME NEW c \in Call, BadRequest(c) PROVE Counting'
  BY <1>8 DEF BadRequest, Return, history, asked, OneAtATime, Inside, Counting, TypeOK
<1> QED
  BY <1>1, <1>2, <1>3, <1>4, <1>5, <1>6, <1>7, <1>8 DEF Next

(* Only a 2xx, or a request without a clear answer, creates a message. *)
LEMMA NextCreatedOnce == Inv /\ CreatedOnce /\ [Next]_vars => CreatedOnce'
<1> SUFFICES ASSUME Inv, CreatedOnce, [Next]_vars PROVE CreatedOnce'
  OBVIOUS
<1> USE SenderAssumption DEF Inv
<1>1. ASSUME NEW c \in Call, Begin(c) PROVE CreatedOnce'
  BY <1>1 DEF Begin, history, asked, OneAtATime, Inside, Counting, CreatedOnce, TypeOK
<1>2. ASSUME NEW c \in Call, Lock(c) PROVE CreatedOnce'
  BY <1>2 DEF Lock, history, asked, OneAtATime, Inside, Counting, CreatedOnce, TypeOK
<1>3. ASSUME NEW c \in Call, Request(c) PROVE CreatedOnce'
  BY <1>3 DEF Request, OneAtATime, Inside, Counting, CreatedOnce, TypeOK, asked
<1>4. ASSUME NEW c \in Call, Answer(c) PROVE CreatedOnce'
  <2>1. CASE NetError(c)
    BY <2>1
       DEF NetError, Create, Return, Backoff, OneAtATime, Inside, Counting,
           CreatedOnce, TypeOK, asked
  <2>2. CASE ReadError(c)
    BY <2>2
       DEF ReadError, Create, Return, OneAtATime, Inside, Counting, CreatedOnce,
           TypeOK, asked
  <2>3. ASSUME NEW reset \in Wait \cup {0}, Success(c, reset) PROVE CreatedOnce'
    BY <2>3
       DEF Success, Create, Return, OneAtATime, Inside, Counting, CreatedOnce, TypeOK,
           Asked
  <2>4. ASSUME NEW reset \in Wait \cup {0}, Rejected(c, reset) PROVE CreatedOnce'
    BY <2>4 DEF Rejected, Return, OneAtATime, Inside, Counting, CreatedOnce, TypeOK, Asked
  <2>5. ASSUME NEW reset \in Wait \cup {0}, ServerError(c, reset) PROVE CreatedOnce'
    BY <2>5
       DEF ServerError, Create, Return, Backoff, OneAtATime, Inside, Counting,
           CreatedOnce, TypeOK, Asked
  <2>6. ASSUME NEW retry \in Wait \cup {0}, NEW reset \in Wait \cup {0},
               Limited(c, retry, reset)
        PROVE  CreatedOnce'
    BY <2>6 DEF Limited, Return, OneAtATime, Inside, Counting, CreatedOnce, TypeOK, Asked
  <2> QED
    BY <1>4, <2>1, <2>2, <2>3, <2>4, <2>5, <2>6 DEF Answer
<1>5. ASSUME NEW c \in Call, Wake(c) PROVE CreatedOnce'
  BY <1>5 DEF Wake, history, asked, OneAtATime, Inside, Counting, CreatedOnce, TypeOK
<1>6. CASE Tick
  BY <1>6 DEF Tick, OneAtATime, Inside, Counting, CreatedOnce, TypeOK
<1>7. CASE UNCHANGED vars
  BY <1>7 DEF vars, history, asked, OneAtATime, Inside, Counting, CreatedOnce, TypeOK
<1>8. ASSUME NEW c \in Call, BadRequest(c) PROVE CreatedOnce'
  BY <1>8
     DEF BadRequest, Return, history, asked, OneAtATime, Inside, Counting, CreatedOnce,
         TypeOK
<1> QED
  BY <1>1, <1>2, <1>3, <1>4, <1>5, <1>6, <1>7, <1>8 DEF Next

(* Every step keeps nextSend at or after the waits of the latest response: *)
(* each response sets both, and time takes from both.                      *)
LEMMA NextGate == TypeOK /\ GateCoversWaits /\ [Next]_vars => GateCoversWaits'
<1> SUFFICES ASSUME TypeOK, GateCoversWaits, [Next]_vars PROVE GateCoversWaits'
  OBVIOUS
<1> USE SenderAssumption
<1>1. CASE UNCHANGED <<nextSend, asked>>
  BY <1>1 DEF GateCoversWaits, asked
<1>2. ASSUME NEW reset \in Wait \cup {0}, Asked(0, reset, FALSE),
             nextSend' = updateRateWindow(reset)
      PROVE  GateCoversWaits'
  BY <1>2 DEF GateCoversWaits, Asked, updateRateWindow, TypeOK
<1>3. ASSUME NEW c \in Call, NEW retry \in Wait \cup {0}, NEW reset \in Wait \cup {0},
             Limited(c, retry, reset)
      PROVE  GateCoversWaits'
  <2>1. retryBackoff(attempt) \in Nat
    BY BackoffType DEF TypeOK
  <2> QED
    BY <1>3, <2>1 DEF Limited, Asked, GateCoversWaits
<1>4. CASE Tick
  BY <1>4 DEF Tick, Less1, GateCoversWaits, TypeOK
<1>5. CASE UNCHANGED vars
  BY <1>1, <1>5 DEF vars, history
<1>6. ASSUME NEW c \in Call, Begin(c) \/ Lock(c) \/ Request(c) \/ BadRequest(c) \/ Wake(c)
      PROVE  GateCoversWaits'
  BY <1>1, <1>6 DEF Begin, Lock, Request, BadRequest, Wake, history
<1>7. ASSUME NEW c \in Call, Answer(c) PROVE GateCoversWaits'
  BY <1>1, <1>2, <1>3, <1>7
     DEF Answer, NetError, ReadError, Success, Rejected, ServerError
<1> QED
  BY <1>4, <1>5, <1>6, <1>7 DEF Next

-----------------------------------------------------------------------------
(* The inductive invariant holds in every reachable state.                 *)
LEMMA Inductive == Spec => []Inv
<1>1. Init => Inv
  <2> SUFFICES ASSUME Init PROVE Inv
    OBVIOUS
  <2>1. TypeOK
    <3>1. limited \in BOOLEAN
      BY DEF Init
    <3> QED
      BY <3>1, SenderAssumption DEF Init, TypeOK
  <2>2. OneAtATime /\ TriesBounded /\ Counting
    BY SenderAssumption DEF Init, OneAtATime, Inside, TriesBounded, Counting
  <2> QED
    BY <2>1, <2>2 DEF Inv
<1>2. Inv /\ [Next]_vars => Inv'
  BY NextTypeOK, NextOneAtATime, NextTriesBounded, NextCounting DEF Inv
<1> QED
  BY <1>1, <1>2, PTL DEF Spec

(* Discord never has two requests of this bot in flight: in particular a   *)
(* call that sleeps between two attempts keeps the others waiting.         *)
THEOREM Serialized == Spec => []OneAtATime
<1>1. Inv => OneAtATime
  BY DEF Inv
<1> QED
  BY <1>1, Inductive, PTL

(* No message is tried more than MaxRetries + 1 times.                     *)
THEOREM AttemptsAreBounded == Spec => []TriesBounded
<1>1. Inv => TriesBounded
  BY DEF Inv
<1> QED
  BY <1>1, Inductive, PTL

(* No request goes out before the Retry-After of the latest response, if   *)
(* it was a 429, is over, or its Reset-After, if it was not: whichever     *)
(* call that response answered (sender.go, Send).                          *)
THEOREM RequestsWait == Spec => WaitsAsTold
<1>1. Init => GateCoversWaits
  BY DEF Init, GateCoversWaits
<1>2. TypeOK /\ GateCoversWaits /\ [Next]_vars
        => [\A c \in Call : Request(c) => retryAfter = 0 /\ (limited \/ resetAfter = 0)]_vars
  BY DEF Request, GateCoversWaits, TypeOK
<1>3. Inv => TypeOK
  BY DEF Inv
<1> QED
  BY <1>1, <1>2, <1>3, NextGate, Inductive, PTL DEF Spec, WaitsAsTold

(* What Send returns is true, but for calls that got no clear answer.      *)
THEOREM ResultsAreHonest == Spec => []HonestResult
<1>1. Init => CreatedOnce
  BY DEF Init, CreatedOnce
<1>2. Inv /\ CreatedOnce => HonestResult
  <2> SUFFICES ASSUME TypeOK, CreatedOnce, NEW c \in Call
               PROVE  /\ result[c] = "nil" => created[c] > 0
                      /\ created[c] > 1 => c \in doubt
                      /\ (result[c] = "error" /\ c \notin doubt) => created[c] = 0
    BY DEF Inv, HonestResult
  <2>1. created[c] \in Nat
    BY DEF TypeOK
  <2>2. /\ c \notin doubt => created[c] = IF result[c] = "nil" THEN 1 ELSE 0
        /\ result[c] = "nil" => created[c] > 0
    BY DEF CreatedOnce
  <2> QED
    BY <2>1, <2>2
<1> QED
  BY <1>1, <1>2, NextCreatedOnce, Inductive, PTL DEF Spec

(* Calls that share the Sender exclude each other, and no message is tried *)
(* more often than one call may (sender.go, Send).                         *)
THEOREM SenderIsSafe == Spec => []Safety
<1>1. Inv => Safety
  BY DEF Inv, Safety
<1> QED
  BY <1>1, Inductive, PTL

-----------------------------------------------------------------------------
(***************************************************************************)
(* Gateway.                                                                *)
(***************************************************************************)

(* In a connection the WebSocket exists, from hello on the loop runs too,  *)
(* and between two connections neither does.                               *)
InConnection ==
    /\ run \in {"hello", "auth", "check", "read", "answer", "invalid"} => conn # "none"
    /\ run \in {"auth", "check", "read", "answer", "invalid"} => heartbeat # "off"
    /\ run \in {"dial", "hello", "backoff", "stopped"} => heartbeat = "off"

(* The initial state is outside of any connection. *)
LEMMA InitConnection == GatewayInit => InConnection /\ ConnectedInConnection
BY DEF GatewayInit, InConnection, ConnectedInConnection

(* Only Hello, Leave and Returned take the reader in or out, and connected *)
(* is only set by the reader.                                              *)
LEMMA NextConnection ==
    InConnection /\ ConnectedInConnection /\ [GatewayNext]_gatewayVars
        => InConnection' /\ ConnectedInConnection'
<1> SUFFICES ASSUME InConnection, ConnectedInConnection, [GatewayNext]_gatewayVars
             PROVE  InConnection' /\ ConnectedInConnection'
  OBVIOUS
<1> USE DEF InConnection, ConnectedInConnection
<1>1. ASSUME NEW ok \in BOOLEAN, Dial(ok) \/ Hello(ok) \/ Authenticate(ok)
      PROVE  InConnection' /\ ConnectedInConnection'
  BY <1>1 DEF Dial, Hello, Authenticate, Leave, loop
<1>2. CASE Check \/ Ready \/ BadReady \/ Resumed
  BY <1>2 DEF Check, Ready, BadReady, Resumed, Reading, Handled, Leave, loop
<1>3. CASE ReconnectRequested \/ InvalidSleepOver \/ Acknowledged \/ ReadFails
  BY <1>3 DEF ReconnectRequested, InvalidSleepOver, Acknowledged, ReadFails,
              Reading, Handled, Leave, loop
<1>4. ASSUME NEW b \in BOOLEAN, HeartbeatRequested \/ AnswerHeartbeat(b) \/ InvalidSession(b)
      PROVE  InConnection' /\ ConnectedInConnection'
  BY <1>4
     DEF HeartbeatRequested, AnswerHeartbeat, InvalidSession, Reading, Handled, Leave,
         loop
<1>5. ASSUME NEW ok \in BOOLEAN, FirstHeartbeat \/ HeartbeatTick \/ HeartbeatSent(ok)
      PROVE  InConnection' /\ ConnectedInConnection'
  BY <1>5 DEF FirstHeartbeat, HeartbeatTick, HeartbeatSent, Beating
<1>6. CASE Dropped \/ Closer \/ Cancel
  BY <1>6 DEF Dropped, Closer, Cancel, loop
<1>7. CASE Returned \/ BackoffOver \/ Stopped
  BY <1>7 DEF Returned, BackoffOver, Stopped, loop
<1>8. CASE UNCHANGED gatewayVars
  BY <1>8 DEF gatewayVars, loop
<1>9. QED
  BY <1>1, <1>2, <1>3, <1>4, <1>5, <1>6, <1>7, <1>8 DEF GatewayNext, Discord, Client

(* Connected() never reports a connection that is over: g.connected is set *)
(* by READY or RESUMED and cleared before Run backs off (gateway.go, Run). *)
THEOREM ConnectedMeansConnected == GatewaySpec => []ConnectedInConnection
BY InitConnection, NextConnection, PTL DEF GatewaySpec

-----------------------------------------------------------------------------
(* What is still to come in silence, on top of what is missing: the        *)
(* heartbeat the loop is about to write, and the one a flag that is still  *)
(* set will allow it at the next tick.                                     *)
ToCome == (IF heartbeat = "sending" THEN 1 ELSE 0) + (IF heartbeatACK THEN 1 ELSE 0)

Unanswered ==
    /\ missed \in Nat
    /\ missed + ToCome <= 2
    /\ heartbeat \in {"off", "first"} => missed = 0

(* At the start no heartbeat is missing. *)
LEMMA InitUnanswered == GatewayInit => Unanswered
BY DEF GatewayInit, Unanswered, ToCome

(* A tick turns the flag into a heartbeat to be written, writing it turns  *)
(* that into one that is missing, and only an acknowledgement sets the     *)
(* flag again: then nothing is missing.                                    *)
LEMMA NextUnanswered == InConnection /\ Unanswered /\ [GatewayNext]_gatewayVars => Unanswered'
<1> SUFFICES ASSUME InConnection, Unanswered, [GatewayNext]_gatewayVars PROVE Unanswered'
  OBVIOUS
<1> USE DEF Unanswered, ToCome
<1>1. ASSUME NEW ok \in BOOLEAN, Dial(ok) \/ Authenticate(ok) PROVE Unanswered'
  BY <1>1 DEF Dial, Authenticate, loop
<1>2. ASSUME NEW ok \in BOOLEAN, Hello(ok) PROVE Unanswered'
  BY <1>2 DEF Hello, InConnection, loop
<1>3. CASE Check \/ Ready \/ BadReady \/ Resumed \/ ReconnectRequested
           \/ InvalidSleepOver \/ ReadFails \/ Dropped
  BY <1>3 DEF Check, Ready, BadReady, Resumed, ReconnectRequested,
              InvalidSleepOver, ReadFails, Dropped, loop
<1>4. CASE Acknowledged
  BY <1>4 DEF Acknowledged
<1>5. CASE HeartbeatRequested
  BY <1>5 DEF HeartbeatRequested
<1>6. ASSUME NEW b \in BOOLEAN, AnswerHeartbeat(b) \/ InvalidSession(b) PROVE Unanswered'
  BY <1>6 DEF AnswerHeartbeat, InvalidSession, loop
<1>7. CASE FirstHeartbeat \/ HeartbeatTick
  BY <1>7 DEF FirstHeartbeat, HeartbeatTick
<1>8. ASSUME NEW ok \in BOOLEAN, HeartbeatSent(ok) PROVE Unanswered'
  BY <1>8 DEF HeartbeatSent
<1>9. CASE Closer \/ Cancel \/ Returned \/ BackoffOver \/ Stopped
  BY <1>9 DEF Closer, Cancel, Returned, BackoffOver, Stopped, loop
<1>10. CASE UNCHANGED gatewayVars
  BY <1>10 DEF gatewayVars, loop
<1>11. QED
  BY <1>1, <1>2, <1>3, <1>4, <1>5, <1>6, <1>7, <1>8, <1>9, <1>10
     DEF GatewayNext, Discord, Client

(* After the last acknowledgement it read, for whichever heartbeat, the    *)
(* client's loop sends at most two heartbeats into silence: instead of a   *)
(* third it gives the connection up (gateway.go, heartbeatLoop).           *)
THEOREM DeadPeersAreNoticed == GatewaySpec => []TwoUnanswered
<1>1. Unanswered => TwoUnanswered
  BY DEF Unanswered, ToCome, TwoUnanswered
<1>2. QED
  BY InitConnection, NextConnection, InitUnanswered, NextUnanswered, <1>1, PTL
     DEF GatewaySpec

-----------------------------------------------------------------------------
(* Whose sequence number is stored: that of the session whenever it can be *)
(* resumed; and a connection that identifies has nothing to resume until   *)
(* its READY.                                                              *)
SequenceFits ==
    /\ CanResume => sequence = "current"
    /\ (run \in {"hello", "auth"} /\ resuming) => CanResume
    /\ (run \in {"hello", "auth", "check", "read", "answer"} /\ ~resuming /\ ~connected) => ~CanResume
    /\ run \in {"dial", "hello", "auth"} => ~connected

(* At the start there is no session. *)
LEMMA InitSequence == GatewayInit => SequenceFits
BY DEF GatewayInit, SequenceFits, CanResume

(* A sequence number of another session is only stored by a READY that is  *)
(* not understood, on a connection that has nothing to resume.             *)
LEMMA NextSequence ==
    ConnectedInConnection /\ SequenceFits /\ [GatewayNext]_gatewayVars => SequenceFits'
<1> SUFFICES ASSUME ConnectedInConnection, SequenceFits, [GatewayNext]_gatewayVars PROVE SequenceFits'
  OBVIOUS
<1> USE DEF SequenceFits, CanResume
<1>1. ASSUME NEW ok \in BOOLEAN, Dial(ok) PROVE SequenceFits'
  BY <1>1 DEF Dial, Leave, state
<1>2. ASSUME NEW ok \in BOOLEAN, Hello(ok) \/ Authenticate(ok) PROVE SequenceFits'
  BY <1>2 DEF Hello, Authenticate, Leave, state
<1>3. CASE Check
  BY <1>3 DEF Check, Leave, state
<1>4. CASE Ready
  BY <1>4 DEF Ready, Reading, Handled
<1>5. CASE BadReady
  BY <1>5 DEF BadReady, Reading, Leave
<1>6. CASE Resumed
  BY <1>6 DEF Resumed, Reading, Handled
<1>7. CASE ReconnectRequested \/ InvalidSleepOver \/ Acknowledged \/ ReadFails
  BY <1>7 DEF ReconnectRequested, InvalidSleepOver, Acknowledged, ReadFails,
              Reading, Handled, Leave, state
<1>8. ASSUME NEW ok \in BOOLEAN, HeartbeatRequested \/ AnswerHeartbeat(ok) PROVE SequenceFits'
  BY <1>8 DEF HeartbeatRequested, AnswerHeartbeat, Reading, Handled, Leave, state
<1>9. ASSUME NEW resumable \in BOOLEAN, InvalidSession(resumable) PROVE SequenceFits'
  BY <1>9 DEF InvalidSession, Reading, state
<1>10. ASSUME NEW ok \in BOOLEAN, FirstHeartbeat \/ HeartbeatTick \/ HeartbeatSent(ok)
       PROVE  SequenceFits'
  BY <1>10 DEF FirstHeartbeat, HeartbeatTick, HeartbeatSent, state
<1>11. CASE Dropped \/ Closer \/ Cancel
  BY <1>11 DEF Dropped, Closer, Cancel, state
<1>12. CASE Returned \/ BackoffOver \/ Stopped
  BY <1>12 DEF Returned, BackoffOver, Stopped, ConnectedInConnection, state
<1>13. CASE UNCHANGED gatewayVars
  BY <1>13 DEF gatewayVars, state
<1>14. QED
  BY <1>1, <1>2, <1>3, <1>4, <1>5, <1>6, <1>7, <1>8, <1>9, <1>10, <1>11, <1>12, <1>13
     DEF GatewayNext, Discord, Client

(* A resume is sent only with a session and its own sequence number,       *)
(* whatever sequence of invalidations, half-read READYs and reconnects     *)
(* came before (gateway.go, connectAndServe and clearSession).             *)
THEOREM ResumesTheRightSession == GatewaySpec => []ResumeFits
<1>1. SequenceFits => ResumeFits
  BY DEF SequenceFits, ResumeFits, CanResume
<1>2. QED
  BY InitConnection, NextConnection, InitSequence, NextSequence, <1>1, PTL DEF GatewaySpec

-----------------------------------------------------------------------------
(* The types hold at the start. *)
LEMMA InitGatewayTypes == GatewayInit => GatewayTypeOK
<1> SUFFICES ASSUME GatewayInit PROVE GatewayTypeOK
  OBVIOUS
<1>1. {cancelled, connected, sessionID, resumeURL, resuming,
       heartbeatACK, heartbeatErr} \subseteq BOOLEAN
  BY DEF GatewayInit
<1> QED
  BY <1>1 DEF GatewayInit, GatewayTypeOK

(* Every step keeps the types; the back-off doubles up to its limit.       *)
LEMMA NextGatewayTypes == GatewayTypeOK /\ [GatewayNext]_gatewayVars => GatewayTypeOK'
<1> SUFFICES ASSUME GatewayTypeOK, [GatewayNext]_gatewayVars PROVE GatewayTypeOK'
  OBVIOUS
<1> USE DEF GatewayTypeOK
<1>1. ASSUME NEW ok \in BOOLEAN, Dial(ok) PROVE GatewayTypeOK'
  BY <1>1 DEF Dial, CanResume, Leave, state, loop
<1>2. ASSUME NEW ok \in BOOLEAN, Hello(ok) \/ Authenticate(ok) PROVE GatewayTypeOK'
  BY <1>2 DEF Hello, Authenticate, Leave, state, loop
<1>3. CASE Check \/ BadReady \/ Resumed
  BY <1>3 DEF Check, BadReady, Resumed, Reading, Handled, Leave, state, loop
<1>4. CASE Ready
  BY <1>4 DEF Ready, Reading, Handled, loop
<1>5. CASE ReconnectRequested \/ InvalidSleepOver \/ ReadFails
  BY <1>5 DEF ReconnectRequested, InvalidSleepOver, ReadFails, Leave, state, loop
<1>6. CASE Acknowledged
  BY <1>6 DEF Acknowledged, Reading, Handled, state
<1>7. ASSUME NEW ok \in BOOLEAN, HeartbeatRequested \/ AnswerHeartbeat(ok) PROVE GatewayTypeOK'
  <2>1. CASE HeartbeatRequested
    BY <2>1 DEF HeartbeatRequested, state
  <2>2. CASE AnswerHeartbeat(ok)
    <3>1. run' \in {"check", "left"} /\ due' \in {due, due + 1}
      BY <2>2 DEF AnswerHeartbeat, Handled, Leave
    <3>2. UNCHANGED <<cancelled, backoff, conn, connected, state, resuming,
                      heartbeat, heartbeatACK, heartbeatErr, missed>>
      BY <2>2 DEF AnswerHeartbeat
    <3> QED
      BY <3>1, <3>2 DEF state
  <2> QED
    BY <1>7, <2>1, <2>2
<1>8. ASSUME NEW resumable \in BOOLEAN, InvalidSession(resumable) PROVE GatewayTypeOK'
  BY <1>8 DEF InvalidSession, Reading, state, loop
<1>9. ASSUME NEW ok \in BOOLEAN, FirstHeartbeat \/ HeartbeatTick \/ HeartbeatSent(ok)
      PROVE  GatewayTypeOK'
  <2>1. CASE FirstHeartbeat
    BY <2>1 DEF FirstHeartbeat, state
  <2>2. CASE HeartbeatTick
    BY <2>2 DEF HeartbeatTick, state
  <2>3. CASE HeartbeatSent(ok)
    <3>1. /\ heartbeat' \in {"ticking", "ended"}
          /\ due' \in {due, due + 1} /\ missed' \in {missed, missed + 1}
      BY <2>3 DEF HeartbeatSent
    <3>2. heartbeatErr' \in BOOLEAN
      BY <2>3 DEF HeartbeatSent
    <3>3. UNCHANGED <<run, cancelled, backoff, conn, connected, state, resuming, heartbeatACK>>
      BY <2>3 DEF HeartbeatSent
    <3>4. due' \in Nat /\ missed' \in Nat
      BY <3>1
    <3> QED
      BY <3>1, <3>2, <3>3, <3>4 DEF state
  <2> QED
    BY <1>9, <2>1, <2>2, <2>3
<1>10. CASE Dropped \/ Closer \/ Cancel
  BY <1>10 DEF Dropped, Closer, Cancel, state, loop
<1>11. CASE Returned
  <2>1. {cancelled, connected, sessionID, resumeURL, resuming,
         heartbeatACK, heartbeatErr}' \subseteq BOOLEAN
    BY <1>11 DEF Returned, state
  <2>2. run' \in {"stopped", "backoff"}
    BY <1>11 DEF Returned
  <2> QED
    BY <1>11, <2>1, <2>2 DEF Returned, state
<1>12. CASE BackoffOver
  <2>1. backoff' \in {1, 2, 4, 8, 16, 30}
    BY <1>12 DEF BackoffOver
  <2> QED
    BY <1>12, <2>1 DEF BackoffOver, state, loop
<1>13. CASE Stopped \/ UNCHANGED gatewayVars
  BY <1>13 DEF Stopped, gatewayVars, state, loop
<1>14. QED
  BY <1>1, <1>2, <1>3, <1>4, <1>5, <1>6, <1>7, <1>8, <1>9, <1>10, <1>11, <1>12, <1>13
     DEF GatewayNext, Discord, Client

(* What reader, heartbeat loop and closer share is sound in every          *)
(* interleaving of the three (gateway.go).                                 *)
THEOREM GatewayIsSafe == GatewaySpec => []GatewaySafety
<1>1. GatewayTypeOK /\ TwoUnanswered /\ ConnectedInConnection => GatewaySafety
  BY DEF GatewaySafety
<1>2. QED
  BY <1>1, InitGatewayTypes, NextGatewayTypes,
     ConnectedMeansConnected, DeadPeersAreNoticed, PTL DEF GatewaySpec

=============================================================================
