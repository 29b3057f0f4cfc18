------------------------------- MODULE Sender -------------------------------
(***************************************************************************)
(* The Discord sender (src/internal/discord/sender.go): one Sender is      *)
(* shared by every run.  A Send holds the sender's mutex from its first    *)
(* attempt to its last, sleeps included, so the calls queue up behind it.  *)
(* nextSend carries the limits Discord announced from one call to the      *)
(* next.                                                                   *)
(*                                                                         *)
(* Time is counted in units of the smallest back-off (250 ms).  Instants   *)
(* are kept as the time still to pass: a step of Tick takes one unit off   *)
(* every one of them.                                                      *)
(***************************************************************************)
EXTENDS Naturals, Sequences

CONSTANTS
    Call,          \* the calls of Send, each with a message of its own
    NoCall,        \* the mutex is free
    MaxRetries,    \* s.maxRetries (6 in NewSender)
    Wait           \* the positive waits Discord may announce

ASSUME SenderAssumption ==
    /\ NoCall \notin Call
    /\ MaxRetries \in Nat
    /\ Wait \subseteq Nat \ {0}

VARIABLES
    mu,            \* s.mu: the call that holds it
    pc,            \* of each call
    attempt,       \* the loop counter of the call that holds the mutex
    nextSend,      \* s.nextSend - now, 0 when it is past
    nap,           \* what is left of a retryBackoff sleep
    retryAfter,    \* history: what is left of the Retry-After (or retry_after)
                   \*   of the last response, if it was a 429
    resetAfter,    \* history: what is left of its Reset-After
    limited,       \* history: it was a 429
    tries,         \* history: requests made, per call
    created,       \* history: messages Discord created, per call
    doubt,         \* history: calls that got no clear answer to a request
    result         \* what Send returned: "none" until it does

asked == <<retryAfter, resetAfter, limited>>
history == <<asked, tries, created, doubt>>
vars == <<mu, pc, attempt, nextSend, nap, history, result>>

(* retryBackoff: 250 ms, doubled with every attempt up to 8 s *)
retryBackoff(n) == <<1, 2, 4, 8, 16, 32>>[IF n > 5 THEN 6 ELSE n + 1]

Less1(t) == IF t > 0 THEN t - 1 ELSE 0

Init ==
    /\ mu = NoCall
    /\ pc = [c \in Call |-> "idle"]
    /\ attempt = 0 /\ nextSend = 0 /\ nap = 0
    /\ retryAfter = 0 /\ resetAfter = 0 /\ limited = FALSE
    /\ tries = [c \in Call |-> 0] /\ created = [c \in Call |-> 0]
    /\ doubt = {}
    /\ result = [c \in Call |-> "none"]

-----------------------------------------------------------------------------
(* A batcher or a handler calls Send and waits for the mutex. *)
Begin(c) ==
    /\ pc[c] = "idle"
    /\ pc' = [pc EXCEPT ![c] = "lock"]
    /\ UNCHANGED <<mu, attempt, nextSend, nap, history, result>>

(* Mutant: the limit is kept per call and not by the Sender. *)
LockAndForget(c) ==
    /\ pc[c] = "lock" /\ mu = NoCall
    /\ mu' = c
    /\ attempt' = 0 /\ nextSend' = 0
    /\ pc' = [pc EXCEPT ![c] = "gate"]
    /\ UNCHANGED <<nap, history, result>>

(* s.mu.Lock() returns: attempt 0 *)
Lock(c) ==
    /\ pc[c] = "lock" /\ mu = NoCall
    /\ mu' = c
    /\ attempt' = 0
    /\ pc' = [pc EXCEPT ![c] = "gate"]
    /\ UNCHANGED <<nextSend, nap, history, result>>

(* The sleep until nextSend is over, or was not needed; the request goes   *)
(* out.                                                                    *)
Request(c) ==
    /\ pc[c] = "gate" /\ nextSend = 0
    /\ pc' = [pc EXCEPT ![c] = "http"]
    /\ tries' = [tries EXCEPT ![c] = @ + 1]
    /\ UNCHANGED <<mu, attempt, nextSend, nap, asked, created, doubt, result>>

(* Mutant: no Unlock on the way out. *)
ReturnLocked(c, value) ==
    /\ result' = [result EXCEPT ![c] = value]
    /\ pc' = [pc EXCEPT ![c] = "returned"]
    /\ UNCHANGED mu

(* return: the deferred Unlock *)
Return(c, value) ==
    /\ result' = [result EXCEPT ![c] = value]
    /\ pc' = [pc EXCEPT ![c] = "returned"]
    /\ mu' = NoCall

(* The request cannot be built: Send gives up without trying. *)
BadRequest(c) ==
    /\ pc[c] = "gate" /\ nextSend = 0
    /\ Return(c, "error")
    /\ UNCHANGED <<attempt, nextSend, nap, history>>

(* Mutant: the mutex is released for the sleep. *)
BackoffUnlocked(c) ==
    /\ nap' = retryBackoff(attempt)
    /\ pc' = [pc EXCEPT ![c] = "backoff"]
    /\ mu' = NoCall
    /\ UNCHANGED <<attempt, result>>

(* time.Sleep(retryBackoff(attempt)), then the next attempt *)
Backoff(c) ==
    /\ nap' = retryBackoff(attempt)
    /\ pc' = [pc EXCEPT ![c] = "backoff"]
    /\ UNCHANGED <<mu, attempt, result>>

Create(c, n) == created' = [created EXCEPT ![c] = @ + n]

(* No response: the request may or may not have reached Discord.           *)
NetError(c) ==
    /\ pc[c] = "http"
    /\ \E n \in {0, 1} : Create(c, n)
    /\ doubt' = doubt \cup {c}
    /\ IF attempt = MaxRetries
         THEN Return(c, "error") /\ UNCHANGED <<attempt, nap>>
         ELSE Backoff(c)
    /\ UNCHANGED <<nextSend, asked, tries>>

(* Mutant: the status line is taken for the answer. *)
ReadErrorIgnored(c) ==
    /\ pc[c] = "http"
    /\ \E n \in {0, 1} : Create(c, n)
    /\ doubt' = doubt \cup {c}
    /\ Return(c, "nil")
    /\ UNCHANGED <<attempt, nextSend, nap, asked, tries>>

(* The status line arrives and the body does not: Send gives up at once,   *)
(* whatever the status was.                                                *)
ReadError(c) ==
    /\ pc[c] = "http"
    /\ \E n \in {0, 1} : Create(c, n)
    /\ doubt' = doubt \cup {c}
    /\ Return(c, "error")
    /\ UNCHANGED <<attempt, nextSend, nap, asked, tries>>

(* updateRateWindow: Remaining is 0 and Reset-After is reset, or there is  *)
(* no such header (reset = 0)                                              *)
updateRateWindow(reset) == IF reset > 0 THEN reset ELSE nextSend

(* What a response has asked for, as the history keeps it *)
Asked(retry, reset, is429) == retryAfter' = retry /\ resetAfter' = reset /\ limited' = is429

(* 2xx *)
Success(c, reset) ==
    /\ pc[c] = "http"
    /\ Create(c, 1)
    /\ nextSend' = updateRateWindow(reset)
    /\ Asked(0, reset, FALSE)
    /\ Return(c, "nil")
    /\ UNCHANGED <<attempt, nap, tries, doubt>>

(* 429: updateRateWindow stores reset, and then nextSend becomes retry,    *)
(* the longer of retry_after and Retry-After, or a back-off when neither   *)
(* is usable (retry = 0), even if that ends before reset does.  The loop   *)
(* goes on, and ends after the last attempt.                               *)
Limited(c, retry, reset) ==
    /\ pc[c] = "http"
    /\ nextSend' = IF retry > 0 THEN retry ELSE retryBackoff(attempt)
    /\ Asked(retry, reset, TRUE)
    /\ IF attempt = MaxRetries
         THEN Return(c, "error") /\ UNCHANGED attempt
         ELSE /\ attempt' = attempt + 1
              /\ pc' = [pc EXCEPT ![c] = "gate"]
              /\ UNCHANGED <<mu, result>>
    /\ UNCHANGED <<nap, tries, created, doubt>>

(* Any other status below 500 ends the loop. *)
Rejected(c, reset) ==
    /\ pc[c] = "http"
    /\ nextSend' = updateRateWindow(reset)
    /\ Asked(0, reset, FALSE)
    /\ Return(c, "error")
    /\ UNCHANGED <<attempt, nap, tries, created, doubt>>

(* 5xx: retried after a back-off; the message may have been created.       *)
ServerError(c, reset) ==
    /\ pc[c] = "http"
    /\ \E n \in {0, 1} : Create(c, n)
    /\ doubt' = doubt \cup {c}
    /\ nextSend' = updateRateWindow(reset)
    /\ Asked(0, reset, FALSE)
    /\ IF attempt = MaxRetries
         THEN Return(c, "error") /\ UNCHANGED <<attempt, nap>>
         ELSE Backoff(c)
    /\ UNCHANGED tries

(* The back-off sleep ends. *)
Wake(c) ==
    /\ pc[c] = "backoff" /\ nap = 0
    /\ attempt' = attempt + 1
    /\ pc' = [pc EXCEPT ![c] = "gate"]
    /\ UNCHANGED <<mu, nextSend, nap, history, result>>

(* One unit of time *)
Tick ==
    /\ nextSend + nap + retryAfter + resetAfter > 0
    /\ nextSend' = Less1(nextSend) /\ nap' = Less1(nap)
    /\ retryAfter' = Less1(retryAfter) /\ resetAfter' = Less1(resetAfter)
    /\ UNCHANGED <<mu, pc, attempt, limited, tries, created, doubt, result>>

Answer(c) ==
    \/ NetError(c) \/ ReadError(c)
    \/ \E reset \in Wait \cup {0} :
         Success(c, reset) \/ Rejected(c, reset) \/ ServerError(c, reset)
    \/ \E retry, reset \in Wait \cup {0} : Limited(c, retry, reset)

Next ==
    \/ \E c \in Call : Begin(c) \/ Lock(c) \/ Request(c) \/ BadRequest(c) \/ Answer(c) \/ Wake(c)
    \/ Tick

Spec == Init /\ [][Next]_vars

(***************************************************************************)
(* Time passes, goroutines run, the HTTP client answers within its 30 s    *)
(* timeout, and Go's mutex hands itself to a waiter that has waited too    *)
(* long (starvation mode), so no call waits for it for ever.               *)
(***************************************************************************)
Fairness ==
    /\ WF_vars(Tick)
    /\ \A c \in Call : /\ SF_vars(Lock(c)) /\ WF_vars(Request(c))
                       /\ WF_vars(Answer(c)) /\ WF_vars(Wake(c))

FairSpec == Spec /\ Fairness

-----------------------------------------------------------------------------
(***************************************************************************)
(* Properties.                                                             *)
(***************************************************************************)
(* Every variable has its type, and the loop counter stays within the      *)
(* attempts Send is allowed (sender.go, Send).                             *)
TypeOK ==
    /\ mu \in Call \cup {NoCall}
    /\ pc \in [Call -> {"idle", "lock", "gate", "http", "backoff", "returned"}]
    /\ attempt \in 0..MaxRetries
    /\ nextSend \in Nat /\ nap \in Nat
    /\ retryAfter \in Nat /\ resetAfter \in Nat /\ limited \in BOOLEAN
    /\ tries \in [Call -> Nat] /\ created \in [Call -> Nat]
    /\ doubt \subseteq Call
    /\ result \in [Call -> {"none", "nil", "error"}]

Inside(c) == pc[c] \in {"gate", "http", "backoff"}

(* One request at a time: a call is past the lock exactly while it holds   *)
(* the mutex, in all its sleeps and retries, and every return releases it. *)
OneAtATime == \A c \in Call : Inside(c) <=> mu = c

(* A call that has not had the mutex has made no request and has no        *)
(* result, and a back-off is only slept when an attempt is left.           *)
Counting ==
    \A c \in Call :
        /\ pc[c] \in {"idle", "lock"} => tries[c] = 0
        /\ pc[c] = "backoff" => attempt < MaxRetries
        /\ pc[c] # "returned" => result[c] = "none"

(* A message is only created by a 2xx, which ends the call, unless some    *)
(* request of the call got no clear answer.                                *)
CreatedOnce ==
    \A c \in Call :
        /\ c \notin doubt => created[c] = IF result[c] = "nil" THEN 1 ELSE 0
        /\ result[c] = "nil" => created[c] > 0

(* What makes the next property so: nextSend never ends before the wait    *)
(* the latest response asked for, except that a 429's own Reset-After has  *)
(* been overwritten.                                                       *)
GateCoversWaits == retryAfter <= nextSend /\ (limited \/ resetAfter <= nextSend)

(* A request never goes out before the Retry-After of the latest response, *)
(* if it was a 429, is over, or its Reset-After, if it was not, also when  *)
(* that response answered another call, or the last attempt of a call that *)
(* then failed.  (The Reset-After that a 429 carries besides is waited for *)
(* only as long as its Retry-After or, without one, a back-off lasts.)     *)
WaitsAsTold ==
    [][\A c \in Call : Request(c) => retryAfter = 0 /\ (limited \/ resetAfter = 0)]_vars

(* A call makes one request per attempt and at most MaxRetries + 1.        *)
TriesBounded ==
    \A c \in Call :
        /\ tries[c] <= MaxRetries + 1
        /\ mu = c => tries[c] = attempt + (IF pc[c] = "http" THEN 1
                                           ELSE IF pc[c] = "backoff" THEN 1 ELSE 0)

(* Calls that share the Sender exclude each other through all their sleeps *)
(* and retries, and what they retry together stays within the attempts one *)
(* call has (sender.go, Send).                                             *)
Safety == TypeOK /\ OneAtATime /\ TriesBounded

(* Send returns nil only for a message that is in the channel, and a       *)
(* message is there twice only if some request of its call got no clear    *)
(* answer: a rate limit or a refusal never duplicates.                     *)
HonestResult ==
    \A c \in Call :
        /\ result[c] = "nil" => created[c] > 0
        /\ created[c] > 1 => c \in doubt
        /\ (result[c] = "error" /\ c \notin doubt) => created[c] = 0

(* Every Send returns, however often Discord fails or limits it: the calls *)
(* behind it in the mutex are only delayed.                                *)
SendReturns == \A c \in Call : (pc[c] = "lock") ~> (pc[c] = "returned")

=============================================================================
