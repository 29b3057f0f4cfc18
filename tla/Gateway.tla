------------------------------ MODULE Gateway ------------------------------
(***************************************************************************)
(* The Discord Gateway session (src/internal/discord/gateway.go) that      *)
(* keeps the bot online: Run connects, serves until something fails, backs *)
(* off and connects again, until the daemon cancels it.  During one        *)
(* connection three goroutines act: the reader (connectAndServe), the      *)
(* heartbeat loop, and the closer that turns a failed heartbeat or the     *)
(* cancellation into the end of the connection.                            *)
(*                                                                         *)
(* Discord is the environment.  Sequence numbers are abstracted to whose   *)
(* they are: of the session the client holds, or of one it does not.       *)
(***************************************************************************)
EXTENDS Naturals

CONSTANT MaxDue   \* bound: heartbeats Discord requests before it answers one

ASSUME GatewayAssumption == MaxDue \in Nat \ {0}

VARIABLES
    run,           \* where Run and connectAndServe are
    cancelled,     \* the daemon has cancelled ctx
    backoff,       \* seconds until the next attempt
    conn,          \* the WebSocket: none, open or closed
    connected,     \* g.connected
    sessionID,     \* g.sessionID # ""
    resumeURL,     \* g.resumeGatewayURL # ""
    sequence,      \* g.sequence: none (-1), current or stale
    resuming,      \* this connection resumes a session
    heartbeat,     \* the heartbeat loop: off, first, sending, ticking, ended
    heartbeatACK,  \* of this connection
    heartbeatErr,  \* a heartbeat failed, or was not acknowledged in time
    due,           \* heartbeats Discord has not acknowledged yet
    missed         \* history: heartbeats the loop has sent since the last
                   \*   acknowledgement read on this connection

state == <<sessionID, resumeURL, sequence>>
loop == <<heartbeat, heartbeatACK, heartbeatErr, due, missed>>
gatewayVars == <<run, cancelled, backoff, conn, connected, state, resuming, loop>>

GatewayInit ==
    /\ run = "dial" /\ cancelled = FALSE /\ backoff = 1
    /\ conn = "none" /\ connected = FALSE
    /\ sessionID = FALSE /\ resumeURL = FALSE /\ sequence = "none"
    /\ resuming = FALSE
    /\ heartbeat = "off" /\ heartbeatACK = FALSE /\ heartbeatErr = FALSE
    /\ due = 0 /\ missed = 0

-----------------------------------------------------------------------------
(***************************************************************************)
(* Connecting.                                                             *)
(***************************************************************************)

(* connectionURL: resume while a session and its URL are known *)
CanResume == sessionID /\ resumeURL

(* connectAndServe returns with an error *)
Leave == run' = "left"

(* The URL is found and the WebSocket opened, or not: every step of it has *)
(* a timeout.                                                              *)
Dial(ok) ==
    /\ run = "dial" /\ ~cancelled
    /\ resuming' = CanResume
    /\ IF ok THEN run' = "hello" /\ conn' = "open"
             ELSE Leave /\ UNCHANGED conn
    /\ UNCHANGED <<cancelled, backoff, connected, state, loop>>

(* A valid hello starts the heartbeat loop; anything else, or nothing for  *)
(* 30 seconds, ends the connection.                                        *)
Hello(ok) ==
    /\ run = "hello"
    /\ IF ok THEN /\ conn = "open" /\ run' = "auth"
                  /\ heartbeat' = "first" /\ heartbeatACK' = TRUE
                  /\ UNCHANGED <<heartbeatErr, due, missed>>
             ELSE Leave /\ UNCHANGED loop
    /\ UNCHANGED <<cancelled, backoff, conn, connected, state, resuming>>

(* Resume (op 6) or identify (op 2) *)
Authenticate(ok) ==
    /\ run = "auth"
    /\ IF ok THEN conn = "open" /\ run' = "check" ELSE Leave
    /\ UNCHANGED <<cancelled, backoff, conn, connected, state, resuming, loop>>

-----------------------------------------------------------------------------
(***************************************************************************)
(* The reader: one action per message.  A message that had arrived before  *)
(* the connection was closed may still be read after it.                   *)
(***************************************************************************)
Reading == run = "read"

(* The top of the loop looks for a failed heartbeat or the cancellation    *)
(* before it waits for the next message.                                   *)
Check ==
    /\ run = "check"
    /\ IF heartbeatErr \/ cancelled THEN Leave ELSE run' = "read"
    /\ UNCHANGED <<cancelled, backoff, conn, connected, state, resuming, loop>>

Handled == run' = "check"

(* READY: a new session, with or without an URL to resume it at *)
Ready ==
    /\ Reading /\ ~resuming /\ ~connected
    /\ sessionID' = TRUE /\ sequence' = "current"
    /\ resumeURL' \in BOOLEAN
    /\ connected' = TRUE /\ Handled
    /\ UNCHANGED <<cancelled, backoff, conn, resuming, loop>>

(* A READY that cannot be decoded: its sequence number is already stored.  *)
BadReady ==
    /\ Reading /\ ~resuming /\ ~connected
    /\ sequence' = "stale" /\ Leave
    /\ UNCHANGED <<cancelled, backoff, conn, connected, sessionID, resumeURL, resuming, loop>>

Resumed ==
    /\ Reading /\ resuming /\ ~connected
    /\ sequence' = "current" /\ connected' = TRUE /\ Handled
    /\ UNCHANGED <<cancelled, backoff, conn, sessionID, resumeURL, resuming, loop>>

(* Discord asks for a heartbeat (op 1): the flag is cleared first ...      *)
HeartbeatRequested ==
    /\ Reading /\ due < MaxDue
    /\ heartbeatACK' = FALSE /\ run' = "answer"
    /\ UNCHANGED <<cancelled, backoff, conn, connected, state, resuming,
                   heartbeat, heartbeatErr, due, missed>>

(* ... and the heartbeat written when writeMu and the socket let it.       *)
AnswerHeartbeat(ok) ==
    /\ run = "answer"
    /\ IF ok THEN conn = "open" /\ due' = due + 1 /\ Handled
             ELSE Leave /\ UNCHANGED due
    /\ UNCHANGED <<cancelled, backoff, conn, connected, state, resuming,
                   heartbeat, heartbeatACK, heartbeatErr, missed>>

(* Op 7: Discord asks the client to reconnect. *)
ReconnectRequested ==
    /\ Reading /\ Leave
    /\ UNCHANGED <<cancelled, backoff, conn, connected, state, resuming, loop>>

(* Mutant: only the sequence number is forgotten. *)
InvalidSessionKept(resumable) ==
    /\ Reading /\ run' = "invalid"
    /\ sequence' = IF resumable THEN sequence ELSE "none"
    /\ UNCHANGED <<cancelled, backoff, conn, connected, sessionID, resumeURL, resuming, loop>>

(* Op 9: the session is invalid, and forgotten unless it is resumable;     *)
(* then connectAndServe sleeps one to five seconds.                        *)
InvalidSession(resumable) ==
    /\ Reading /\ run' = "invalid"
    /\ IF resumable THEN UNCHANGED state
         ELSE sessionID' = FALSE /\ resumeURL' = FALSE /\ sequence' = "none"
    /\ UNCHANGED <<cancelled, backoff, conn, connected, resuming, loop>>

InvalidSleepOver ==
    /\ run = "invalid" /\ Leave
    /\ UNCHANGED <<cancelled, backoff, conn, connected, state, resuming, loop>>

(* Op 11 *)
Acknowledged ==
    /\ Reading /\ due > 0
    /\ due' = due - 1 /\ heartbeatACK' = TRUE /\ missed' = 0 /\ Handled
    /\ UNCHANGED <<cancelled, backoff, conn, connected, state, resuming,
                   heartbeat, heartbeatErr>>

(* ReadJSON fails because Discord, the closer or the network has closed    *)
(* the connection.  Nothing else ends the wait: it has no deadline.        *)
ReadFails ==
    /\ run = "read" /\ conn = "closed"
    /\ Leave
    /\ UNCHANGED <<cancelled, backoff, conn, connected, state, resuming, loop>>

(* The network or Discord ends the connection, or sends what is not JSON. *)
Dropped ==
    /\ conn = "open" /\ conn' = "closed"
    /\ UNCHANGED <<run, cancelled, backoff, connected, state, resuming, loop>>

-----------------------------------------------------------------------------
(***************************************************************************)
(* The heartbeat loop and the closer.                                      *)
(***************************************************************************)
Beating == run \in {"auth", "check", "read", "answer", "invalid"}

FirstHeartbeat ==
    /\ Beating /\ heartbeat = "first"
    /\ heartbeatACK' = FALSE /\ heartbeat' = "sending"
    /\ UNCHANGED <<run, cancelled, backoff, conn, connected, state, resuming,
                   heartbeatErr, due, missed>>

(* Mutant: the acknowledgement is not looked at. *)
HeartbeatTickAnyway ==
    /\ Beating /\ heartbeat = "ticking"
    /\ heartbeatACK' = FALSE /\ heartbeat' = "sending"
    /\ UNCHANGED <<run, cancelled, backoff, conn, connected, state, resuming,
                   heartbeatErr, due, missed>>

(* Mutant: the loop ends without telling the closer. *)
HeartbeatTickSilent ==
    /\ Beating /\ heartbeat = "ticking"
    /\ heartbeatACK' = FALSE
    /\ heartbeat' = IF heartbeatACK THEN "sending" ELSE "ended"
    /\ UNCHANGED <<run, cancelled, backoff, conn, connected, state, resuming,
                   heartbeatErr, due, missed>>

(* acked.Swap(false): without an acknowledgement since the flag was        *)
(* cleared the connection is given up instead of another heartbeat.        *)
HeartbeatTick ==
    /\ Beating /\ heartbeat = "ticking"
    /\ heartbeatACK' = FALSE
    /\ heartbeat' = IF heartbeatACK THEN "sending" ELSE "ended"
    /\ heartbeatErr' = ~heartbeatACK
    /\ UNCHANGED <<run, cancelled, backoff, conn, connected, state, resuming, due, missed>>

(* The heartbeat is written.  Between the flag and this the reader may     *)
(* have set the flag again, for a heartbeat Discord had requested.         *)
HeartbeatSent(ok) ==
    /\ Beating /\ heartbeat = "sending"
    /\ IF ok THEN /\ conn = "open" /\ heartbeat' = "ticking"
                  /\ due' = due + 1 /\ missed' = missed + 1
                  /\ UNCHANGED heartbeatErr
             ELSE /\ heartbeat' = "ended" /\ heartbeatErr' = TRUE
                  /\ UNCHANGED <<due, missed>>
    /\ UNCHANGED <<run, cancelled, backoff, conn, connected, state, resuming, heartbeatACK>>

(* Mutant: the cancellation does not close the connection. *)
CloserOfHeartbeats ==
    /\ run = "hello" \/ Beating
    /\ conn = "open" /\ heartbeatErr
    /\ conn' = "closed"
    /\ UNCHANGED <<run, cancelled, backoff, connected, state, resuming, loop>>

(* conn.Close() after a heartbeat failure or a cancellation *)
Closer ==
    /\ run = "hello" \/ Beating
    /\ conn = "open" /\ (heartbeatErr \/ cancelled)
    /\ conn' = "closed"
    /\ UNCHANGED <<run, cancelled, backoff, connected, state, resuming, loop>>

-----------------------------------------------------------------------------
(***************************************************************************)
(* Run.                                                                    *)
(***************************************************************************)

(* connectAndServe has returned: its deferred cancel and Close end the     *)
(* other goroutines, g.connected becomes false.                            *)
Returned ==
    /\ run = "left"
    /\ run' = IF cancelled THEN "stopped" ELSE "backoff"
    /\ conn' = "none" /\ connected' = FALSE
    /\ heartbeat' = "off" /\ heartbeatACK' = FALSE /\ heartbeatErr' = FALSE
    /\ due' = 0 /\ missed' = 0
    /\ UNCHANGED <<cancelled, backoff, state, resuming>>

(* The back-off doubles up to 30 seconds and is never reset. *)
BackoffOver ==
    /\ run = "backoff" /\ ~cancelled
    /\ run' = "dial"
    /\ backoff' = IF backoff * 2 > 30 THEN 30 ELSE backoff * 2
    /\ UNCHANGED <<cancelled, conn, connected, state, resuming, loop>>

Stopped ==
    /\ run \in {"dial", "backoff"} /\ cancelled
    /\ run' = "stopped"
    /\ UNCHANGED <<cancelled, backoff, conn, connected, state, resuming, loop>>

Cancel ==
    /\ ~cancelled /\ cancelled' = TRUE
    /\ UNCHANGED <<run, backoff, conn, connected, state, resuming, loop>>

-----------------------------------------------------------------------------
Discord ==
    \/ Ready \/ BadReady \/ Resumed \/ HeartbeatRequested \/ ReconnectRequested
    \/ Acknowledged \/ Dropped
    \/ \E resumable \in BOOLEAN : InvalidSession(resumable)

Client ==
    \/ Check \/ ReadFails \/ InvalidSleepOver \/ FirstHeartbeat \/ HeartbeatTick
    \/ Closer \/ Returned \/ BackoffOver \/ Stopped
    \/ \E ok \in BOOLEAN : Dial(ok) \/ Hello(ok) \/ Authenticate(ok)
    \/ \E ok \in BOOLEAN : AnswerHeartbeat(ok) \/ HeartbeatSent(ok)

GatewayNext == Discord \/ Client \/ Cancel

GatewaySpec == GatewayInit /\ [][GatewayNext]_gatewayVars

(***************************************************************************)
(* Goroutines are scheduled and their timers and deadlines fire.  Nothing  *)
(* is assumed of Discord: it may keep silent for ever.                     *)
(***************************************************************************)
GatewayFairness ==
    /\ WF_gatewayVars(Check) /\ WF_gatewayVars(ReadFails)
    /\ WF_gatewayVars(InvalidSleepOver) /\ WF_gatewayVars(Closer)
    /\ WF_gatewayVars(Returned) /\ WF_gatewayVars(BackoffOver) /\ WF_gatewayVars(Stopped)
    /\ WF_gatewayVars(\E ok \in BOOLEAN : Dial(ok))
    /\ WF_gatewayVars(\E ok \in BOOLEAN : Hello(ok))
    /\ WF_gatewayVars(\E ok \in BOOLEAN : Authenticate(ok))
    /\ WF_gatewayVars(\E ok \in BOOLEAN : AnswerHeartbeat(ok))

HeartbeatFairness ==
    /\ WF_gatewayVars(FirstHeartbeat) /\ WF_gatewayVars(HeartbeatTick)
    /\ WF_gatewayVars(\E ok \in BOOLEAN : HeartbeatSent(ok))

FairGateway == GatewaySpec /\ GatewayFairness /\ HeartbeatFairness

(* Without the heartbeat loop, whose interval (40 s with Discord) is too   *)
(* long for a shutdown to wait for.                                        *)
QuietSpec == GatewaySpec /\ GatewayFairness

(* Moreover the Gateway URL always works when it is tried often enough:    *)
(* hello and READY come.  Only the host of a resume URL may be gone.       *)
ReachableSpec ==
    /\ FairGateway
    /\ SF_gatewayVars(Dial(TRUE) /\ ~resuming')
    /\ SF_gatewayVars(Hello(TRUE) /\ ~resuming)
    /\ SF_gatewayVars(Authenticate(TRUE) /\ ~resuming)
    /\ SF_gatewayVars(Ready)

-----------------------------------------------------------------------------
(***************************************************************************)
(* Properties.                                                             *)
(***************************************************************************)
(* Every variable has its type; the back-off keeps to its values from one  *)
(* to thirty seconds (gateway.go, Run).                                    *)
GatewayTypeOK ==
    /\ run \in {"dial", "hello", "auth", "check", "read", "answer", "invalid",
               "left", "backoff", "stopped"}
    /\ backoff \in {1, 2, 4, 8, 16, 30}
    /\ conn \in {"none", "open", "closed"}
    /\ sequence \in {"none", "current", "stale"}
    /\ heartbeat \in {"off", "first", "sending", "ticking", "ended"}
    /\ {cancelled, connected, sessionID, resumeURL, resuming,
        heartbeatACK, heartbeatErr} \subseteq BOOLEAN
    /\ due \in Nat /\ missed \in Nat

(* A resume is only sent with a session and the sequence number of that    *)
(* very session, whatever invalidations and reconnects came before it.     *)
ResumeFits == (run = "auth" /\ resuming) => sessionID /\ sequence = "current"

(* Acknowledgements do not say which heartbeat they answer: one that was   *)
(* requested counts as well, and may come between clearing the flag and    *)
(* writing.  So into silence the loop sends two heartbeats at most, after  *)
(* the last acknowledgement that was read, and never a third.              *)
TwoUnanswered == missed <= 2

(* g.connected is never true outside a connection that was ready. *)
ConnectedInConnection ==
    connected => /\ run \in {"check", "read", "answer", "invalid", "left"} /\ conn # "none"
                 /\ heartbeat # "off"

(* The state shared by reader, heartbeat loop and closer is sound in every *)
(* interleaving: silence is met by at most two heartbeats of the loop, and *)
(* the daemon is shown as connected only when it is (gateway.go).          *)
GatewaySafety == GatewayTypeOK /\ TwoUnanswered /\ ConnectedInConnection

(* If Discord falls silent the client notices, thanks to the heartbeat     *)
(* loop: infinitely often it gets an acknowledgement or is not waiting for *)
(* a message, though the read has no deadline of its own.                  *)
NeverHangs ==
    HeartbeatFairness =>
        []<><<Acknowledged>>_gatewayVars \/ []<>(run \notin {"check", "read", "answer"})

(* After the cancellation Run returns, from wherever it is, and without    *)
(* the help of a heartbeat that fails: the closer wakes the reader.        *)
StopsWhenCancelled == cancelled ~> (run = "stopped")

(* README.md: the daemon maintains a Gateway session so that the bot       *)
(* appears online while it runs.                                           *)
StaysOnline == []<>(connected \/ cancelled)

=============================================================================
