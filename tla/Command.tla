------------------------------- MODULE Command -------------------------------
(***************************************************************************)
(* The wrapped command and its output, as run of                           *)
(* src/cmd/wrapping-bot/main.go starts, mirrors and waits for it.          *)
(*                                                                         *)
(* Package os/exec gives each stream a pipe and a goroutine that copies it *)
(* to io.MultiWriter: first to the wrapper's own stdout or stderr, then to *)
(* the session (Session models what becomes of it there).  The command may *)
(* leave a child behind that holds the pipes.  Wait returns when the       *)
(* command has ended and both goroutines have.                             *)
(*                                                                         *)
(* A piece of output is its number.  The local streams may fail, as on a   *)
(* full disk; that the wrapper dies of SIGPIPE when they are a broken pipe *)
(* is left out.                                                            *)
(***************************************************************************)
EXTENDS Integers, Sequences

CONSTANTS
    Statuses,    \* exit codes of the command, 255 if killed by a signal
    PipeSize,    \* pieces a pipe holds, at least one
    MaxPieces    \* bound: pieces written to one stream

Streams == {"stdout", "stderr"}
NoStatus == -1

VARIABLES
    wrapper,   \* "start", "wait", "copies", "close", "done"
    status,    \* what the command ended with, NoStatus before
    writers,   \* processes that hold the pipes: "command", "child"
    pipe,      \* what is in the pipes
    copier,    \* "read", "local", "remote", "done", "failed"
    piece,     \* what a copier has read
    broken,    \* local streams that fail from now on
    code,      \* exitCode
    \* History, for the properties:
    written,   \* pieces the command and its child have written
    local,     \* pieces written to the wrapper's own streams
    remote,    \* pieces given to the session
    exitEvent  \* what the session had been given when the exit event was sent

pipeVars == <<pipe, copier, piece, written, local, remote>>
vars == <<wrapper, status, writers, pipeVars, broken, code, exitEvent>>

Init ==
    /\ wrapper = "start" /\ status = NoStatus /\ writers = {}
    /\ pipe = [s \in Streams |-> << >>] /\ copier = [s \in Streams |-> "done"]
    /\ piece = [s \in Streams |-> 0] /\ written = [s \in Streams |-> << >>]
    /\ local = [s \in Streams |-> << >>] /\ remote = [s \in Streams |-> << >>]
    /\ broken = {} /\ code = 0 /\ exitEvent = << >>

-----------------------------------------------------------------------------
(* cmd.Start: the command runs and the copiers with it, or it is not found *)
Start ==
    /\ wrapper = "start"
    /\ \/ /\ wrapper' = "wait" /\ writers' = {"command"}
          /\ copier' = [s \in Streams |-> "read"] /\ UNCHANGED code
       \/ wrapper' = "close" /\ code' = 127 /\ UNCHANGED <<writers, copier>>
    /\ UNCHANGED <<status, pipe, piece, written, local, remote, broken, exitEvent>>

(* The command or its child prints something. *)
Output(s) ==
    /\ writers # {} /\ copier[s] # "failed" /\ Len(pipe[s]) < PipeSize
    /\ Len(written[s]) < MaxPieces
    /\ LET n == Len(written[s]) + 1
       IN  pipe' = [pipe EXCEPT ![s] = Append(@, n)] /\ written' = [written EXCEPT ![s] = Append(@, n)]
    /\ UNCHANGED <<wrapper, status, writers, copier, piece, local, remote, broken, code, exitEvent>>

Fork ==
    /\ writers = {"command"} /\ writers' = {"command", "child"}
    /\ UNCHANGED <<wrapper, status, pipeVars, broken, code, exitEvent>>

(* The command ends, also by the SIGPIPE of a pipe nobody reads. *)
Exit ==
    /\ "command" \in writers
    /\ status' \in Statuses /\ writers' = writers \ {"command"}
    /\ UNCHANGED <<wrapper, pipeVars, broken, code, exitEvent>>

ChildExit ==
    /\ "child" \in writers /\ writers' = writers \ {"child"}
    /\ UNCHANGED <<wrapper, status, pipeVars, broken, code, exitEvent>>

Break(s) ==
    /\ s \notin broken /\ broken' = broken \cup {s}
    /\ UNCHANGED <<wrapper, status, writers, pipeVars, code, exitEvent>>

-----------------------------------------------------------------------------
(* A copier reads a piece, or the end once nobody holds the pipe. *)
Read(s) ==
    /\ copier[s] = "read"
    /\ \/ /\ pipe[s] # << >>
          /\ piece' = [piece EXCEPT ![s] = Head(pipe[s])] /\ pipe' = [pipe EXCEPT ![s] = Tail(@)]
          /\ copier' = [copier EXCEPT ![s] = "local"]
       \/ /\ pipe[s] = << >> /\ writers = {}
          /\ copier' = [copier EXCEPT ![s] = "done"] /\ UNCHANGED <<piece, pipe>>
    /\ UNCHANGED <<wrapper, status, writers, written, local, remote, broken, code, exitEvent>>

(* Mutant: the order of the writers is swapped. *)
MirrorRemoteFirst(s) ==
    /\ \/ /\ copier[s] = "local"
          /\ remote' = [remote EXCEPT ![s] = Append(@, piece[s])]
          /\ copier' = [copier EXCEPT ![s] = "remote"] /\ UNCHANGED local
       \/ /\ copier[s] = "remote" /\ s \notin broken
          /\ local' = [local EXCEPT ![s] = Append(@, piece[s])]
          /\ copier' = [copier EXCEPT ![s] = "read"] /\ UNCHANGED remote
       \/ /\ copier[s] = "remote" /\ s \in broken
          /\ copier' = [copier EXCEPT ![s] = "failed"] /\ UNCHANGED <<local, remote>>
    /\ UNCHANGED <<wrapper, status, writers, pipe, piece, written, broken, code, exitEvent>>

(* The MultiWriter: first the local stream, whose failure ends the copying *)
(* and closes the pipe; then the session, which never fails.               *)
Mirror(s) ==
    /\ \/ /\ copier[s] = "local" /\ s \notin broken
          /\ local' = [local EXCEPT ![s] = Append(@, piece[s])]
          /\ copier' = [copier EXCEPT ![s] = "remote"] /\ UNCHANGED remote
       \/ /\ copier[s] = "local" /\ s \in broken
          /\ copier' = [copier EXCEPT ![s] = "failed"] /\ UNCHANGED <<local, remote>>
       \/ /\ copier[s] = "remote"
          /\ remote' = [remote EXCEPT ![s] = Append(@, piece[s])]
          /\ copier' = [copier EXCEPT ![s] = "read"] /\ UNCHANGED local
    /\ UNCHANGED <<wrapper, status, writers, pipe, piece, written, broken, code, exitEvent>>

-----------------------------------------------------------------------------
CopyFailed == \E s \in Streams : copier[s] = "failed"

(* Mutant: a copier that failed is waited for. *)
WaitCopied ==
    /\ wrapper = "wait" /\ status # NoStatus
    /\ \A s \in Streams : copier[s] = "done"
    /\ code' = status
    /\ wrapper' = "close"
    /\ UNCHANGED <<status, writers, pipeVars, broken, exitEvent>>

(* Mutant: a failed copy counts more than the command's own failure. *)
WaitCopiesFirst ==
    /\ wrapper = "wait" /\ status # NoStatus
    /\ \A s \in Streams : copier[s] \in {"done", "failed"}
    /\ code' = IF CopyFailed THEN 1 ELSE status
    /\ wrapper' = "close"
    /\ UNCHANGED <<status, writers, pipeVars, broken, exitEvent>>

(* cmd.Wait, and what run makes of its error: the exit code of an          *)
(* ExitError; 1 if the command succeeded but a copy failed                 *)
Wait ==
    /\ wrapper = "wait" /\ status # NoStatus
    /\ \A s \in Streams : copier[s] \in {"done", "failed"}
    /\ code' = IF status # 0 THEN status ELSE IF CopyFailed THEN 1 ELSE 0
    /\ wrapper' = "close"
    /\ UNCHANGED <<status, writers, pipeVars, broken, exitEvent>>

(* The exit event, session.Close whatever it returns, and the return *)
Close ==
    /\ wrapper = "close" /\ wrapper' = "done"
    /\ exitEvent' = <<[code |-> code, after |-> remote]>>
    /\ UNCHANGED <<status, writers, pipeVars, broken, code>>

Next ==
    \/ Start \/ Fork \/ Exit \/ ChildExit \/ Wait \/ Close
    \/ \E s \in Streams : Output(s) \/ Break(s) \/ Read(s) \/ Mirror(s)

Spec == Init /\ [][Next]_vars

(* The wrapper and its copiers run.  The command and its child may take    *)
(* for ever.                                                               *)
Fairness ==
    /\ WF_vars(Start) /\ WF_vars(Wait) /\ WF_vars(Close)
    /\ \A s \in Streams : WF_vars(Read(s)) /\ WF_vars(Mirror(s))

-----------------------------------------------------------------------------
(***************************************************************************)
(* Properties.                                                             *)
(***************************************************************************)
IsBeginning(a, b) == Len(a) <= Len(b) /\ a = SubSeq(b, 1, Len(a))

(* Types; and the copiers run only while the wrapper waits.                *)
TypeOK ==
    /\ wrapper # "wait" => \A s \in Streams : copier[s] \in {"done", "failed"}
    /\ wrapper \in {"start", "wait", "close", "done"}
    /\ status \in Statuses \cup {NoStatus} /\ writers \subseteq {"command", "child"}
    /\ pipe \in [Streams -> Seq(Nat)] /\ piece \in [Streams -> Nat]
    /\ copier \in [Streams -> {"read", "local", "remote", "done", "failed"}]
    /\ written \in [Streams -> Seq(Nat)]
    /\ local \in [Streams -> Seq(Nat)] /\ remote \in [Streams -> Seq(Nat)]
    /\ broken \subseteq Streams /\ code \in Int
    /\ Len(exitEvent) = IF wrapper = "done" THEN 1 ELSE 0

(* Nobody reading the channel sees more than the local terminal: what the  *)
(* session was given is the beginning of what was printed locally, at most *)
(* one piece behind, and both are the beginning of what the command wrote  *)
(* (README.md: "Mirrors both stdout and stderr locally and remotely").     *)
Mirrored ==
    \A s \in Streams :
        /\ IsBeginning(remote[s], local[s]) /\ Len(local[s]) - Len(remote[s]) <= 1
        /\ IsBeginning(local[s], written[s])

(* When the exit event is sent everything the command and the children it  *)
(* left behind have printed was given to the session, unless copying that  *)
(* stream failed; nothing comes after it.                                  *)
OutputBeforeExit ==
    exitEvent # << >> =>
        \A s \in Streams :
            /\ remote[s] = exitEvent[1].after[s]
            /\ copier[s] # "failed" => remote[s] = written[s]

(* The wrapper and the exit event have the command's exit code, also when  *)
(* copying its output failed, and 127 if it was never started.  One case   *)
(* is left open, where code and README.md differ: a command that ended     *)
(* with 0 and a copy that failed.                                          *)
ExitCodeKept ==
    wrapper = "done" =>
        /\ exitEvent[1].code = code
        /\ status = NoStatus => code = 127
        /\ (status # NoStatus /\ (status # 0 \/ ~CopyFailed)) => code = status

(* Once the command has ended and nobody holds its pipes any more, the     *)
(* wrapper returns, whatever failed.                                       *)
Returns == status # NoStatus /\ writers = {} ~> wrapper = "done"

=============================================================================
