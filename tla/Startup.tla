------------------------------ MODULE Startup ------------------------------
(***************************************************************************)
(* What comes before and around a run: the daemon reads its configuration  *)
(* (DaemonConfig), the client its arguments, file and environment          *)
(* (ClientStart), and with an acceptable start event the client starts the *)
(* wrapped command, mirrors it and waits for it (Command).                 *)
(*                                                                         *)
(* The client's exit code is one variable of the second and the third.     *)
(***************************************************************************)
EXTENDS Integers, Sequences, FiniteSets

CONSTANTS
    Args, Envs, Disks, Paths, Numbers, ChannelIDs, Prefixed, Sensitive, Rank,
    MaxMetadata,                           \* of ClientStart
    Statuses, PipeSize, MaxPieces,         \* of Command
    Environments, Lists, Booleans, Lower   \* of DaemonConfig

ASSUME NumberAssumption == \A v \in DOMAIN Numbers : v # "" /\ Numbers[v] \in Int
ASSUME SizeAssumption == PipeSize \in Nat \ {0} /\ MaxPieces \in Nat
ASSUME MetadataAssumption == MaxMetadata \in Nat
ASSUME BooleanAssumption == \A v \in DOMAIN Booleans : v # "" /\ Booleans[v] \in BOOLEAN
ASSUME StringAssumption ==
    {"", "-option", "client.env", "default", "true", "SEED", "EXP_"} \subseteq STRING
ASSUME ArgumentAssumption ==
    Args \subseteq Seq([dashes : Nat, name : STRING, eq : BOOLEAN, value : STRING])
ASSUME FileAssumption ==
    Disks \subseteq [Paths -> [state : {"file", "absent", "unreadable"},
                             lines : Seq([kind : {"set", "comment", "bad"},
                                          key : STRING, value : STRING])]]
ASSUME NameAssumption ==
    /\ \A e \in Envs : e \in [DOMAIN e -> STRING] /\ DOMAIN e \subseteq DOMAIN Rank
    /\ \A d \in Disks : \A p \in Paths : \A i \in DOMAIN d[p].lines :
          d[p].lines[i].kind = "set" => d[p].lines[i].key \in DOMAIN Rank
ASSUME RankAssumption ==
    /\ IsFiniteSet(DOMAIN Rank) /\ Rank \in [DOMAIN Rank -> Nat]
    /\ \A j, k \in DOMAIN Rank : Rank[j] = Rank[k] => j = k
ASSUME StatusAssumption == Statuses \subseteq Nat

VARIABLES
    pc, args, env, path, required, lines, opts, command, event, args0, env0, disk, given,
    code,      \* of ClientStart and Command
    wrapper, status, writers, pipe, copier, piece, broken, written, local, remote, exitEvent,
    state, raw, list, cfg, gateway

clientVars == <<pc, args, env, path, required, lines, opts, command, event, args0, env0, disk, given>>
commandVars == <<wrapper, status, writers, pipe, copier, piece, broken, written, local, remote,
                 exitEvent>>
daemonVars == <<state, raw, list, cfg, gateway>>
vars == <<clientVars, code, commandVars, daemonVars>>

Client == INSTANCE ClientStart
Cmd    == INSTANCE Command
Daemon == INSTANCE DaemonConfig WITH Channels <- ChannelIDs

Init == Client!Init /\ Cmd!Init /\ Daemon!Init

DaemonStep  == Daemon!Next /\ UNCHANGED <<clientVars, code, commandVars>>
ClientStep  == Client!Next /\ UNCHANGED <<commandVars, daemonVars>>

(* run goes on with the command once it has a start event. *)
Running == pc = "start" /\ UNCHANGED <<clientVars, daemonVars>>

Next == DaemonStep \/ ClientStep \/ (Running /\ Cmd!Next)

Spec == Init /\ [][Next]_vars

(* The wrapper and its copiers run.  The command and its child may take    *)
(* for ever.                                                               *)
Fairness ==
    /\ WF_vars(Running /\ Cmd!Start) /\ WF_vars(Running /\ Cmd!Wait) /\ WF_vars(Running /\ Cmd!Close)
    /\ \A s \in Cmd!Streams : WF_vars(Running /\ Cmd!Read(s)) /\ WF_vars(Running /\ Cmd!Mirror(s))

FairSpec == Spec /\ Fairness

-----------------------------------------------------------------------------
(***************************************************************************)
(* Properties.                                                             *)
(***************************************************************************)

(* The types of the parts; the command gets the wrapper's own environment, *)
(* which no file overrides (loadClientEnv); and nobody reading the channel *)
(* is shown what the local terminal was not (run's io.MultiWriter).        *)
Safety ==
    /\ Client!TypeOK /\ Cmd!TypeOK
    /\ Client!EnvironmentKept /\ Cmd!Mirrored

(* README.md: "command-line option > existing process environment >        *)
(* client.env > built-in default" (parseOptions after loadClientEnv).      *)
Precedence == Client!Precedence

(* The command is run as it was given, no value of an option is taken for  *)
(* a part of it, and nothing behind a "--" for an option, although two     *)
(* parsers read the arguments (resolveClientEnvPath, parseOptions).        *)
CommandUntouched == Client!CommandUntouched

(* The daemon accepts every start event the client sends, and the event    *)
(* tells of the environment what was allowed (collectEnvironment,          *)
(* validateStart).                                                         *)
StartIsValid == Client!StartIsValid /\ Client!MetadataAllowed

(* The exit event comes after all output, also that of a child left        *)
(* behind, and its code, which is the wrapper's, is the command's (run;    *)
(* README.md, line 169), but for what Cmd!ExitCodeKept leaves open.        *)
ExitIsHonest == Cmd!OutputBeforeExit /\ Cmd!ExitCodeKept

(* The wrapper returns once the command has ended and its pipes are free,  *)
(* whatever failed (run, os/exec).                                         *)
Returns == Cmd!Returns

(* A daemon that serves has a configuration its components can work with,  *)
(* with every variable in it that is not blank, as it was written          *)
(* (LoadConfigFromEnv).                                                    *)
UsableConfig == Daemon!UsableConfig /\ Daemon!NothingIgnored

(* An allowlist with any entry in it, mistyped or not, never opens the     *)
(* daemon to channels that are not listed (LoadConfigFromEnv,              *)
(* handleStream).                                                          *)
AllowlistBinds == Daemon!AllowlistBinds

=============================================================================
