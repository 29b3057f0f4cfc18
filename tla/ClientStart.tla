----------------------------- MODULE ClientStart -----------------------------
(***************************************************************************)
(* How wrapping-bot gets from its arguments, its environment and a file    *)
(* with more of it to a start event (src/cmd/wrapping-bot/main.go).        *)
(*                                                                         *)
(* The arguments are read twice: resolveClientEnvPath looks for the file   *)
(* to load, and the flag package reads the options once the file has been  *)
(* loaded into the environment.  An argument is a record: "dashes" in      *)
(* front, the "name" of an option, its "value" after "=" if "eq"; a word   *)
(* has no dashes and is its value, and "--" has no name.  Values are       *)
(* trimmed; "" is blank.  Every setting is one of a few: a string with a   *)
(* default (the endpoint), a number with one (the queue size), the two     *)
(* required ones, and the lists of metadata keys and prefixes, of one      *)
(* element each in the environment.  The run's name and finish timeout are *)
(* like the endpoint and the queue size and are left out.                  *)
(***************************************************************************)
EXTENDS Integers, Sequences, FiniteSets

CONSTANTS
    Args,        \* the argument lists
    Envs,        \* process environments: functions from names to values
    Disks,       \* what is at each path: "absent", "unreadable" or lines
    Paths,       \* paths of files
    Numbers,     \* what strconv.Atoi reads: a function from strings to Int
    ChannelIDs,  \* values isDiscordChannelID accepts
    Prefixed,    \* for each prefix, the names that begin with it
    Sensitive,   \* names looksSensitive finds
    Rank,        \* the order of the names
    MaxMetadata  \* 128

VARIABLES
    pc,        \* "resolve", "load", "parse", "flags", "check", "start", "refused"
    code,      \* the exit code when refused
    args,      \* what of the arguments is still to be parsed
    env,       \* the environment
    path, required, lines,  \* of loadClientEnv
    opts,      \* options of parseOptions
    command,   \* the command and its arguments
    event,     \* the start event
    \* The inputs, and the options found, for the properties:
    args0, env0, disk, given

inputs == <<args0, env0, disk>>
vars == <<pc, code, args, env, path, required, lines, opts, command, event, inputs, given>>

DashDash == [dashes |-> 2, name |-> "", eq |-> FALSE, value |-> ""]

(* An argument where a value is expected *)
AsValue(arg) == IF arg.dashes = 0 THEN arg.value ELSE "-option"

(* os.Getenv *)
Getenv(key) == IF key \in DOMAIN env THEN env[key] ELSE ""

NoOpts == [client_env |-> "", endpoint |-> "", token |-> "", channel_id |-> "", queue_size |-> 0,
           env_keys |-> {}, env_prefixes |-> {}, secrets |-> FALSE, shell |-> FALSE]
NoEvent == [channel |-> "", command |-> << >>, environment |-> {}, shell |-> FALSE]

Init ==
    /\ args0 \in Args /\ env0 \in Envs /\ disk \in Disks
    /\ pc = "resolve" /\ code = 0 /\ args = args0 /\ env = env0
    /\ path = "" /\ required = FALSE /\ lines = << >>
    /\ opts = NoOpts /\ command = << >> /\ event = NoEvent /\ given = << >>

Refuse(c) == pc' = "refused" /\ code' = c

-----------------------------------------------------------------------------
(***************************************************************************)
(* The file.                                                               *)
(***************************************************************************)

(* Where resolveClientEnvPath finds its option: only as written with two   *)
(* dashes, and anywhere before "--"                                        *)
IsClientEnv(arg) == arg.dashes = 2 /\ arg.name = "client-env"

(* Mutant: the scan goes on behind "--". *)
FoundAnywhere == {i \in DOMAIN args : IsClientEnv(args[i])}

Found == {i \in DOMAIN args : IsClientEnv(args[i]) /\ \A k \in 1..i : args[k] # DashDash}

Chosen(i) == IF args[i].eq THEN args[i].value
             ELSE IF i = Len(args) THEN "" ELSE AsValue(args[i + 1])

Resolve ==
    /\ pc = "resolve"
    /\ IF Found # {}
         THEN LET i == CHOOSE n \in Found : \A k \in Found : n <= k
              IN  IF Chosen(i) = "" THEN Refuse(2) /\ UNCHANGED <<path, required>>
                  ELSE path' = Chosen(i) /\ required' = TRUE /\ pc' = "load" /\ UNCHANGED code
         ELSE LET named == Getenv("CLIENT_ENV_FILE")
              IN  /\ path' = IF named = "" THEN "client.env" ELSE named
                  /\ required' = (named # "")
                  /\ pc' = "load" /\ UNCHANGED code
    /\ UNCHANGED <<args, env, lines, opts, command, event, inputs, given>>

At(p) == IF p \in Paths THEN disk[p] ELSE [state |-> "absent", lines |-> << >>]

(* os.Open of loadClientEnv *)
Open ==
    /\ pc = "load"
    /\ \/ At(path).state = "file" /\ pc' = "lines" /\ lines' = At(path).lines /\ UNCHANGED code
       \/ At(path).state = "absent" /\ ~required /\ pc' = "parse" /\ UNCHANGED <<lines, code>>
       \/ /\ At(path).state = "unreadable" \/ (At(path).state = "absent" /\ required)
          /\ Refuse(2) /\ UNCHANGED lines
    /\ UNCHANGED <<args, env, path, required, opts, command, event, inputs, given>>

Set(f, key, value) == [k \in DOMAIN f \cup {key} |-> IF k = key THEN value ELSE f[k]]

(* One line: a setting, unless the variable exists; a blank line or a      *)
(* comment; or something parseEnvLine refuses                              *)
LoadLine ==
    /\ pc = "lines" /\ lines # << >>
    /\ LET line == Head(lines)
       IN  \/ /\ line.kind = "set"
              /\ env' = IF line.key \in DOMAIN env THEN env ELSE Set(env, line.key, line.value)
              /\ lines' = Tail(lines) /\ UNCHANGED <<pc, code>>
           \/ line.kind = "comment" /\ lines' = Tail(lines) /\ UNCHANGED <<env, pc, code>>
           \/ line.kind = "bad" /\ Refuse(2) /\ UNCHANGED <<env, lines>>
    /\ UNCHANGED <<args, path, required, opts, command, event, inputs, given>>

Loaded ==
    /\ pc = "lines" /\ lines = << >> /\ pc' = "parse"
    /\ UNCHANGED <<code, args, env, path, required, lines, opts, command, event, inputs, given>>

-----------------------------------------------------------------------------
(***************************************************************************)
(* The options.                                                            *)
(***************************************************************************)
(* Mutant: the file is read after the defaults were taken. *)
envOrOriginal(key, fallback) ==
    IF key \in DOMAIN env0 /\ env0[key] # "" THEN env0[key] ELSE fallback

envOr(key, fallback) == IF Getenv(key) # "" THEN Getenv(key) ELSE fallback
envInt(key, fallback) ==
    IF Getenv(key) \in DOMAIN Numbers /\ Numbers[Getenv(key)] > 0
      THEN Numbers[Getenv(key)] ELSE fallback
envBool(key) == Getenv(key) = "true"
parseCSV(key) == {Getenv(key)} \ {""}

DefaultEndpoint == "default"
DefaultQueue == 1024
DefaultKeys == {"SEED"}
DefaultPrefixes == {"EXP_"}

Unlisted == parseCSV("ENV_KEYS") = {} /\ parseCSV("ENV_PREFIXES") = {}

Defaults ==
    /\ pc = "parse" /\ pc' = "flags"
    /\ opts' =
         [client_env   |-> Getenv("CLIENT_ENV_FILE"),
          endpoint     |-> envOr("ENDPOINT", DefaultEndpoint),
          token        |-> Getenv("TOKEN"),
          channel_id   |-> Getenv("CHANNEL_ID"),
          queue_size   |-> envInt("QUEUE_SIZE", DefaultQueue),
          env_keys     |-> IF Unlisted THEN DefaultKeys ELSE parseCSV("ENV_KEYS"),
          env_prefixes |-> IF Unlisted THEN DefaultPrefixes ELSE parseCSV("ENV_PREFIXES"),
          secrets      |-> envBool("ALLOW_SECRET_ENV"),
          shell        |-> FALSE]
    /\ UNCHANGED <<code, args, env, path, required, lines, command, event, inputs, given>>

ListFlags   == {"env", "env-prefix"}
StringFlags == {"client-env", "endpoint", "token", "channel-id"}
BoolFlags   == {"shell", "allow-secret-env"}
ValueFlags  == ListFlags \cup StringFlags \cup {"queue-size"}

(* The values the flag package's Set refuses *)
BadValue(name, v) == \/ name = "queue-size" /\ v \notin DOMAIN Numbers
                     \/ name \in BoolFlags /\ v \notin {"true", "false"}

SetOption(name, v) ==
    \/ name = "env"              /\ opts' = [opts EXCEPT !.env_keys = @ \cup ({v} \ {""})]
    \/ name = "env-prefix"       /\ opts' = [opts EXCEPT !.env_prefixes = @ \cup ({v} \ {""})]
    \/ name = "client-env"       /\ opts' = [opts EXCEPT !.client_env = v]
    \/ name = "endpoint"         /\ opts' = [opts EXCEPT !.endpoint = v]
    \/ name = "token"            /\ opts' = [opts EXCEPT !.token = v]
    \/ name = "channel-id"       /\ opts' = [opts EXCEPT !.channel_id = v]
    \/ name = "queue-size"       /\ opts' = [opts EXCEPT !.queue_size = Numbers[v]]
    \/ name = "shell"            /\ opts' = [opts EXCEPT !.shell = (v = "true")]
    \/ name = "allow-secret-env" /\ opts' = [opts EXCEPT !.secrets = (v = "true")]

(* One option, of as many arguments as it takes, with its value *)
Option(name, v, taken) ==
    IF BadValue(name, v) THEN Refuse(2) /\ UNCHANGED <<args, opts, given>>
    ELSE /\ SetOption(name, v)
         /\ given' = Append(given, [name |-> name, value |-> v])
         /\ args' = SubSeq(args, taken + 1, Len(args))
         /\ UNCHANGED <<pc, code>>

(* FlagSet.Parse, one option: with one or two dashes, its value after "="  *)
(* or the next argument, whatever that is                                  *)
ParseFlag ==
    /\ pc = "flags" /\ args # << >> /\ Head(args).dashes > 0 /\ Head(args) # DashDash
    /\ LET arg == Head(args)
       IN  \/ arg.name \in BoolFlags /\ Option(arg.name, IF arg.eq THEN arg.value ELSE "true", 1)
           \/ arg.name \in ValueFlags /\ arg.eq /\ Option(arg.name, arg.value, 1)
           \/ /\ arg.name \in ValueFlags /\ ~arg.eq /\ Len(args) > 1
              /\ Option(arg.name, AsValue(args[2]), 2)
           \/ /\ arg.name \in BoolFlags \cup ValueFlags => ~arg.eq /\ Len(args) = 1
              /\ arg.name \notin BoolFlags
              /\ Refuse(2) /\ UNCHANGED <<args, opts, given>>
    /\ UNCHANGED <<env, path, required, lines, command, event, inputs>>

(* The rest is the command. *)
ParseCommand ==
    /\ pc = "flags"
    /\ args # << >> => Head(args).dashes = 0 \/ Head(args) = DashDash
    /\ command' = IF args # << >> /\ Head(args) = DashDash THEN Tail(args) ELSE args
    /\ pc' = "check"
    /\ UNCHANGED <<code, args, env, path, required, lines, opts, event, inputs, given>>

-----------------------------------------------------------------------------
(***************************************************************************)
(* The start event.                                                        *)
(***************************************************************************)

(* The variables collectEnvironment selects, before the limit *)
Allowed ==
    {k \in DOMAIN env :
        /\ \/ k \in opts.env_keys
           \/ \E p \in opts.env_prefixes \cap DOMAIN Prefixed : k \in Prefixed[p]
        /\ opts.secrets \/ k \notin Sensitive}

(* Mutant: the limit is off by one. *)
collectEnvironmentBeyond ==
    {k \in Allowed : Cardinality({j \in Allowed : Rank[j] < Rank[k]}) <= MaxMetadata}

(* The first of them in their order *)
collectEnvironment ==
    {k \in Allowed : Cardinality({j \in Allowed : Rank[j] < Rank[k]}) < MaxMetadata}

shouldUseShell == Len(command) = 1 /\ command[1].value = "a line"

(* The checks of parseOptions, clientstream.New and the event of run *)
Check ==
    /\ pc = "check"
    /\ IF command = << >> \/ opts.token = "" \/ opts.channel_id \notin ChannelIDs
          \/ opts.queue_size < 1 \/ opts.endpoint = ""
         THEN Refuse(2) /\ UNCHANGED event
         ELSE /\ event' = [channel |-> opts.channel_id, command |-> command,
                           environment |-> collectEnvironment,
                           shell |-> opts.shell \/ shouldUseShell]
              /\ pc' = "start" /\ UNCHANGED code
    /\ UNCHANGED <<args, env, path, required, lines, opts, command, inputs, given>>

Next == Resolve \/ Open \/ LoadLine \/ Loaded \/ Defaults \/ ParseFlag \/ ParseCommand \/ Check

Spec == Init /\ [][Next]_vars

-----------------------------------------------------------------------------
(***************************************************************************)
(* Properties.                                                             *)
(***************************************************************************)

(* Types; the lists hold no blank name, which would be a prefix of all.    *)
TypeOK ==
    /\ pc \in {"resolve", "load", "lines", "parse", "flags", "check", "start", "refused"}
    /\ (pc = "refused" => code = 2) /\ required \in BOOLEAN /\ path \in STRING
    /\ DOMAIN env \subseteq DOMAIN Rank /\ \A k \in DOMAIN env : env[k] \in STRING
    /\ opts.queue_size \in Int /\ opts.secrets \in BOOLEAN /\ opts.shell \in BOOLEAN
    /\ "" \notin opts.env_keys \cup opts.env_prefixes
    /\ Len(command) <= Len(args0)

LastGiven(name) ==
    LET places == {i \in DOMAIN given : given[i].name = name}
    IN  IF places = {} THEN << >>
        ELSE <<given[CHOOSE i \in places : \A k \in places : k <= i].value>>

(* The first setting of a variable in the file that was loaded *)
InFile(key) ==
    LET text == IF At(path).state = "file" THEN At(path).lines ELSE << >>
        places == {i \in DOMAIN text : text[i].kind = "set" /\ text[i].key = key}
    IN  IF places = {} THEN << >>
        ELSE <<text[CHOOSE i \in places : \A k \in places : i <= k].value>>

FromEnvironment(key) ==
    IF key \in DOMAIN env0 THEN env0[key]
    ELSE IF InFile(key) = << >> THEN "" ELSE InFile(key)[1]

(* README.md: "command-line option > existing process environment >        *)
(* client.env > built-in default".  A variable that exists hides the file  *)
(* even if it is blank or no number, and the default is used then.         *)
Precedence ==
    pc = "start" =>
        /\ opts.endpoint = IF LastGiven("endpoint") # << >> THEN LastGiven("endpoint")[1]
                           ELSE IF FromEnvironment("ENDPOINT") # "" THEN FromEnvironment("ENDPOINT")
                           ELSE DefaultEndpoint
        /\ opts.channel_id = IF LastGiven("channel-id") # << >> THEN LastGiven("channel-id")[1]
                             ELSE FromEnvironment("CHANNEL_ID")
        /\ LET v == FromEnvironment("QUEUE_SIZE") IN
           opts.queue_size = IF LastGiven("queue-size") # << >> THEN Numbers[LastGiven("queue-size")[1]]
                             ELSE IF v \in DOMAIN Numbers /\ Numbers[v] > 0 THEN Numbers[v]
                             ELSE DefaultQueue

(* The command is given the wrapper's own environment unchanged, and what  *)
(* the file adds to it (loadClientEnv, cmd.Env).                           *)
EnvironmentKept ==
    /\ \A k \in DOMAIN env0 : k \in DOMAIN env /\ env[k] = env0[k]
    /\ \A k \in DOMAIN env \ DOMAIN env0 : InFile(k) = <<env[k]>>

(* Nothing but options and their values: some places of s are those where  *)
(* an option begins, the first and the one behind s among them, and each   *)
(* option takes up the arguments to the next.                              *)
OnlyOptions(s) ==
    \E starts \in SUBSET (1..(Len(s) + 1)) :
        /\ 1 \in starts
        /\ \A i \in starts \ {Len(s) + 1} :
              /\ s[i].dashes # 0 /\ s[i] # DashDash
              /\ (IF s[i].eq \/ s[i].name \in BoolFlags THEN i + 1 ELSE i + 2) \in starts

(* The files that arguments s or the environment may name.  The value of   *)
(* an option may look like an option itself.                               *)
NamedBy(s) ==
    {"client.env"} \cup {env0[k] : k \in {"CLIENT_ENV_FILE"} \cap DOMAIN env0}
      \cup {s[k].value : k \in DOMAIN s} \cup {AsValue(s[k]) : k \in DOMAIN s}

(* The usage text: "wrapping-bot [options] -- command [args...]".  What    *)
(* follows the options, or the "--" after them, is run as it is, and       *)
(* neither of the two parsers takes an argument behind the "--" for an     *)
(* option of the wrapper.  (Where the flag package takes "--client-env"    *)
(* for the value of another option, resolveClientEnvPath does not, and may *)
(* take even the "--" for a path; and without a "--" it reads on into the  *)
(* command.)                                                               *)
CommandUntouched ==
    \A i \in DOMAIN args0 :
        OnlyOptions(SubSeq(args0, 1, i - 1)) =>
            /\ args0[i] = DashDash /\ path # "" => path \in NamedBy(SubSeq(args0, 1, i))
            /\ pc \in {"check", "start"} /\ args0[i] = DashDash =>
                  command = SubSeq(args0, i + 1, Len(args0))
            /\ pc \in {"check", "start"} /\ args0[i].dashes = 0 =>
                  command = SubSeq(args0, i, Len(args0))

(* validateStart of the daemon, and the size of its list of variables *)
validateStart(e) ==
    e.channel \in ChannelIDs /\ e.command # << >> /\ Cardinality(e.environment) <= MaxMetadata

(* The daemon accepts every start event the client sends, and the session  *)
(* gets a usable configuration (parseOptions and collectEnvironment        *)
(* against validateStart and clientstream.New).                            *)
StartIsValid ==
    pc = "start" => validateStart(event) /\ opts.queue_size > 0 /\ opts.token # ""

(* README.md: "It only selects explicitly configured keys and prefixes",   *)
(* and names that look like secrets "are rejected even when they match a   *)
(* prefix", unless an option or a variable allows them.                    *)
MetadataAllowed ==
    pc = "start" =>
        /\ event.environment \cap Sensitive # {} =>
              \/ LastGiven("allow-secret-env") = <<"true">>
              \/ FromEnvironment("ALLOW_SECRET_ENV") = "true"
        /\ \A k \in event.environment :
              k \in opts.env_keys \/ \E p \in opts.env_prefixes : k \in Prefixed[p]

=============================================================================
