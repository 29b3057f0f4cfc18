----------------------------- MODULE MCStartup -----------------------------
(* Inputs for model-checking Startup.                                      *)
(*                                                                         *)
(* The client: every list of up to two options, with or without "--" and a *)
(* command behind; environments and files in which the same settings are   *)
(* set, blank, wrong or absent.  The daemon: every variable around its     *)
(* bounds, blank and mistyped, two of them at a time.  The three parts     *)
(* meet in the exit code only, so one is varied at a time.                 *)
EXTENDS Startup, TLC

Opt(dashes, name, value) == [dashes |-> dashes, name |-> name, eq |-> TRUE, value |-> value]
Flag(dashes, name) == [dashes |-> dashes, name |-> name, eq |-> FALSE, value |-> ""]
Word(w) == [dashes |-> 0, name |-> "", eq |-> FALSE, value |-> w]
Dashes  == Flag(2, "")

Options ==
    {<<Opt(2, "endpoint", "http://a")>>, <<Opt(1, "endpoint", "")>>, <<Flag(2, "endpoint")>>,
     <<Flag(2, "channel-id"), Word("id2")>>, <<Flag(2, "queue-size"), Word("5")>>,
     <<Opt(2, "queue-size", "0")>>, <<Opt(2, "queue-size", "many")>>,
     <<Flag(2, "client-env"), Word("other.env")>>, <<Flag(1, "client-env"), Word("missing")>>,
     <<Opt(2, "client-env", "")>>, <<Flag(2, "shell")>>, <<Flag(2, "allow-secret-env")>>,
     <<Opt(1, "token", "t2")>>, <<Opt(2, "env", "RUN")>>, <<Opt(2, "env-prefix", "")>>, <<Flag(2, "unknown")>>}

Commands ==
    {<< >>, <<Word("a line")>>, <<Word("exp"), Flag(2, "shell")>>, <<Dashes, Word("exp")>>,
     <<Word("exp"), Flag(2, "client-env"), Word("other.env")>>,
     <<Dashes, Word("exp"), Flag(2, "client-env"), Word("missing")>>}

MCArgs == {o \o p \o c : o \in Options \cup {<< >>}, p \in Options \cup {<< >>}, c \in Commands}

MCEnvs ==
    {("TOKEN" :> "t") @@ ("CHANNEL_ID" :> "id1"),
     ("TOKEN" :> "") @@ ("ENDPOINT" :> "") @@ ("QUEUE_SIZE" :> "many"),
     ("TOKEN" :> "t") @@ ("ENDPOINT" :> "http://b") @@ ("QUEUE_SIZE" :> "7")
       @@ ("CLIENT_ENV_FILE" :> "other.env") @@ ("ENV_KEYS" :> "RUN") @@ ("RUN" :> "1"),
     ("TOKEN" :> "t") @@ ("CHANNEL_ID" :> "id1") @@ ("SEED" :> "1") @@ ("EXP_A" :> "1")
       @@ ("EXP_KEY" :> "1") @@ ("RUN" :> "1")}

Line(k, v) == [kind |-> "set", key |-> k, value |-> v]
Comment == [kind |-> "comment", key |-> "", value |-> ""]
Bad == [kind |-> "bad", key |-> "", value |-> ""]
FileOf(l) == [state |-> "file", lines |-> l]
Absent == [state |-> "absent", lines |-> << >>]

MCPaths == {"client.env", "other.env"}

MCDisks ==
    {[p \in MCPaths |-> Absent],
     [p \in MCPaths |-> IF p = "client.env"
        THEN FileOf(<<Line("TOKEN", "f"), Comment, Line("CHANNEL_ID", "id2"), Line("CHANNEL_ID", "bad")>>)
        ELSE FileOf(<<Line("ENDPOINT", "http://f"), Line("EXP_A", "2"), Line("CHANNEL_ID", "id1")>>)],
     [p \in MCPaths |-> IF p = "client.env"
        THEN FileOf(<<Line("QUEUE_SIZE", "5"), Line("ALLOW_SECRET_ENV", "true"), Line("RUN", "9")>>)
        ELSE FileOf(<<Line("CHANNEL_ID", "id1"), Bad>>)],
     [p \in MCPaths |-> [state |-> "unreadable", lines |-> << >>]]}

MCNumbers ==
    ("-1" :> -1) @@ ("0" :> 0) @@ ("1" :> 1) @@ ("2" :> 2) @@ ("5" :> 5) @@ ("7" :> 7)
      @@ ("9" :> 9) @@ ("255" :> 255) @@ ("256" :> 256) @@ ("1800" :> 1800) @@ ("1801" :> 1801)

MCPrefixed == [p \in {"EXP_"} |-> {"EXP_A", "EXP_KEY"}]
MCRank ==
    LET order == <<"ALLOW_SECRET_ENV", "CHANNEL_ID", "CLIENT_ENV_FILE", "ENDPOINT", "ENV_KEYS",
                   "ENV_PREFIXES", "EXP_A", "EXP_KEY", "QUEUE_SIZE", "RUN", "SEED", "TOKEN">>
    IN  [k \in {order[i] : i \in DOMAIN order} |-> CHOOSE i \in DOMAIN order : order[i] = k]

(* The daemon's variables, DaemonConfig's Names *)
MCNames == {"BOT_TOKEN", "SHARED_TOKEN", "LISTEN_ADDR", "API_BASE_URL", "GATEWAY_URL",
            "ACTIVITY", "STATUS", "GATEWAY_ENABLED", "STRIP_ANSI",
            "FLUSH", "CHUNK", "QUEUE", "RUNS", "STREAM"}

MCBooleans == ("true" :> TRUE) @@ ("1" :> TRUE) @@ ("false" :> FALSE) @@ ("F" :> FALSE)
MCLower == ("Idle" :> "idle") @@ ("AWAY" :> "away")

Plain == [n \in MCNames |-> CASE n \in {"BOT_TOKEN", "SHARED_TOKEN"} -> "secret" [] OTHER -> ""]

Values(n) ==
    CASE n \in {"BOT_TOKEN", "SHARED_TOKEN"} -> {"", "secret"}
      [] n \in {"LISTEN_ADDR", "API_BASE_URL", "GATEWAY_URL", "ACTIVITY"} -> {"", "a text"}
      [] n = "STATUS" -> {"", "dnd", "Idle", "AWAY"}
      [] n \in {"GATEWAY_ENABLED", "STRIP_ANSI"} -> {"", "true", "1", "false", "F", "yes"}
      [] OTHER -> {"", "-1", "0", "1", "255", "256", "1800", "1801", "many"}

MCEnvironments ==
    UNION {{[Plain EXCEPT ![m] = v, ![n] = w] : v \in Values(m), w \in Values(n)} :
             m \in MCNames, n \in MCNames}

MCLists == {{""}, {"id1"}, {"id1", "id2", ""}, {"mistyped"}, {"id1", "mistyped"}}

-----------------------------------------------------------------------------
PlainDaemon == raw = Plain /\ list = {"id1"}
PlainClient ==
    /\ args0 = <<Dashes, Word("exp")>>
    /\ env0 = ("TOKEN" :> "t") @@ ("CHANNEL_ID" :> "id1")
    /\ disk = [p \in MCPaths |-> Absent]

(* The daemon starts first, and the command runs for one input. *)
MCInit ==
    \/ PlainDaemon /\ Daemon!Init /\ Client!Init /\ Cmd!Init
    \/ PlainClient /\ Client!Init /\ Daemon!Init /\ Cmd!Init
MCNext ==
    /\ Next
    /\ state = "starting" => state' # "starting"
    /\ wrapper' # "start" => PlainDaemon /\ PlainClient

MCSpec == MCInit /\ [][MCNext]_vars /\ Fairness
=============================================================================
