---------------------------- MODULE DaemonConfig ----------------------------
(***************************************************************************)
(* The daemon's configuration (LoadConfigFromEnv, config.go), the start of *)
(* serve with it (cmd/wrapping-botd/main.go) and the check of a channel    *)
(* against its allowlist.                                                  *)
(*                                                                         *)
(* Values are trimmed, and a blank variable is like an absent one, "".  A  *)
(* duration is a number of milliseconds.                                   *)
(***************************************************************************)
EXTENDS Integers, FiniteSets

CONSTANTS
    Environments,  \* the environments: functions from Names to strings
    Lists,         \* entries of WRAPPING_BOT_ALLOWED_CHANNEL_IDS: sets of strings
    Channels,      \* the values isDiscordChannelID accepts
    Numbers,       \* what strconv and time read as a number: a function to Int
    Booleans,      \* what ParseBool reads: a function to BOOLEAN
    Lower          \* values strings.ToLower changes: a function to strings

(* The variables by how they are read, and where they go *)
Field == [BOT_TOKEN |-> "botToken", SHARED_TOKEN |-> "sharedToken", LISTEN_ADDR |-> "listen",
          API_BASE_URL |-> "api", GATEWAY_URL |-> "url", ACTIVITY |-> "activity",
          STATUS |-> "status", GATEWAY_ENABLED |-> "enabled", STRIP_ANSI |-> "stripANSI",
          FLUSH |-> "flush", CHUNK |-> "chunk", QUEUE |-> "queue", RUNS |-> "runs",
          STREAM |-> "stream"]
Secrets  == {"BOT_TOKEN", "SHARED_TOKEN"}
Texts    == Secrets \cup {"LISTEN_ADDR", "API_BASE_URL", "GATEWAY_URL", "ACTIVITY"}
Switches == {"GATEWAY_ENABLED", "STRIP_ANSI"}
Numerals == {"FLUSH", "CHUNK", "QUEUE", "RUNS", "STREAM"}
Names    == Texts \cup {"STATUS"} \cup Switches \cup Numerals

VARIABLES
    state,    \* "starting", "serving", "failed"
    raw,      \* the environment
    list,     \* the entries of the allowlist
    cfg,      \* the configuration
    gateway   \* gateway.Run has been started

vars == <<state, raw, list, cfg, gateway>>

Default ==
    [botToken |-> "", sharedToken |-> "", listen |-> ":8080",
     api |-> "https://discord.com/api/v10", url |-> "", activity |-> "process logs",
     status |-> "online", enabled |-> TRUE, stripANSI |-> TRUE, flush |-> 1500, chunk |-> 1600,
     queue |-> 1024, runs |-> 32, stream |-> 2^30, channels |-> {}]

Init ==
    /\ raw \in Environments /\ list \in Lists
    /\ state = "starting" /\ cfg = Default /\ gateway = FALSE

(* envOr; envInt and envInt64, ParseBool: their errors are in Unreadable *)
envOr(v, fallback)   == IF v # "" THEN v ELSE fallback
envInt(v, fallback)  == IF v \in DOMAIN Numbers THEN Numbers[v] ELSE fallback
envBool(v, fallback) == IF v \in DOMAIN Booleans THEN Booleans[v] ELSE fallback
ToLower(v) == IF v \in DOMAIN Lower THEN Lower[v] ELSE v

(* The presence statuses *)
PresenceStatuses == {"online", "idle", "dnd", "invisible"}

(* The configuration read from the variables *)
FromEnv ==
    [botToken    |-> raw["BOT_TOKEN"],
     sharedToken |-> raw["SHARED_TOKEN"],
     listen      |-> envOr(raw["LISTEN_ADDR"], Default.listen),
     api         |-> envOr(raw["API_BASE_URL"], Default.api),
     url         |-> raw["GATEWAY_URL"],
     activity    |-> envOr(raw["ACTIVITY"], Default.activity),
     status      |-> ToLower(envOr(raw["STATUS"], Default.status)),
     enabled     |-> envBool(raw["GATEWAY_ENABLED"], Default.enabled),
     stripANSI   |-> envBool(raw["STRIP_ANSI"], Default.stripANSI),
     flush       |-> envInt(raw["FLUSH"], Default.flush),
     chunk       |-> envInt(raw["CHUNK"], Default.chunk),
     queue       |-> envInt(raw["QUEUE"], Default.queue),
     runs        |-> envInt(raw["RUNS"], Default.runs),
     stream      |-> envInt(raw["STREAM"], Default.stream),
     channels    |-> list \cap Channels]

(* Mutant: an entry that is no channel ID is left out of the allowlist. *)
UnreadableSkippingChannels ==
    \/ \E n \in Secrets : raw[n] = ""
    \/ \E n \in Switches : raw[n] \notin DOMAIN Booleans \cup {""}
    \/ \E n \in Numerals : raw[n] \notin DOMAIN Numbers \cup {""}
    \/ FromEnv.status \notin PresenceStatuses

(* What LoadConfigFromEnv refuses while it reads the variables *)
Unreadable ==
    \/ \E n \in Secrets : raw[n] = ""
    \/ \E n \in Switches : raw[n] \notin DOMAIN Booleans \cup {""}
    \/ \E n \in Numerals : raw[n] \notin DOMAIN Numbers \cup {""}
    \/ FromEnv.status \notin PresenceStatuses
    \/ \E c \in list : c \notin Channels \cup {""}

(* Mutant: the queue's size is not looked at. *)
OutOfBoundsButQueue(c) ==
    \/ c.flush <= 0 \/ c.chunk < 256 \/ c.chunk > 1800
    \/ c.runs < 1 \/ c.stream < 1

(* What it refuses of the values *)
OutOfBounds(c) ==
    \/ c.flush <= 0 \/ c.chunk < 256 \/ c.chunk > 1800
    \/ c.queue < 1 \/ c.runs < 1 \/ c.stream < 1

(* serve: the configuration, the sender and the Gateway client, whose own  *)
(* checks are the same, and the server, unless its address is in use       *)
Serve ==
    /\ state = "starting" /\ ~Unreadable /\ ~OutOfBounds(FromEnv)
    /\ cfg' = FromEnv /\ gateway' = FromEnv.enabled
    /\ state' \in {"serving", "failed"}
    /\ UNCHANGED <<raw, list>>

Fail ==
    /\ state = "starting" /\ (~Unreadable => OutOfBounds(FromEnv))
    /\ state' = "failed"
    /\ UNCHANGED <<raw, list, cfg, gateway>>

Next == Serve \/ Fail
Spec == Init /\ [][Next]_vars

(* handleStream's check of a channel *)
Accepts(c) == c \in Channels /\ (cfg.channels = {} \/ c \in cfg.channels)

-----------------------------------------------------------------------------
(***************************************************************************)
(* Properties.                                                             *)
(***************************************************************************)

(* A daemon that serves has a configuration all components can work with:  *)
(* the assumptions of Batcher, Server and Gateway, a ticker that fires,    *)
(* and posts that fit into Discord's 2000 characters with their label,     *)
(* for which 60 are enough.                                                *)
UsableConfig ==
    state = "serving" =>
        /\ cfg.queue \in Nat \ {0} /\ cfg.runs \in Nat \ {0} /\ cfg.stream \in Nat \ {0}
        /\ cfg.flush > 0 /\ cfg.chunk \in 1..(2000 - 60) /\ cfg.status \in PresenceStatuses
        /\ cfg.channels \subseteq Channels

(* Every variable that is not blank is used as it is written - a status in *)
(* lower case - or the daemon does not serve: no typing error makes it     *)
(* fall back to a default (unlike the client).  Nothing is said of blank   *)
(* ones, which count as absent.                                            *)
NothingIgnored ==
    state = "serving" =>
        /\ \A n \in Texts : raw[n] # "" => cfg[Field[n]] = raw[n]
        /\ raw["STATUS"] # "" => cfg[Field["STATUS"]] = ToLower(raw["STATUS"])
        /\ \A n \in Switches : raw[n] # "" =>
              raw[n] \in DOMAIN Booleans /\ cfg[Field[n]] = Booleans[raw[n]]
        /\ \A n \in Numerals : raw[n] # "" =>
              raw[n] \in DOMAIN Numbers /\ cfg[Field[n]] = Numbers[raw[n]]
        /\ gateway = cfg.enabled

(* README.md: "configure a comma-separated daemon-side allowlist".  With   *)
(* any entry in it, the daemon accepts listed channels only: a mistyped    *)
(* entry never opens it to all of them.                                    *)
AllowlistBinds ==
    state = "serving" /\ list \ {""} # {} => \A c \in Channels : Accepts(c) => c \in list

=============================================================================
