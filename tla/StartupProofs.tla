---------------------------- MODULE StartupProofs ----------------------------
(***************************************************************************)
(* Proofs about Startup, for any arguments, environments and files, any    *)
(* commands and pipes, and any daemon environments.  The three parts are   *)
(* taken one after the other; they share the exit code only, which the     *)
(* client writes before the command runs, and the command's end after it.  *)
(*                                                                         *)
(* The client's argument: the environment is the wrapper's own with the    *)
(* file's lines laid under it; each option is settled by the last one      *)
(* given, else by the environment, else by the default; and the parser     *)
(* stands where every way over options to the command has to come by.      *)
(***************************************************************************)
EXTENDS Startup, SequenceTheorems, FiniteSetTheorems, NaturalsInduction, WellFoundedInduction,
        TLAPS

-----------------------------------------------------------------------------
(***************************************************************************)
(* The daemon's configuration.                                             *)
(***************************************************************************)
DaemonInv == UsableConfig /\ AllowlistBinds

(* A daemon that serves has read every variable without an error. *)
LEMMA ServeStep == ASSUME Daemon!Serve PROVE DaemonInv'
<1>1. /\ ~Daemon!Unreadable /\ ~Daemon!OutOfBounds(Daemon!FromEnv)
      /\ cfg' = Daemon!FromEnv /\ gateway' = Daemon!FromEnv.enabled /\ UNCHANGED <<raw, list>>
  BY DEF Daemon!Serve
<1> DEFINE c == Daemon!FromEnv
           large == 2^30
<1>2. /\ c.flush = Daemon!envInt(raw["FLUSH"], 1500) /\ c.chunk = Daemon!envInt(raw["CHUNK"], 1600)
      /\ c.queue = Daemon!envInt(raw["QUEUE"], 1024) /\ c.runs = Daemon!envInt(raw["RUNS"], 32)
      /\ c.stream = Daemon!envInt(raw["STREAM"], large)
  BY DEF Daemon!FromEnv, Daemon!Default
<1>3. c.channels = list \cap ChannelIDs
  BY DEF Daemon!FromEnv
<1>4. /\ c.status = Daemon!ToLower(Daemon!envOr(raw["STATUS"], "online"))
      /\ c.enabled = Daemon!envBool(raw["GATEWAY_ENABLED"], TRUE)
      /\ c.stripANSI = Daemon!envBool(raw["STRIP_ANSI"], TRUE)
  BY DEF Daemon!FromEnv, Daemon!Default
<1>5. /\ c.botToken = raw["BOT_TOKEN"] /\ c.sharedToken = raw["SHARED_TOKEN"]
      /\ c.url = raw["GATEWAY_URL"]
      /\ c.listen = Daemon!envOr(raw["LISTEN_ADDR"], Daemon!Default.listen)
      /\ c.api = Daemon!envOr(raw["API_BASE_URL"], Daemon!Default.api)
      /\ c.activity = Daemon!envOr(raw["ACTIVITY"], Daemon!Default.activity)
  BY DEF Daemon!FromEnv
<1>6. large \in Int
  OBVIOUS
<1> HIDE DEF c, large
<1>7. c.flush \in Int /\ c.chunk \in Int /\ c.queue \in Int /\ c.runs \in Int /\ c.stream \in Int
  <2>1. \A v : \A n \in Int : Daemon!envInt(v, n) \in Int
    BY NumberAssumption DEF Daemon!envInt
  <2> QED
    BY <1>2, <1>6, <2>1
<1>8. c.flush > 0 /\ c.chunk \in 256..1800 /\ c.queue >= 1 /\ c.runs >= 1 /\ c.stream >= 1
  <2>1. ~Daemon!OutOfBounds(c)
    BY <1>1 DEF c
  <2>2. c.flush > 0 /\ c.chunk >= 256 /\ c.chunk <= 1800
    BY <1>7, <2>1 DEF Daemon!OutOfBounds
  <2>3. c.queue >= 1 /\ c.runs >= 1 /\ c.stream >= 1
    BY <1>7, <2>1 DEF Daemon!OutOfBounds
  <2>4. c.chunk \in 256..1800
    <3> DEFINE x == c.chunk
    <3>1. x \in Int /\ x >= 256 /\ x <= 1800
      BY <1>7, <2>2
    <3> HIDE DEF x
    <3>2. x \in 256..1800
      BY <3>1
    <3> QED
      BY <3>2 DEF x
  <2> QED
    BY <2>2, <2>3, <2>4
<1>9. c.status \in Daemon!PresenceStatuses
  BY <1>1 DEF Daemon!Unreadable, c
<1>10. Daemon!UsableConfig'
  <2>1. c.channels \subseteq ChannelIDs /\ cfg' = c
    BY <1>1, <1>3 DEF c
  <2>2. /\ c.queue \in Nat \ {0} /\ c.runs \in Nat \ {0} /\ c.stream \in Nat \ {0}
        /\ c.chunk \in 1..(2000 - 60)
    BY <1>7, <1>8
  <2> QED
    BY <1>8, <1>9, <2>1, <2>2 DEF Daemon!UsableConfig
<1>11. Daemon!NothingIgnored'
  <2>1. ASSUME NEW n \in Daemon!Numerals, raw[n] # ""
        PROVE  raw[n] \in DOMAIN Numbers /\ c[Daemon!Field[n]] = Numbers[raw[n]]
    <3>1. raw[n] \in DOMAIN Numbers
      BY <1>1, <2>1 DEF Daemon!Unreadable
    <3>2. \A d : Daemon!envInt(raw[n], d) = Numbers[raw[n]]
      BY <3>1 DEF Daemon!envInt
    <3>3. CASE n = "FLUSH"
      <4>1. Daemon!Field[n] = "flush"
        BY <3>3 DEF Daemon!Field
      <4> QED
        BY <1>2, <3>1, <3>2, <3>3, <4>1
    <3>4. CASE n = "CHUNK"
      <4>1. Daemon!Field[n] = "chunk"
        BY <3>4 DEF Daemon!Field
      <4> QED
        BY <1>2, <3>1, <3>2, <3>4, <4>1
    <3>5. CASE n = "QUEUE"
      <4>1. Daemon!Field[n] = "queue"
        BY <3>5 DEF Daemon!Field
      <4> QED
        BY <1>2, <3>1, <3>2, <3>5, <4>1
    <3>6. CASE n = "RUNS"
      <4>1. Daemon!Field[n] = "runs"
        BY <3>6 DEF Daemon!Field
      <4> QED
        BY <1>2, <3>1, <3>2, <3>6, <4>1
    <3>7. CASE n = "STREAM"
      <4>1. Daemon!Field[n] = "stream"
        BY <3>7 DEF Daemon!Field
      <4> QED
        BY <1>2, <3>1, <3>2, <3>7, <4>1
    <3> QED
      BY <3>3, <3>4, <3>5, <3>6, <3>7 DEF Daemon!Numerals
  <2>2. ASSUME NEW n \in Daemon!Texts, raw[n] # ""
        PROVE  c[Daemon!Field[n]] = raw[n]
    <3>1. \A d : Daemon!envOr(raw[n], d) = raw[n]
      BY <2>2 DEF Daemon!envOr
    <3>2. CASE n = "BOT_TOKEN"
      <4>1. Daemon!Field[n] = "botToken"
        BY <3>2 DEF Daemon!Field
      <4> QED
        BY <1>5, <3>1, <3>2, <4>1
    <3>3. CASE n = "SHARED_TOKEN"
      <4>1. Daemon!Field[n] = "sharedToken"
        BY <3>3 DEF Daemon!Field
      <4> QED
        BY <1>5, <3>1, <3>3, <4>1
    <3>4. CASE n = "LISTEN_ADDR"
      <4>1. Daemon!Field[n] = "listen"
        BY <3>4 DEF Daemon!Field
      <4> QED
        BY <1>5, <3>1, <3>4, <4>1
    <3>5. CASE n = "API_BASE_URL"
      <4>1. Daemon!Field[n] = "api"
        BY <3>5 DEF Daemon!Field
      <4> QED
        BY <1>5, <3>1, <3>5, <4>1
    <3>6. CASE n = "GATEWAY_URL"
      <4>1. Daemon!Field[n] = "url"
        BY <3>6 DEF Daemon!Field
      <4> QED
        BY <1>5, <3>1, <3>6, <4>1
    <3>7. CASE n = "ACTIVITY"
      <4>1. Daemon!Field[n] = "activity"
        BY <3>7 DEF Daemon!Field
      <4> QED
        BY <1>5, <3>1, <3>7, <4>1
    <3> QED
      BY <3>2, <3>3, <3>4, <3>5, <3>6, <3>7 DEF Daemon!Texts, Daemon!Secrets
  <2>3. raw["STATUS"] # "" => c[Daemon!Field["STATUS"]] = Daemon!ToLower(raw["STATUS"])
    BY <1>4 DEF Daemon!Field, Daemon!envOr
  <2>4. ASSUME NEW n \in Daemon!Switches, raw[n] # ""
        PROVE  raw[n] \in DOMAIN Booleans /\ c[Daemon!Field[n]] = Booleans[raw[n]]
    <3>1. raw[n] \in DOMAIN Booleans
      BY <1>1, <2>4 DEF Daemon!Unreadable
    <3>2. CASE n = "GATEWAY_ENABLED"
      BY <1>4, <3>1, <3>2 DEF Daemon!Field, Daemon!envBool
    <3>3. CASE n = "STRIP_ANSI"
      BY <1>4, <3>1, <3>3 DEF Daemon!Field, Daemon!envBool
    <3> QED
      BY <3>1, <3>2, <3>3 DEF Daemon!Switches
  <2>5. cfg' = c /\ gateway' = c.enabled /\ raw' = raw
    BY <1>1 DEF c
  <2> QED
    BY <2>1, <2>2, <2>3, <2>4, <2>5 DEF Daemon!NothingIgnored
<1>12. Daemon!AllowlistBinds'
  <2>1. \A d \in list : d \in ChannelIDs \cup {""}
    BY <1>1 DEF Daemon!Unreadable
  <2>2. cfg' = c /\ list' = list
    BY <1>1 DEF c
  <2> QED
    BY <1>3, <2>1, <2>2 DEF Daemon!AllowlistBinds, Daemon!Accepts
<1> QED
  BY <1>10, <1>11, <1>12 DEF DaemonInv, UsableConfig, AllowlistBinds

(* A step that leaves the daemon alone, or makes it fail, keeps it. *)
LEMMA DaemonNext == DaemonInv /\ [Next]_vars => DaemonInv'
<1> SUFFICES ASSUME DaemonInv, [Next]_vars PROVE DaemonInv'
  OBVIOUS
<1>1. CASE Daemon!Serve
  BY <1>1, ServeStep
<1>2. CASE Daemon!Fail
  <2>1. state' # "serving"
    BY <1>2 DEF Daemon!Fail
  <2>2. Daemon!UsableConfig'
    BY <2>1 DEF Daemon!UsableConfig
  <2>3. Daemon!NothingIgnored'
    BY <2>1 DEF Daemon!NothingIgnored
  <2>4. Daemon!AllowlistBinds'
    BY <2>1 DEF Daemon!AllowlistBinds
  <2> QED
    BY <2>2, <2>3, <2>4 DEF DaemonInv, UsableConfig, AllowlistBinds
<1>3. CASE UNCHANGED daemonVars
  <2>1. Daemon!UsableConfig' = Daemon!UsableConfig
    BY <1>3 DEF daemonVars, Daemon!UsableConfig
  <2>2. Daemon!NothingIgnored' = Daemon!NothingIgnored
    BY <1>3 DEF daemonVars, Daemon!NothingIgnored
  <2>3. Daemon!AllowlistBinds' = Daemon!AllowlistBinds
    BY <1>3 DEF daemonVars, Daemon!AllowlistBinds, Daemon!Accepts
  <2> QED
    BY <2>1, <2>2, <2>3 DEF DaemonInv, UsableConfig, AllowlistBinds
<1> QED
  BY <1>1, <1>2, <1>3 DEF Next, DaemonStep, ClientStep, Running, Daemon!Next, vars

(* Both hold throughout. *)
LEMMA DaemonInvariant == Spec => []DaemonInv
<1>1. Init => DaemonInv
  BY DEF Init, Daemon!Init, DaemonInv, UsableConfig, AllowlistBinds, Daemon!UsableConfig,
         Daemon!NothingIgnored, Daemon!AllowlistBinds
<1> QED
  BY <1>1, DaemonNext, PTL DEF Spec

(* A daemon that serves has a configuration its components can work with,  *)
(* and in it every text, switch and number whose variable is not blank is  *)
(* the one that was written (LoadConfigFromEnv).                           *)
THEOREM ServesAsConfigured == Spec => []UsableConfig
BY DaemonInvariant, PTL DEF DaemonInv

(* With any entry in it, mistyped or not, the allowlist never opens the    *)
(* daemon to channels that are not listed (LoadConfigFromEnv,              *)
(* handleStream).                                                          *)
THEOREM TheAllowlistBinds == Spec => []AllowlistBinds
BY DaemonInvariant, PTL DEF DaemonInv

-----------------------------------------------------------------------------
(***************************************************************************)
(* The command.  The pieces of a stream are numbered as they are written,  *)
(* so what was printed locally and what was given to the session are both  *)
(* counted from one, and the pipe holds the numbers that follow; a copier  *)
(* has at most one of them in hand.                                        *)
(***************************************************************************)
IsCount(q) == q \in Seq(Nat) /\ Len(q) \in Nat /\ \A i \in 1..Len(q) : q[i] = i

Flow(w, l, r, p, c, n, ws) ==
    /\ IsCount(w) /\ IsCount(l) /\ IsCount(r)
    /\ p \in Seq(Nat) /\ Len(p) \in Nat /\ n \in Nat
    /\ c # "failed" => \A i \in 1..Len(p) : p[i] = Len(w) - Len(p) + i
    /\ c \in {"read", "done"} => Len(l) = Len(w) - Len(p) /\ Len(r) = Len(l)
    /\ c = "local" => Len(l) = Len(w) - Len(p) - 1 /\ Len(r) = Len(l) /\ n = Len(l) + 1
    /\ c = "remote" => Len(l) = Len(w) - Len(p) /\ Len(r) = Len(l) - 1 /\ n = Len(l)
    /\ c = "failed" => Len(l) <= Len(w) /\ Len(r) = Len(l)
    /\ c = "done" => Len(p) = 0 /\ ws = {}

(* One more is counted. *)
LEMMA CountMore ==
    ASSUME NEW q, IsCount(q)
    PROVE  /\ IsCount(Append(q, Len(q) + 1)) /\ Len(Append(q, Len(q) + 1)) = Len(q) + 1
<1> DEFINE n == Len(q)
           more == Append(q, n + 1)
<1>1. n \in Nat /\ q \in Seq(Nat) /\ \A i \in 1..n : q[i] = i
  BY DEF IsCount
<1>2. /\ more \in Seq(Nat) /\ Len(more) = n + 1 /\ more[n + 1] = n + 1
      /\ \A i \in 1..n : more[i] = q[i]
  BY <1>1, AppendProperties
<1> HIDE DEF n, more
<1>3. \A i \in 1..(n + 1) : more[i] = i
  <2> SUFFICES ASSUME NEW i \in 1..(n + 1) PROVE more[i] = i
    OBVIOUS
  <2>1. i \in 1..n \/ i = n + 1
    BY <1>1
  <2> QED
    BY <1>1, <1>2, <2>1
<1>4. IsCount(more)
  BY <1>1, <1>2, <1>3 DEF IsCount
<1> QED
  BY <1>2, <1>4 DEF n, more

(* Of two that are counted the shorter is the beginning of the longer. *)
LEMMA CountBegins ==
    ASSUME NEW a, NEW b, IsCount(a), IsCount(b), Len(a) <= Len(b)
    PROVE  /\ Cmd!IsBeginning(a, b) /\ (Len(a) = Len(b) => a = b)
<1>1. /\ a \in Seq(Nat) /\ b \in Seq(Nat) /\ Len(a) \in Nat /\ Len(b) \in Nat
      /\ \A i \in 1..Len(a) : a[i] = i
      /\ \A i \in 1..Len(b) : b[i] = i
  BY DEF IsCount
<1>2. CASE Len(a) = Len(b)
  <2>1. a = b
    BY <1>1, <1>2, SeqEqual
  <2>2. SubSeq(b, 1, Len(b)) = b
    BY <1>1, SubSeqFull
  <2> QED
    BY <1>1, <2>1, <2>2 DEF Cmd!IsBeginning
<1>3. CASE Len(a) < Len(b)
  <2> DEFINE c == SubSeq(b, 1, Len(a))
  <2>1. CASE Len(a) = 0
    <3>1. c = << >> /\ a = << >>
      BY <1>1, <2>1, SubSeqEmpty, EmptySeq
    <3> QED
      BY <1>1, <1>3, <3>1 DEF Cmd!IsBeginning
  <2>2. CASE Len(a) # 0
    <3>1. 1 \in 1..(Len(b) + 1) /\ Len(a) \in 0..Len(b) /\ 1 <= Len(a)
      BY <1>1, <1>3, <2>2
    <3>2. c \in Seq(Nat) /\ Len(c) = Len(a) /\ \A i \in 1..Len(a) : c[i] = b[i]
      <4>1. /\ c \in Seq(Nat)
            /\ Len(c) = IF 1 <= Len(a) THEN Len(a) - 1 + 1 ELSE 0
            /\ \A i \in 1..(Len(a) - 1 + 1) : c[i] = b[1 + i - 1]
        BY <1>1, <3>1, SubSeqProperties
      <4> QED
        BY <1>1, <3>1, <4>1
    <3>3. \A i \in 1..Len(a) : c[i] = a[i]
      BY <1>1, <1>3, <3>2
    <3>4. a = c
      BY <1>1, <3>2, <3>3, SeqEqual
    <3> QED
      BY <1>3, <3>4 DEF Cmd!IsBeginning
  <2> QED
    BY <2>1, <2>2
<1> QED
  BY <1>1, <1>2, <1>3

(* What the streams hold, as the properties need it *)
LEMMA FlowMeans ==
    ASSUME NEW w, NEW l, NEW r, NEW p, NEW c, NEW n, NEW ws, Flow(w, l, r, p, c, n, ws),
           c \in {"read", "local", "remote", "done", "failed"}
    PROVE  /\ Cmd!IsBeginning(r, l) /\ Len(l) - Len(r) <= 1 /\ Cmd!IsBeginning(l, w)
           /\ c = "done" => r = w
<1>1. /\ IsCount(w) /\ IsCount(l) /\ IsCount(r) /\ Len(p) \in Nat
      /\ Len(w) \in Nat /\ Len(l) \in Nat /\ Len(r) \in Nat
  BY DEF Flow, IsCount
<1>2. Len(r) <= Len(l) /\ Len(l) - Len(r) <= 1 /\ Len(l) <= Len(w)
  BY <1>1 DEF Flow
<1>3. Cmd!IsBeginning(r, l) /\ Cmd!IsBeginning(l, w)
  BY <1>1, <1>2, CountBegins
<1>4. ASSUME c = "done" PROVE r = w
  <2>1. Len(r) = Len(w)
    BY <1>1, <1>4 DEF Flow
  <2> QED
    BY <1>1, <2>1, CountBegins
<1> QED
  BY <1>2, <1>3, <1>4

(* The command writes a piece. *)
LEMMA FlowOutput ==
    ASSUME NEW w, NEW l, NEW r, NEW p, NEW c, NEW n, NEW ws, Flow(w, l, r, p, c, n, ws),
           c # "failed", ws # {}
    PROVE  Flow(Append(w, Len(w) + 1), l, r, Append(p, Len(w) + 1), c, n, ws)
<1> DEFINE w2 == Append(w, Len(w) + 1)
           p2 == Append(p, Len(w) + 1)
           h == Len(p)
<1>1. IsCount(w2) /\ Len(w2) = Len(w) + 1 /\ Len(w) \in Nat
  BY CountMore DEF Flow, IsCount
<1>2. /\ p2 \in Seq(Nat) /\ Len(p2) = h + 1 /\ p2[h + 1] = Len(w) + 1
      /\ \A i \in 1..h : p2[i] = p[i]
      /\ h \in Nat
  BY <1>1, AppendProperties DEF Flow
<1>3. \A i \in 1..h : p[i] = Len(w) - h + i
  BY DEF Flow
<1> HIDE DEF w2, p2
<1>4. \A i \in 1..Len(p2) : p2[i] = Len(w2) - Len(p2) + i
  <2> SUFFICES ASSUME NEW i \in 1..(h + 1) PROVE p2[i] = Len(w) + 1 - (h + 1) + i
    BY <1>1, <1>2
  <2>1. i \in 1..h \/ i = h + 1
    BY <1>2
  <2> QED
    BY <1>1, <1>2, <1>3, <2>1
<1>5. /\ IsCount(l) /\ IsCount(r) /\ n \in Nat /\ Len(l) \in Nat /\ Len(r) \in Nat
      /\ c # "done"
      /\ c = "read" => Len(l) = Len(w) - h /\ Len(r) = Len(l)
      /\ c = "local" => Len(l) = Len(w) - h - 1 /\ Len(r) = Len(l) /\ n = Len(l) + 1
      /\ c = "remote" => Len(l) = Len(w) - h /\ Len(r) = Len(l) - 1 /\ n = Len(l)
  BY DEF Flow, IsCount
<1> HIDE DEF h
<1>6. Flow(w2, l, r, p2, c, n, ws)
  <2>1. Len(w2) - Len(p2) = Len(w) - h /\ Len(p2) \in Nat
    BY <1>1, <1>2
  <2> QED
    BY <1>1, <1>2, <1>4, <1>5, <2>1 DEF Flow
<1> QED
  BY <1>6 DEF w2, p2

(* A copier reads a piece, or the end. *)
LEMMA FlowRead ==
    ASSUME NEW w, NEW l, NEW r, NEW p, NEW n, NEW ws, Flow(w, l, r, p, "read", n, ws)
    PROVE  /\ p # << >> => Flow(w, l, r, Tail(p), "local", Head(p), ws)
           /\ p = << >> /\ ws = {} => Flow(w, l, r, p, "done", n, ws)
<1>1. /\ IsCount(w) /\ IsCount(l) /\ IsCount(r) /\ Len(w) \in Nat /\ Len(l) \in Nat
      /\ p \in Seq(Nat) /\ Len(p) \in Nat /\ n \in Nat
      /\ \A i \in 1..Len(p) : p[i] = Len(w) - Len(p) + i
      /\ Len(l) = Len(w) - Len(p) /\ Len(r) = Len(l)
  BY DEF Flow, IsCount
<1>2. ASSUME p # << >> PROVE Flow(w, l, r, Tail(p), "local", Head(p), ws)
  <2> DEFINE q == Tail(p)
             h == Head(p)
  <2>1. /\ q \in Seq(Nat) /\ Len(q) = Len(p) - 1 /\ h = p[1] /\ Len(p) > 0
        /\ \A i \in 1..Len(q) : q[i] = p[i + 1]
    BY <1>1, <1>2, HeadTailProperties, EmptySeq
  <2> HIDE DEF q, h
  <2>2. \A i \in 1..Len(q) : q[i] = Len(w) - Len(q) + i
    BY <1>1, <2>1
  <2>3. h = Len(l) + 1 /\ h \in Nat
    BY <1>1, <2>1
  <2>4. Flow(w, l, r, q, "local", h, ws)
    BY <1>1, <2>1, <2>2, <2>3 DEF Flow
  <2> QED
    BY <2>4 DEF q, h
<1>3. ASSUME p = << >>, ws = {} PROVE Flow(w, l, r, p, "done", n, ws)
  <2>1. Len(p) = 0
    BY <1>3, EmptySeq
  <2> QED
    BY <1>1, <1>3, <2>1 DEF Flow
<1> QED
  BY <1>2, <1>3

(* A copier prints its piece, fails to, or hands it to the session. *)
LEMMA FlowMirror ==
    ASSUME NEW w, NEW l, NEW r, NEW p, NEW n, NEW ws
    PROVE  /\ Flow(w, l, r, p, "local", n, ws) =>
                Flow(w, Append(l, n), r, p, "remote", n, ws) /\ Flow(w, l, r, p, "failed", n, ws)
           /\ Flow(w, l, r, p, "remote", n, ws) => Flow(w, l, Append(r, n), p, "read", n, ws)
<1>1. ASSUME Flow(w, l, r, p, "local", n, ws)
      PROVE  Flow(w, Append(l, n), r, p, "remote", n, ws) /\ Flow(w, l, r, p, "failed", n, ws)
  <2> DEFINE l2 == Append(l, n)
  <2>1. /\ IsCount(w) /\ IsCount(l) /\ IsCount(r) /\ Len(w) \in Nat /\ Len(l) \in Nat
        /\ p \in Seq(Nat) /\ Len(p) \in Nat /\ n \in Nat
        /\ \A i \in 1..Len(p) : p[i] = Len(w) - Len(p) + i
        /\ Len(l) = Len(w) - Len(p) - 1 /\ Len(r) = Len(l) /\ n = Len(l) + 1
    BY <1>1 DEF Flow, IsCount
  <2>2. IsCount(l2) /\ Len(l2) = Len(l) + 1
    BY <2>1, CountMore
  <2> HIDE DEF l2
  <2>3. Flow(w, l2, r, p, "remote", n, ws)
    BY <2>1, <2>2 DEF Flow
  <2>4. Flow(w, l, r, p, "failed", n, ws)
    BY <2>1 DEF Flow
  <2> QED
    BY <2>3, <2>4 DEF l2
<1>2. ASSUME Flow(w, l, r, p, "remote", n, ws)
      PROVE  Flow(w, l, Append(r, n), p, "read", n, ws)
  <2> DEFINE r2 == Append(r, n)
  <2>1. /\ IsCount(w) /\ IsCount(l) /\ IsCount(r) /\ Len(w) \in Nat /\ Len(r) \in Nat
        /\ p \in Seq(Nat) /\ Len(p) \in Nat /\ n \in Nat /\ Len(l) \in Nat
        /\ \A i \in 1..Len(p) : p[i] = Len(w) - Len(p) + i
        /\ Len(l) = Len(w) - Len(p) /\ Len(r) = Len(l) - 1 /\ n = Len(l)
    BY <1>2 DEF Flow, IsCount
  <2>2. n = Len(r) + 1
    BY <2>1
  <2>3. IsCount(r2) /\ Len(r2) = Len(r) + 1
    BY <2>1, <2>2, CountMore
  <2> HIDE DEF r2
  <2>4. Flow(w, l, r2, p, "read", n, ws)
    BY <2>1, <2>3 DEF Flow
  <2> QED
    BY <2>4 DEF r2
<1> QED
  BY <1>1, <1>2

CopierPlaces == {"read", "local", "remote", "done", "failed"}

(* The types of the streams *)
PipeTypes ==
    /\ pipe \in [Cmd!Streams -> Seq(Nat)] /\ piece \in [Cmd!Streams -> Nat]
    /\ copier \in [Cmd!Streams -> CopierPlaces]
    /\ written \in [Cmd!Streams -> Seq(Nat)]
    /\ local \in [Cmd!Streams -> Seq(Nat)] /\ remote \in [Cmd!Streams -> Seq(Nat)]

FlowOf(s) == Flow(written[s], local[s], remote[s], pipe[s], copier[s], piece[s], writers)

StreamInv == PipeTypes /\ \A s \in Cmd!Streams : FlowOf(s)

(* The code that Wait takes from the command and its copies *)
ExitCode == IF status # 0 THEN status ELSE IF Cmd!CopyFailed THEN 1 ELSE 0

(* Where the wrapper is.  It runs the command once the client has its      *)
(* start event; the command writes, and its copiers run, only while the    *)
(* wrapper waits; and the exit event says how it ended.                    *)
PhaseInv ==
    /\ wrapper \in {"start", "wait", "close", "done"} /\ code \in Int
    /\ status \in Statuses \cup {-1} /\ writers \subseteq {"command", "child"}
    /\ broken \subseteq Cmd!Streams
    /\ wrapper # "start" => pc = "start"
    /\ wrapper = "start" => /\ writers = {} /\ status = -1
                            /\ \A s \in Cmd!Streams : copier[s] = "done"
    /\ wrapper # "wait" => \A s \in Cmd!Streams : copier[s] \in {"done", "failed"}
    /\ status # -1 \/ wrapper \in {"close", "done"} => "command" \notin writers
    /\ wrapper \in {"close", "done"} /\ status # -1 => code = ExitCode
    /\ wrapper \in {"close", "done"} /\ status = -1 => code = 127
    /\ exitEvent = IF wrapper = "done" THEN <<[code |-> code, after |-> remote]>> ELSE << >>

CommandInv == StreamInv /\ PhaseInv

(* A step that leaves what a stream holds, and lets its pipe go only where *)
(* nobody reads it any more, keeps it.                                     *)
LEMMA FlowStays ==
    ASSUME NEW w, NEW l, NEW r, NEW p, NEW c, NEW n, NEW ws, NEW ws2,
           Flow(w, l, r, p, c, n, ws), c = "done" => ws2 = {}
    PROVE  Flow(w, l, r, p, c, n, ws2)
BY DEF Flow

(* The steps of one stream *)
LEMMA OutputStep ==
    ASSUME CommandInv, NEW s \in Cmd!Streams, Cmd!Output(s), pc' = pc PROVE CommandInv'
<1> DEFINE n == Len(written[s]) + 1
<1>1. /\ writers # {} /\ copier[s] # "failed"
      /\ pipe' = [pipe EXCEPT ![s] = Append(@, n)]
      /\ written' = [written EXCEPT ![s] = Append(@, n)]
      /\ UNCHANGED <<wrapper, status, writers, copier, piece, local, remote, broken, code, exitEvent>>
  BY DEF Cmd!Output
<1>2. PipeTypes /\ FlowOf(s) /\ PhaseInv
  BY DEF CommandInv, StreamInv
<1>3. n \in Nat /\ Len(written[s]) \in Nat
  BY <1>2, LenProperties DEF PipeTypes
<1>4. Append(pipe[s], n) \in Seq(Nat) /\ Append(written[s], n) \in Seq(Nat)
  BY <1>2, <1>3, AppendProperties DEF PipeTypes
<1>5. PipeTypes'
  BY <1>1, <1>2, <1>4 DEF PipeTypes
<1>6. FlowOf(s)'
  <2>1. Flow(Append(written[s], n), local[s], remote[s], Append(pipe[s], n), copier[s], piece[s],
             writers)
    BY <1>1, <1>2, FlowOutput DEF FlowOf
  <2>2. pipe'[s] = Append(pipe[s], n) /\ written'[s] = Append(written[s], n)
    BY <1>1, <1>2 DEF PipeTypes
  <2> QED
    BY <1>1, <2>1, <2>2 DEF FlowOf
<1>7. ASSUME NEW t \in Cmd!Streams, t # s PROVE FlowOf(t)'
  <2>1. pipe'[t] = pipe[t] /\ written'[t] = written[t]
    BY <1>1, <1>2, <1>7 DEF PipeTypes
  <2> QED
    BY <1>1, <2>1 DEF CommandInv, StreamInv, FlowOf
<1>8. PhaseInv'
  <2>1. ExitCode' = ExitCode
    BY <1>1 DEF ExitCode, Cmd!CopyFailed
  <2> QED
    BY <1>1, <1>2, <2>1 DEF PhaseInv
<1> QED
  BY <1>5, <1>6, <1>7, <1>8 DEF CommandInv, StreamInv

(* A copier takes a piece from the pipe. *)
LEMMA ReadStep == ASSUME CommandInv, NEW s \in Cmd!Streams, Cmd!Read(s), pc' = pc PROVE CommandInv'
<1>1. /\ copier[s] = "read"
      /\ UNCHANGED <<wrapper, status, writers, written, local, remote, broken, code, exitEvent>>
  BY DEF Cmd!Read
<1>2. PipeTypes /\ FlowOf(s) /\ PhaseInv
  BY DEF CommandInv, StreamInv
<1>3. Flow(written[s], local[s], remote[s], pipe[s], "read", piece[s], writers)
  BY <1>1, <1>2 DEF FlowOf
<1>4. wrapper = "wait" /\ wrapper' = "wait"
  BY <1>1, <1>2 DEF PhaseInv
<1>5. CASE /\ pipe[s] # << >>
           /\ piece' = [piece EXCEPT ![s] = Head(pipe[s])] /\ pipe' = [pipe EXCEPT ![s] = Tail(@)]
           /\ copier' = [copier EXCEPT ![s] = "local"]
  <2>1. pipe[s] \in Seq(Nat) /\ Head(pipe[s]) \in Nat /\ Tail(pipe[s]) \in Seq(Nat)
    BY <1>2, <1>5, HeadTailProperties DEF PipeTypes
  <2>2. PipeTypes'
    BY <1>1, <1>2, <1>5, <2>1 DEF PipeTypes, CopierPlaces
  <2>3. pipe'[s] = Tail(pipe[s]) /\ piece'[s] = Head(pipe[s]) /\ copier'[s] = "local"
    BY <1>2, <1>5 DEF PipeTypes
  <2>4. FlowOf(s)'
    BY <1>1, <1>3, <1>5, <2>3, FlowRead DEF FlowOf
  <2>5. ASSUME NEW t \in Cmd!Streams, t # s PROVE FlowOf(t)'
    <3>1. pipe'[t] = pipe[t] /\ piece'[t] = piece[t] /\ copier'[t] = copier[t]
      BY <1>2, <1>5, <2>5 DEF PipeTypes
    <3> QED
      BY <1>1, <3>1 DEF CommandInv, StreamInv, FlowOf
  <2>6. PhaseInv'
    BY <1>1, <1>2, <1>4 DEF PhaseInv
  <2> QED
    BY <2>2, <2>4, <2>5, <2>6 DEF CommandInv, StreamInv
<1>6. CASE /\ pipe[s] = << >> /\ writers = {}
           /\ copier' = [copier EXCEPT ![s] = "done"] /\ UNCHANGED <<piece, pipe>>
  <2>1. PipeTypes'
    BY <1>1, <1>2, <1>6 DEF PipeTypes, CopierPlaces
  <2>2. copier'[s] = "done"
    BY <1>2, <1>6 DEF PipeTypes
  <2>3. FlowOf(s)'
    BY <1>1, <1>3, <1>6, <2>2, FlowRead DEF FlowOf
  <2>4. ASSUME NEW t \in Cmd!Streams, t # s PROVE FlowOf(t)'
    <3>1. copier'[t] = copier[t]
      BY <1>2, <1>6, <2>4 DEF PipeTypes
    <3> QED
      BY <1>1, <1>6, <3>1 DEF CommandInv, StreamInv, FlowOf
  <2>5. PhaseInv'
    BY <1>1, <1>2, <1>4 DEF PhaseInv
  <2> QED
    BY <2>1, <2>3, <2>4, <2>5 DEF CommandInv, StreamInv
<1> QED
  BY <1>5, <1>6 DEF Cmd!Read

(* And shows it, here first, or ends. *)
LEMMA MirrorStep ==
    ASSUME CommandInv, NEW s \in Cmd!Streams, Cmd!Mirror(s), pc' = pc PROVE CommandInv'
<1>1. /\ copier[s] \in {"local", "remote"}
      /\ UNCHANGED <<wrapper, status, writers, pipe, piece, written, broken, code, exitEvent>>
  BY DEF Cmd!Mirror
<1>2. PipeTypes /\ FlowOf(s) /\ PhaseInv
  BY DEF CommandInv, StreamInv
<1>3. wrapper = "wait" /\ wrapper' = "wait"
  BY <1>1, <1>2 DEF PhaseInv
<1>4. PhaseInv'
  BY <1>1, <1>2, <1>3 DEF PhaseInv
<1>5. /\ Append(local[s], piece[s]) \in Seq(Nat) /\ Append(remote[s], piece[s]) \in Seq(Nat)
  BY <1>2, AppendProperties DEF PipeTypes
<1>6. CASE /\ copier[s] = "local" /\ local' = [local EXCEPT ![s] = Append(@, piece[s])]
           /\ copier' = [copier EXCEPT ![s] = "remote"] /\ UNCHANGED remote
  <2>1. PipeTypes'
    BY <1>1, <1>2, <1>5, <1>6 DEF PipeTypes, CopierPlaces
  <2>2. local'[s] = Append(local[s], piece[s]) /\ copier'[s] = "remote"
    BY <1>2, <1>6 DEF PipeTypes
  <2>3. FlowOf(s)'
    BY <1>1, <1>2, <1>6, <2>2, FlowMirror DEF FlowOf
  <2>4. ASSUME NEW t \in Cmd!Streams, t # s PROVE FlowOf(t)'
    <3>1. local'[t] = local[t] /\ copier'[t] = copier[t]
      BY <1>2, <1>6, <2>4 DEF PipeTypes
    <3> QED
      BY <1>1, <1>6, <3>1 DEF CommandInv, StreamInv, FlowOf
  <2> QED
    BY <1>4, <2>1, <2>3, <2>4 DEF CommandInv, StreamInv
<1>7. CASE /\ copier[s] = "local"
           /\ copier' = [copier EXCEPT ![s] = "failed"] /\ UNCHANGED <<local, remote>>
  <2>1. PipeTypes'
    BY <1>1, <1>2, <1>7 DEF PipeTypes, CopierPlaces
  <2>2. copier'[s] = "failed"
    BY <1>2, <1>7 DEF PipeTypes
  <2>3. FlowOf(s)'
    BY <1>1, <1>2, <1>7, <2>2, FlowMirror DEF FlowOf
  <2>4. ASSUME NEW t \in Cmd!Streams, t # s PROVE FlowOf(t)'
    <3>1. copier'[t] = copier[t]
      BY <1>2, <1>7, <2>4 DEF PipeTypes
    <3> QED
      BY <1>1, <1>7, <3>1 DEF CommandInv, StreamInv, FlowOf
  <2> QED
    BY <1>4, <2>1, <2>3, <2>4 DEF CommandInv, StreamInv
<1>8. CASE /\ copier[s] = "remote" /\ remote' = [remote EXCEPT ![s] = Append(@, piece[s])]
           /\ copier' = [copier EXCEPT ![s] = "read"] /\ UNCHANGED local
  <2>1. PipeTypes'
    BY <1>1, <1>2, <1>5, <1>8 DEF PipeTypes, CopierPlaces
  <2>2. remote'[s] = Append(remote[s], piece[s]) /\ copier'[s] = "read"
    BY <1>2, <1>8 DEF PipeTypes
  <2>3. FlowOf(s)'
    BY <1>1, <1>2, <1>8, <2>2, FlowMirror DEF FlowOf
  <2>4. ASSUME NEW t \in Cmd!Streams, t # s PROVE FlowOf(t)'
    <3>1. remote'[t] = remote[t] /\ copier'[t] = copier[t]
      BY <1>2, <1>8, <2>4 DEF PipeTypes
    <3> QED
      BY <1>1, <1>8, <3>1 DEF CommandInv, StreamInv, FlowOf
  <2> QED
    BY <1>4, <2>1, <2>3, <2>4 DEF CommandInv, StreamInv
<1> QED
  BY <1>6, <1>7, <1>8 DEF Cmd!Mirror

(* The steps of the command and its children, which write no piece *)
LEMMA WritersStep ==
    ASSUME CommandInv, pc' = pc,
           Cmd!Fork \/ Cmd!Exit \/ Cmd!ChildExit \/ \E s \in Cmd!Streams : Cmd!Break(s)
    PROVE  CommandInv'
<1>1. UNCHANGED <<wrapper, pipe, copier, piece, written, local, remote, code, exitEvent>>
  BY DEF Cmd!Fork, Cmd!Exit, Cmd!ChildExit, Cmd!Break, Cmd!pipeVars
<1>2. PipeTypes /\ PhaseInv
  BY DEF CommandInv, StreamInv
<1>3. /\ writers' \subseteq {"command", "child"}
      /\ \/ writers' \subseteq writers
         \/ writers = {"command"}
    BY <1>2 DEF Cmd!Fork, Cmd!Exit, Cmd!ChildExit, Cmd!Break, PhaseInv
<1>4. StreamInv'
  <2>1. ASSUME NEW s \in Cmd!Streams PROVE FlowOf(s)'
    <3>1. FlowOf(s)
      BY DEF CommandInv, StreamInv
    <3>2. copier[s] = "done" => writers' = {}
      BY <1>3, <3>1 DEF FlowOf, Flow
    <3> QED
      BY <1>1, <3>1, <3>2, FlowStays DEF FlowOf
  <2>2. PipeTypes'
    BY <1>1, <1>2 DEF PipeTypes
  <2> QED
    BY <2>1, <2>2 DEF StreamInv
<1>5. PhaseInv'
  <2>1. Cmd!CopyFailed' = Cmd!CopyFailed
    BY <1>1 DEF Cmd!CopyFailed
  <2>2. CASE Cmd!Fork
    <3>1. writers = {"command"} /\ writers' = {"command", "child"} /\ UNCHANGED <<status, broken>>
      BY <2>2 DEF Cmd!Fork
    <3> QED
      BY <1>1, <1>2, <3>1 DEF PhaseInv
  <2>3. CASE Cmd!Exit
    <3>1. /\ "command" \in writers /\ status' \in Statuses /\ writers' = writers \ {"command"}
          /\ UNCHANGED broken
      BY <2>3 DEF Cmd!Exit
    <3> QED
      BY <1>1, <1>2, <3>1 DEF PhaseInv
  <2>4. CASE Cmd!ChildExit
    <3>1. writers' = writers \ {"child"} /\ UNCHANGED <<status, broken>>
      BY <2>4 DEF Cmd!ChildExit
    <3>2. ExitCode' = ExitCode
      BY <2>1, <3>1 DEF ExitCode
    <3> QED
      BY <1>1, <1>2, <3>1, <3>2 DEF PhaseInv
  <2>5. CASE \E s \in Cmd!Streams : Cmd!Break(s)
    <3>1. broken' \subseteq Cmd!Streams /\ UNCHANGED <<status, writers>>
      BY <1>2, <2>5 DEF Cmd!Break, PhaseInv
    <3>2. ExitCode' = ExitCode
      BY <2>1, <3>1 DEF ExitCode
    <3> QED
      BY <1>1, <1>2, <3>1, <3>2 DEF PhaseInv
  <2> QED
    BY <2>2, <2>3, <2>4, <2>5
<1> QED
  BY <1>4, <1>5 DEF CommandInv

(* The steps of the wrapper *)
LEMMA WrapperStep ==
    ASSUME CommandInv, pc = "start", pc' = pc, Cmd!Start \/ Cmd!Wait \/ Cmd!Close
    PROVE  CommandInv'
<1>1. PipeTypes /\ PhaseInv /\ \A s \in Cmd!Streams : FlowOf(s)
  BY DEF CommandInv, StreamInv
<1>2. CASE Cmd!Start
  <2>1. /\ wrapper = "start" /\ UNCHANGED <<status, pipe, piece, written, local, remote, broken, exitEvent>>
    BY <1>2 DEF Cmd!Start
  <2>2. /\ writers = {} /\ status = -1 /\ exitEvent = << >>
        /\ \A s \in Cmd!Streams : copier[s] = "done"
    BY <1>1, <2>1 DEF PhaseInv
  <2>3. CASE /\ wrapper' = "wait" /\ writers' = {"command"}
             /\ copier' = [s \in Cmd!Streams |-> "read"] /\ UNCHANGED code
    <3>1. PipeTypes'
      BY <1>1, <2>1, <2>3 DEF PipeTypes, CopierPlaces
    <3>2. ASSUME NEW s \in Cmd!Streams PROVE FlowOf(s)'
      <4>1. FlowOf(s)
        BY <1>1
      <4>2. copier'[s] = "read" /\ copier[s] = "done"
        BY <2>2, <2>3
      <4>3. Flow(written[s], local[s], remote[s], pipe[s], "read", piece[s], writers')
        BY <4>1, <4>2 DEF FlowOf, Flow
      <4> QED
        BY <2>1, <4>2, <4>3 DEF FlowOf
    <3>3. PhaseInv'
      BY <1>1, <2>1, <2>2, <2>3 DEF PhaseInv
    <3> QED
      BY <3>1, <3>2, <3>3 DEF CommandInv, StreamInv
  <2>4. CASE wrapper' = "close" /\ code' = 127 /\ UNCHANGED <<writers, copier>>
    <3>1. StreamInv'
      BY <1>1, <2>1, <2>4 DEF StreamInv, PipeTypes, FlowOf
    <3>2. PhaseInv'
      BY <1>1, <2>1, <2>2, <2>4 DEF PhaseInv
    <3> QED
      BY <3>1, <3>2 DEF CommandInv
  <2> QED
    BY <1>2, <2>3, <2>4 DEF Cmd!Start
<1>3. CASE Cmd!Wait
  <2>1. /\ wrapper = "wait" /\ wrapper' = "close" /\ status # -1
        /\ \A s \in Cmd!Streams : copier[s] \in {"done", "failed"}
        /\ UNCHANGED <<status, writers, pipe, copier, piece, written, local, remote, broken, exitEvent>>
    BY <1>3 DEF Cmd!Wait, Cmd!pipeVars, Cmd!NoStatus
  <2>2. code' = ExitCode
    BY <1>3 DEF Cmd!Wait, ExitCode
  <2>3. ExitCode' = ExitCode /\ ExitCode \in Int
    BY <1>1, <2>1, StatusAssumption DEF ExitCode, Cmd!CopyFailed, PhaseInv
  <2>4. StreamInv'
    BY <1>1, <2>1 DEF StreamInv, PipeTypes, FlowOf
  <2>5. PhaseInv'
    BY <1>1, <2>1, <2>2, <2>3 DEF PhaseInv
  <2> QED
    BY <2>4, <2>5 DEF CommandInv
<1>4. CASE Cmd!Close
  <2>1. /\ wrapper = "close" /\ wrapper' = "done" /\ exitEvent' = <<[code |-> code, after |-> remote]>>
        /\ UNCHANGED <<status, writers, pipe, copier, piece, written, local, remote, broken, code>>
    BY <1>4 DEF Cmd!Close, Cmd!pipeVars
  <2>2. StreamInv'
    BY <1>1, <2>1 DEF StreamInv, PipeTypes, FlowOf
  <2>3. ExitCode' = ExitCode
    BY <2>1 DEF ExitCode, Cmd!CopyFailed
  <2>4. PhaseInv'
    BY <1>1, <2>1, <2>3 DEF PhaseInv
  <2> QED
    BY <2>2, <2>4 DEF CommandInv
<1> QED
  BY <1>2, <1>3, <1>4

(* The steps that do not run the command: the client's refusal sets the    *)
(* code, before there is a command.                                        *)
LEMMA CommandApart ==
    ASSUME CommandInv, UNCHANGED commandVars,
           UNCHANGED <<code, pc>> \/ (pc # "start" /\ code' \in {code, 2})
    PROVE  CommandInv'
<1>1. UNCHANGED <<wrapper, status, writers, pipe, copier, piece, broken, written, local, remote, exitEvent>>
  BY DEF commandVars
<1>2. PipeTypes /\ PhaseInv /\ \A s \in Cmd!Streams : FlowOf(s)
  BY DEF CommandInv, StreamInv
<1>3. StreamInv'
  BY <1>1, <1>2 DEF StreamInv, PipeTypes, FlowOf
<1>4. ExitCode' = ExitCode
  BY <1>1 DEF ExitCode, Cmd!CopyFailed
<1>5. CASE UNCHANGED <<code, pc>>
  BY <1>1, <1>2, <1>3, <1>4, <1>5 DEF CommandInv, PhaseInv
<1>6. CASE pc # "start" /\ code' \in {code, 2}
  <2>1. wrapper = "start" /\ code' \in Int
    BY <1>2, <1>6 DEF PhaseInv
  <2> QED
    BY <1>1, <1>2, <1>3, <2>1 DEF CommandInv, PhaseInv
<1> QED
  BY <1>5, <1>6

(* The client's steps: none from the start event on, and a refusal's code. *)
LEMMA ClientCode == Client!Next => pc # "start" /\ code' \in {code, 2}
<1> SUFFICES ASSUME Client!Next PROVE pc # "start" /\ code' \in {code, 2}
  OBVIOUS
<1>1. CASE Client!Resolve
  BY <1>1 DEF Client!Resolve, Client!Refuse
<1>2. CASE Client!Open
  BY <1>2 DEF Client!Open, Client!Refuse
<1>3. CASE Client!LoadLine
  BY <1>3 DEF Client!LoadLine, Client!Refuse
<1>4. CASE Client!Loaded \/ Client!Defaults
  BY <1>4 DEF Client!Loaded, Client!Defaults
<1>5. CASE Client!ParseFlag
  <2>1. \A name, v, taken : Client!Option(name, v, taken) => code' \in {code, 2}
    BY DEF Client!Option, Client!Refuse
  <2> QED
    BY <1>5, <2>1 DEF Client!ParseFlag, Client!Refuse
<1>6. CASE Client!ParseCommand \/ Client!Check
  BY <1>6 DEF Client!ParseCommand, Client!Check, Client!Refuse
<1> QED
  BY <1>1, <1>2, <1>3, <1>4, <1>5, <1>6 DEF Client!Next

(* Every step keeps what holds of the command. *)
LEMMA CommandNext == CommandInv /\ [Next]_vars => CommandInv'
<1> SUFFICES ASSUME CommandInv, [Next]_vars PROVE CommandInv'
  OBVIOUS
<1>1. CASE ClientStep
  BY <1>1, ClientCode, CommandApart DEF ClientStep
<1>2. CASE DaemonStep
  BY <1>2, CommandApart DEF DaemonStep, clientVars
<1>3. CASE UNCHANGED vars
  BY <1>3, CommandApart DEF vars, clientVars
<1>4. CASE Running /\ Cmd!Next
  <2>1. pc = "start" /\ pc' = pc
    BY <1>4 DEF Running, clientVars
  <2>2. ASSUME NEW s \in Cmd!Streams, Cmd!Output(s) \/ Cmd!Read(s) \/ Cmd!Mirror(s)
        PROVE  CommandInv'
    BY <2>1, <2>2, OutputStep, ReadStep, MirrorStep
  <2> QED
    BY <1>4, <2>1, <2>2, WrapperStep, WritersStep DEF Cmd!Next
<1> QED
  BY <1>1, <1>2, <1>3, <1>4 DEF Next

(* And it holds from the start. *)
LEMMA CommandInvariant == Spec => []CommandInv
<1>1. Init => CommandInv
  <2> SUFFICES ASSUME Init PROVE CommandInv
    OBVIOUS
  <2>1. Cmd!Init
    BY DEF Init
  <2>2. Len(<< >>) = 0 /\ << >> \in Seq(Nat)
    BY EmptySeq
  <2>3. PipeTypes
    BY <2>1, <2>2 DEF Cmd!Init, PipeTypes, CopierPlaces
  <2>4. ASSUME NEW s \in Cmd!Streams PROVE FlowOf(s)
    <3>1. /\ written[s] = << >> /\ local[s] = << >> /\ remote[s] = << >> /\ pipe[s] = << >>
          /\ copier[s] = "done" /\ piece[s] = 0 /\ writers = {}
      BY <2>1 DEF Cmd!Init
    <3>2. IsCount(<< >>)
      BY <2>2 DEF IsCount
    <3> QED
      BY <2>2, <3>1, <3>2 DEF FlowOf, Flow
  <2>5. PhaseInv
    BY <2>1 DEF Cmd!Init, Cmd!NoStatus, PhaseInv
  <2> QED
    BY <2>3, <2>4, <2>5 DEF CommandInv, StreamInv
<1> QED
  BY <1>1, CommandNext, PTL DEF Spec

(* The types, and what is mirrored where *)
LEMMA CommandMeans == CommandInv => Cmd!TypeOK /\ Cmd!Mirrored /\ ExitIsHonest
<1> SUFFICES ASSUME CommandInv PROVE Cmd!TypeOK /\ Cmd!Mirrored /\ ExitIsHonest
  OBVIOUS
<1>1. PipeTypes /\ PhaseInv /\ \A s \in Cmd!Streams : FlowOf(s)
  BY DEF CommandInv, StreamInv
<1>2. ASSUME NEW s \in Cmd!Streams
      PROVE  /\ Cmd!IsBeginning(remote[s], local[s]) /\ Len(local[s]) - Len(remote[s]) <= 1
             /\ Cmd!IsBeginning(local[s], written[s])
             /\ copier[s] = "done" => remote[s] = written[s]
  <2>1. copier[s] \in {"read", "local", "remote", "done", "failed"}
    BY <1>1 DEF PipeTypes, CopierPlaces
  <2> QED
    BY <1>1, <2>1, FlowMeans DEF FlowOf
<1>3. Len(<<[code |-> code, after |-> remote]>>) = 1 /\ Len(<< >>) = 0
  OBVIOUS
<1>4. Cmd!TypeOK
  BY <1>1, <1>3 DEF PipeTypes, PhaseInv, Cmd!TypeOK, Cmd!NoStatus, CopierPlaces
<1>5. exitEvent # << >> => /\ wrapper = "done" /\ exitEvent[1].code = code
                           /\ exitEvent[1].after = remote
  BY <1>1 DEF PhaseInv
<1>6. Cmd!OutputBeforeExit
  <2>1. exitEvent # << >> => \A s \in Cmd!Streams : copier[s] \in {"done", "failed"}
    BY <1>1, <1>5 DEF PhaseInv
  <2> QED
    BY <1>2, <1>5, <2>1 DEF Cmd!OutputBeforeExit
<1>7. Cmd!ExitCodeKept
  <2> SUFFICES ASSUME wrapper = "done"
               PROVE  /\ exitEvent[1].code = code
                      /\ status = -1 => code = 127
                      /\ (status # -1 /\ (status # 0 \/ ~Cmd!CopyFailed)) => code = status
    BY DEF Cmd!ExitCodeKept, Cmd!NoStatus
  <2>1. /\ exitEvent[1].code = code
        /\ status = -1 => code = 127
        /\ status # -1 => code = ExitCode
    BY <1>1 DEF PhaseInv
  <2> QED
    BY <2>1 DEF ExitCode
<1> QED
  BY <1>2, <1>4, <1>6, <1>7 DEF Cmd!Mirrored, ExitIsHonest

(* The exit event comes after all output, also that of a child left        *)
(* behind, and carries the code run returns with: the command's own, 127   *)
(* for a command that did not start.  Nothing is claimed of the code of a  *)
(* command that ended with 0 while a copy of its output failed.            *)
THEOREM ExitTellsTheTruth == Spec => []ExitIsHonest
BY CommandInvariant, CommandMeans, PTL

-----------------------------------------------------------------------------
(***************************************************************************)
(* The client's environment: the wrapper's own, and behind it what the     *)
(* file sets first.                                                        *)
(***************************************************************************)
Arg  == [dashes : Nat, name : STRING, eq : BOOLEAN, value : STRING]
Line == [kind : {"set", "comment", "bad"}, key : STRING, value : STRING]

Sets(t, i, k) == t[i].kind = "set" /\ t[i].key = k

(* e is the environment b with the first n lines of t loaded into it. *)
Overlay(e, b, t, n) ==
    /\ \A k : k \in DOMAIN e <=> (k \in DOMAIN b \/ \E i \in 1..n : Sets(t, i, k))
    /\ \A k \in DOMAIN b : e[k] = b[k]
    /\ \A k \in DOMAIN e \ DOMAIN b :
          \E i \in 1..n : /\ Sets(t, i, k) /\ e[k] = t[i].value
                          /\ \A j \in 1..(i - 1) : ~Sets(t, j, k)

(* One line more: a comment, a variable that exists, or a new one *)
LEMMA OverlayMore ==
    ASSUME NEW e, NEW b, NEW t, NEW n \in Nat, Overlay(e, b, t, n)
    PROVE  /\ t[n + 1].kind # "set" \/ t[n + 1].key \in DOMAIN e => Overlay(e, b, t, n + 1)
           /\ t[n + 1].kind = "set" /\ t[n + 1].key \notin DOMAIN e =>
                 Overlay(Client!Set(e, t[n + 1].key, t[n + 1].value), b, t, n + 1)
<1> DEFINE key == t[n + 1].key
           value == t[n + 1].value
<1>1. /\ \A i : i \in 1..(n + 1) <=> (i \in 1..n \/ i = n + 1)
  OBVIOUS
<1>2. \A k \in DOMAIN b : k \in DOMAIN e /\ e[k] = b[k]
  BY DEF Overlay
<1>3. \A k : k \in DOMAIN e <=> (k \in DOMAIN b \/ \E i \in 1..n : Sets(t, i, k))
  BY DEF Overlay
<1>4. ASSUME NEW k \in DOMAIN e \ DOMAIN b
      PROVE  \E i \in 1..(n + 1) : /\ Sets(t, i, k) /\ e[k] = t[i].value
                                   /\ \A j \in 1..(i - 1) : ~Sets(t, j, k)
  BY <1>1 DEF Overlay
<1>5. ASSUME t[n + 1].kind # "set" \/ key \in DOMAIN e PROVE Overlay(e, b, t, n + 1)
  <2>1. \A k : Sets(t, n + 1, k) => k \in DOMAIN e
    BY <1>5 DEF Sets
  <2>2. \A k : k \in DOMAIN e <=> (k \in DOMAIN b \/ \E i \in 1..(n + 1) : Sets(t, i, k))
    BY <1>1, <1>3, <2>1
  <2> QED
    BY <1>2, <1>4, <2>2 DEF Overlay
<1>6. ASSUME t[n + 1].kind = "set", key \notin DOMAIN e
      PROVE  Overlay(Client!Set(e, key, value), b, t, n + 1)
  <2> DEFINE f == Client!Set(e, key, value)
  <2>1. /\ DOMAIN f = DOMAIN e \cup {key} /\ f[key] = value
        /\ \A k \in DOMAIN e : f[k] = e[k]
    BY <1>6 DEF Client!Set
  <2> HIDE DEF f
  <2>2. \A k : Sets(t, n + 1, k) <=> k = key
    BY <1>6 DEF Sets
  <2>3. \A k : k \in DOMAIN f <=> (k \in DOMAIN b \/ \E i \in 1..(n + 1) : Sets(t, i, k))
    BY <1>1, <1>3, <2>1, <2>2
  <2>4. \A k \in DOMAIN b : f[k] = b[k]
    BY <1>2, <2>1
  <2>5. ASSUME NEW k \in DOMAIN f \ DOMAIN b
        PROVE  \E i \in 1..(n + 1) : /\ Sets(t, i, k) /\ f[k] = t[i].value
                                     /\ \A j \in 1..(i - 1) : ~Sets(t, j, k)
    <3>1. CASE k \in DOMAIN e
      BY <1>4, <2>1, <3>1
    <3>2. CASE k = key
      <4>1. \A j \in 1..n : ~Sets(t, j, key)
        BY <1>3, <1>6
      <4>2. n + 1 \in 1..(n + 1) /\ n + 1 - 1 = n
        OBVIOUS
      <4> QED
        BY <2>1, <2>2, <3>2, <4>1, <4>2
    <3> QED
      BY <2>1, <3>1, <3>2
  <2>6. Overlay(f, b, t, n + 1)
    BY <2>3, <2>4, <2>5 DEF Overlay
  <2> QED
    BY <2>6 DEF f
<1> QED
  BY <1>5, <1>6

(* What ClientStart looks up in the file, for the lines t of it *)
FirstIn(t, k) ==
    LET places == {i \in DOMAIN t : t[i].kind = "set" /\ t[i].key = k}
    IN  IF places = {} THEN << >>
        ELSE <<t[CHOOSE i \in places : \A j \in places : i <= j].value>>

(* It is the first setting of the name, if there is any. *)
LEMMA FirstFound ==
    ASSUME NEW t \in Seq(Line), NEW k
    PROVE  /\ (\A i \in 1..Len(t) : ~Sets(t, i, k)) => FirstIn(t, k) = << >>
           /\ \A i \in 1..Len(t) : Sets(t, i, k) /\ (\A j \in 1..(i - 1) : ~Sets(t, j, k)) =>
                 FirstIn(t, k) = <<t[i].value>>
<1> DEFINE places == {i \in DOMAIN t : t[i].kind = "set" /\ t[i].key = k}
<1>1. \A i : i \in places <=> (i \in 1..Len(t) /\ Sets(t, i, k))
  BY LenProperties DEF Sets
<1>2. FirstIn(t, k) = IF places = {} THEN << >>
                      ELSE <<t[CHOOSE i \in places : \A j \in places : i <= j].value>>
  BY DEF FirstIn
<1>3. Len(t) \in Nat
  BY LenProperties
<1> HIDE DEF places
<1>4. ASSUME \A i \in 1..Len(t) : ~Sets(t, i, k) PROVE FirstIn(t, k) = << >>
  <2>1. places = {}
    BY <1>1, <1>4
  <2> QED
    BY <1>2, <2>1
<1>5. ASSUME NEW i \in 1..Len(t), Sets(t, i, k), \A j \in 1..(i - 1) : ~Sets(t, j, k)
      PROVE  FirstIn(t, k) = <<t[i].value>>
  <2>1. i \in places /\ \A j \in places : i <= j /\ j \in 1..Len(t)
    BY <1>1, <1>3, <1>5
  <2>2. \A m \in places : (\A j \in places : m <= j) => m = i
    BY <1>3, <2>1
  <2>3. (CHOOSE m \in places : \A j \in places : m <= j) = i
    BY <2>1, <2>2
  <2> QED
    BY <1>2, <2>1, <2>3
<1> QED
  BY <1>4, <1>5

(* What is loaded comes from the file, and all of it comes in the order of *)
(* environment, file, nothing.                                             *)
LEMMA OverlayKept ==
    ASSUME NEW e, NEW b, NEW t \in Seq(Line), NEW n \in 0..Len(t), Overlay(e, b, t, n)
    PROVE  /\ \A k \in DOMAIN b : k \in DOMAIN e /\ e[k] = b[k]
           /\ \A k \in DOMAIN e \ DOMAIN b : FirstIn(t, k) = <<e[k]>>
<1>1. Len(t) \in Nat
  BY LenProperties
<1>2. ASSUME NEW k \in DOMAIN e \ DOMAIN b PROVE FirstIn(t, k) = <<e[k]>>
  <2>1. PICK i \in 1..n : /\ Sets(t, i, k) /\ e[k] = t[i].value
                          /\ \A j \in 1..(i - 1) : ~Sets(t, j, k)
    BY DEF Overlay
  <2>2. i \in 1..Len(t)
    BY <1>1
  <2> QED
    BY <2>1, <2>2, FirstFound
<1> QED
  BY <1>2 DEF Overlay

ValueIn(e, k) == IF k \in DOMAIN e THEN e[k] ELSE ""
ValueOf(b, t, k) ==
    IF k \in DOMAIN b THEN b[k] ELSE IF FirstIn(t, k) = << >> THEN "" ELSE FirstIn(t, k)[1]

(* With the whole file loaded, a variable is what the order says. *)
LEMMA OverlayAll ==
    ASSUME NEW e, NEW b, NEW t \in Seq(Line), Overlay(e, b, t, Len(t)), NEW k
    PROVE  ValueIn(e, k) = ValueOf(b, t, k)
<1>1. Len(t) \in Nat
  BY LenProperties
<1>2. CASE k \in DOMAIN b
  BY <1>2 DEF Overlay, ValueIn, ValueOf
<1>3. CASE k \notin DOMAIN b /\ k \in DOMAIN e
  <2>1. FirstIn(t, k) = <<e[k]>>
    BY <1>1, <1>3, OverlayKept
  <2>2. <<e[k]>> # << >> /\ <<e[k]>>[1] = e[k]
    OBVIOUS
  <2> QED
    BY <1>3, <2>1, <2>2 DEF ValueIn, ValueOf
<1>4. CASE k \notin DOMAIN b /\ k \notin DOMAIN e
  <2>1. \A i \in 1..Len(t) : ~Sets(t, i, k)
    BY <1>4 DEF Overlay
  <2>2. FirstIn(t, k) = << >>
    BY <2>1, FirstFound
  <2> QED
    BY <1>4, <2>2 DEF ValueIn, ValueOf
<1> QED
  BY <1>2, <1>3, <1>4

-----------------------------------------------------------------------------
(***************************************************************************)
(* The options given: the last of each name counts.                        *)
(***************************************************************************)
Given == [name : STRING, value : STRING]

LastIn(g, name) ==
    LET places == {i \in DOMAIN g : g[i].name = name}
    IN  IF places = {} THEN << >>
        ELSE <<g[CHOOSE i \in places : \A k \in places : k <= i].value>>

(* Some numbers up to n have a greatest among them. *)
LEMMA HasLast ==
    ASSUME NEW n \in Nat, NEW P \in SUBSET (1..n), P # {}
    PROVE  \E i \in P : \A k \in P : k <= i
<1> DEFINE Less == {p \in Nat \X Nat : p[1] < p[2]}
           Back == {n - i : i \in P}
<1>1. IsWellFoundedOn(Less, Nat)
  BY NatLessThanWellFounded, Zenon DEF OpToRel
<1>2. Back \subseteq Nat /\ Back # {}
  <2>1. \A i \in P : n - i \in Nat
    <3>1. \A i \in P : i \in 1..n
      OBVIOUS
    <3> QED
      BY <3>1
  <2> QED
    BY <2>1
<1>3. \E x \in Back : \A y \in Back : ~(<<y, x>> \in Less)
  <2> HIDE DEF Less, Back
  <2> QED
    BY <1>1, <1>2, WFMin
<1>4. PICK x \in Back : \A y \in Back : ~(y < x)
  BY <1>2, <1>3
<1>5. PICK i \in P : x = n - i
  BY <1>4
<1>6. \A k \in P : n - k \in Back
  OBVIOUS
<1>7. \A k \in P : ~(n - k < n - i)
  BY <1>4, <1>5, <1>6
<1>8. \A k \in P : k \in 1..n
  OBVIOUS
<1> QED
  BY <1>7, <1>8

(* Some numbers from 1 to n have a least among them. *)
LEMMA HasFirst ==
    ASSUME NEW n \in Nat, NEW P \in SUBSET (1..n), P # {}
    PROVE  \E i \in P : \A k \in P : i <= k
<1> DEFINE Back == {n + 1 - i : i \in P}
<1>1. Back \in SUBSET (1..n) /\ Back # {}
  <2>1. \A i \in P : i \in 1..n
    OBVIOUS
  <2>2. \A i \in P : n + 1 - i \in 1..n
    BY <2>1
  <2> QED
    BY <2>2
<1> HIDE DEF Back
<1>2. PICK x \in Back : \A y \in Back : y <= x
  BY <1>1, HasLast
<1>3. PICK i \in P : x = n + 1 - i
  BY <1>2 DEF Back
<1>4. \A k \in P : n + 1 - k \in Back /\ k \in 1..n
  BY DEF Back
<1>5. \A k \in P : n + 1 - k <= n + 1 - i /\ i \in 1..n
  BY <1>2, <1>3, <1>4
<1> QED
  BY <1>4, <1>5

(* An option more counts for its name, and for no other. *)
LEMMA LastMore ==
    ASSUME NEW g \in Seq(Given), NEW name, NEW m \in STRING, NEW v \in STRING
    PROVE  LastIn(Append(g, [name |-> m, value |-> v]), name) =
             IF name = m THEN <<v>> ELSE LastIn(g, name)
<1> DEFINE o == [name |-> m, value |-> v]
           n == Len(g)
           more == Append(g, o)
           P(s) == {i \in DOMAIN s : s[i].name = name}
<1>1. /\ n \in Nat /\ DOMAIN g = 1..n
  BY LenProperties
<1>2. /\ more \in Seq(Given) /\ Len(more) = n + 1 /\ DOMAIN more = 1..(n + 1)
      /\ more[n + 1] = o /\ \A i \in 1..n : more[i] = g[i]
  <2>1. o \in Given
    BY DEF Given
  <2> QED
    BY <2>1, AppendProperties, LenProperties
<1>3. o.name = m /\ o.value = v
  OBVIOUS
<1> HIDE DEF o, n, more
<1>4. \A i : i \in P(more) <=> (i \in 1..(n + 1) /\ more[i].name = name)
  BY <1>2
<1>5. CASE name = m
  <2>1. n + 1 \in P(more) /\ \A i \in P(more) : i <= n + 1 /\ i \in 1..(n + 1)
    BY <1>1, <1>2, <1>3, <1>4, <1>5
  <2>2. \A i \in P(more) : (\A k \in P(more) : k <= i) => i = n + 1
    BY <1>1, <2>1
  <2> HIDE DEF P
  <2>3. (CHOOSE i \in P(more) : \A k \in P(more) : k <= i) = n + 1
    BY <2>1, <2>2
  <2>4. LastIn(more, name) = <<more[n + 1].value>>
    <3>1. P(more) # {}
      BY <2>1
    <3>2. LastIn(more, name) = IF P(more) = {} THEN << >>
             ELSE <<more[CHOOSE i \in P(more) : \A k \in P(more) : k <= i].value>>
      BY DEF LastIn, P
    <3> QED
      BY <2>3, <3>1, <3>2
  <2> QED
    BY <1>2, <1>3, <1>5, <2>4 DEF more, o
<1>6. CASE name # m
  <2>1. P(more) = P(g)
    BY <1>1, <1>2, <1>3, <1>6
  <2>2. \A i \in P(g) : more[i] = g[i]
    BY <1>1, <1>2
  <2> HIDE DEF P
  <2>3. CASE P(g) = {}
    <3>1. LastIn(more, name) = << >> /\ LastIn(g, name) = << >>
      BY <2>1, <2>3 DEF LastIn, P
    <3> QED
      BY <1>6, <3>1 DEF more, o
  <2>4. CASE P(g) # {}
    <3> DEFINE last == CHOOSE i \in P(g) : \A k \in P(g) : k <= i
    <3>2. last \in P(g)
      <4>1. P(g) \in SUBSET (1..n)
        BY <1>1 DEF P
      <4>2. \E i \in P(g) : \A k \in P(g) : k <= i
        BY <1>1, <2>4, <4>1, HasLast
      <4> QED
        BY <4>2
    <3>3. LastIn(more, name) = <<more[last].value>> /\ LastIn(g, name) = <<g[last].value>>
      BY <2>1, <2>4 DEF LastIn, P
    <3>4. more[last] = g[last]
      BY <2>2, <3>2
    <3> QED
      BY <1>6, <3>3, <3>4 DEF more, o
  <2> QED
    BY <2>3, <2>4
<1> QED
  BY <1>5, <1>6

-----------------------------------------------------------------------------
(***************************************************************************)
(* The lines of a file and the arguments are read from the front.          *)
(***************************************************************************)

(* What is left of a after k *)
Rest(a, k) == SubSeq(a, k + 1, Len(a))

(* It is as long as what is left, and has its elements. *)
LEMMA RestOf ==
    ASSUME NEW S, NEW a \in Seq(S), NEW k \in 0..Len(a)
    PROVE  /\ Rest(a, k) \in Seq(S) /\ Len(Rest(a, k)) = Len(a) - k
           /\ \A i \in 1..(Len(a) - k) : Rest(a, k)[i] = a[k + i]
<1>1. Len(a) \in Nat /\ k \in Nat /\ \A i \in (k + 1)..Len(a) : a[i] \in S
  BY LenProperties
<1>2. /\ SubSeq(a, k + 1, Len(a)) \in Seq(S)
      /\ Len(SubSeq(a, k + 1, Len(a))) = IF k + 1 <= Len(a) THEN Len(a) - (k + 1) + 1 ELSE 0
      /\ \A i \in 1..(Len(a) - (k + 1) + 1) : SubSeq(a, k + 1, Len(a))[i] = a[(k + 1) + i - 1]
  BY <1>1, SubSeqProperties
<1>3. Len(Rest(a, k)) = Len(a) - k
  BY <1>1, <1>2 DEF Rest
<1>4. ASSUME NEW i \in 1..(Len(a) - k) PROVE Rest(a, k)[i] = a[k + i]
  <2>1. i \in 1..(Len(a) - (k + 1) + 1) /\ (k + 1) + i - 1 = k + i
    BY <1>1
  <2> QED
    BY <1>2, <2>1 DEF Rest
<1> QED
  BY <1>2, <1>3, <1>4 DEF Rest

(* The rest of the rest *)
LEMMA RestMore ==
    ASSUME NEW S, NEW a \in Seq(S), NEW k \in 0..Len(a), NEW m \in Nat, k + m <= Len(a)
    PROVE  SubSeq(Rest(a, k), m + 1, Len(Rest(a, k))) = Rest(a, k + m)
<1> DEFINE r == Rest(a, k)
<1>1. /\ r \in Seq(S) /\ Len(r) = Len(a) - k
      /\ \A i \in 1..(Len(a) - k) : r[i] = a[k + i]
  BY RestOf
<1>2. Len(a) \in Nat /\ k \in Nat /\ k + m \in 0..Len(a) /\ m \in 0..(Len(a) - k)
  BY LenProperties
<1> HIDE DEF r
<1>3. /\ Rest(r, m) \in Seq(S) /\ Len(Rest(r, m)) = Len(r) - m
      /\ \A i \in 1..(Len(r) - m) : Rest(r, m)[i] = r[m + i]
  <2>1. m \in 0..Len(r) /\ r \in Seq(S)
    BY <1>1, <1>2
  <2> QED
    BY <2>1, RestOf, Zenon
<1>4. /\ Rest(a, k + m) \in Seq(S) /\ Len(Rest(a, k + m)) = Len(a) - (k + m)
      /\ \A i \in 1..(Len(a) - (k + m)) : Rest(a, k + m)[i] = a[(k + m) + i]
  BY <1>2, RestOf
<1>5. Len(Rest(r, m)) = Len(Rest(a, k + m))
  <2>1. (Len(a) - k) - m = Len(a) - (k + m)
    BY <1>2
  <2> QED
    BY <1>1, <1>3, <1>4, <2>1
<1>6. ASSUME NEW i \in 1..Len(Rest(r, m)) PROVE Rest(r, m)[i] = Rest(a, k + m)[i]
  <2>1. /\ i \in 1..(Len(r) - m) /\ i \in 1..(Len(a) - (k + m))
        /\ m + i \in 1..(Len(a) - k) /\ k + (m + i) = (k + m) + i
    BY <1>1, <1>2, <1>3
  <2> QED
    BY <1>1, <1>3, <1>4, <2>1
<1>7. Rest(r, m) = Rest(a, k + m)
  BY <1>3, <1>4, <1>5, <1>6, SeqEqual
<1> QED
  BY <1>7 DEF Rest, r

(* The next of it, and what is behind *)
LEMMA RestNext ==
    ASSUME NEW S, NEW a \in Seq(S), NEW k \in 0..Len(a)
    PROVE  /\ Rest(a, k) # << >> <=> k < Len(a)
           /\ k < Len(a) => /\ k + 1 \in 1..Len(a) /\ Head(Rest(a, k)) = a[k + 1]
                            /\ Tail(Rest(a, k)) = Rest(a, k + 1)
<1> DEFINE r == Rest(a, k)
<1>1. /\ r \in Seq(S) /\ Len(r) = Len(a) - k
      /\ \A i \in 1..(Len(a) - k) : r[i] = a[k + i]
  BY RestOf
<1>2. Len(a) \in Nat /\ k \in Nat
  BY LenProperties
<1> HIDE DEF r
<1>3. r # << >> <=> k < Len(a)
  <2>1. r = << >> <=> Len(r) = 0
    BY <1>1, EmptySeq
  <2> QED
    BY <1>1, <1>2, <2>1
<1>4. ASSUME k < Len(a)
      PROVE  k + 1 \in 1..Len(a) /\ Head(r) = a[k + 1] /\ Tail(r) = Rest(a, k + 1)
  <2>1. k + 1 \in 1..Len(a) /\ k + 1 <= Len(a) /\ 1 \in 1..(Len(a) - k)
    BY <1>2, <1>4
  <2>2. Head(r) = r[1]
    BY <1>1, <1>3, <1>4, HeadTailProperties
  <2>3. Tail(r) = SubSeq(r, 2, Len(r))
    BY <1>1, <1>3, <1>4, TailIsSubSeq
  <2>4. SubSeq(r, 1 + 1, Len(r)) = Rest(a, k + 1)
    BY <2>1, RestMore DEF r
  <2>5. 1 + 1 = 2
    OBVIOUS
  <2> QED
    BY <1>1, <2>1, <2>2, <2>3, <2>4, <2>5
<1> QED
  BY <1>3, <1>4 DEF r

-----------------------------------------------------------------------------
(***************************************************************************)
(* The client's inputs and its file.                                       *)
(***************************************************************************)
InputInv == args0 \in Args /\ env0 \in Envs /\ disk \in Disks

TextOf(d, p) == IF p \in Paths /\ d[p].state = "file" THEN d[p].lines ELSE << >>

Text == TextOf(disk, path)

(* What the assumptions say of the inputs *)
LEMMA InputTypes ==
    ASSUME InputInv
    PROVE  /\ args0 \in Seq(Arg) /\ DOMAIN env0 \subseteq DOMAIN Rank
           /\ \A k \in DOMAIN env0 : env0[k] \in STRING
           /\ \A p \in Paths : /\ disk[p].state \in {"file", "absent", "unreadable"}
                               /\ disk[p].lines \in Seq(Line)
           /\ \A p : /\ TextOf(disk, p) \in Seq(Line)
                     /\ \A i \in 1..Len(TextOf(disk, p)) :
                           TextOf(disk, p)[i].kind = "set" => TextOf(disk, p)[i].key \in DOMAIN Rank
<1>1. args0 \in Seq(Arg)
  BY ArgumentAssumption DEF InputInv, Arg
<1>2. DOMAIN env0 \subseteq DOMAIN Rank /\ \A k \in DOMAIN env0 : env0[k] \in STRING
  BY NameAssumption DEF InputInv
<1>3. disk \in [Paths -> [state : {"file", "absent", "unreadable"}, lines : Seq(Line)]]
  BY FileAssumption DEF InputInv, Line
<1>4. \A p \in Paths : /\ disk[p].state \in {"file", "absent", "unreadable"}
                       /\ disk[p].lines \in Seq(Line)
  BY <1>3
<1>5. ASSUME NEW p
      PROVE  /\ TextOf(disk, p) \in Seq(Line)
             /\ \A i \in 1..Len(TextOf(disk, p)) :
                   TextOf(disk, p)[i].kind = "set" => TextOf(disk, p)[i].key \in DOMAIN Rank
  <2>1. CASE p \in Paths /\ disk[p].state = "file"
    <3>1. TextOf(disk, p) = disk[p].lines
      BY <2>1 DEF TextOf
    <3>2. DOMAIN disk[p].lines = 1..Len(disk[p].lines)
      BY <1>4, <2>1, LenProperties
    <3>3. \A i \in DOMAIN disk[p].lines :
             disk[p].lines[i].kind = "set" => disk[p].lines[i].key \in DOMAIN Rank
      BY <2>1, NameAssumption DEF InputInv
    <3> QED
      BY <1>4, <2>1, <3>1, <3>2, <3>3
  <2>2. CASE ~(p \in Paths /\ disk[p].state = "file")
    <3>1. TextOf(disk, p) = << >>
      BY <2>2 DEF TextOf
    <3> QED
      BY <3>1, EmptySeq
  <2> QED
    BY <2>1, <2>2
<1> QED
  BY <1>1, <1>2, <1>4, <1>5

(* What ClientStart looks up, with its variables spelt out *)
LEMMA LookedUp ==
    /\ \A k : Client!InFile(k) = FirstIn(Text, k)
    /\ \A k : Client!Getenv(k) = ValueIn(env, k)
    /\ \A k : Client!FromEnvironment(k) = ValueOf(env0, Text, k)
    /\ \A n : Client!LastGiven(n) = LastIn(given, n)
<1>1. Client!At(path).state = "file" => path \in Paths /\ disk[path].state = "file"
  BY DEF Client!At
<1>2. path \in Paths /\ disk[path].state = "file" =>
         Client!At(path).state = "file" /\ Client!At(path).lines = disk[path].lines
  BY DEF Client!At
<1>3. Text = IF Client!At(path).state = "file" THEN Client!At(path).lines ELSE << >>
  BY <1>1, <1>2 DEF Text, TextOf
<1>4. ASSUME NEW k PROVE Client!InFile(k) = FirstIn(Text, k)
  BY <1>3 DEF Client!InFile, FirstIn
<1>5. \A k : Client!Getenv(k) = ValueIn(env, k)
  BY DEF Client!Getenv, ValueIn
<1>6. ASSUME NEW k PROVE Client!FromEnvironment(k) = ValueOf(env0, Text, k)
  BY <1>4 DEF Client!FromEnvironment, ValueOf
<1>7. ASSUME NEW n PROVE Client!LastGiven(n) = LastIn(given, n)
  BY DEF Client!LastGiven, LastIn
<1> QED
  BY <1>4, <1>5, <1>6, <1>7

(* e is b with what comes before the lines l of t. *)
ReadsTo(e, b, t, l) ==
    \E n \in 0..Len(t) : Overlay(e, b, t, n) /\ l = Rest(t, n)

FileInv ==
    /\ path \in STRING
    /\ pc \in {"resolve", "load"} => env = env0
    /\ pc = "lines" => ReadsTo(env, env0, Text, lines)
    /\ pc \in {"parse", "flags", "check", "start"} => Overlay(env, env0, Text, Len(Text))
    /\ \E n \in 0..Len(Text) : Overlay(env, env0, Text, n)

(* Nothing is loaded yet. *)
LEMMA OverlayNone == \A e, t : Overlay(e, e, t, 0)
BY DEF Overlay

(* A line loaded, and the text at its end *)
LEMMA ReadsMore ==
    ASSUME NEW e, NEW b, NEW t \in Seq(Line), NEW l, ReadsTo(e, b, t, l), l # << >>,
           NEW f,
           \/ Head(l).kind # "set" /\ f = e
           \/ Head(l).kind = "set" /\ f = IF Head(l).key \in DOMAIN e THEN e
                                          ELSE Client!Set(e, Head(l).key, Head(l).value)
    PROVE  ReadsTo(f, b, t, Tail(l))
<1>1. PICK n \in 0..Len(t) : Overlay(e, b, t, n) /\ l = Rest(t, n)
  BY DEF ReadsTo
<1>2. n \in Nat /\ Len(t) \in Nat
  BY <1>1, LenProperties
<1>3. n + 1 \in 0..Len(t) /\ Head(l) = t[n + 1] /\ Tail(l) = Rest(t, n + 1)
  <2>1. n < Len(t)
    BY <1>1, RestNext
  <2>2. n + 1 \in 0..Len(t)
    BY <1>2, <2>1
  <2> QED
    BY <1>1, <2>1, <2>2, RestNext
<1>4. /\ t[n + 1].kind # "set" \/ t[n + 1].key \in DOMAIN e => Overlay(e, b, t, n + 1)
      /\ t[n + 1].kind = "set" /\ t[n + 1].key \notin DOMAIN e =>
            Overlay(Client!Set(e, t[n + 1].key, t[n + 1].value), b, t, n + 1)
  BY <1>1, <1>2, OverlayMore
<1>5. Overlay(f, b, t, n + 1)
  BY <1>3, <1>4
<1> QED
  BY <1>3, <1>5 DEF ReadsTo

(* With no line left, the whole of the file is loaded. *)
LEMMA ReadsAll ==
    ASSUME NEW e, NEW b, NEW t \in Seq(Line), ReadsTo(e, b, t, << >>)
    PROVE  Overlay(e, b, t, Len(t))
<1>1. PICK n \in 0..Len(t) : Overlay(e, b, t, n) /\ << >> = Rest(t, n)
  BY DEF ReadsTo
<1>2. n = Len(t)
  <2>1. ~(n < Len(t))
    BY <1>1, RestNext
  <2>2. n \in 0..Len(t) /\ Len(t) \in Nat
    BY LenProperties
  <2> QED
    BY <2>1, <2>2
<1> QED
  BY <1>1, <1>2

(* What is loaded has a rank and is a string. *)
LEMMA EnvironmentTypes ==
    ASSUME InputInv, FileInv
    PROVE  DOMAIN env \subseteq DOMAIN Rank /\ \A k \in DOMAIN env : env[k] \in STRING
<1>1. PICK n \in 0..Len(Text) : Overlay(env, env0, Text, n)
  BY DEF FileInv
<1>2. /\ Text \in Seq(Line) /\ \A i \in 1..Len(Text) : Text[i] \in Line
      /\ \A i \in 1..Len(Text) : Text[i].kind = "set" => Text[i].key \in DOMAIN Rank
  BY InputTypes, LenProperties DEF Text
<1>3. Len(Text) \in Nat /\ \A i \in 1..n : i \in 1..Len(Text)
  BY <1>2, LenProperties
<1>4. \A k \in DOMAIN env \ DOMAIN env0 : \E i \in 1..n : Sets(Text, i, k) /\ env[k] = Text[i].value
  BY <1>1 DEF Overlay
<1>5. \A k \in DOMAIN env0 : env[k] \in STRING /\ k \in DOMAIN Rank
  BY <1>1, InputTypes DEF Overlay
<1> QED
  BY <1>2, <1>3, <1>4, <1>5 DEF Line, Sets

(* No step of the client but a line's loads anything.                      *)
LEMMA FileStep ==
    ASSUME InputInv, pc = "resolve" => args = args0, FileInv, Client!Next
    PROVE  FileInv'
<1>1. UNCHANGED <<args0, env0, disk>>
  BY DEF Client!Next, Client!Resolve, Client!Open, Client!LoadLine, Client!Loaded,
         Client!Defaults, Client!ParseFlag, Client!ParseCommand, Client!Check, Client!inputs
<1>2. Text \in Seq(Line) /\ Len(Text) \in Nat
  BY InputTypes, LenProperties DEF Text
<1>3. ASSUME NEW p \in STRING, env = env0, pc' \notin {"lines", "parse", "flags", "check", "start"},
             path' = p, env' = env
      PROVE  FileInv'
  <2>1. Text' = TextOf(disk, p)
    BY <1>1, <1>3 DEF Text
  <2>2. TextOf(disk, p) \in Seq(Line) /\ Len(TextOf(disk, p)) \in Nat
    BY InputTypes, LenProperties
  <2>3. Overlay(env', env0', Text', 0) /\ 0 \in 0..Len(Text')
    BY <1>1, <1>3, <2>1, <2>2, OverlayNone
  <2> QED
    BY <1>1, <1>3, <2>3 DEF FileInv
<1>4. CASE Client!Resolve
  <2>1. pc = "resolve" /\ pc' \in {"load", "refused"} /\ env' = env
    BY <1>4 DEF Client!Resolve, Client!Refuse
  <2>2. env = env0
    BY <2>1 DEF FileInv
  <2>3. path' \in STRING
    <3>1. /\ args \in Seq(Arg) /\ DOMAIN args = 1..Len(args) /\ Len(args) \in Nat
          /\ \A i \in DOMAIN args : args[i] \in Arg
      BY <2>1, InputTypes, LenProperties
    <3>2. CASE Client!Found # {}
      <4> DEFINE i == CHOOSE n \in Client!Found : \A k \in Client!Found : n <= k
      <4>1. path' \in {path, Client!Chosen(i)}
        BY <1>4, <3>2 DEF Client!Resolve
      <4>2. i \in Client!Found
        <5>1. Client!Found # {} /\ Client!Found \in SUBSET (1..Len(args))
          BY <3>1, <3>2 DEF Client!Found
        <5>2. \E n \in Client!Found : \A k \in Client!Found : n <= k
          BY <3>1, <5>1, HasFirst
        <5> QED
          BY <5>2
      <4> HIDE DEF i
      <4>3. Client!Chosen(i) \in STRING
        <5>1. i \in DOMAIN args /\ args[i] \in Arg
          BY <3>1, <4>2 DEF Client!Found
        <5>2. i # Len(args) => args[i + 1] \in Arg
          BY <3>1, <5>1
        <5>3. \A a \in Arg : a.value \in STRING /\ Client!AsValue(a) \in STRING
          BY StringAssumption DEF Arg, Client!AsValue
        <5>4. "" \in STRING
          BY StringAssumption
        <5> QED
          BY <5>1, <5>2, <5>3, <5>4 DEF Client!Chosen
      <4> QED
        BY <4>1, <4>3 DEF FileInv
    <3>3. CASE Client!Found = {}
      <4>1. Client!Getenv("CLIENT_ENV_FILE") \in STRING
        BY <2>2, InputTypes, StringAssumption DEF Client!Getenv
      <4> QED
        BY <1>4, <3>3, <4>1, StringAssumption DEF Client!Resolve
    <3> QED
      BY <3>2, <3>3
  <2> QED
    BY <1>3, <2>1, <2>2, <2>3
<1>5. CASE Client!Open
  <2>1. pc = "load" /\ env' = env /\ path' = path /\ env = env0
    BY <1>5 DEF Client!Open, FileInv
  <2>2. Text' = Text
    BY <1>1, <2>1 DEF Text
  <2>3. Overlay(env, env0, Text, 0) /\ 0 \in 0..Len(Text)
    BY <1>2, <2>1, OverlayNone
  <2>4. CASE Client!At(path).state = "file"
    <3>1. pc' = "lines" /\ lines' = Client!At(path).lines
      BY <1>5, <2>4 DEF Client!Open
    <3>2. Text = Client!At(path).lines
      BY <2>4 DEF Text, TextOf, Client!At
    <3>3. Rest(Text, 0) = Text
      BY <1>2, SubSeqFull DEF Rest
    <3>4. ReadsTo(env, env0, Text, lines')
      BY <2>3, <3>1, <3>2, <3>3 DEF ReadsTo
    <3> QED
      BY <1>1, <2>1, <2>2, <2>3, <3>1, <3>4 DEF FileInv
  <2>5. CASE Client!At(path).state # "file"
    <3>1. pc' \in {"parse", "refused"}
      BY <1>5, <2>5 DEF Client!Open, Client!Refuse
    <3>2. Len(Text) = 0
      BY <2>5, EmptySeq DEF Text, TextOf, Client!At
    <3> QED
      BY <1>1, <2>1, <2>2, <2>3, <3>1, <3>2 DEF FileInv
  <2> QED
    BY <2>4, <2>5
<1>6. CASE Client!LoadLine
  <2>1. /\ pc = "lines" /\ lines # << >> /\ path' = path
        /\ ReadsTo(env, env0, Text, lines)
    BY <1>6 DEF Client!LoadLine, FileInv
  <2>2. Text' = Text
    BY <1>1, <2>1 DEF Text
  <2>3. CASE Head(lines).kind = "bad"
    <3>1. pc' = "refused" /\ env' = env
      BY <1>6, <2>3 DEF Client!LoadLine, Client!Refuse
    <3> QED
      BY <1>1, <2>1, <2>2, <3>1 DEF FileInv
  <2>4. CASE Head(lines).kind # "bad"
    <3>1. /\ lines' = Tail(lines) /\ pc' = pc
          /\ \/ Head(lines).kind # "set" /\ env' = env
             \/ /\ Head(lines).kind = "set"
                /\ env' = IF Head(lines).key \in DOMAIN env THEN env
                          ELSE Client!Set(env, Head(lines).key, Head(lines).value)
      BY <1>6, <2>4 DEF Client!LoadLine
    <3>2. ReadsTo(env', env0, Text, lines')
      BY <1>2, <2>1, <3>1, ReadsMore
    <3>3. \E n \in 0..Len(Text) : Overlay(env', env0, Text, n)
      BY <3>2 DEF ReadsTo
    <3> QED
      BY <1>1, <2>1, <2>2, <3>1, <3>2, <3>3 DEF FileInv
  <2> QED
    BY <2>3, <2>4
<1>7. CASE Client!Loaded
  <2>1. /\ pc = "lines" /\ pc' = "parse" /\ lines = << >> /\ path' = path /\ env' = env
        /\ ReadsTo(env, env0, Text, lines)
    BY <1>7 DEF Client!Loaded, FileInv
  <2>2. Text' = Text
    BY <1>1, <2>1 DEF Text
  <2>3. Overlay(env, env0, Text, Len(Text))
    BY <1>2, <2>1, ReadsAll
  <2> QED
    BY <1>1, <2>1, <2>2, <2>3 DEF FileInv
<1>8. CASE Client!Defaults \/ Client!ParseFlag \/ Client!ParseCommand \/ Client!Check
  <2>1. /\ pc \in {"parse", "flags", "check"} /\ path' = path /\ env' = env
        /\ pc' \in {"flags", "check", "start", "refused"}
    BY <1>8 DEF Client!Defaults, Client!ParseFlag, Client!ParseCommand, Client!Check,
                Client!Option, Client!Refuse
  <2>2. Text' = Text
    BY <1>1, <2>1 DEF Text
  <2> QED
    BY <1>1, <2>1, <2>2 DEF FileInv
<1> QED
  BY <1>4, <1>5, <1>6, <1>7, <1>8 DEF Client!Next

-----------------------------------------------------------------------------
(***************************************************************************)
(* The client's options: the last one given, or the variable, or the       *)
(* default.                                                                *)
(***************************************************************************)
Opts == [client_env : STRING, endpoint : STRING, token : STRING, channel_id : STRING,
         queue_size : Int, env_keys : SUBSET STRING, env_prefixes : SUBSET STRING,
         secrets : BOOLEAN, shell : BOOLEAN]

EndpointSettled(o, g, e) ==
    o.endpoint = IF LastIn(g, "endpoint") # << >> THEN LastIn(g, "endpoint")[1]
                 ELSE IF ValueIn(e, "ENDPOINT") # "" THEN ValueIn(e, "ENDPOINT")
                 ELSE Client!DefaultEndpoint
ChannelSettled(o, g, e) ==
    o.channel_id = IF LastIn(g, "channel-id") # << >> THEN LastIn(g, "channel-id")[1]
                   ELSE ValueIn(e, "CHANNEL_ID")
QueueSettled(o, g, e) ==
    o.queue_size =
        IF LastIn(g, "queue-size") # << >> THEN Numbers[LastIn(g, "queue-size")[1]]
        ELSE IF ValueIn(e, "QUEUE_SIZE") \in DOMAIN Numbers /\ Numbers[ValueIn(e, "QUEUE_SIZE")] > 0
               THEN Numbers[ValueIn(e, "QUEUE_SIZE")]
        ELSE Client!DefaultQueue
SecretsSettled(o, g, e) ==
    o.secrets = IF LastIn(g, "allow-secret-env") # << >>
                  THEN LastIn(g, "allow-secret-env")[1] = "true"
                ELSE ValueIn(e, "ALLOW_SECRET_ENV") = "true"

Settled(o, g, e) ==
    /\ EndpointSettled(o, g, e) /\ ChannelSettled(o, g, e)
    /\ QueueSettled(o, g, e) /\ SecretsSettled(o, g, e)

OptsInv ==
    /\ opts \in Opts /\ "" \notin opts.env_keys \cup opts.env_prefixes
    /\ given \in Seq(Given)
    /\ pc \in {"resolve", "load", "lines", "parse"} => given = << >>
    /\ pc \in {"flags", "check", "start"} => Settled(opts, given, env)

(* Nothing is given yet. *)
LEMMA LastNone == \A name : LastIn(<< >>, name) = << >>
<1> TAKE name
<1>1. {i \in DOMAIN << >> : << >>[i].name = name} = {}
  OBVIOUS
<1> QED
  BY <1>1 DEF LastIn

(* The defaults are what the environment says. *)
LEMMA DefaultsStep ==
    ASSUME InputInv, FileInv, OptsInv, Client!Defaults
    PROVE  OptsInv'
<1>1. /\ pc = "parse" /\ pc' = "flags" /\ given' = << >> /\ given' \in Seq(Given) /\ env' = env
      /\ \A k : Client!Getenv(k) = ValueIn(env, k)
  BY EmptySeq, LookedUp DEF Client!Defaults, OptsInv
<1>2. \A k \in DOMAIN env : env[k] \in STRING
  BY EnvironmentTypes
<1>3. \A k : ValueIn(env, k) \in STRING
  BY <1>2, StringAssumption DEF ValueIn
<1>4. /\ Client!envOr("ENDPOINT", Client!DefaultEndpoint) =
            IF ValueIn(env, "ENDPOINT") # "" THEN ValueIn(env, "ENDPOINT") ELSE Client!DefaultEndpoint
      /\ Client!envOr("ENDPOINT", Client!DefaultEndpoint) \in STRING
  BY <1>1, <1>3, StringAssumption DEF Client!envOr, Client!DefaultEndpoint
<1> DEFINE q == Client!envInt("QUEUE_SIZE", Client!DefaultQueue)
           v == ValueIn(env, "QUEUE_SIZE")
<1>5. /\ q = IF v \in DOMAIN Numbers /\ Numbers[v] > 0 THEN Numbers[v] ELSE Client!DefaultQueue
      /\ q \in Int
  <2>1. q = IF v \in DOMAIN Numbers /\ Numbers[v] > 0 THEN Numbers[v] ELSE Client!DefaultQueue
    BY <1>1, Zenon DEF Client!envInt
  <2> HIDE DEF q, v
  <2>2. Client!DefaultQueue \in Int
    BY DEF Client!DefaultQueue
  <2>3. \A w \in DOMAIN Numbers : Numbers[w] \in Int
    BY NumberAssumption, Zenon
  <2> QED
    BY <2>1, <2>2, <2>3, Zenon
<1> HIDE DEF q, v
<1>6. /\ Client!envBool("ALLOW_SECRET_ENV") = (ValueIn(env, "ALLOW_SECRET_ENV") = "true")
      /\ Client!envBool("ALLOW_SECRET_ENV") \in BOOLEAN
  BY <1>1 DEF Client!envBool
<1> DEFINE keys == IF Client!Unlisted THEN Client!DefaultKeys ELSE Client!parseCSV("ENV_KEYS")
           prefixes == IF Client!Unlisted THEN Client!DefaultPrefixes
                       ELSE Client!parseCSV("ENV_PREFIXES")
<1>7. keys \in SUBSET STRING /\ prefixes \in SUBSET STRING /\ "" \notin keys \cup prefixes
  <2>1. \A k : Client!parseCSV(k) \in SUBSET STRING /\ "" \notin Client!parseCSV(k)
    BY <1>1, <1>3 DEF Client!parseCSV
  <2>2. /\ Client!DefaultKeys \in SUBSET STRING /\ "" \notin Client!DefaultKeys
        /\ Client!DefaultPrefixes \in SUBSET STRING /\ "" \notin Client!DefaultPrefixes
    BY StringAssumption DEF Client!DefaultKeys, Client!DefaultPrefixes
  <2> QED
    BY <2>1, <2>2
<1> HIDE DEF keys, prefixes
<1>8. /\ opts' \in Opts /\ opts'.env_keys = keys /\ opts'.env_prefixes = prefixes
  BY <1>1, <1>3, <1>4, <1>5, <1>6, <1>7 DEF Client!Defaults, Opts, q, keys, prefixes
<1>9. /\ opts'.endpoint = Client!envOr("ENDPOINT", Client!DefaultEndpoint)
      /\ opts'.channel_id = ValueIn(env, "CHANNEL_ID")
      /\ opts'.queue_size = q
      /\ opts'.secrets = Client!envBool("ALLOW_SECRET_ENV")
  BY <1>1 DEF Client!Defaults, q
<1>10. EndpointSettled(opts', << >>, env)
  BY <1>4, <1>9, LastNone DEF EndpointSettled
<1>11. ChannelSettled(opts', << >>, env)
  BY <1>9, LastNone DEF ChannelSettled
<1>12. QueueSettled(opts', << >>, env)
  BY <1>5, <1>9, LastNone DEF QueueSettled, v
<1>13. SecretsSettled(opts', << >>, env)
  BY <1>6, <1>9, LastNone DEF SecretsSettled
<1>14. Settled(opts', given', env')
  BY <1>1, <1>10, <1>11, <1>12, <1>13 DEF Settled
<1> QED
  BY <1>1, <1>7, <1>8, <1>14 DEF OptsInv

(* An option sets what it names, and nothing else. *)
LEMMA OptionStep ==
    ASSUME OptsInv, pc = "flags", NEW name, NEW v, NEW taken,
           name \in Client!BoolFlags \cup Client!ValueFlags, name \in STRING, v \in STRING,
           Client!Option(name, v, taken), UNCHANGED env
    PROVE  OptsInv'
<1>1. CASE Client!BadValue(name, v)
  <2>1. UNCHANGED <<opts, given>> /\ pc' = "refused"
    BY <1>1 DEF Client!Option, Client!Refuse
  <2> QED
    BY <2>1 DEF OptsInv
<1>2. CASE ~Client!BadValue(name, v)
  <2>1. /\ Client!SetOption(name, v) /\ pc' = pc
        /\ given' = Append(given, [name |-> name, value |-> v])
    BY <1>2 DEF Client!Option
  <2>2. /\ opts \in Opts /\ given \in Seq(Given) /\ "" \notin opts.env_keys \cup opts.env_prefixes
        /\ EndpointSettled(opts, given, env) /\ ChannelSettled(opts, given, env)
        /\ QueueSettled(opts, given, env) /\ SecretsSettled(opts, given, env)
    BY DEF OptsInv, Settled
  <2>3. given' \in Seq(Given)
    BY <2>1, <2>2, AppendProperties DEF Given
  <2>4. \A m : LastIn(given', m) = IF m = name THEN <<v>> ELSE LastIn(given, m)
    BY <2>1, <2>2, LastMore
  <2>5. <<v>> # << >> /\ <<v>>[1] = v
    OBVIOUS
  <2>6. name = "queue-size" => v \in DOMAIN Numbers
    BY <1>2 DEF Client!BadValue
  <2>7. opts' \in Opts /\ "" \notin opts'.env_keys \cup opts'.env_prefixes
    <3>1. CASE name = "queue-size"
      <4>1. opts' = [opts EXCEPT !.queue_size = Numbers[v]]
        BY <2>1, <3>1 DEF Client!SetOption
      <4>2. Numbers[v] \in Int
        BY <2>6, <3>1, NumberAssumption, Zenon
      <4> QED
        BY <2>2, <4>1, <4>2 DEF Opts
    <3>2. CASE name \in {"env", "env-prefix"}
      <4>1. \/ opts' = [opts EXCEPT !.env_keys = @ \cup ({v} \ {""})]
            \/ opts' = [opts EXCEPT !.env_prefixes = @ \cup ({v} \ {""})]
        BY <2>1, <3>2 DEF Client!SetOption
      <4>2. \A s : s \in SUBSET STRING /\ "" \notin s =>
               s \cup ({v} \ {""}) \in SUBSET STRING /\ "" \notin s \cup ({v} \ {""})
        OBVIOUS
      <4>3. /\ opts.env_keys \in SUBSET STRING /\ "" \notin opts.env_keys
            /\ opts.env_prefixes \in SUBSET STRING /\ "" \notin opts.env_prefixes
        BY <2>2 DEF Opts
      <4>4. \A x \in SUBSET STRING : [opts EXCEPT !.env_keys = x] \in Opts
        BY <2>2 DEF Opts
      <4>5. \A x \in SUBSET STRING : [opts EXCEPT !.env_prefixes = x] \in Opts
        BY <2>2 DEF Opts
      <4>6. \A x : /\ [opts EXCEPT !.env_keys = x].env_keys = x
                   /\ [opts EXCEPT !.env_keys = x].env_prefixes = opts.env_prefixes
                   /\ [opts EXCEPT !.env_prefixes = x].env_prefixes = x
                   /\ [opts EXCEPT !.env_prefixes = x].env_keys = opts.env_keys
        BY <2>2 DEF Opts
      <4>7. CASE opts' = [opts EXCEPT !.env_keys = @ \cup ({v} \ {""})]
        <5> DEFINE x == opts.env_keys \cup ({v} \ {""})
        <5>1. x \in SUBSET STRING /\ "" \notin x
          BY <4>2, <4>3
        <5> HIDE DEF x
        <5>2. opts' = [opts EXCEPT !.env_keys = x]
          BY <4>7 DEF x
        <5> QED
          BY <4>3, <4>4, <4>6, <5>1, <5>2
      <4>8. CASE opts' = [opts EXCEPT !.env_prefixes = @ \cup ({v} \ {""})]
        <5> DEFINE x == opts.env_prefixes \cup ({v} \ {""})
        <5>1. x \in SUBSET STRING /\ "" \notin x
          BY <4>2, <4>3
        <5> HIDE DEF x
        <5>2. opts' = [opts EXCEPT !.env_prefixes = x]
          BY <4>8 DEF x
        <5> QED
          BY <4>3, <4>5, <4>6, <5>1, <5>2
      <4> QED
        BY <4>1, <4>7, <4>8
    <3>3. CASE name \in Client!StringFlags
      <4>1. \/ opts' = [opts EXCEPT !.client_env = v] \/ opts' = [opts EXCEPT !.endpoint = v]
            \/ opts' = [opts EXCEPT !.token = v] \/ opts' = [opts EXCEPT !.channel_id = v]
        BY <2>1, <3>3 DEF Client!SetOption, Client!StringFlags
      <4> QED
        BY <2>2, <4>1 DEF Opts
    <3>4. CASE name \in Client!BoolFlags
      <4>1. \/ opts' = [opts EXCEPT !.shell = (v = "true")]
            \/ opts' = [opts EXCEPT !.secrets = (v = "true")]
        BY <2>1, <3>4 DEF Client!SetOption, Client!BoolFlags
      <4> QED
        BY <2>2, <4>1 DEF Opts
    <3> QED
      BY <3>1, <3>2, <3>3, <3>4 DEF Client!ValueFlags, Client!ListFlags
  <2>8. EndpointSettled(opts', given', env)
    <3>1. CASE name = "endpoint"
      <4>1. LastIn(given', "endpoint") = <<v>> /\ opts'.endpoint = v
        BY <2>1, <2>2, <2>4, <3>1 DEF Client!SetOption, Opts
      <4> QED
        BY <2>5, <4>1 DEF EndpointSettled
    <3>2. CASE name # "endpoint"
      <4>1. LastIn(given', "endpoint") = LastIn(given, "endpoint") /\ opts'.endpoint = opts.endpoint
        BY <2>1, <2>2, <2>4, <3>2 DEF Client!SetOption, Opts
      <4> QED
        BY <2>2, <4>1 DEF EndpointSettled
    <3> QED
      BY <3>1, <3>2
  <2>9. ChannelSettled(opts', given', env)
    <3>1. CASE name = "channel-id"
      <4>1. LastIn(given', "channel-id") = <<v>> /\ opts'.channel_id = v
        BY <2>1, <2>2, <2>4, <3>1 DEF Client!SetOption, Opts
      <4> QED
        BY <2>5, <4>1 DEF ChannelSettled
    <3>2. CASE name # "channel-id"
      <4>1. LastIn(given', "channel-id") = LastIn(given, "channel-id") /\ opts'.channel_id = opts.channel_id
        BY <2>1, <2>2, <2>4, <3>2 DEF Client!SetOption, Opts
      <4> QED
        BY <2>2, <4>1 DEF ChannelSettled
    <3> QED
      BY <3>1, <3>2
  <2>10. QueueSettled(opts', given', env)
    <3>1. CASE name = "queue-size"
      <4>1. LastIn(given', "queue-size") = <<v>> /\ opts'.queue_size = Numbers[v]
        BY <2>1, <2>2, <2>4, <3>1 DEF Client!SetOption, Opts
      <4> QED
        BY <2>5, <4>1 DEF QueueSettled
    <3>2. CASE name # "queue-size"
      <4>1. LastIn(given', "queue-size") = LastIn(given, "queue-size") /\ opts'.queue_size = opts.queue_size
        BY <2>1, <2>2, <2>4, <3>2 DEF Client!SetOption, Opts
      <4> QED
        BY <2>2, <4>1 DEF QueueSettled
    <3> QED
      BY <3>1, <3>2
  <2>11. SecretsSettled(opts', given', env)
    <3>1. CASE name = "allow-secret-env"
      <4>1. LastIn(given', "allow-secret-env") = <<v>> /\ opts'.secrets = (v = "true")
        BY <2>1, <2>2, <2>4, <3>1 DEF Client!SetOption, Opts
      <4> QED
        BY <2>5, <4>1 DEF SecretsSettled
    <3>2. CASE name # "allow-secret-env"
      <4>1. LastIn(given', "allow-secret-env") = LastIn(given, "allow-secret-env") /\ opts'.secrets = opts.secrets
        BY <2>1, <2>2, <2>4, <3>2 DEF Client!SetOption, Opts
      <4> QED
        BY <2>2, <4>1 DEF SecretsSettled
    <3> QED
      BY <3>1, <3>2
  <2>12. Settled(opts', given', env')
    BY <2>8, <2>9, <2>10, <2>11 DEF Settled
  <2> QED
    BY <2>1, <2>3, <2>7, <2>12 DEF OptsInv
<1> QED
  BY <1>1, <1>2

(* The other steps leave what was settled alone. *)
LEMMA OptsStep ==
    ASSUME InputInv, pc = "flags" => args \in Seq(Arg), FileInv, OptsInv, Client!Next
    PROVE  OptsInv'
<1>1. CASE Client!Defaults
  BY <1>1, DefaultsStep
<1>2. CASE Client!Resolve \/ Client!Open \/ Client!LoadLine \/ Client!Loaded
  <2>1. /\ pc \in {"resolve", "load", "lines"} /\ UNCHANGED <<opts, given>>
        /\ pc' \in {"load", "lines", "parse", "refused"}
    BY <1>2 DEF Client!Resolve, Client!Open, Client!LoadLine, Client!Loaded, Client!Refuse
  <2> QED
    BY <2>1 DEF OptsInv
<1>3. CASE Client!ParseCommand \/ Client!Check
  <2>1. /\ pc \in {"flags", "check"} /\ UNCHANGED <<opts, given, env>>
        /\ pc' \in {"check", "start", "refused"}
    BY <1>3 DEF Client!ParseCommand, Client!Check, Client!Refuse
  <2> QED
    BY <2>1 DEF OptsInv
<1>4. CASE Client!ParseFlag
  <2> DEFINE arg == Head(args)
  <2>1. pc = "flags" /\ env' = env /\ args \in Seq(Arg) /\ args # << >>
    BY <1>4 DEF Client!ParseFlag
  <2>2. /\ arg \in Arg
        /\ Len(args) > 1 => args[2] \in Arg
        /\ \A a \in Arg : a.value \in STRING /\ Client!AsValue(a) \in STRING
    <3>1. arg \in Arg /\ \A i \in 1..Len(args) : args[i] \in Arg
      BY <2>1, HeadTailProperties, LenProperties
    <3>2. Len(args) > 1 => 2 \in 1..Len(args)
      BY <2>1, LenProperties
    <3>3. \A a \in Arg : a.value \in STRING /\ Client!AsValue(a) \in STRING
      BY StringAssumption DEF Arg, Client!AsValue
    <3> QED
      BY <3>1, <3>2, <3>3
  <2>3. arg.name \in STRING /\ arg.value \in STRING /\ "true" \in STRING
    BY <2>2, StringAssumption DEF Arg
  <2>4. \/ UNCHANGED <<opts, given>> /\ pc' = "refused"
        \/ \E v \in STRING : \E taken :
              Client!Option(arg.name, v, taken) /\ arg.name \in Client!BoolFlags \cup Client!ValueFlags
    <3> HIDE DEF arg
    <3>1. \/ /\ arg.name \in Client!BoolFlags
             /\ Client!Option(arg.name, IF arg.eq THEN arg.value ELSE "true", 1)
          \/ arg.name \in Client!ValueFlags /\ Client!Option(arg.name, arg.value, 1)
          \/ /\ arg.name \in Client!ValueFlags /\ Len(args) > 1
             /\ Client!Option(arg.name, Client!AsValue(args[2]), 2)
          \/ UNCHANGED <<opts, given>> /\ pc' = "refused"
      BY <1>4, Zenon DEF Client!ParseFlag, Client!Refuse, arg
    <3> QED
      BY <2>2, <2>3, <3>1, Zenon
  <2>5. CASE UNCHANGED <<opts, given>> /\ pc' = "refused"
    BY <2>5 DEF OptsInv
  <2> HIDE DEF arg
  <2> QED
    BY <2>1, <2>3, <2>4, <2>5, OptionStep
<1> QED
  BY <1>1, <1>2, <1>3, <1>4 DEF Client!Next

-----------------------------------------------------------------------------
(***************************************************************************)
(* The client's arguments: what is parsed as an option is no part of the   *)
(* command, and the other way round.                                       *)
(***************************************************************************)
Stop(x) == x = Client!DashDash \/ x.dashes = 0

(* Places of a before i at each of which an option begins, and i behind    *)
Way(a, i, places) ==
    /\ places \in SUBSET (1..i) /\ 1 \in places
    /\ \A j \in places \ {i} :
          /\ ~Stop(a[j])
          /\ (IF a[j].eq \/ a[j].name \in Client!BoolFlags THEN j + 1 ELSE j + 2) \in places

(* Every way to the end of the options comes by what follows the first k.  *)
WayTo(a, k) ==
    \A i \in DOMAIN a : Stop(a[i]) => \A places : Way(a, i, places) => k + 1 \in places

(* Where ClientStart finds nothing but options, there is such a way. *)
LEMMA OnlyOptionsWay ==
    ASSUME NEW a \in Seq(Arg), NEW i \in DOMAIN a, Client!OnlyOptions(SubSeq(a, 1, i - 1))
    PROVE  \E places : Way(a, i, places)
<1> DEFINE s == SubSeq(a, 1, i - 1)
<1>1. i \in 1..Len(a) /\ Len(a) \in Nat /\ \A j \in 1..(i - 1) : a[j] \in Arg
  BY LenProperties
<1>2. /\ Len(s) = IF 1 <= i - 1 THEN (i - 1) - 1 + 1 ELSE 0
      /\ \A j \in 1..((i - 1) - 1 + 1) : s[j] = a[1 + j - 1]
  <2>1. 1 \in Int /\ i - 1 \in Int
    BY <1>1
  <2> QED
    BY <1>1, <2>1, SubSeqProperties
<1>3. Len(s) + 1 = i /\ \A j \in 1..(i - 1) : s[j] = a[j]
  <2>1. Len(s) + 1 = i
    BY <1>1, <1>2
  <2>2. ASSUME NEW j \in 1..(i - 1) PROVE s[j] = a[j]
    <3>1. j \in 1..((i - 1) - 1 + 1) /\ 1 + j - 1 = j
      BY <1>1
    <3> QED
      BY <1>2, <3>1
  <2> QED
    BY <2>1, <2>2
<1> HIDE DEF s
<1>4. PICK places \in SUBSET (1..(Len(s) + 1)) :
        /\ 1 \in places
        /\ \A j \in places \ {Len(s) + 1} :
              /\ s[j].dashes # 0 /\ s[j] # Client!DashDash
              /\ (IF s[j].eq \/ s[j].name \in Client!BoolFlags THEN j + 1 ELSE j + 2) \in places
  BY Zenon DEF Client!OnlyOptions, s
<1>5. \A j \in places \ {i} : j \in 1..(i - 1)
  BY <1>1, <1>3, <1>4
<1>6. \A j \in places \ {i} :
          /\ ~Stop(a[j])
          /\ (IF a[j].eq \/ a[j].name \in Client!BoolFlags THEN j + 1 ELSE j + 2) \in places
  BY <1>3, <1>4, <1>5 DEF Stop
<1>7. places \in SUBSET (1..i)
  BY <1>3, <1>4
<1> QED
  BY <1>4, <1>6, <1>7 DEF Way

(* One option more is on the way. *)
LEMMA WayMore ==
    ASSUME NEW a, NEW k \in Nat, WayTo(a, k), ~Stop(a[k + 1]), NEW n \in {1, 2},
           n = IF a[k + 1].eq \/ a[k + 1].name \in Client!BoolFlags THEN 1 ELSE 2
    PROVE  WayTo(a, k + n)
<1> SUFFICES ASSUME NEW i \in DOMAIN a, Stop(a[i]), NEW places, Way(a, i, places)
             PROVE  (k + n) + 1 \in places
  BY DEF WayTo
<1>1. k + 1 \in places
  BY DEF WayTo
<1>2. k + 1 # i
  OBVIOUS
<1>3. (IF a[k + 1].eq \/ a[k + 1].name \in Client!BoolFlags THEN (k + 1) + 1 ELSE (k + 1) + 2)
         \in places
  BY <1>1, <1>2, Zenon DEF Way
<1>4. (k + n) + 1 = IF a[k + 1].eq \/ a[k + 1].name \in Client!BoolFlags
                      THEN (k + 1) + 1 ELSE (k + 1) + 2
  OBVIOUS
<1> QED
  BY <1>3, <1>4

(* What the command is, if nothing but options comes before it *)
CommandIs(a, c) ==
    \A i \in DOMAIN a :
        Client!OnlyOptions(SubSeq(a, 1, i - 1)) =>
            /\ a[i] = Client!DashDash => c = SubSeq(a, i + 1, Len(a))
            /\ a[i].dashes = 0 => c = SubSeq(a, i, Len(a))

(* At the end of the options, the command is as it must be. *)
LEMMA WayEnds ==
    ASSUME NEW a \in Seq(Arg), NEW k \in 0..Len(a), WayTo(a, k),
           k < Len(a) => Stop(a[k + 1]), NEW c,
           c = IF k < Len(a) /\ a[k + 1] = Client!DashDash THEN Rest(a, k + 1) ELSE Rest(a, k)
    PROVE  CommandIs(a, c)
<1> SUFFICES ASSUME NEW i \in DOMAIN a, Client!OnlyOptions(SubSeq(a, 1, i - 1)), Stop(a[i])
             PROVE  /\ a[i] = Client!DashDash => c = SubSeq(a, i + 1, Len(a))
                    /\ a[i].dashes = 0 => c = SubSeq(a, i, Len(a))
  BY DEF CommandIs, Stop
<1>1. Len(a) \in Nat /\ i \in 1..Len(a) /\ k \in Nat
  BY LenProperties
<1>2. PICK places : Way(a, i, places)
  BY OnlyOptionsWay
<1>3. k + 1 \in places /\ k + 1 \in 1..i
  BY <1>2 DEF WayTo, Way
<1>4. k < Len(a)
  BY <1>1, <1>3
<1>5. k + 1 = i
  BY <1>2, <1>3, <1>4 DEF Way
<1>6. /\ Rest(a, k) = SubSeq(a, i, Len(a)) /\ Rest(a, k + 1) = SubSeq(a, i + 1, Len(a))
      /\ Client!DashDash.dashes # 0
  <2>1. Rest(a, k) = SubSeq(a, k + 1, Len(a)) /\ Rest(a, k + 1) = SubSeq(a, (k + 1) + 1, Len(a))
    BY DEF Rest
  <2>2. Client!DashDash.dashes = 2
    BY DEF Client!DashDash
  <2>3. Client!DashDash.dashes # 0
    BY <2>2
  <2> QED
    BY <1>5, <2>1, <2>3, Zenon
<1> QED
  BY <1>4, <1>5, <1>6

(* Where a file's name may come from *)
PathIs(a, e, p) ==
    p # "" => \A i \in DOMAIN a : a[i] = Client!DashDash =>
        \/ p = "client.env"
        \/ "CLIENT_ENV_FILE" \in DOMAIN e /\ p = e["CLIENT_ENV_FILE"]
        \/ \E j \in 1..i : p \in {a[j].value, Client!AsValue(a[j])}

ArgsInv ==
    /\ pc \in {"resolve", "load", "lines", "parse"} => args = args0
    /\ pc = "flags" => \E k \in 0..Len(args0) : args = Rest(args0, k) /\ WayTo(args0, k)
    /\ pc \in {"check", "start"} => CommandIs(args0, command)
    /\ command \in Seq(Arg) /\ Len(command) <= Len(args0)
    /\ PathIs(args0, env0, path)

(* A place behind others *)
LEMMA Behind ==
    ASSUME NEW n \in Nat, NEW i \in 1..n, NEW j \in 1..n, j \notin 1..i
    PROVE  i \in 1..j /\ i + 1 \in 1..j /\ i # n
<1>1. i < j
  OBVIOUS
<1>2. i \in 1..j
  BY <1>1
<1>3. i + 1 \in 1..j
  BY <1>1
<1> QED
  BY <1>1, <1>2, <1>3

(* Neither a file's name nor an option comes from behind a "--".           *)
LEMMA ResolveStep ==
    ASSUME InputInv, FileInv, ArgsInv, Client!Resolve
    PROVE  ArgsInv'
<1>1. /\ pc = "resolve" /\ pc' \in {"load", "refused"} /\ args = args0 /\ env = env0
      /\ UNCHANGED <<args, command, args0, env0>>
  BY DEF Client!Resolve, Client!Refuse, ArgsInv, FileInv, Client!inputs
<1>2. /\ args0 \in Seq(Arg) /\ DOMAIN args0 = 1..Len(args0) /\ Len(args0) \in Nat
  BY InputTypes, LenProperties
<1>3. CASE Client!Found # {}
  <2> DEFINE n == CHOOSE m \in Client!Found : \A k \in Client!Found : m <= k
  <2>1. path' \in {path, Client!Chosen(n)}
    BY <1>3 DEF Client!Resolve
  <2>2. n \in Client!Found
    <3>1. Client!Found # {} /\ Client!Found \in SUBSET (1..Len(args0))
      BY <1>1, <1>2, <1>3 DEF Client!Found
    <3>2. \E m \in Client!Found : \A k \in Client!Found : m <= k
      BY <1>2, <3>1, HasFirst
    <3> QED
      BY <3>2
  <2> HIDE DEF n
  <2>3. n \in 1..Len(args0) /\ \A k \in 1..n : args0[k] # Client!DashDash
    BY <1>1, <1>2, <2>2 DEF Client!Found
  <2>4. PathIs(args0, env0, Client!Chosen(n))
    <3> SUFFICES ASSUME Client!Chosen(n) # "", NEW i \in DOMAIN args0, args0[i] = Client!DashDash
                 PROVE  \E j \in 1..i : Client!Chosen(n) \in {args0[j].value, Client!AsValue(args0[j])}
      BY DEF PathIs
    <3>1. i \notin 1..n
      BY <2>3, Zenon
    <3>2. i \in 1..Len(args0)
      BY <1>2, Zenon
    <3>3. n \in 1..Len(args0) /\ Len(args0) \in Nat
      BY <1>2, <2>3
    <3>4. n \in 1..i /\ n + 1 \in 1..i /\ n # Len(args0)
      BY <3>1, <3>2, <3>3, Behind, Zenon
    <3>5. Client!Chosen(n) \in {args0[n].value, Client!AsValue(args0[n + 1])}
      BY <1>1, <3>4 DEF Client!Chosen
    <3> QED
      BY <3>4, <3>5
  <2>5. PathIs(args0, env0, path')
    BY <2>1, <2>4 DEF ArgsInv
  <2> QED
    BY <1>1, <2>5 DEF ArgsInv
<1>4. CASE Client!Found = {}
  <2>1. path' \in {"client.env", Client!Getenv("CLIENT_ENV_FILE")}
    BY <1>4 DEF Client!Resolve
  <2>2. PathIs(args0, env0, path')
    BY <1>1, <2>1 DEF PathIs, Client!Getenv
  <2> QED
    BY <1>1, <2>2 DEF ArgsInv
<1> QED
  BY <1>3, <1>4

(* An option is taken from the front, with its value. *)
LEMMA ParseFlagStep ==
    ASSUME InputInv, ArgsInv, Client!ParseFlag
    PROVE  ArgsInv'
<1>1. /\ pc = "flags" /\ args # << >> /\ ~Stop(Head(args))
      /\ UNCHANGED <<path, command, args0, env0>>
  <2>1. Head(args).dashes > 0 /\ Head(args) # Client!DashDash
    BY DEF Client!ParseFlag
  <2>2. ~(0 > 0)
    OBVIOUS
  <2> QED
    BY <2>1, <2>2 DEF Client!ParseFlag, Stop, Client!inputs
<1>2. PICK k \in 0..Len(args0) : args = Rest(args0, k) /\ WayTo(args0, k)
  BY <1>1 DEF ArgsInv
<1>3. /\ args0 \in Seq(Arg) /\ Len(args0) \in Nat /\ k \in Nat
      /\ args \in Seq(Arg) /\ Len(args) = Len(args0) - k
      /\ \A i \in 1..(Len(args0) - k) : args[i] = args0[k + i]
  BY <1>2, InputTypes, LenProperties, RestOf
<1>4. k + 1 <= Len(args0) /\ Head(args) = args0[k + 1]
  BY <1>1, <1>2, <1>3, RestNext
<1> DEFINE arg == Head(args)
           n == IF arg.eq \/ arg.name \in Client!BoolFlags THEN 1 ELSE 2
<1>5. \/ pc' = "refused"
      \/ pc' = pc /\ args' = SubSeq(args, n + 1, Len(args)) /\ n <= Len(args)
  <2>1. Len(args) >= 1 /\ (arg.name \in Client!ValueFlags => arg.name \notin Client!BoolFlags)
    BY <1>3, <1>4
         DEF Client!ValueFlags, Client!ListFlags, Client!StringFlags, Client!BoolFlags
  <2>2. \A name, v, taken : Client!Option(name, v, taken) =>
           \/ pc' = "refused"
           \/ pc' = pc /\ args' = SubSeq(args, taken + 1, Len(args))
    BY DEF Client!Option, Client!Refuse
  <2> HIDE DEF arg, n
  <2>3. \/ pc' = "refused"
        \/ /\ arg.name \in Client!BoolFlags
           /\ Client!Option(arg.name, IF arg.eq THEN arg.value ELSE "true", 1)
        \/ arg.name \in Client!ValueFlags /\ arg.eq /\ Client!Option(arg.name, arg.value, 1)
        \/ /\ arg.name \in Client!ValueFlags /\ ~arg.eq /\ Len(args) > 1
           /\ Client!Option(arg.name, Client!AsValue(args[2]), 2)
    BY Zenon DEF Client!ParseFlag, Client!Refuse, arg
  <2>4. CASE arg.name \in Client!BoolFlags \/ arg.eq
    <3>1. n = 1
      BY <2>4 DEF n
    <3> QED
      BY <2>1, <2>2, <2>3, <2>4, <3>1
  <2>5. CASE ~(arg.name \in Client!BoolFlags \/ arg.eq)
    <3>1. n = 2
      BY <2>5 DEF n
    <3>2. Len(args) > 1 => n <= Len(args)
      BY <1>3, <3>1
    <3> QED
      BY <2>2, <2>3, <2>5, <3>1, <3>2
  <2> QED
    BY <2>4, <2>5
<1>6. CASE pc' = "refused"
  BY <1>1, <1>6 DEF ArgsInv
<1>7. CASE pc' = pc /\ args' = SubSeq(args, n + 1, Len(args)) /\ n <= Len(args)
  <2>1. n \in {1, 2} /\ n \in Nat
    OBVIOUS
  <2>2. n = IF args0[k + 1].eq \/ args0[k + 1].name \in Client!BoolFlags THEN 1 ELSE 2
    BY <1>4
  <2> HIDE DEF n, arg
  <2>3. k + n \in 0..Len(args0) /\ k + n <= Len(args0)
    BY <1>3, <1>7, <2>1
  <2>4. args' = Rest(args0, k + n)
    BY <1>2, <1>3, <1>7, <2>1, <2>3, RestMore
  <2>5. WayTo(args0, k + n)
    BY <1>1, <1>2, <1>3, <1>4, <2>1, <2>2, WayMore
  <2> QED
    BY <1>1, <1>7, <2>3, <2>4, <2>5 DEF ArgsInv
<1> QED
  BY <1>5, <1>6, <1>7

(* What is behind the options is the command. *)
LEMMA ParseCommandStep ==
    ASSUME InputInv, ArgsInv, Client!ParseCommand
    PROVE  ArgsInv'
<1>1. /\ pc = "flags" /\ pc' = "check" /\ UNCHANGED <<path, args0, env0>>
      /\ command' = IF args # << >> /\ Head(args) = Client!DashDash THEN Tail(args) ELSE args
      /\ args # << >> => Stop(Head(args))
  BY DEF Client!ParseCommand, Client!inputs, Stop
<1>2. PICK k \in 0..Len(args0) : args = Rest(args0, k) /\ WayTo(args0, k)
  BY <1>1 DEF ArgsInv
<1>3. /\ args0 \in Seq(Arg) /\ Len(args0) \in Nat /\ k \in Nat
      /\ args \in Seq(Arg) /\ Len(args) = Len(args0) - k
      /\ \A i \in 1..(Len(args0) - k) : args[i] = args0[k + i]
  BY <1>2, InputTypes, LenProperties, RestOf
<1>4. /\ args # << >> <=> k < Len(args0)
      /\ args # << >> => /\ Head(args) = args0[k + 1] /\ Tail(args) = Rest(args0, k + 1)
                         /\ k + 1 <= Len(args0)
  BY <1>2, <1>3, RestNext
<1>5. command' = IF k < Len(args0) /\ args0[k + 1] = Client!DashDash
                   THEN Rest(args0, k + 1) ELSE Rest(args0, k)
  BY <1>1, <1>2, <1>4
<1>6. k < Len(args0) => Stop(args0[k + 1])
  BY <1>1, <1>4
<1>7. CommandIs(args0, command')
  BY <1>2, <1>3, <1>5, <1>6, WayEnds
<1>8. command' \in Seq(Arg) /\ Len(command') <= Len(args0)
  <2>1. CASE k < Len(args0)
    <3>1. k + 1 \in 0..Len(args0)
      BY <1>3, <2>1
    <3>2. /\ Rest(args0, k + 1) \in Seq(Arg) /\ Len(Rest(args0, k + 1)) = Len(args0) - (k + 1)
          /\ Rest(args0, k) \in Seq(Arg) /\ Len(Rest(args0, k)) = Len(args0) - k
      BY <1>3, <3>1, RestOf
    <3> QED
      BY <1>3, <1>5, <3>2
  <2>2. CASE ~(k < Len(args0))
    BY <1>2, <1>3, <1>5, <2>2
  <2> QED
    BY <2>1, <2>2
<1> QED
  BY <1>1, <1>7, <1>8 DEF ArgsInv

(* The steps of the client *)
LEMMA ArgsStep ==
    ASSUME InputInv, FileInv, ArgsInv, Client!Next
    PROVE  ArgsInv'
<1>1. CASE Client!Open \/ Client!LoadLine \/ Client!Loaded
  <2>1. /\ pc \in {"load", "lines"} /\ pc' \in {"load", "lines", "parse", "refused"}
        /\ UNCHANGED <<args, path, command, args0, env0>>
    BY <1>1 DEF Client!Open, Client!LoadLine, Client!Loaded, Client!Refuse, Client!inputs
  <2> QED
    BY <2>1 DEF ArgsInv
<1>2. CASE Client!Defaults
  <2>1. pc = "parse" /\ pc' = "flags" /\ UNCHANGED <<args, path, command, args0, env0>>
    BY <1>2 DEF Client!Defaults, Client!inputs
  <2>2. args0 \in Seq(Arg) /\ Len(args0) \in Nat
    BY InputTypes, LenProperties
  <2>3. args' = Rest(args0, 0)
    BY <2>1, <2>2, SubSeqFull DEF ArgsInv, Rest
  <2>4. WayTo(args0, 0)
    BY DEF WayTo, Way
  <2>5. 0 \in 0..Len(args0)
    BY <2>2
  <2> QED
    BY <2>1, <2>3, <2>4, <2>5 DEF ArgsInv
<1>3. CASE Client!Check
  <2>1. pc = "check" /\ pc' \in {"start", "refused"} /\ UNCHANGED <<path, command, args0, env0>>
    BY <1>3 DEF Client!Check, Client!Refuse, Client!inputs
  <2> QED
    BY <2>1 DEF ArgsInv
<1> QED
  BY <1>1, <1>2, <1>3, ResolveStep, ParseFlagStep, ParseCommandStep DEF Client!Next

-----------------------------------------------------------------------------
(***************************************************************************)
(* The client's start event.                                               *)
(***************************************************************************)

(* The instance of ClientStart has its own copy of this operator. *)
LEMMA SameCardinality == \A S : Client!Cardinality(S) = Cardinality(S)
BY DEF Client!Cardinality, Cardinality

(* The lowest m of some ranked names are not more than m. *)
LEMMA LowestFew ==
    ASSUME NEW S \in SUBSET DOMAIN Rank, NEW m \in Nat
    PROVE  Cardinality({k \in S : Cardinality({j \in S : Rank[j] < Rank[k]}) < m}) <= m
<1> DEFINE Fewer(k) == {j \in S : Rank[j] < Rank[k]}
           f == [k \in S |-> Cardinality(Fewer(k))]
           few == {k \in S : f[k] < m}
           places == 0..(m - 1)
<1>1. IsFiniteSet(S)
  BY RankAssumption, FS_Subset
<1>2. \A k \in S : /\ Rank[k] \in Nat /\ IsFiniteSet(Fewer(k)) /\ Cardinality(Fewer(k)) \in Nat
  <2> TAKE k \in S
  <2>1. Fewer(k) \in SUBSET S
    OBVIOUS
  <2>2. IsFiniteSet(Fewer(k))
    BY <1>1, <2>1, FS_Subset
  <2>3. Rank[k] \in Nat
    BY RankAssumption
  <2> QED
    BY <2>2, <2>3, FS_CardinalityType
<1>3. ASSUME NEW j \in S, NEW k \in S, Rank[j] < Rank[k]
      PROVE  Cardinality(Fewer(j)) < Cardinality(Fewer(k))
  <2>0. \A i \in S : Rank[i] \in Nat
    BY RankAssumption
  <2>1. j \notin Fewer(j)
    BY <2>0
  <2>2. Fewer(j) \cup {j} \in SUBSET Fewer(k)
    BY <1>3, <2>0
  <2> HIDE DEF Fewer
  <2>3. Cardinality(Fewer(j) \cup {j}) = Cardinality(Fewer(j)) + 1
    BY <1>2, <2>1, FS_AddElement
  <2>4. Cardinality(Fewer(j) \cup {j}) <= Cardinality(Fewer(k))
    BY <1>2, <2>2, FS_Subset
  <2> QED
    BY <1>2, <2>3, <2>4
<1>4. \A j, k \in S : j # k => Rank[j] < Rank[k] \/ Rank[k] < Rank[j]
  BY <1>2, RankAssumption
<1> HIDE DEF Fewer
<1>5. \A j, k \in S : j # k => f[j] # f[k]
  BY <1>2, <1>3, <1>4
<1>6. \A k \in S : f[k] = Cardinality(Fewer(k)) /\ f[k] \in Nat
  BY <1>2
<1> HIDE DEF f
<1>7. IsFiniteSet(few) /\ Cardinality(few) \in Nat
  <2>1. few \in SUBSET S
    OBVIOUS
  <2>2. IsFiniteSet(few)
    BY <1>1, <2>1, FS_Subset
  <2> QED
    BY <2>2, FS_CardinalityType
<1>8. IsFiniteSet(places) /\ Cardinality(places) = m
  BY FS_Interval
<1> DEFINE g == [k \in few |-> f[k]]
<1>9. g \in [few -> places]
  <2>1. \A k \in few : f[k] \in places
    BY <1>6
  <2> QED
    BY <2>1
<1>10. \A j, k \in few : j # k => g[j] # g[k]
  BY <1>5
<1> HIDE DEF g, few, places
<1>11. ~(Cardinality(places) < Cardinality(few))
  BY <1>7, <1>8, <1>9, <1>10, FS_PigeonHole
<1>12. Cardinality(few) <= m
  BY <1>7, <1>8, <1>11
<1>13. few = {k \in S : Cardinality({j \in S : Rank[j] < Rank[k]}) < m}
  BY <1>6 DEF few, Fewer
<1> QED
  BY <1>12, <1>13

EventInv ==
    pc = "start" =>
        /\ Client!validateStart(event) /\ opts.queue_size > 0 /\ opts.token # ""
        /\ \A k \in event.environment :
              /\ opts.secrets \/ k \notin Sensitive
              /\ k \in opts.env_keys \/ \E p \in opts.env_prefixes : k \in Prefixed[p]

(* Only the last check gives a start event. *)
LEMMA EventStep ==
    ASSUME InputInv, FileInv, OptsInv, Client!Next
    PROVE  EventInv'
<1>1. CASE ~Client!Check
  <2>1. pc' # "start"
    <3>1. \A name, v, taken : Client!Option(name, v, taken) => pc' \in {pc, "refused"}
      BY DEF Client!Option, Client!Refuse
    <3>2. Client!ParseFlag => pc' # "start"
      BY <3>1 DEF Client!ParseFlag, Client!Refuse
    <3> QED
      BY <1>1, <3>2 DEF Client!Next, Client!Resolve, Client!Open, Client!LoadLine, Client!Loaded,
         Client!Defaults, Client!ParseCommand, Client!Refuse
  <2> QED
    BY <2>1 DEF EventInv
<1>2. CASE Client!Check /\ pc' # "start"
  BY <1>2 DEF EventInv
<1>3. CASE Client!Check /\ pc' = "start"
  <2>1. /\ event' = [channel |-> opts.channel_id, command |-> command,
                     environment |-> Client!collectEnvironment,
                     shell |-> opts.shell \/ Client!shouldUseShell]
        /\ command # << >> /\ opts.token # "" /\ opts.channel_id \in ChannelIDs
        /\ ~(opts.queue_size < 1) /\ opts' = opts
    BY <1>3 DEF Client!Check, Client!Refuse
  <2>2. opts.queue_size > 0
    <3>1. opts.queue_size \in Int
      BY DEF OptsInv, Opts
    <3>2. ~(opts.queue_size < 1)
      BY <2>1
    <3> QED
      BY <3>1, <3>2
  <2>3. Client!Allowed \in SUBSET DOMAIN Rank
    BY EnvironmentTypes DEF Client!Allowed
  <2>4. Cardinality(Client!collectEnvironment) <= MaxMetadata
    <3>1. \A S \in SUBSET DOMAIN Rank :
             Cardinality({k \in S : Cardinality({j \in S : Rank[j] < Rank[k]}) < MaxMetadata})
               <= MaxMetadata
      BY MetadataAssumption, LowestFew
    <3> DEFINE S == Client!Allowed
               few == {k \in S : Cardinality({j \in S : Rank[j] < Rank[k]}) < MaxMetadata}
    <3>2. Client!collectEnvironment = few
      BY SameCardinality, Zenon DEF Client!collectEnvironment
    <3>3. Cardinality(few) <= MaxMetadata
      <4> HIDE DEF S
      <4> QED
        BY <2>3, <3>1 DEF S
    <3> HIDE DEF few
    <3> QED
      BY <3>2, <3>3
  <2>5. ASSUME NEW k \in Client!collectEnvironment
        PROVE  /\ opts.secrets \/ k \notin Sensitive
               /\ k \in opts.env_keys \/ \E p \in opts.env_prefixes : k \in Prefixed[p]
    BY DEF Client!collectEnvironment, Client!Allowed
  <2>6. /\ event'.channel = opts.channel_id /\ event'.command = command
        /\ event'.environment = Client!collectEnvironment
    BY <2>1
  <2>7. Client!validateStart(event')
    <3>1. event'.channel \in ChannelIDs
      BY <2>1, <2>6
    <3>2. event'.command # << >>
      BY <2>1, <2>6
    <3>3. Cardinality(event'.environment) <= MaxMetadata
      BY <2>4, <2>6
    <3> QED
      BY <3>1, <3>2, <3>3, SameCardinality DEF Client!validateStart
  <2> QED
    BY <2>1, <2>2, <2>5, <2>6, <2>7 DEF EventInv, Client!validateStart
<1> QED
  BY <1>1, <1>2, <1>3

-----------------------------------------------------------------------------
(***************************************************************************)
(* The client as a whole.                                                  *)
(***************************************************************************)
PlaceInv ==
    /\ pc \in {"resolve", "load", "lines", "parse", "flags", "check", "start", "refused"}
    /\ pc = "refused" => code = 2
    /\ required \in BOOLEAN

ClientInv == InputInv /\ FileInv /\ OptsInv /\ ArgsInv /\ EventInv /\ PlaceInv

(* A refusal has its exit code. *)
LEMMA PlaceStep ==
    ASSUME PlaceInv, Client!Next
    PROVE  PlaceInv'
<1>1. CASE Client!Resolve
  BY <1>1 DEF Client!Resolve, Client!Refuse, PlaceInv
<1>2. CASE Client!Open \/ Client!LoadLine \/ Client!Loaded
  BY <1>2 DEF Client!Open, Client!LoadLine, Client!Loaded, Client!Refuse, PlaceInv
<1>3. CASE Client!Defaults \/ Client!ParseCommand \/ Client!Check
  BY <1>3 DEF Client!Defaults, Client!ParseCommand, Client!Check, Client!Refuse, PlaceInv
<1>4. CASE Client!ParseFlag
  <2>1. \A name, v, taken : Client!Option(name, v, taken) =>
           \/ pc' = "refused" /\ code' = 2
           \/ UNCHANGED <<pc, code>>
    BY DEF Client!Option, Client!Refuse
  <2>2. /\ required' = required
        /\ \/ pc' = "refused" /\ code' = 2
           \/ UNCHANGED <<pc, code>>
    BY <1>4, <2>1 DEF Client!ParseFlag, Client!Refuse
  <2> QED
    BY <2>2 DEF PlaceInv
<1> QED
  BY <1>1, <1>2, <1>3, <1>4 DEF Client!Next

(* Every step keeps what holds of the client. *)
LEMMA ClientNext == ClientInv /\ [Next]_vars => ClientInv'
<1> SUFFICES ASSUME ClientInv, [Next]_vars PROVE ClientInv'
  OBVIOUS
<1>1. InputInv /\ FileInv /\ OptsInv /\ ArgsInv /\ EventInv /\ PlaceInv
  BY DEF ClientInv
<1>2. CASE ClientStep
  <2>1. Client!Next
    BY <1>2 DEF ClientStep
  <2>2. pc = "resolve" => args = args0
    BY <1>1 DEF ArgsInv
  <2>3. pc = "flags" => args \in Seq(Arg)
    BY <1>1, InputTypes, RestOf DEF ArgsInv
  <2>4. InputInv'
    BY <1>1, <2>1
       DEF Client!Next, Client!Resolve, Client!Open, Client!LoadLine, Client!Loaded,
           Client!Defaults, Client!ParseFlag, Client!ParseCommand, Client!Check, Client!inputs,
           InputInv
  <2> QED
    BY <1>1, <2>1, <2>2, <2>3, <2>4, FileStep, OptsStep, ArgsStep, EventStep, PlaceStep
       DEF ClientInv
<1>3. CASE UNCHANGED clientVars /\ (UNCHANGED code \/ pc # "refused")
  <2>1. UNCHANGED <<pc, args, env, path, required, lines, opts, command, event, args0, env0, disk, given>>
    BY <1>3 DEF clientVars
  <2>2. Text' = Text
    BY <2>1 DEF Text
  <2>3. InputInv' /\ FileInv'
    BY <1>1, <2>1, <2>2 DEF InputInv, FileInv
  <2>4. OptsInv' /\ ArgsInv'
    BY <1>1, <2>1 DEF OptsInv, ArgsInv
  <2>5. EventInv' /\ PlaceInv'
    BY <1>1, <1>3, <2>1 DEF EventInv, PlaceInv
  <2> QED
    BY <2>3, <2>4, <2>5 DEF ClientInv
<1>4. CASE DaemonStep
  BY <1>3, <1>4 DEF DaemonStep
<1>5. CASE Running /\ Cmd!Next
  BY <1>3, <1>5 DEF Running
<1>6. CASE UNCHANGED vars
  BY <1>3, <1>6 DEF vars
<1> QED
  BY <1>2, <1>4, <1>5, <1>6 DEF Next

(* And it holds from the start. *)
LEMMA ClientInvariant == Spec => []ClientInv
<1>1. Init => ClientInv
  <2> SUFFICES ASSUME Init PROVE ClientInv
    OBVIOUS
  <2>1. Client!Init
    BY DEF Init
  <2>2. InputInv /\ PlaceInv
    BY <2>1 DEF Client!Init, InputInv, PlaceInv
  <2>3. FileInv
    <3>1. Text \in Seq(Line) /\ Len(Text) \in Nat
      BY <2>2, InputTypes, LenProperties DEF Text
    <3>2. Overlay(env0, env0, Text, 0) /\ 0 \in 0..Len(Text)
      BY <3>1, OverlayNone
    <3> QED
      BY <2>1, <3>2, StringAssumption DEF Client!Init, FileInv
  <2>4. OptsInv
    <3>1. /\ opts = Client!NoOpts /\ given = << >> /\ pc = "resolve"
          /\ << >> \in Seq(Given)
      BY <2>1, EmptySeq DEF Client!Init
    <3>2. Client!NoOpts \in Opts
      <4>1. "" \in STRING
        BY StringAssumption
      <4>2. {} \in SUBSET STRING
        OBVIOUS
      <4>3. 0 \in Int
        OBVIOUS
      <4> QED
        BY <4>1, <4>2, <4>3, Zenon DEF Client!NoOpts, Opts
    <3>3. "" \notin Client!NoOpts.env_keys \cup Client!NoOpts.env_prefixes
      BY DEF Client!NoOpts
    <3> QED
      BY <3>1, <3>2, <3>3 DEF OptsInv
  <2>5. ArgsInv
    <3>1. /\ pc = "resolve" /\ args = args0 /\ command = << >> /\ path = ""
          /\ << >> \in Seq(Arg)
      BY <2>1, EmptySeq DEF Client!Init
    <3>2. Len(command) <= Len(args0)
      <4>1. Len(command) = 0 /\ Len(args0) \in Nat
        BY <2>2, <3>1, EmptySeq, InputTypes, LenProperties
      <4> QED
        BY <4>1
    <3>3. PathIs(args0, env0, path)
      BY <3>1 DEF PathIs
    <3> QED
      BY <3>1, <3>2, <3>3 DEF ArgsInv
  <2>6. EventInv
    BY <2>1 DEF Client!Init, EventInv
  <2> QED
    BY <2>2, <2>3, <2>4, <2>5, <2>6 DEF ClientInv
<1> QED
  BY <1>1, ClientNext, PTL DEF Spec

(* What it says of the properties *)
LEMMA ClientMeans ==
    ClientInv => Client!TypeOK /\ Client!EnvironmentKept /\ Precedence /\ CommandUntouched
                   /\ StartIsValid
<1> SUFFICES ASSUME ClientInv
             PROVE  Client!TypeOK /\ Client!EnvironmentKept /\ Precedence /\ CommandUntouched
                      /\ StartIsValid
  OBVIOUS
<1>1. InputInv /\ FileInv /\ OptsInv /\ ArgsInv /\ EventInv /\ PlaceInv
  BY DEF ClientInv
<1>2. Client!TypeOK
  <2>1. opts.queue_size \in Int /\ opts.secrets \in BOOLEAN /\ opts.shell \in BOOLEAN
    BY <1>1 DEF OptsInv, Opts
  <2> QED
    BY <1>1, <2>1, EnvironmentTypes DEF Client!TypeOK, PlaceInv, FileInv, OptsInv, ArgsInv
<1>3. Client!EnvironmentKept
  <2>1. PICK n \in 0..Len(Text) : Overlay(env, env0, Text, n)
    BY <1>1 DEF FileInv
  <2>2. Text \in Seq(Line)
    BY <1>1, InputTypes DEF Text
  <2> QED
    BY <2>1, <2>2, OverlayKept, LookedUp DEF Client!EnvironmentKept
<1>4. ASSUME pc = "start", NEW k PROVE ValueIn(env, k) = Client!FromEnvironment(k)
  <2>1. Text \in Seq(Line) /\ Overlay(env, env0, Text, Len(Text))
    BY <1>1, <1>4, InputTypes DEF Text, FileInv
  <2> QED
    BY <2>1, OverlayAll, LookedUp
<1>5. pc = "start" => Settled(opts, given, env)
  BY <1>1 DEF OptsInv
<1>6. \A name : LastIn(given, name) = Client!LastGiven(name)
  BY LookedUp
<1>7. Precedence
  <2> SUFFICES ASSUME pc = "start" PROVE Client!Precedence
    BY DEF Precedence, Client!Precedence
  <2>1. EndpointSettled(opts, given, env) /\ ChannelSettled(opts, given, env)
        /\ QueueSettled(opts, given, env)
    BY <1>5 DEF Settled
  <2> DEFINE e(k) == ValueIn(env, k)
             l(name) == LastIn(given, name)
  <2>2. /\ \A k : Client!FromEnvironment(k) = e(k)
        /\ \A name : Client!LastGiven(name) = l(name)
    BY <1>4, <1>6
  <2>3. opts.endpoint = IF l("endpoint") # << >> THEN l("endpoint")[1]
                        ELSE IF e("ENDPOINT") # "" THEN e("ENDPOINT") ELSE Client!DefaultEndpoint
    BY <2>1 DEF EndpointSettled
  <2>4. opts.channel_id = IF l("channel-id") # << >> THEN l("channel-id")[1] ELSE e("CHANNEL_ID")
    BY <2>1 DEF ChannelSettled
  <2>5. opts.queue_size =
          IF l("queue-size") # << >> THEN Numbers[l("queue-size")[1]]
          ELSE IF e("QUEUE_SIZE") \in DOMAIN Numbers /\ Numbers[e("QUEUE_SIZE")] > 0
                 THEN Numbers[e("QUEUE_SIZE")]
          ELSE Client!DefaultQueue
    BY <2>1 DEF QueueSettled
  <2> HIDE DEF e, l
  <2> QED
    BY <2>2, <2>3, <2>4, <2>5, Zenon DEF Client!Precedence
<1>8. CommandUntouched
  <2> SUFFICES ASSUME NEW i \in DOMAIN args0, Client!OnlyOptions(SubSeq(args0, 1, i - 1))
               PROVE  /\ args0[i] = Client!DashDash /\ path # "" =>
                            path \in Client!NamedBy(SubSeq(args0, 1, i))
                      /\ pc \in {"check", "start"} /\ args0[i] = Client!DashDash =>
                            command = SubSeq(args0, i + 1, Len(args0))
                      /\ pc \in {"check", "start"} /\ args0[i].dashes = 0 =>
                            command = SubSeq(args0, i, Len(args0))
    BY DEF CommandUntouched, Client!CommandUntouched
  <2>1. ASSUME args0[i] = Client!DashDash, path # ""
        PROVE  path \in Client!NamedBy(SubSeq(args0, 1, i))
    <3> DEFINE s == SubSeq(args0, 1, i)
    <3>1. args0 \in Seq(Arg) /\ i \in 1..Len(args0) /\ Len(args0) \in Nat
      BY <1>1, InputTypes, LenProperties
    <3>2. s \in Seq(Arg) /\ Len(s) = i /\ \A j \in 1..i : s[j] = args0[j]
      <4>1. 1 \in Int /\ i \in Int /\ 1 <= i /\ \A j \in 1..i : args0[j] \in Arg
        BY <3>1, LenProperties
      <4>2. /\ s \in Seq(Arg) /\ Len(s) = IF 1 <= i THEN i - 1 + 1 ELSE 0
            /\ \A j \in 1..(i - 1 + 1) : s[j] = args0[1 + j - 1]
        BY <4>1, SubSeqProperties
      <4>3. Len(s) = i
        BY <4>1, <4>2
      <4>4. ASSUME NEW j \in 1..i PROVE s[j] = args0[j]
        <5>1. j \in 1..(i - 1 + 1) /\ 1 + j - 1 = j
          BY <4>1
        <5> QED
          BY <4>2, <5>1
      <4> QED
        BY <4>2, <4>3, <4>4
    <3>3. DOMAIN s = 1..i
      BY <3>2, LenProperties
    <3> HIDE DEF s
    <3>4. \/ path = "client.env"
          \/ "CLIENT_ENV_FILE" \in DOMAIN env0 /\ path = env0["CLIENT_ENV_FILE"]
          \/ \E j \in 1..i : path \in {args0[j].value, Client!AsValue(args0[j])}
      BY <1>1, <2>1 DEF ArgsInv, PathIs
    <3>5. ASSUME NEW j \in 1..i, path \in {args0[j].value, Client!AsValue(args0[j])}
          PROVE  path \in Client!NamedBy(s)
      BY <3>2, <3>3, <3>5 DEF Client!NamedBy
    <3>6. path = "client.env" => path \in Client!NamedBy(s)
      BY DEF Client!NamedBy
    <3>7. "CLIENT_ENV_FILE" \in DOMAIN env0 /\ path = env0["CLIENT_ENV_FILE"] =>
             path \in Client!NamedBy(s)
      BY DEF Client!NamedBy
    <3> QED
      BY <3>4, <3>5, <3>6, <3>7 DEF s
  <2>2. pc \in {"check", "start"} =>
           /\ args0[i] = Client!DashDash => command = SubSeq(args0, i + 1, Len(args0))
           /\ args0[i].dashes = 0 => command = SubSeq(args0, i, Len(args0))
    BY <1>1 DEF ArgsInv, CommandIs
  <2> QED
    BY <2>1, <2>2
<1>9. StartIsValid
  <2>1. pc = "start" /\ opts.secrets =>
           \/ Client!LastGiven("allow-secret-env") = <<"true">>
           \/ Client!FromEnvironment("ALLOW_SECRET_ENV") = "true"
    <3> SUFFICES ASSUME pc = "start", opts.secrets
                 PROVE  \/ LastIn(given, "allow-secret-env") = <<"true">>
                        \/ ValueIn(env, "ALLOW_SECRET_ENV") = "true"
      BY <1>4, <1>6
    <3>1. SecretsSettled(opts, given, env) /\ opts.secrets = TRUE
      BY <1>1, <1>5 DEF Settled, OptsInv, Opts
    <3>2. LastIn(given, "allow-secret-env") # << >> =>
             LastIn(given, "allow-secret-env") = <<LastIn(given, "allow-secret-env")[1]>>
      BY DEF LastIn
    <3> QED
      BY <3>1, <3>2 DEF SecretsSettled
  <2> QED
    BY <1>1, <2>1 DEF StartIsValid, Client!StartIsValid, Client!MetadataAllowed, EventInv
<1> QED
  BY <1>2, <1>3, <1>7, <1>8, <1>9

(* The types of the parts; the command gets the wrapper's own environment, *)
(* which no file overrides (loadClientEnv); and nobody reading the channel *)
(* is shown what the local terminal was not (run's io.MultiWriter).        *)
THEOREM PartsAreSafe == Spec => []Safety
<1>1. ClientInv /\ CommandInv => Safety
  BY ClientMeans, CommandMeans DEF Safety
<1> QED
  BY <1>1, ClientInvariant, CommandInvariant, PTL

(* An option counts before the environment, that before the file, and that *)
(* before the default (parseOptions after loadClientEnv).                  *)
THEOREM OptionsTakePrecedence == Spec => []Precedence
BY ClientInvariant, ClientMeans, PTL

(* The command is run as it was given, and nothing behind a "--" is read   *)
(* for an option (resolveClientEnvPath, parseOptions).                     *)
THEOREM TheCommandIsUntouched == Spec => []CommandUntouched
BY ClientInvariant, ClientMeans, PTL

(* The daemon accepts every start event, and it tells of the environment   *)
(* what was allowed (collectEnvironment, validateStart).                   *)
THEOREM TheStartIsValid == Spec => []StartIsValid
BY ClientInvariant, ClientMeans, PTL

=============================================================================
