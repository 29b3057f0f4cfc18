# TLA+ models of wrapping-bot

`wrapping-bot` runs a command, copies its output to the terminal and streams it
over one HTTP request to `wrapping-botd`, which posts it to a Discord channel
and keeps the bot online over a Gateway WebSocket. The program promises that
the wrapped experiment is never held up by the network, that what is posted is
in order and truthfully labelled, and that what is left out is counted and
reported. The modules here model the parts that make those promises and the
parts a run has to pass before and around them; TLC checks them on small
instances and TLAPS proves the most important properties for every value of
the constants.

## 1. Inventory

| Component | State | Operations | Talks to |
|---|---|---|---|
| Client session, `clientstream/session.go` | bounded `events` channel, `closed`, `dropped`, the pipe, `done` | `SendStart`, `Write`, `Close`, goroutines `upload` and `client.Do` | `run` of `cmd/wrapping-bot` calls it; the relay reads its request body |
| Wrapped command, `run` in `cmd/wrapping-bot/main.go` | the child process, two pipes, two copying goroutines, the exit code | start, mirror, wait, exit event, `Close` | the session and the local terminal |
| Command line and environment, `cmd/wrapping-bot/main.go` | the options, the environment | `resolveClientEnvPath`, `loadClientEnv`, `parseOptions`, `collectEnvironment` | the session's start event |
| Request handler, `daemon/server.go` | the semaphore; per request the start event, the exit event, `streamErr`, the batcher | `handleStream`, `sendLong` | batcher, sender, HTTP client |
| Daemon process, `cmd/wrapping-botd` | server, Gateway, signal channel | `serve`: listen, signal, `Shutdown` for ten seconds | handler, Gateway |
| Configuration, `daemon/config.go` | none | `LoadConfigFromEnv`, `channelAllowed` | process, handler |
| Batcher, `daemon/batcher.go` | bounded `events` channel, `dropped`, `firstErr`, the goroutine's buffer and label | `Add`, `Close`, `run` | called by the handler; calls the sender |
| Text functions, `textutil/text.go` | none | `StripANSI`, `EscapeCodeFence`, `SplitUTF8` | batcher, `sendLong` |
| Discord sender, `discord/sender.go` | the mutex, `nextSend` | `Send` with retries, back-off and rate windows | all handlers and batchers share one |
| Gateway client, `discord/gateway.go` | session ID, resume URL, sequence, `connected`; per connection ACK flag and heartbeat error | `Run`, `connectAndServe`, `heartbeatLoop` | Discord over `wsclient` |
| WebSocket client, `wsclient/wsclient.go` | a connection, `writeMu`, two deadlines of the socket, the message being read | `DialContext`, `ReadJSON`, `WriteJSON`, `Close` | the Gateway's reader, heartbeat and closers |
| Protocol, `protocol/event.go` | none | event and response types | client and daemon |
| Build and deployment | none | Docker files, install scripts | nothing at run time |

What is hard to test here, and what correctness means for each part (the full
list with its lines is `hazards` in `PROJECT.json`):

* **Session.** Two copying goroutines, `Close`, `upload`, the HTTP goroutine
  and a relay that may refuse, break or hang at any moment. The relay must see
  start first, exit last and everything accepted in between, in order; every
  byte is accepted or counted; success means that the relay has all of it; and
  the wrapper returns whatever the relay does.
* **Batcher.** The handler's non-blocking `Add` races the goroutine's flushes.
  Nothing accepted is lost or reordered, no text appears under another
  stream's label, a failing post does not hide later ones, and `Close` returns
  with everything tried and the overflow announced.
* **Handler.** Nine ways out, one semaphore, two goroutines that post. The
  channel shows start, output, notice, ending, in that order; 200 means
  complete; slots are neither leaked nor released twice.
* **Both ends together.** Either end may outlive the other. A success at the
  client means a complete channel; the channel says that the command ended
  only if it has.
* **Sender.** One mutex and one `nextSend` for all runs, three kinds of failure
  retried on different paths. Requests are serialised, bounded in number, and
  wait as told; results are honest about what was created.
* **Gateway.** Reader, heartbeat loop and closer share a connection, and the
  session outlives it. A resume uses the right session and sequence, a silent
  peer is noticed, cancellation ends everything.
* **WebSocket.** A frame is two calls of `Write`, several goroutines write,
  control frames arrive between the fragments of a message, the write deadline
  set for one frame stays on the socket for the next, and `Close` must not
  wait for a mutex whose holder is stuck in a write.
* **Text.** The output is cut four times, by chunks, by JSON, by flushes and by
  message limits, each at another place, and in between events are lost and
  escape sequences removed. What is shown is what the batcher's buffer was given,
  characters stay whole, and where four backticks do not come together in the
  buffer, nothing ends the code block it stands in.
* **Start of a run.** Two parsers read the same arguments, one before and one
  after the file is loaded. They must agree on what is an option and what
  belongs to the command, and options win over variables, those over the file.
* **Wrapped command.** A child may hold the pipes after the command has ended,
  and the terminal may fail. The exit event comes after all output, and the
  exit code is the command's (but see disagreement 9).

## 2. Modules

| Module | What it is | Checked by | Proofs |
|---|---|---|---|
| `Batcher` | the batcher | `MCBatcher` | `BatcherProofs` |
| `RunLog`, `BatcherLog` | what a batcher promises, and the mapping to it | `MCBatcherLog` | `BatcherProofs` |
| `Sender` | the Discord sender | `MCSender` | `DiscordProofs` |
| `Session` | the client's session | `MCSession` | `SessionProofs` |
| `Server` | the handlers and the process | `MCServer` | `ServerProofs` |
| `Relay` | `Session` and `Server` over one connection | itself | `RelayProofs` |
| `Gateway` | the Gateway client | itself | `DiscordProofs` |
| `WebSocket` | one connection | `MCWebSocket` | `WebSocketProofs` |
| `TextPath` | the bytes of the output | `MCTextPath` | `TextPathProofs` |
| `ClientStart`, `Command`, `DaemonConfig` | options and file; the command; configuration | through `Startup` | `StartupProofs` |
| `Startup` | those three together | `MCStartup` | `StartupProofs` |

### `Batcher`
Text is a sequence of units, each a character with the stream it came from, so
a post can be compared with its label. Actions, in the order of the code:
`Add` is `Enqueue` or `Overflow`; `Close` closes the channel and `CloseReturn`
is the return after `<-b.done`. The goroutine is a control variable `pc` with
places `select`, `append`, `send`, `notice`, `done`, and `after` for where
`flush` returns to. `TakeRecord` reads a record and flushes if its stream
differs, `AppendRecord` appends it and flushes a full buffer, `Tick` is the
ticker, `Drained` and `WriteNotice` are the closed branch. `SendPart` is one
iteration of `sendOutput`: any prefix of at most `MaxLogBytes` units is posted
and may fail. Every point at which the goroutine may be overtaken by `Add` or
`Close` is between two actions.
`arrived`, `taken`, `read`, `posts`, `posted` and `noticed` are history.

### `RunLog` and `BatcherLog`
`RunLog` is a log that accepts or omits what it is given (`Accept`, `Omit`),
is ended (`End`), shows what it has accepted in order and piece by piece
(`Show`), tells once how much was omitted, after everything else (`Tell`), and
then finishes (`Finish`). It has no queue, buffer, label or ticker.
`BatcherLog` adds to `Batcher` a history of the accepted text, as it reads once
stripped (`heard`), and maps: shown is what was posted without the notice, told
is the notice's count, finished is the end of the goroutine. `ImplementsRunLog`
is the abstract specification under that mapping.

### `Sender`
Instants are kept as time still to pass, in units of the first back-off;
`Tick` takes one unit off each. A call goes `idle`, `lock`, `gate` (waiting for
`nextSend`), `http`, then by the answer to `backoff`, back to `gate`, or
`returned`. `BadRequest` is a request that cannot be built; otherwise there is
one action per kind of answer: no response, unreadable
body, 2xx, 429, other 4xx, 5xx. Every response may bring a Reset-After, a 429
(`Limited`) also a Retry-After, or neither, and the two need not agree.
`retryAfter` and `resetAfter` are what is left of the waits the latest response
asked for and `limited` says whether it was a 429; with them `tries`, `created`
and `doubt` are history.

### `Session`
`main` is where `run` is; `events`, `closed` and `dropped` are the fields of
`Session`; `up` and `inHand` are the upload goroutine; `wire`, `conn` and
`response` the connection. `CloseNotice`, `CloseExit`, `CloseExitTimeout`,
`AwaitResult` and `AwaitTimeout` are the steps of `Close` between which the
other goroutines run. `Write` is one chunk, under the mutex. The relay is what
`handleStream` is from outside: it reads events, refuses at any moment, or
answers 200 after the end of the body and an exit event. The process exits
when `Close` has returned, so nothing happens after that.

### `Server`
One handler per request with its place `pc`, and one batcher each. The batcher
is what `RunLog` says of it (in order, complete at `Close`), with
one post for all parts of a flush. `PostStart` and `PostFinal` are the parts of
`sendLong`, `Verdict` the three endings, `FailedBy` and `Status` the response.
`Signal` and `Stop` are `serve`: the process may end in any state. A refusal by
`validateStart` or the allowlist is a choice of the client (`BadStart`).

### `Relay`
Instances of `Session` and of `Server` with one run. Each leaves the other to
choice; here `Decode` reads an event off the wire and hands it to the handler,
`EndOfStream` needs the end of the body, `Interrupted` a connection that is
gone (or a body too long), and `Answered` makes the handler's status the
session's response. `ClientStep` and `DaemonStep` are what each end does of its
own accord. The daemon may come to a run only after the wrapper has returned,
and the wrapper may return while the daemon still works off what it was sent.
`ImplementsSession` says that with this daemon at its other end the client
does nothing `Session` does not allow.

### `Gateway`
`run` is where `Run` and the reader are, `heartbeat` where the loop is, and
`Closer` stands for the two goroutines that close the connection. Sequence
numbers are reduced to whose they are: `current` (of the held session), `stale`
(of another) or `none`. The reader is at `check` at the top of its loop and at
`read` inside `ReadJSON`, where only a message or the end of the connection
wakes it. A heartbeat is two steps for both who send one: the ACK flag is
cleared (`HeartbeatRequested` by the reader, `FirstHeartbeat` and
`HeartbeatTick` by the loop), and then, as late as `writeMu` and the socket let
it, the heartbeat is written or fails (`AnswerHeartbeat`, `HeartbeatSent`); in
between the reader or the loop is at `answer` or `sending`, and the other goes
on. An acknowledgement (`Acknowledged`) does not say which heartbeat it is for.
Its definitions do not share a name with those of `Sender`
(`GatewayInit`, `gatewayVars`, `GatewaySafety`, ...), so that `DiscordProofs` can
extend both.

### `WebSocket`
Every goroutine is at a place: `idle`, `read`, waiting for `writeMu` (`lock`),
before the header, before the payload, or on its way to shut the socket down.
The two calls of `Write` that make a frame are two actions, so another
goroutine, a deadline or the end can come between them; `begun` is the frame
whose header went out last. `deadline` is the socket's: the caller of
`WriteJSON` and `Close` set it, nobody clears it, and `Tick` lets it pass.
`tls` makes every write after a failed one fail, as `crypto/tls` does. A
message is the list of the frames it was put together from; a payload is its
size.

### `TextPath`
A byte is one of fourteen classes, enough for characters of one to three bytes,
backticks, the zero-width space the escape inserts, the replacement character
JSON puts for an invalid byte, and the bytes escape sequences are made of
(escape, brackets, backslash, bell, parameters). `Read` is what the copying
goroutine gets from the pipe, cut anywhere. `Cut` takes a chunk off it, and its
event is lost to a full queue (`Drop`) or becomes a record (`Write`): `ToJSON`
is the encoder, `StripANSI` the removal of escape sequences from that one
record, if the batcher is told to (`stripANSI`). The buffer is flushed before
the next record when it is full (the guard of `Write`), and may be at any other
time, as the ticker does: `SendOutput` escapes what has been gathered.
`PostPart` and `PostLast` are the loop of `SplitUTF8`. Encoder, removal and
escape all go over a text from left to right and put a piece for each stretch of
it: `Rewrite`. `ControlEnds` and `CommandEnds` are the two alternatives of
`ansiPattern`; of the places where a sequence may end the greedy pattern takes
the `Largest`.
`Visible` is the text as a reader sees it, without its zero-width spaces.
`written`, `lost`, `received` (what went into the buffer), `escaped` and
`posted` are history.

### `ClientStart`, `Command`, `DaemonConfig`, `Startup`
In `ClientStart` an argument is a record (dashes, name, value), so that the two
parsers can read the same list differently: `Resolve` is the first,
`ParseFlag` and `ParseCommand` the second, and between them `Open`, `LoadLine`
and `Loaded` put the file's lines into the environment and `Defaults` reads the
variables. `Check` is the validation and the start event. `Command` has the two
pipes, the two copiers (terminal first, then session), the command, the child
it may leave behind, local streams that may fail, `Wait` and `Close`.
`DaemonConfig` has all variables `LoadConfigFromEnv` reads, by how they are
read: `Texts`, the status, `Switches` (`Booleans` is what `ParseBool` knows),
`Numerals` and the allowlist, with `Field` for where each goes; then it is one
decision, `Serve` with that configuration or `Fail`.
`Startup` runs the command once the client has a start event.

## 3. Runs

| Run | States | Question and bounds |
|---|---|---|
| `batcher` | 154 948 | Is the batcher the log it promises to be, and does everything it accepts come out? Three `Add`s on a queue of one, flush size two, records of one to four characters from two streams, one with a label outside the protocol, one with an escape sequence. Overflow, stream switch, full buffer, split post and failing post all occur together; a fourth record adds no new kind of flush. |
| `batcher_escape` | violation | Two records with the halves of one escape sequence. |
| `sender` | 14 093 | Two calls, three attempts each, waits shorter and longer than the back-offs, a 429 with every pair of Retry-After and Reset-After. Two calls are enough for a limit left behind by another call; three attempts have a first, a middle and a last. |
| `session` | 166 159 | Queue of two, one event in the network, four chunks of one or two bytes: the queue fills, drains and fills again before and during `Close`. |
| `session_loss` | violation | Same instance. |
| `server` | 1 098 804 | Three runs, two slots, queue of one, three events, messages of up to two parts: every way out of the handler with a competitor waiting. Only `r1` goes past its start message, the other two compete for the slots. |
| `gateway` | 30 789 | Any number of connections; Discord may have two requested heartbeats outstanding (`MaxDue`). |
| `gateway_online` | violation | Same instance, with the Gateway URL assumed to work when tried often enough. |
| `relay` | 519 477 | Both ends of one run: client queue of two, one event in the network, three chunks, daemon queue of one, messages of one part. Either queue can overflow while the other does not. |
| `websocket` | 266 890 | One connection in two scenarios, one with a talkative server (four frames) and one with two `WriteJSON` calls, each with the heartbeat, a closer and deadlines that pass. |
| `text` | 1 367 944 | All texts of up to three characters of one to three bytes, all of four with newlines, backticks and three bytes, longer ones with backticks, with a zero-width space of the command's own, and with backticks around escape sequences that are whole, unfinished or in each other; stripping on and off; any event lost; chunks of four bytes, message limits of two and four. A limit of two is below the size of a character. |
| `startup` | 534 636 | Every pair of daemon settings, blank, valid, mistyped and around their bounds; every list of two options against environments and files, also one that looks like an option and is the value of another; the command with its child, its copiers and failing streams. |

Every run says `CHECK_DEADLOCK FALSE` because the modelled parts really stop: a
batcher, a call, a session and a request end, `Gateway` stops when it is
cancelled, a connection when it is closed. Termination is checked by the
liveness properties instead.

`Safety` in each module (`GatewaySafety` in `Gateway`) is its type invariant
together with the invariants named below it in that module. What the other
properties say:

* `batcher`: `InOrder` (what is posted is what was read, in order),
  `ImplementsRunLog` (section 2), `CloseReturns`, `NothingStuck` (a buffered
  character is posted even if no other record comes).
* `sender`: `HonestResult` (nil only if the message was created; twice, or in
  spite of an error, only after a request without a clear answer), `WaitsAsTold`
  (no request before the Retry-After of the latest response, if that was a 429,
  or its Reset-After, if it was not, is over; disagreement 4 is the rest),
  `SendReturns`.
* `session`: `BytesAccounted` (accepted or counted), `SuccessIsComplete` (the
  relay has read all that was accepted), `WrapperReturns` (whatever the relay
  and the network do).
* `server`: `SuccessIsComplete` (200 means that everything was posted and the
  overflow announced), `EndingTried` (a run that announced itself does not
  end without an attempt to say so), `SlotsExact`.
* `gateway`: `GatewaySafety`, of which `TwoUnanswered` is the part about
  silence (after the last acknowledgement that was read the loop writes at most
  two heartbeats: a flag that was set between clearing and writing, by the
  acknowledgement of a requested heartbeat, allows it the second), `ResumeFits` (a resume is sent with a number of the session it
  names), `NeverHangs` (a silent peer is left), `StopsWhenCancelled`.
* `relay`: `SuccessIsComplete` (no error at the wrapper means that the channel
  shows or counts every chunk), `ChannelIsTrue` (what the channel shows is what
  the command wrote, and the exit is shown only of a run that was sent whole),
  `ImplementsSession`, `RunEnds`.
* `websocket`: `MessagesWhole` (what `ReadJSON` returns is one message as it
  was sent, whatever came between its fragments), `PingsAnswered`,
  `ClosedEndsAll` (after `Close` nobody stays in a read, a write or a lock).
* `text`: `ShownIsReceived` (what a reader sees of the text that is split, and of
  what is still to be, is what he would see of what went into the
  buffer; a zero-width space is not seen, whether the escape or the command wrote
  it), `FenceKept` (no part of a post has three backticks in a row unless the
  text that went into the buffer has four; and it has four only if the command
  wrote four, or something between them was stripped or lost).
* `startup`: `Precedence`, `CommandUntouched` (the command is run as given, and
  nothing behind `--` is read as an option by either parser), `StartIsValid`
  (the daemon's limits hold for what the client sends), `ExitIsHonest` (the exit
  event comes after all output and carries the wrapper's exit code, which is the
  command's, or 127 if it was not started; nothing is said of a command that
  ended with 0 while a copy of its output failed), `Returns`, `UsableConfig` (a
  daemon that serves has values its parts can work with, and
  `NothingIgnored`: every variable that is not blank counts as it is written),
  `AllowlistBinds`.

Each property is violated by at least one mutant, an operator that changes one
action the way a plausible slip would. The mutants stand directly before the
definition they change, marked `Mutant`, and are not used by any specification.

### Disagreements between code and documents

With a run that shows them:

1. `session_loss`: the client's overflow notice is only queued if there is room
   at that instant (session.go:105), the exit event waits up to five seconds. A
   run can succeed with bytes lost and the loss reported nowhere (README.md:263
   of the repository says it is reported).
2. `batcher_escape`: escape sequences are removed per record (batcher.go:107),
   and the records are joined afterwards, so a sequence split over two records
   is posted (README.md:40).
3. `gateway_online`: a resume URL that stopped answering is retried for ever
   (gateway.go:372; README.md:42 says that the bot stays online).

Met while modelling, and modelled as the code has them:

4. A 429 that carries a Reset-After has it overwritten by its Retry-After, and
   if that is not usable by the back-off, 250 ms at first, although the
   Reset-After may be longer (sender.go:114, 126-129; README.md:261 says that
   rate limits are honored). A window another answer had announced is
   overwritten in the same way. `WaitsAsTold` therefore asks of a 429 its
   Retry-After only.
5. The write deadline of the last heartbeat or identify stays on the socket, so
   a pong written more than ten seconds later fails, and with it the connection
   (gateway.go:186; README.md:49). `PingsAnswered` therefore speaks of a reader
   that goes on.
6. A chunk of 8 KiB that ends inside a character makes JSON replace its
   bytes (session.go:227; README.md:33). `ShownIsReceived` therefore compares
   with what the daemon received, not with what the command wrote.
7. `-client-env` with one dash is an option to `flag` but not to
   `resolveClientEnvPath`, so its file is not loaded (main.go:168;
   README.md:136).
8. Without a `--`, `resolveClientEnvPath` reads on into the command and takes a
   `--client-env` of the command's for its own (main.go:162). The usage text
   writes the `--` before every command with arguments, so
   `CommandUntouched` speaks of the file only where there is one. Also, a
   `--client-env` that is the value of another option for `flag` is an option
   for `resolveClientEnvPath`, which then takes what follows for a path, even a
   `--` (main.go:168-178): `--endpoint --client-env -- cmd` looks for a file and
   runs `cmd`. What is behind the `--` is left alone all the same, and that is
   what `CommandUntouched` asks.
9. The exit code of a command that succeeded is 1 when the local terminal
   failed (main.go:138; README.md:169 says that the wrapper exits with the
   process's exit code). The model does that too; `ExitCodeKept` leaves this one
   case open and asks for the command's code in every other.
10. An empty activity setting is replaced by the default and disables nothing
    (config.go:38; README.md:232). `NothingIgnored` says nothing of blank
    variables, which the code takes for absent ones throughout.
11. Escape sequences are removed before code fences are looked for, and four
    backticks become an escaped fence that still has three in a row
    (text.go:16). So a backtick, `ESC[0m` and three more close the block they
    are in although the command never wrote four backticks in a row, and so may
    two stretches with a lost event between them. `FenceKept` therefore asks of the buffer and
    not of the command's output, and says when the two agree.

## 4. Fairness

* `Batcher`: weak fairness of the goroutine's steps, of the ticker and of
  posting (`Send` returns, which `Sender` checks as `SendReturns`). Nothing is
  assumed of the handler.
* `Sender`: weak fairness of time, of the answer (the HTTP client has a 30 s
  timeout, sender.go:55-57) and of the caller's own steps; strong fairness of
  `Lock`, because Go's mutex goes into starvation mode and then hands itself to
  the longest waiter.
* `Session`: only the wrapper's own steps and timers. Neither the upload nor
  the relay is fair: `WrapperReturns` holds when they hang.
* `Server`: its run checks safety only.
* `Relay`: the daemon's goroutines, posts that return, and that the handler
  notices a connection that is gone. Clients are not fair to the daemon, and
  the daemon is not to clients.
* `Gateway`: goroutines, timers and the deadlines on dialling, hello and
  writing (`QuietSpec`). The heartbeat loop's fairness is a premise of
  `NeverHangs` only, so that `StopsWhenCancelled` does not wait for the
  next heartbeat to fail. Discord and the network are not fair.
  `ReachableSpec`, for the violation only, adds that the Gateway URL works when
  tried often enough.
* `WebSocket`: time, the dialler and its handshake timeout, the reader (which
  finds what is there, or the end of the connection), writes
  that can only fail, the shutting of the socket, and the users' `Close`; strong fairness
  of `Lock` as in `Sender`. Nothing of the server.
* `Startup`: the wrapper's own steps and the copiers. The command and its child
  may take for ever; `Returns` is about runs in which they end.

## 5. Proofs

The theorems hold for every value of the constants that satisfies the named
assumptions: positive sizes and limits, records that are not empty, finitely
many requests. They come from `config.go` and from early returns in the code.
Those of `Startup` say what kind of thing its inputs are: arguments, lines of
files and variables are strings, their names have a finite total order (the one
`sort.Strings` gives), a numeral is an integer and no blank, an exit status is
a natural number (255 stands for a command killed by a signal: Go's -1, which
`os.Exit` turns into 255). Its `StringAssumption` only names literals of the module as
strings, as they are in TLA+ without the provers knowing. Each theorem
strengthens its property to an inductive invariant, has one step per action,
and was checked by TLC as an invariant first.

* **`BatcherProofs`.** `Typing`: types alone are not inductive, because
  `AppendRecord` needs a record in hand; `Shape` says which variables are empty
  at which place of the goroutine, and the two are proved together.
  `NothingLostOrReordered` adds `ChannelOrder` (channel and hand against what
  was accepted) and `TextOrder` (posted, sending and buffered text is what was
  read). `LabelsAreTrue` adds `LabelFits`, the same as its conclusion for text
  not yet posted. Its crucial case is `AppendRecord`: the buffer is empty or of
  the record's stream. `FirstErrorIsReported` is inductive relative to the
  types. `CloseIsComplete` uses `EndsInOrder`, which follows the goroutine from
  the closed and drained channel over the last flush and the notice to `done`.
  `BatcherIsSafe` puts them together.
  `BatcherImplementsLog`: every step of the batcher is
  a step of `RunLog` or a stutter. It needs `ReadIsAccepted`: what has been
  read, and what the channel and the hand still hold, is what was accepted; what
  is posted is a prefix of it; and the notice is posted last.
* **`DiscordProofs`, of `Sender`.** `Serialized`, `AttemptsAreBounded`, `ResultsAreHonest`
  rest on one invariant: types, `OneAtATime`, `TriesBounded`, `Counting` (a call
  without the mutex has made no request; a back-off has an attempt left) and
  `CreatedOnce` (without doubt, created exactly if nil). `RequestsWait` uses
  `GateCoversWaits`: `nextSend` is never shorter than the Retry-After of the
  latest response if that was a 429, or its Reset-After if it was not, although
  it may be shorter than what a 429 said besides (disagreement 4).
  `SenderIsSafe` puts them together.
* **`DiscordProofs`, of `Gateway`.** `ConnectedMeansConnected` and
  `DeadPeersAreNoticed` use `InConnection` (a connection has its socket and its
  loop). `Unanswered` counts what silence may still see: the heartbeats that are
  missing, one that is about to be written and one that a set flag will allow
  at the next tick are together never more than two (`ToCome`). An
  acknowledgement sets the flag but also ends the silence; clearing the flag and
  writing only move the one heartbeat from a summand to the next.
  `ResumesTheRightSession` uses `SequenceFits`: a number
  of another session can only be stored by a READY that is not understood, on a
  connection with nothing to resume, and there it cannot be used because there
  is no resume URL or no session. `GatewayIsSafe` puts them together.
* **`SessionProofs`.** `SessionIsSafe` follows the stream of events with `Flow`
  (received, on the wire, in hand and queued are together what was accepted,
  unless the encoder has failed) and `Form` (start first, exit last and
  only from `Close`). `SuccessMeansComplete` adds `BodyComplete`: an accepted
  response was given to a body that was closed, and that was only closed when
  nothing was left. `NoByteUnaccounted` rests on `Accounted`, `NoticeExact` and
  `Numbering`: each chunk goes whole into an event or into the count, and the
  notice is written by `Close`, after which nothing more is counted. The bytes
  are a sum over a sequence; the lemmas `SumsExist` to `BytesOfMore` say
  what one event more adds to it.
* **`ServerProofs`.** `SlotsAreExact`: one action moves one handler, so the set
  of handlers inside gains or loses one element exactly when the counter
  does. `RunsAreInOrder`, `EndingsAreTried` and `SuccessesAreComplete` share an
  invariant of a single run, `RunInv`, with a part for each thing a run keeps:
  where its messages are relative to its place (`Stage`, `Progress`,
  `InSequence`), which events they are made of (`Numbered`, `TextInOrder`),
  what the count of the dropped ones is (`Counted`, by the cardinality of the
  kept ones), how it has ended (`Ended`, `NoFailure`, `Complete`). All other
  runs keep theirs.
* **`RelayProofs`.** `DaemonIsTheRelay`: every step of the composition is a
  step of `Session` or leaves its variables alone. Of the steps only `Answered`
  is not one by itself. `AnswerFits` says why a 200 is what `Session` calls an
  acceptance: an exit event the handler knows of was received, a handler
  without an error has read the body to its end, and 200 needs both;
  `BodyOver`, that nothing is encoded after the body's end, keeps that true. So
  what is proved of `Session` holds with this daemon at the other end; what is
  proved of `Server` holds too, because each step of the composition is one of
  its steps. `RelayProofs` takes both from `SessionProofs` and `ServerProofs`
  through INSTANCE and adds `Link`, what one end knows of the other: the daemon
  has counted the events it decoded (`Numbers`), a number it keeps is that of a
  text event the client sent (`TextKept`), and a handler that posts an exit has
  read the body to its end, and a success at the client is a 200 of the
  daemon's (`EndKnown`). `TheChannelIsTrue` and `SuccessMeansComplete` follow:
  the order of the numbers in the channel is `Server`'s, the order of the
  events behind them `Session`'s.
* **`WebSocketProofs`.** `FramesNeverMix`: the goroutine between a header and
  its payload holds the mutex (`Mutex`), and the header that went out last is
  its own (`FrameBegun`). `EveryPingIsAnswered`: a ping that was read is
  answered, or its pong is what the reader waits to write (`PongPending`).
  `MessagesAreWhole`: the frames of the messages delivered, and of the one
  being put together, are linked (`Linked`: each the next data frame
  behind the one before), come in order, and nothing but control frames lies
  between the last and now (`Behind`, `Growing`); what was delivered ends with
  the message's last frame and is within the limit (`Whole`).
* **`StartupProofs`.** One part after the other, as the code runs.
  `ServesAsConfigured` and `TheAllowlistBinds` are facts about the one step
  `Serve`, variable by variable. `ExitTellsTheTruth`: the pieces of a stream are numbered, so
  terminal and session each hold an initial stretch and pipe and hand what
  follows it (`FlowOf`); `PhaseInv` says that when the wrapper is past `Wait`
  every copier has ended, and that the code is then the one `Wait` and the
  copies give, or 127 if there was no command. For the client, `ClientInv` has one conjunct for each thing it
  puts together. `FileInv`: the environment is the wrapper's own with the
  file's lines read so far laid under it, first line first (`Overlay`).
  `OptsInv`: each option is settled by the last one given, else by the
  environment, else by the default (`Settled`). `ArgsInv`: the arguments read
  so far are options and their values, by a `Way`, the set of places where one
  begins, and so every way to the command leads through the place where the
  parser stands (`WayTo`). `EventInv`: of the names allowed, those with fewer
  than `MaxMetadata` below them are at most that many (`LowestFew`). The
  results are `PartsAreSafe`, `OptionsTakePrecedence`, `TheCommandIsUntouched`
  and `TheStartIsValid`.
* **`TextPathProofs`.** First what the functions on texts do, for every text.
  `Rewritten` says that a `Rewrite` is what its recursion says; `Joined` that a
  text of two, none of whose stretches crosses the joint, is rewritten one
  after the other. A text cut where a character begins is valid on both sides
  (`ValidCut`), and a valid one ends with a whole character, so nothing crosses
  into what follows (`ValidJoined`). From these: the encoder's result is
  valid (`ToJSONValid`) and has no longer row of backticks than the text before
  (`JSONRow`); the escape keeps texts valid (`EscapeValid`), leaves what is seen
  (`EscapeReads`: what it puts in is a space that is not seen) and no three
  backticks in a row of a text that had not four (`EscapeRow`); the removal of
  escape sequences, which begin and end with a byte that is a character of its
  own (`SequenceEnds`), leaves a valid text valid (`StripValid`), and says
  nothing of rows, which it may make longer; and `CutIs`,
  about one turn of `SplitUTF8`: its cut is in the text, within the limit unless
  it is the end of the first character, and where a character begins.
  The invariant then adds to the properties `Characters` (all the daemon holds
  is valid, without which no cut would be known to be between characters),
  `Gathered` (the buffer is the end of what was received, so it has no row that
  is not there), `Rows` (without four backticks in a row in what was received
  there are no three in any part, nor in what is being split) and
  `Untouched` (with nothing stripped or lost, rows of four are not in what was
  received followed by what is still to be, unless the command wrote them).
  The results are `SplitIsSafe`, `WhatIsShownWasReceived` and `TheFenceHolds`.

Where a proof needs a least or greatest number, or goes from one number to the
next (the last option given, the sums, the `LowestFew`), it takes the least
element of a set by `WFMin` of the library, since induction itself has an operator
as a parameter. The texts of `TextPathProofs` are gone through in this way too,
from the last place to the first: the greatest place at which a claim fails
(`HasGreatest`) has all later ones in order (`Downward`), and a rewriting depends
on the later places only.

Only model-checked are the liveness properties (`CloseReturns`, `NothingStuck`,
`SendReturns`, `WrapperReturns`, `NeverHangs`, `StopsWhenCancelled`, `RunEnds`,
`ClosedEndsAll`, `Returns`): they need fairness and with it `ENABLED`, which the
provers cannot reason about.

Every other invariant, step property and refinement of a passing run is a
theorem.

## 6. Not modelled

* `parseEnvValue`'s quoting, `shellQuote`, the run's name
  and its finish timeout (read like the endpoint and the queue size), SIGPIPE,
  `--version` and `--help`. The text of each is handled character by character
  and has no effect on the control of the program.
* The wording of messages, with the last newline of a part, which `sendOutput`
  trims because the code block sets its own (batcher.go:122); the health check,
  logging.
* Masks and lengths of frames and the headers of the upgrade, whose
  refusal is one outcome; versions and run IDs, which are only something the
  daemon may refuse.
* Docker and installation, which have no behaviour at run time.
* Two hazards have no property. The server has no read timeout (server.go:51):
  a client that keeps its connection open holds its slot, and the code does not
  bound that; `RunEnds` speaks of clients that have returned. The sender keeps
  the latest wait only (sender.go:129), which is disagreement 4.

## 7. Order

Written with the most important behaviour first: `Batcher` with its proofs,
`Sender` with its proofs, `Session`, `Server`, `Gateway`. Then the
abstract log and its refinement (`RunLog`, `BatcherLog`), both ends together
(`Relay`), the connection below the Gateway (`WebSocket`), the text
(`TextPath`), and what a run has to pass before (`ClientStart`, `Command`,
`DaemonConfig`, `Startup`); then the proofs of `Session`, `WebSocket`, `Server`
and `Relay`, of `Startup` with its three parts, and of `TextPath`. What could
come next: the composition of `Gateway` with `WebSocket`.
