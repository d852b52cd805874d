# KanFlux: a TLA+ verification of its message paths

KanFlux is a gateway for chat agents, written in Go. Channels (WeCom, the web interface, the
terminal) turn what users write into inbound messages; a message bus carries them to the agent
manager; agents run a model and tools, and their answers go back over the bus to the channels.
Sessions are kept in files, a scheduler sends prompts by itself, and a memory subsystem digests
the sessions.

The program's difficulty lies less in any one function than in its goroutines: almost every
hand-over is a buffered Go channel, a callback or a lock, with timeouts, a shutdown and files in
between. The modules here model those parts, TLC checks them on small instances, and TLAPS
proves nearly all of the safety properties for instances of any size.

1. Inventory of the system
2. The modules and how they correspond to the code
3. The runs: bounds, properties, what they show
4. Fairness
5. Proofs
6. What the code does that its comments do not say
7. What is not modelled
8. Plan

Paths are relative to `src/`. `PROJECT.json` has, for each definition, the lines it stands for,
and for each hazard the properties that watch it.

## 1. Inventory

| Component | State | Operations | Hard behaviour | Correct when |
|---|---|---|---|---|
| **Message bus, queues** `bus/queue.go` | two bounded queues, subscriber map, response handler, `closed`, `mu`, `outSubsMu` | publish, consume, subscribe, `fanoutMessages`, `Close` | publishers hold the read lock while they block, `Close` needs the write lock and closes their channels | no panic, no accepted inbound message lost or reordered, a claimed response is not broadcast, `Close` ends |
| **Message bus, events** `bus/queue.go`, `bus/slog_handler.go` | two topics, each with a queue, a fan-out and subscribers | publish, log handlers, `Close` | the bus logs while it holds its lock and the log handler publishes to the bus | publishing never waits; order; no send after `Close` |
| **Request/response** `bus/request_response.go`, `agent/tools/send_file_tool.go` | map id → channel, one timer per call | create, wait, handle, sweep | late answers, two parties that close channels | own answer or none; every call returns |
| **Agent manager and loop** `agent/manager.go`, `agentLoop.go`, `agent.go` | current message, event channel, callbacks, checkpoints, accumulators | run, resume, interrupt, stream, `/clear`, stop | events lag behind the run; a full channel drops events; a history is cut | replies complete, in order, to the right message; the session grows by exactly the new messages; the model sees whole tool calls |
| **Session store** `session/manager.go`, `session.go`, `agent/instruction_logger.go` | files in dated folders, two caches, Session objects | `GetOrCreate`, `Save`, `List`, `Delete`, `GetHistorySafe` | several objects for one file, midnight, crash in a save | the latest save is what is read next, files are whole, history is not lost |
| **Task scheduler** `scheduler/*.go` | tasks, states, running marks, state file | tick, execute, trigger, add, remove, update, stop | executions overlap edits and each other | at most once a minute, due tasks run, the file is up to date |
| **WeCom replies and connection** `channel/wxcom/ws.go` | queues per request, processing marks, pending acknowledgements, workers | `SendReply`, worker, acknowledgement, timeout, clear, reconnect | the mark and the queue are under two locks; clears race workers | one at a time, in order, acknowledgements not mixed up, callers return |
| **WeCom messages, files** `channel/wxcom/wxcom.go`, `handler.go`, `crypto.go` | accounts, `running` | convert, decrypt, upload | which frame answers which callback | every answer goes to the request that asked, ended once |
| **Channel manager, thread bindings** `channel/manager.go`, `thread_binding.go` | channels, `outSub`, bindings of a thread (`channel:chat`) | start/stop all, dispatch | `StopAll` clears what dispatchers read; partial start | messages reach the bound channel once and in order |
| **Gateway** `gateway/gateway.go`, `cli/cmd/gateway.go` | the parts, a context | `Start`, `WaitForSignal`, `Stop` | which context ends when; order of shutdown | `Stop` ends |
| **Configuration** `config/config.go`, `manager.go` | config object, file, backup | load, resolve, validate, update | update against kill, failure and hand edit; merging of options; order of agents | the file is whole and what was acknowledged; each agent gets its own options |
| **Agent tools** `agent/tools`, `agent/agent.go`, `agentLoop.go` | registry, approval list, check points | register, allow, approve, call | name clashes, lists that replace each other, several calls under one check point | no listed call runs without a yes |
| **WebSocket server** `gateway/ws/server.go`, `connection.go` | connections, subscriptions, send buffers | upgrade, subscribe, broadcast, close | `Send` against `Close` of a connection | no send on a closed channel, closed connections are forgotten |
| **WebSocket client** `gateway/ws/client.go`, `detector.go` | connection, channels to the program | connect, send, read, heartbeat, close | `Close` called twice and against its three loops | no panic; ends |
| **Message handlers** `gateway/handler` | none of their own | one request, one reply | none beyond the stores they call | as those stores |
| **Memory ingestion** `memoria/memoria.go`, `scheduler.go`, `processor` | index of processed sources, in memory and on disk | initial scan, two tickers, commands | mark before store, two scanners of one source, kill at any step | nothing made is lost; memories of a file are of its content; it catches up |
| **Memory storage** `memoria/storage`, `layers.go` | Markdown files with a cache, SQLite with vectors and keyword rows | add, delete, compact, reload, search | cache against disk, lock re-entry, limits before filters | what is stored is found, and only that |
| **Memory: model calls, tools** `memoria/llm`, `*_tool.go` | none | cut texts, read replies, search | replies of any shape | pieces and pairs are cut right |
| **Prompt, commands, skills, media** `agent/context.go`, `memory.go`, ... | none | text building | - | - |
| **Providers** `providers` | none | calls | the answers are free | - |
| **Command line, terminal** `cli` | view state | commands | its log handler (see events) | - |
| **Web client** `web` | view state | browser program | - | - |

How they interact. A channel calls `PublishInbound`. The manager's single goroutine consumes the
queue, finds the agent and the session, registers a callback with the agent's loop, and
*synchronously* runs the agent; it takes no second message meanwhile. The run emits events
without blocking into the loop's event channel; the loop's goroutine calls the callbacks, which
publish outbound messages and chat events. The bus's fan-out gives responses to the
request/response manager and copies the rest to subscribers: the channel dispatcher, which calls
`Send` of a channel one message at a time, and the WebSocket server. The WeCom channel's `Send`
ends in `SendReply`. The scheduler publishes inbound messages like a channel. Sub-agents write
their instructions to the session by themselves, inside a turn. The memory reads the session
files behind the session store's back, and the files of a knowledge base, and writes Markdown
files that become part of prompts. The configuration decides, at start, which agents, tools,
channels and bindings there are; a client may replace the file while the gateway runs.

## 2. Modules

| Module | Models | Composition |
|---|---|---|
| `MessageBus` | inbound and outbound queues, subscribers, `SetResponseHandler`, `ConsumeOutboundFiltered`, `Close` | refines `LossyBroadcast` |
| `LossyBroadcast` | abstract: a log of accepted messages, each subscriber is handed a subsequence that matches its filter, nothing is accepted after the stop | - |
| `EventTopics` | chat and log events, the two log handlers, `Close` | - |
| `RequestResponse` | the request manager with the send-file tool, the bus's two queues in between, the dispatcher | composes the three |
| `AgentLoop` | agent manager, runs, event loop, callbacks, sessions as far as a turn changes them, the cut of histories | - |
| `SessionStore` | session files, caches, turn, loggers, web readers | - |
| `Scheduler` | ticker, executions, edits, state file | - |
| `WxComReplies` | `SendReply`, workers, acknowledgements, connection | - |
| `WsHub` | the WebSocket server's connections with their two loops, subscriptions, broadcasts, `Stop` | - |
| `AgentTools` | operators: registry, what an agent of each type can call, approval of calls | used by `GatewayConfig` |
| `GatewayConfig` | operators: what a configuration makes of agents, options, channels, bindings | extends `AgentTools` |
| `WxComFrames` | operators: from a WeCom frame to an inbound message, from outbound messages to frames | - |
| `Gateway` | start, serve, stop, kill; channels, receive loops, dispatchers, users, updates of the configuration | extends `GatewayConfig` and `WxComFrames`; the bus as `LossyBroadcast` has it |
| `MemoryText` | operators: sessions and files cut into items, what replies become, what is left after a re-read | - |
| `MemoryStore` | operators: Markdown files with cache, layers, database, search | extends `MemoryText` |
| `Memoria` | initial scan, scheduler loops, commands, search, kill and restart | extends `MemoryStore` |
| `MessageBusProofs`, `EventTopicsProofs`, `AgentLoopProofs`, `SessionStoreProofs`, `GatewayProofs`, `MemoriaProofs` | theorems | each extends its module |
| `SchedulerProofs`, `WxComRepliesProofs` | theorems about `Scheduler` and `WsHub`, about `WxComReplies` and `RequestResponse` | each extends both modules |
| `MC_*` | instances for TLC | extend the modules |

Conventions. One action is one stretch of code that no other goroutine can see into: a critical
section, a channel operation, a file-system call. An RWMutex is modelled as such only where a
lock is held over more than one step (`MessageBus`, `EventTopics`, the scheduler's `mu`, `hmu`
of the TUI's handler, the database's lock in `Memoria`), with Go's rule that a waiting `Lock`
stops new `RLock`s. A Go channel is a sequence with a capacity and an open flag; sending to a
closed one, or closing it twice, sets `panicked`. Sequential code without a state of its own is
an operator on values, and the run checks it against what it is meant to be (`ConfigRight`,
`PairsMeant`, `AnswerRight`) on every value of a bounded set of inputs, given as part of the
initial state (`setup`).

**MessageBus.** `pc` is where each goroutine stands (`sendIn`: inside `PublishInbound`'s select
with the read lock; `swept`: `Close` between closing the subscribers and the queues). `inQ`,
`outQ` are `inboundChan`, `outboundChan`; `subQ`, `chan` a subscriber's buffer and whether its
channel is open; `log`, `taken`, `got`, `handled` are history: what was accepted, consumed,
read, claimed. `FanReceive`, `FanHandle`, `FanCount`, `FanDeliver`, `FanExit`, `FanStopped` are
`fanoutMessages` from lock to lock.

**EventTopics.** `Offer` and `Full` are the two arms of a publisher's select; `HandleLock`,
`HandleIsClosed`, `HandleSend` are `busLogHandler.Handle`, called by the publisher itself for
the debug record about the dropped event, read lock in hand. `direct` chooses the program: TRUE
is the terminal program, whose handler sends on the topic without the lock; FALSE the gateway's,
which goes through `PublishLogEvent` and drops debug records.

**RequestResponse.** A call goes through `CreateRequest`, `PublishRequest`, `WaitForResponse`
(three arms) and its deferred cleanup (`Leave`). `HandleResponse` is two steps, because it
leaves the mutex between its lookup and its send. The bus is its outbound queue and the
dispatcher's buffer, both of which may drop.

**AgentLoop.** `mpc` follows the manager's goroutine through `handleInboundMessage`: `consume`,
`next` (inside the run), `reading` (inside a stream), `done`, `failed` or `interrupted`,
`saved`, `leaving` (about to queue the callback's removal). `eventChan`, `hand`, `todo` are the
agent's event channel, the event the loop holds and the callbacks it has still to call for it. A
message is a record: the request it comes from, its place, its role, how many tools it calls,
and which call it answers. `GetHistorySafe` gives a run the end of the session, moved back to
where no result stands without its call. `checkPoints` is the store of interrupted runs. What
model and tools answer is chosen freely.

**SessionStore.** `at[w]` is a record per goroutine: its stage, what it is doing, its Session
object. `disk[f][d]` is the file of session `f` in folder `d` (0 is the root, used by older
versions), `tmp` the temporary file, `metaCache`, `dateIndex` the manager's caches. `Save` is create,
write, rename, index; each can fail or be cut by a crash. Everything may meet everything:
midnight, crashes, `/clear`, which has a key of its own for the same file (`Stems` are the keys
that are file names), `List`, `Get` and `Delete` by the web handlers, at any point of a turn or
of a save. `last`, `stored`, `deleted`, `respelled`, `astray` and `overlapped` are history.

**Scheduler.** `tasks` maps ids to Task *objects*, because executions hold pointers that outlive
removal and re-creation; `config` belongs to the object, since `HandleTaskUpdate` edits it in
place before it takes the lock. `exec` are the goroutines of `executeTask`. Time counts minutes,
a cron expression is the set of minutes it matches. `mu` is explicit where `updateTaskState`
holds it across the change in memory and the write of the file.

**WxComReplies.** `queues`, `processing`, `pending`, `timers` are the maps of the reply manager;
`worker` and `sender` the goroutines; `box` a message's `err` channel (capacity 1) and `ackBox`
an acknowledgement's. The receive loop, the cleanup after it and the reconnection are one
process. A clear is three critical sections, done twice, as in the code. `cleared`, `missed`,
`givenUp`, `mistaken`, `disorder` are history. Assumptions read from the code: the delay before
a reconnection (a second at least) is longer than everything local; the only caller in `src/` is
the channel dispatcher, one at a time, so that a queue does not reach its capacity and `Crowd`,
the callers present when a connection is lost, is 1; that caller's context ends with the
program.

**WsHub.** `reader[c]` and `sender[c]` follow a connection's two loops, `closing[c]` its `Close`
after the flag is set (`remove`, `forget`: the two sections of `RemoveConnection`; `shut`:
`close(sendChan)`; `hang up`), run by `closer[c]`. `readers` are the dispatchers that hold
`connMu` for reading during a broadcast; `Visit` is the subscription's test and `Send`'s look at
`closed`, `SendTo` its send. `server` and `toClose` follow `Stop`. What a client's message does
is to publish (which may wait for the bus), to subscribe, or to be answered at once. `Send` into
a full buffer adds the event that its warning becomes. `late` and `panicked` are history;
`panicked` names what hit a closed channel, and what happens after that says nothing.

**AgentTools.** A registry is the function from names to where the tool comes from, and the list
for approval. `Registry` applies the registrations in the order of the constructors: memory,
`Memoria`'s tools, MCP servers, built-in tools, then the configured lists. `Prompted`, `Resume`
and their kin follow a message with several calls through `WrapInvokableToolCall`,
`handleInterrupt` and the user's replies.

**GatewayConfig.** A configuration is a record; `ResolveAgentConfig` merges the options of an
agent, of the knowledge bases it refers to and of the providers; `TopologicalSortAgents` is
Kahn's algorithm with its queue and in-degrees; `RegisterAgents` is the result or `Failed`.
`Registered` and `Bindings` are what the channel manager gets. The meaning they are compared
with (`KeyRight`, `Circular`, `Below`) stands at the end.

**WxComFrames.** `Inbound` is `handleFrame` down to `PublishInbound`; `Answer` is the
set of lists of outbound messages that a run of each kind may publish: what the event loop says
of it (`Streamed`: chunks, and the final of an announced answer, whether the run streams or not)
and the manager's own message (`OwnReply`, for runs that do not stream or do not succeed), which
do not wait for each other. `Send` and `SendStream` are the channel's. A frame is its command, request id, kind, finish mark, text and addressee.

**Gateway.** `life` is where `Start`, `WaitForSignal` or `Stop` stands; each of its steps is an
action (`unsub`, `nil`: the two statements of `StopAll` for each subscription, done under the
channel manager's lock, `Locked`). `conn`, `running`, `rx` are a WeCom channel's connection,
flag and receive loop; `agent` is `processMessages` with what its run has still to publish;
`dsp[d]` a dispatcher, which reads `field[d]` (`m.outSub`) for every message and dies if it is
nil, the process with it. `file`, `bak`, `mem`, `upd` are the configuration on disk, its backup,
the manager's copy and its update. `said`, `handed`, `accepted`, `touched` are history.

**MemoryText**, **MemoryStore**, **Memoria.** A text is a value; a question stands for its pair;
a file is the sequence of its lines' lengths. `md` has the Markdown files and the cache, each a
function from paths to items. `at[p]` is a scanner: what it still has to check (`todo`,
snapshots), what is being extracted (`busy`), what it holds (`hand`). `Walk`, `Check`, `Extract`
and `StoreBatch` or `AddMemory` are `ScanSessions`, the loop and the goroutines of
`processBatchParallel`, and the store; `index` and `saved` the index in memory and on disk.
`finder` follows the locks of a search. `Kill` leaves any part of a batch written and a file
that is being written empty. `changed` replaces times. `kept`, `gone`, `spoiled`, `latest` are
history.

## 3. Runs

Twelve runs; the two named "violation" look for one thing the code says of itself and does not
do (section 6). Deadlock is checked in `bus` and `session`; in the other runs the bounded
inputs, or a stopped program, end the behaviour.

| Run | Instance | Checks |
|---|---|---|
| `bus` | a publisher on both queues, the consumer, 2 racing `Close`, 1 `SetResponseHandler`, a subscription filtered by channel and a one-shot consumer (`ConsumeOutboundFiltered`), channels web and wx, buffers of one, 2 messages | `NoPanic`, `InboundFIFO`, `HandledNotBroadcast`, refinement `BroadcastSpec`, `Drains`, no deadlock |
| `topics_events` | 2 emitters, both handlers, queues of one, 2 events, a filtered subscriber | `NoPanic`, `EventOrder`, `PublishReturns` |
| `request_calls` | 2 calls at once and a sweeper | `MapOwnsChannel`, `OwnAnswer`, `RequestReturns` |
| `request_late_answer` (violation) | 1 call | `NoSendOnClosed` |
| `agent_runs` | 2 requests, either both of an agent that streams (outputs of 1 chunk), or both of one that does not (with `/clear` and stop); 2 outputs a run, interrupts and resumes, event channel of 2 so that it overflows, a session of 5 messages cut at 2 | `CallbacksEnd`, `EventsInOrder`, `SessionKeepsNew`, `Answered` |
| `agent_crosstalk` (violation) | 2 streamed requests, a channel that never overflows | `ReplyToOwnRun` |
| `session` | 1 file with two spellings of its key, 2 loggers, 1 reader, 2 stored turns, 2 days; any 2 of crashes, requests to read, list or delete, `/clear`s and loggers that start beside another; with no file at first, or one of an older version, with or without a header | `LoadsLatest`, `Whole`, `HistoryKept`, no deadlock |
| `scheduler_tasks` | a configured and an added task, 3 minutes, 2 executions at once, 2 edits, triggers or restarts | `OncePerMinute`, `FileIsCurrent`, `DueRuns` |
| `wxcom_replies` | 1 request id, 2 callers, 2 worker goroutines of which 1 per connection, 3 messages or losses, at most 1 loss | `OneByOne`, `AckMatches`, `RepliesReturn` |
| `ws_hub` | 2 connections, the dispatcher of log events, send buffers of one frame, one log event waiting; any 2 of events of the bus, messages of clients, clients that go and that stop reading; or one that stops reading and 3 events | `BroadcastSafe`, `ClosedForgotten`, `ShutsDown` |
| `gateway` | five small gateways that exchange messages and stop (streams under a binding, a full queue, a file request, an unsupported one, two accounts, each with up to 3 messages, an inbound queue of one, subscriptions of two), one whose configuration changes twice and which is killed and started again; about 7,500 configurations and 100 frames that are only read | `AgentsRight`, `AgentsGuarded`, `Addressed`, `ConfigWhole`, `Dispatched`, `StopEnds` |
| `memory` | a session and a knowledge file, one or two modifications, one or two starts, kills; with the commands, with a database and a search; with a second session, whose user has the name of the first one's account; that session alone, with facts and preferences; and every session of up to 3 messages, replies to 2 pairs, files of up to 5 lines | `TextRight`, `KeepsChat`, `FileFresh`, `LatestPreference`, `SearchRight`, `CatchesUp`, `SearchEnds` |

Why the bounds are enough to be of interest:

* Buffers of one and two messages make every queue full, every drop and every blocked publisher
  happen; the order of messages needs two of them, filters two channels. Two callers of `Close`
  are what a double close needs.
* Two requests are what a late event, callback or checkpoint of an *earlier* run needs. An event
  channel of two, with runs that emit more, drops each kind of event, the callback's removal
  included. A limit of two messages cuts a session of five in the middle of a pair of tool
  results.
* Two days and two turns put a save on each side of midnight; a crash strikes between any two
  file-system calls, and is followed by a whole restart. Two incidents (`MaxIncidents`) put a
  `/clear` or a `Delete` on either side of midnight and before or after a restart, a reader or
  another `/clear`, at any point of a turn. Five million states.
* Two connections and any two inputs make a broadcast meet a `Close` and `Stop` meet a handshake
  in progress. A client that does not read takes one frame into its blocked write and one into
  its buffer: three events are what a send needs that meets the full buffer, before or during
  `Stop` (`Filled`).
  The run has the dispatcher of log events, which no subscription filters: it sends wherever the
  others would, and it is the one whose warnings come back.
* Three minutes with schedules `{2,3}` and `{3}` give a task that is due again while its first
  execution lasts, a catch-up after a restart, and an update that changes the schedule. The
  bound on operations is 2: remove and add again under the same id, or trigger and update, or
  edit and restart.
* `Workers` is one more than a connection starts, so that a worker that is busy when its
  connection ends is still there next to the worker of the next connection. Two callers queue
  behind each other, three messages let a late acknowledgement meet its successor. One loss is
  enough for two clears to strike.
* Three agents with up to two sub-agents each have every shape of a graph (double edges,
  circles, an unknown name) up to that size; the other configurations vary one rule of merging
  at a time against two providers and a base. Three calls in a message are enough for one check
  point to be overwritten between two others.
* Three messages on an inbound queue of one fill it, with one more in the receive loop's hand; a
  break of the connection meets that loop in every state. Two changes of a configuration are an
  update over an update, or over an edit by hand.
* Two modifications of a file and two starts put an older snapshot behind a newer one, in one
  process or two; the L1 layer keeps one preference of a user, so that two make it compact.
  The second session has a key of one part, and so a user without an account: with the name of
  the first one's account the two share a file in the first layer but not the user that
  compaction goes by, and its facts lie where a start takes them for preferences.

What the properties leave open is said in their comments, and in each case the exception is
narrow (a history variable or a condition names exactly the cases) and is listed in section 6:
`OneByOne` excepts requests that a clear struck; `AckMatches` requests for which an
acknowledgement was given up; `RepliesReturn` messages that the code is known to miss;
`LoadsLatest` and `HistoryKept` sessions that got metadata of a second day (`astray`) or whose
file two saves had open (`overlapped`), and `LoadsLatest` a left-over file of an older version;
`FileIsCurrent` a torn file; `NoPanic` and `PublishReturns` of the event topics the terminal
program's handler; `StopEnds` the state `Stuck`; `Answered` the answers of which nothing is
heard (`unheard`: a streaming run at the iteration limit, and an end that a full channel drops);
`Addressed` interrupts and errors, whose messages have no metadata, and the missing or second
end of an answer; `ConfigWhole` files a user wrote since; `KeepsChat` what a kill caught in
hand; `FileFresh` and `CatchesUp` files two scanners had at once or a kill cut short;
`SearchEnds` the deadlock of two read locks.

Every property comes with a mutant of the code (a dropped guard, a missing reset, a swapped
order) under which TLC finds it violated in the same run; the mutants stand beside the
definitions they replace, marked as such.

## 4. Fairness

* Goroutines that can run do (weak fairness of their steps), as the Go scheduler guarantees.
  Publishing, subscribing, editing, calling `Close` or `/clear` are the callers' choice: no
  fairness. The same holds for users, the network, signals and kills.
* Steps that need a lock which others may take again and again (`FanHandle`, `FanExit`, the log
  handler's locks) are strongly fair: a waiting `Lock` stops new readers, and a mutex serves its
  waiters.
* In `MessageBus`, contexts of blocked callers are cancelled in the end; without that `Close`
  need not return, because a publisher stuck on a full queue keeps the read lock. In the whole
  program this is not always so: the WeCom channel publishes with `context.Background()`.
  `Gateway` therefore assumes nothing of the kind, and has the state `Stuck` that follows.
* In `AgentLoop`, runs end (a model call or a tool has its timeout or context).
* In `RequestResponse`, the 30-second timers fire; nothing is assumed of the channel that should
  answer.
* In `Scheduler`, the ticker and executions go on; the strong fairness only bridges the bound on
  goroutines.
* In `WxComReplies`, timers fire, the receive loop notices a broken connection, a sender that
  waits for a worker is served when workers keep coming to the unbuffered channel (strong
  fairness of `Notify`). The server need not answer and a dial need not succeed.
* In `WsHub`, a writer that waits for `connMu` keeps new readers out and so gets it (strong
  fairness of `Remove` and `Sweep`); nothing is assumed of clients, nor of the bus before the
  server's context ends.
* In `Gateway`, the steps of `Start` and `Stop`, receive loops, dispatchers and the agent's
  goroutine go on; a `Send` ends (its acknowledgement has a timeout, `WxComReplies`); an agent
  that is cancelled exits. An update of the configuration and a reconnection get no fairness.
* In `Memoria`, tickers fire and a scanner goes on: model calls return, with an answer or an
  error. `Fairness` writes the weak fairness of a scanner's step out, with `CanStep` for
  `ENABLED`, which TLC would otherwise have to find anew in each state. A search goes on when
  the lock lets it.

## 5. Proofs

The constants are arbitrary in what follows: any number of goroutines, connections, sessions,
subscribers and calls, any filter and any capacity. What the proofs assume of them is the
`...Assumption` of each module, which TLC evaluates for the instances: roles are disjoint,
`None` and `Nobody` are none of them, filters are sets of channels, capacities and bounds are
numbers, positive where the code says so; for sessions, that file names are keys of their own
and differ when the keys do (which `sanitizeKey` grants to keys without special characters);
for the gateway, that configurations are whole, that answers, chunks and calls are of the shapes
the run enumerates, without a bound on their number, and that the only frames given to be read
are callbacks with a request id; for the memory, that sources are finite in number, that a
search asks for at least one hit (`Memoria.Search` and the command replace other limits), and
that no user has the name of another's account or of another user unless the two have the same
files (`OwnersAssumption`: `parseSessionKey` cuts a key at each `_`, so that a name of three
parts is never a name of one). Memories get IDs of their own in the model, where `generateID`
takes the clock's nanoseconds; two that were made in the same one are not modelled.

Every proof has the same shape: a few facts about single operators, one lemma for each conjunct
of an inductive invariant, in it one step for each action that can disturb the conjunct, and a
theorem that puts them together. The invariants that were not obvious were checked by TLC first,
on the instance of the run.

`MessageBusProofs`
* `TypeCorrect`: `TypeOK` holds always. One lemma for each group of variables; the only addition
  needed is `HeldOK`, that a publisher in the outbound select holds a message.
* `NeverPanics`: no send on a closed channel, no channel closed twice. `NoPanic` is not
  inductive; `LockInv` is: publishers in a select are readers (`SendersRead`), a pending or
  active writer is in its lock (`WriterWaits`), readers exclude the writer between the two
  halves of `Close` (`SweptExcludes`), while there are readers in a select the bus is not closed
  (`ReadersOpen`), the queues are open until `Close` has finished (`QueuesOpen`), and a
  subscriber in the map has an open channel (`SubsOpen`). A sender then holds the read lock, so
  the bus and the queue are open; `FanDeliver` and unsubscription only touch channels in the
  map; `Close` closes each once.
* `CloseExcludes`: `LockDiscipline`, from the same invariant.
* `InboundInOrder`: `InboundFIFO`, that what the manager took and what still waits are together
  the accepted messages in order and each once. It is inductive given the types (`FIFOStep`);
  the work is in two facts about sequences (`ExtendUpTo`, `MoveHead`), proved element by element
  with no induction.
* `NeverBoth`: `HandledNotBroadcast`. The outbound queue is the end of the log and the fan-out
  holds the last message taken out (`OutQueueOK`, `CurOK`); whatever was delivered or claimed is
  before the one in hand (`DeliveredPast`, `HandledPast`), so a message in hand is neither yet
  and becomes one of the two.
* `ImplementsBroadcast`: `Spec => BroadcastSpec`, the refinement of `LossyBroadcast`. Each step
  accepts, hands on, stops or stutters: the invariants above say that what `FanDeliver` hands on
  is in the log, matches the filter and is later than all the subscriber has had.

`EventTopicsProofs`
* `NeverPanics`: with the gateway's log handler nothing is sent on a closed topic (`LockInv`, as
  for the bus: who sends is a reader, readers keep the writer out, the topics are open until it
  has been in). The terminal program's handler does without the lock, and the property says so.
* `InOrder`: `EventOrder`, by the argument of `NeverBoth` for each of the two topics
  (`TopicOK`, `DeliveredPast`, and the two halves of the property, `Increasing` and `Filtered`).

`AgentLoopProofs`
* `TypeCorrect`. The cut of a history needs that `SafeStart`, a recursive function, has values
  at all. The library's induction cannot be used, so that the proof takes the least length at
  which no such function exists, and extends the one for the length before.
* `CallbacksGone`: `CallbacksEnd`. A callback belongs to the message being handled, or its
  removal is queued (`Pending`); events of later messages are behind the removal (`Behind`);
  nothing is about a message yet to come (`Known`). When the channel is full the loop's removal
  is not queued, but done at once, which is why `Pending` survives an overflow.
* `StreamsInOrder`: `EventsInOrder`. The places of events grow along what was published, what the
  loop holds and what is in the channel (`QueueOrdered`, `OutFirst`), and the run goes on behind
  all of it (`RunAhead`); dropping an event keeps an order.
* `KeepsNew`: `SessionKeepsNew`, under two hypotheses on the constants that the run's instance
  meets (`MC_AgentLoop` assumes them) and without which it is false. `SingleAgent`: one agent
  answers in a session; section 6 says what happens otherwise. `ProperStart`: in what an
  earlier process stored, every result follows its call with at most other results in between;
  a result without its call is left out of a history, which may then be one short. The
  inductive invariant `KeepInv`: sessions are `Proper`; a run, and a checkpoint of one,
  `Continues` its session, that is, it begins with the history that would be taken now, and its
  own messages are later than the session's and answer one another. `/clear` keeps that, because
  then the history is empty and all of the checkpoint is new. `SafeStartApart` says that no
  result after the beginning of a history answers a call before it, by the least place where it
  would.

`SessionStoreProofs`
* `TypeCorrect`. Who is at which stage of what with what loaded (`Placed`), and that a turn
  waits for the loggers it started (`TurnWaits`), one at a time unless agents run side by side.
* `NeverPartial`: `Whole`. A temporary file that no two saves had open belongs to one goroutine
  and has, when it is renamed, everything that goroutine wrote (`OneWriter`).
* `ReadsLatest`: `LoadsLatest`, where `PathInv` is the account of folders, caches and Session
  objects that `Save`, `List` and the two searches rely on without saying so. Whatever bears a
  key bears one of its file (`Named`), a file's header names its folder, and a save goes to the
  folder of its metadata (`Homed`). `DaysOf` a session are all the days at which something of it
  is or may be put: by its dated files, the caches, the header of an old file and the metadata
  of those who may save. It has one (`OneDay`) until it goes `astray`, which happens where
  metadata enters the cache (`Install`) and nowhere else; so there is one dated file, an index
  entry has its file (`Indexed`), and the file found is the last one saved (`LastFound`).
  `PlainInv` says why a session that was neither deleted nor cleared, and whose old file tells
  its day, does not go astray, over any number of midnights: it is known by one key, whoever
  works with it has the cached metadata, and what somebody has read but not yet entered agrees
  with all that is known by then.
* `MessagesKept`: `HistoryKept`. The one dated file ends in what was stored, and so does the data
  of a turn or a logger that has read it and may save, but for the message the turn itself adds
  (`Kept`): nobody else stores one while it holds them, since a turn waits for its loggers.

`SchedulerProofs`, of `Scheduler`
* `FileCurrent`: `FileIsCurrent`. While somebody holds the mutex to write, the state of its own
  task is the only one the file may lack (`FileInv`).
* `AtMostOnce`: `OncePerMinute`. Unless its task is busy, the minutes an id was started for are
  before its next run, and not after the last one, from which an update computes the next run
  anew (`Ahead`).

`WxComRepliesProofs`, of `WxComReplies`
* `SentOneByOne`: `OneByOne`. Of a request that was not cleared, whoever has it, a worker or the
  sender about to wake one, has it alone and it is marked (`OneHolder`, `Marked`): `Check` sets
  the mark only where nobody holds the request, and only the holder takes it away. Its queue
  rises (`Rising`), starts with the message in the worker's hand (`HeadHeld`), and lies behind
  the last message sent, but for that one (`Later`).
* `AcknowledgedItself`: `AckMatches`. As long as no acknowledgement of the request was given up,
  the only frame that may still be acknowledged is that of the message its worker waits for
  (`OwnFrame`), and with `OneHolder` there is one such worker. A timeout breaks this: its frame
  stays on the way.

`WxComRepliesProofs`, of `RequestResponse`
* `CallsTypeCorrect`, `MapOwnsChannels` and `AnswersMatch` come from one invariant: types,
  ownership of channels, and `InTransit` (the response in `HandleResponse`'s hand and the one in
  a channel are addressed to the channel's request). Ownership is what keeps `WaitForResponse`'s
  cleanup and the sweeper from closing a channel twice; it does not exclude the late send of
  section 6, which reads the channel under the mutex and uses it after.

`SchedulerProofs`, of `WsHub`
* `SafeBroadcast`: `BroadcastSafe`. A connection in the map is not past the first section of its
  removal (`Listed`), its send channel is open until the removal is over (`OpenTill`), and what
  a broadcast has still to visit or holds is in the map (`TodoListed`, `HoldListed`), because
  the removal needs `connMu`, which the broadcast holds.
* `Forgotten`: `ClosedForgotten`; `Close` takes the connection from both maps, and only a
  subscription that was looking it up meanwhile may put it back.

`GatewayProofs`
* `FileWhole`: `ConfigWhole`. An update writes the backup, a temporary file and the file under
  its name in turn; as long as no user wrote since, the file is the new one when the manager is
  about to remember it (`Renamed`), and no update is on its way before the gateway serves, so
  that what a start loads is whole.
* `DispatchedOnce`: `Dispatched`. What waits in the dispatcher's subscription and in its hand is
  the end of what was said (`Waiting`), the channels and bindings are those of the configuration
  the gateway was created from (`Wired`), and what was handed on is, place by place, the part of
  what was said before that end that is due to a channel (`Placed`, `Delivered`; the place of a
  message is the number of due ones up to it). Before the channels exist nothing was said
  (`NothingYet`): that no message of an earlier life is left is part of the proof.
* `EveryoneAnswered`: `Addressed`. For every frame, kind of run, number of chunks and list of
  answers, what WeCom is sent (`Answer`, `Send`, `SendStream`, element by element) has the
  callback's request id, and the command, address and text that are due; it has one finishing
  frame, behind all chunks if the run succeeds. The exceptions are the code's: a stream whose
  answer no event announces has no finishing frame, an announced run that does not stream has the
  same one twice, and what breaks off may be ended before its last chunks. The proof places the
  manager's message anywhere in what the event loop says (`Inserted`, `AnswerParts`), and shows
  that both kinds of last message become the same frame (`SameFrame`).

`MemoriaProofs`
* `MemoriaTypeCorrect`. The model's folds over sequences have the values they are meant to have:
  as with `SafeStart`, by the least length for which they had not (`FoldExists`), once, and cited
  for each use. It also says which fields an item may have: a file's item is never of the first
  layer, a loop runs in a gateway only, a waiting writer has something in hand.
* `ChatsKept`: `KeepsChat`, by `KeepInv`. An item lies where its kind belongs (`DiskOK`: chats in
  the directories of the second layer; and the file has whatever the cache has, `Ahead`, from
  the start of a process on), so that a file written from the cache loses nothing; compaction of
  the first layer deletes by ID, and its IDs are not those of chats (`IdsOK`: an item made has
  the number of its source in it, one that was read again its place). Then each kept ID is in a
  hand that will store it, or on the disk (`KeptOK`).
* `FilesFresh`: `FileFresh`, by `FreshInv`. Of a file that is not excepted one scanner has
  snapshots or items at most (`OneHolder`); while it extracts, the index has nothing for the file
  and the disk no item of it; once it has extracted, its items are of the content in the index
  (`FileOK`). A scanner has a source once, to check, being extracted or in hand (`Tidy`), so that
  its batch never lands on a file that was deleted since for a newer snapshot. With no process
  running the index on the disk takes the place of the one in memory.
* `SearchesRight`: `SearchRight`. The limits of the nested searches (twice, twice again, cut
  back) and the filter by type after them lose no document when there is room (`LayerHas`,
  `VectorHas`, `SemanticHas`, `SearchHas`, on `BestHas`: a best part of finitely many hits exists
  and is all of them if they are few). Documents have IDs of their own (`IdsApart`): those in the
  initial scan's hand are not in the database and new ones were never given.
* `PreferencesKept`: `LatestPreference`, by `PrefInv` on top of `KeepInv`. Compaction chooses by
  *user* and deletes by *ID*, and after a start the user of a line is the name in its file's path.
  So every line of the first layer is at its owner's path and signed by a user or account of
  that owner (`OwnersOK`), lines with one ID have one owner, and what a scanner has in hand has
  IDs that nothing else has (`HandsOK`). A line leads if it is the first of its ID in a
  cache (`Tops`), as `mergeItems` writes it; what leads is in the file (`WrittenOK`), and the
  latest preference leads (`LatestOK`). A batch keeps this in whatever order its groups
  are stored (`BatchLeads`), a start because it reads every line of the file back
  (`PrefsLoaded`), and a kill whether it strikes between two groups or while a file is written.

A theorem on types (`TypeCorrect`, or with the module's name) is there for each of these modules;
types are checked by no run, since a variable that lost its type would show in the other
properties.

Only model-checked:
* liveness (outside this prover's reach, as is ENABLED);
* `AgentsRight`, `AgentsGuarded` and `TextRight`: they say what recursive computations (Kahn's
  algorithm, the merging of lists, the pairing of messages, the cutting of files) make of every
  input, which needs induction over their data;
* the two violations, which say that something does not hold.

## 6. What the code does that its comments do not say

Shown by a run:

* `request_late_answer`: `HandleResponse` says it sends without blocking and reports failure,
  but it has left the mutex when it sends, and the waiter may have closed the channel: the
  fan-out goroutine panics (`bus/request_response.go:90`).
* `agent_crosstalk`: streams are to be kept apart by message, but the event loop gives an event
  to every callback registered *when it takes the event*: the tail of one answer is also
  published as a reply to the next message (`agent/agentLoop.go:97`).

Met while modelling, and part of the models as the code has them unless said otherwise (most are
exceptions in properties, or hazards without one):

* Bus: the terminal program's log handler asks `IsClosed`, then sends without a lock; `Close` in
  between makes the send panic (`bus/slog_handler.go:36`, 75). The debug record about a dropped
  event is written while the read lock is held, and that handler takes the lock again: with
  `Close` waiting, both wait for ever (`bus/queue.go:391`). The properties speak of the
  gateway's handler for that reason. A subscription made after `Close` gets a channel that
  nobody closes.
* Request/response: after `CleanupStaleRequests` a waiting call gets `nil, nil`, which the
  send-file tool would dereference; only tests call it.
* Agent: a save is to store what is new ("需要只存储新消息", `agent/manager.go:826`), but a resumed
  run is measured against the session as it is now (721, 828). When another agent has answered in
  it since the interrupt, say that of a scheduled task for the same chat, the first messages of
  the resumed run are dropped, and the session has the result of a tool without its call. TLC
  finds `SessionKeepsNew` violated so with two agents, one session, new at first, and three
  requests; the run and the theorem have one agent.
* Agent: "the caller gets a response and does not hang" (`agent/manager.go:790`, 809) and "the
  content is sent by handleAgentEvent" (840) do not hold for a streaming agent that comes to its
  iteration limit: `Run` asks the model for a last answer and returns it, but no event announces
  it (`agent/agentLoop.go:140`), and the manager sends nothing (`agent/manager.go:841`). The answer
  is saved, and the caller, on WeCom a stream of chunks, waits for an end for ever. `Answered`
  excepts these runs by name (`unheard`), and the ones whose last event a full channel drops.
* Agent: an agent that does not stream answers twice: `processEvents` announces the answer
  whatever the mode (`agent/agentLoop.go:221`), the callback publishes it as final
  (`agent/manager.go:880`), and so does the manager (841). On WeCom both are frames that finish
  the same stream, or a second welcome for an event. `Addressed` allows exactly that.
* Agent: a message whose session cannot be loaded gets no reply; `Resume` drops the checkpoint
  before checking its parameter; an error published by the manager may overtake chunks still in
  the event channel; accumulators of streams that never end stay; `eventSeq` is shared without a
  lock.
* Sessions: the turn's `Save` overwrites the instruction that the logger has just saved, on
  every successful turn (`agent/manager.go:835`); a file in the root folder comes back after its
  dated copy is deleted; a `Delete` during a turn is undone by its `Save`, and a save that ends
  after it leaves an index entry without a file (`session/manager.go:168`); parallel sub-agents
  share a temporary file.
* Sessions with two dated files. `Save` takes the folder from the cached metadata
  (`session/manager.go:116`), and the cache knows a session by the spelling of its key (41, 73), the
  disk by its file name. `/clear` spells it with colons (`agent/manager.go:474`): with metadata of
  the first day cached under the other spelling, and no file yet or none any more, it makes
  metadata of the day it comes, and the session has two files from then on. A search finds the
  first, `List` indexes the last (`session/manager.go:257`): an older or an empty one is read, a
  message stored in the other is not seen, and a later `/clear` empties one of them only. The
  same comes of a `Delete` over midnight, which forgets the metadata of one spelling (181) while
  a turn or the other spelling still has it, and of an old file without a header, whose day is
  that of whoever reads it (376): `GetMeta` enters it without looking again (306), and midnight
  may lie between it and a turn. The histories `deleted` and `respelled` and the first part of
  `LoadsLatest` say that nothing else does it.
* Scheduler: a task is marked running only by its goroutine, `TriggerTask` does not look at the
  mark and the first of two executions to end clears it for both; `Stop` encodes the states
  without the lock; the state of a removed task stays and is taken over by a new one of the same
  id; the state file is overwritten in place; a minute that passes during an execution is
  skipped.
* WeCom replies: a message queued between "queue empty" and the removal of the mark wakes nobody
  (`channel/wxcom/ws.go:579`); after a clear the busy worker removes a newer message and a
  second worker may serve the same request (603); an acknowledgement is found by request, so a
  late one is taken for the next message (673); a sender waiting for a worker does not look at
  its context (493); a connection that breaks before the authentication frame, or is closed by
  the heartbeat while the receive loop is busy, is not replaced (143).
* WeCom messages: the sender is empty for ordinary messages, since the user is read from an
  event only; chats without an id share one session a day; interrupts and errors carry no
  metadata, so that an event is answered like a message, and an error's text is never shown; the
  chunks of a streamed answer to an event make a stream that is never ended; what the model
  thought is put before final messages only; `SendStream`'s branch for events is not reached.
* WebSocket server: an answer sent by a read loop whose connection is being closed may hit the
  closed channel (`gateway/ws/connection.go:116`; broadcasts are protected by `connMu`);
  `UpdateSubscription` writes the subscription's maps without the lock that guards their readers
  (`server.go:552`); a subscription made after the connection's removal stays (`server.go:285`,
  `547`); the warning about a dropped frame is itself broadcast, so that two clients that do not
  read keep the log busy for ever (`connection.go:119`).
* WebSocket client (read, not modelled): when its context ends, `sendLoop` calls `Close`, and so
  does the terminal interface: the second closes closed channels (`gateway/ws/client.go:457`);
  `handleMessage` may send to them, and `readLoop` reads `wsConn`, which `Close` sets to nil.
* Channel manager and gateway: both dispatchers wait for the manager's lock while `StopAll`
  clears the fields they read next, and a dispatcher that finds nil ends the process in the
  middle of the shutdown, before the scheduler's state is saved. Nobody watches the context that
  `channel/manager.go:133` cancels "to stop the dispatchers", and `agent/manager.go:547` says
  that the gateway's cancellation arrives there, which it does not: the context is the
  command's. `StopAll` passes over channels that are being reconnected. A receive loop waiting
  in `PublishInbound` can read no acknowledgement and no pong; with the agents gone and the
  queue full, `Close` of the bus never gets its lock and `Stop` hangs (`Stuck`). A channel that
  cannot connect fails the whole gateway. Agents and channels start before the dispatchers
  subscribe: early answers are lost. One slow channel holds up all of them. An unsupported
  request gets no answer. Priorities of bindings are not looked at: the last one wins. One
  incomplete account leaves no channels and no bindings, with a warning.
* Configuration: what `validateConfig` accepts may not start (no agents, no model, a circle); an
  edit by hand is lost with the next update and the backup has the older copy in memory; options
  that are true by default in comments ("默认 true") are false when JSON leaves them out; two
  agents of one name are reported as a circular dependency; with `-w` all agents share a
  workspace, and so several memories the same files (the last is not modelled).
* Agent tools: `send_file`'s own approval is lost when any list is configured, or to an MCP tool
  of that name; an MCP tool wins over a built-in one; the list of allowed tools does not touch
  the file and shell tools; a plan-execute agent has no approvals, a supervisor no registered
  tools; an unknown type of agent fails the whole gateway; several calls that wait for approval
  share one check point, and the answers go to them from the last to the first while the prompts
  are listed from first to last.
* Memory: neither the gateway nor `memory serve` closes it, so every stop is a kill. What the
  scheduler's loops store is never in the database, hence not found by searches, though marked
  as processed. Raw chats (`l3/`) are not re-read, so that the next write after a start
  overwrites them; user and account are not in the files either, and filters by user find
  nothing after a restart; text after a line `---` is lost. Of a knowledge file added item by
  item the disk has the last two. A session that grew is extracted from its start. L1 keeps one
  preference, because nobody sets the summarizer. The facts of a user without an account
  (`l1/facts`) come back from a restart as preferences (`parseL1SimpleFormat`,
  `storage/md_store.go:403`), and the next preference has them compacted away with the older
  ones; `LatestPreference` speaks of `l1/preferences` only, the file that goes into prompts
  (`GetL1FileContent`, `storage/md_store.go:703`). A file's removal from the index is in memory
  only: after a kill, a content that comes back is taken for processed. The initial scan may
  mark an older snapshot after the loop's newer one. A keyword search takes its read lock twice
  and with a waiting writer both stop for ever (`storage/sqlite_store.go:358`). Keyword rows
  have no source type, so that filtered searches lose them; the normalisation of their rank
  turns the order around; `limit` arrives as a float and is ignored.
  "Limit search to recent days" (`memoria/history_tool.go:70`, also 52 and 113, and `--days` of
  `cli/cmd/memory.go:636`) is promised, and shown as "时间范围: 最近 %d 天" (699), but both searches
  of `Memoria.Search` make new options without the time range (`memoria/memoria.go:657`, 698):
  memories of any age are found. `SearchRight` speaks of the user, the type and the number of
  hits only.

## 7. What is not modelled

* Whole components: see `components` in `PROJECT.json`, each with its reason. The WebSocket
  client is the one with behaviour worth a module; prompts, skills and media, the providers and
  the browser program are conversions, input and output, or calls of outside services without a
  protocol of this program's own.
* In the modelled components: sub-agents as running agents (their instructions are, in
  `SessionStore`); the upload of files and other commands over the WeCom connection
  (`SendCommand`), decryption; the heartbeat's counting (its verdict is an action); counts and
  timestamps in session metadata; the parsing of cron expressions and of JSON; the look for
  another gateway at the start; the creation of a memory that fails (a warning); a memory
  command beside a running gateway, and several memories over one workspace; what has no caller
  in `src/` (the memory's triggers, watcher, statistics and deletions, changes of bindings at
  run time); data races on single words, which Go leaves undefined: the order of the accesses is
  modelled, torn values are not.
* In `Gateway` the agent's run is what it publishes; its inside is `AgentLoop`. The bus is there
  as `LossyBroadcast` describes it, with the lock where it matters.
* Sizes: capacities of 100 and 1000 are checked at 1 to 9.

## 8. Plan

Done, in order of importance: `MessageBus`, `RequestResponse`, `EventTopics`, `AgentLoop`,
`SessionStore`, `Scheduler`, `WxComReplies`, `WsHub`, the first theorems; then `Gateway` with
the configuration, tools and frames, `Memoria` with its texts and stores, and the cut of
histories; then the safety theorems of the first eight modules, and those of `Gateway` and
`Memoria`.

Theorems that could follow:

1. of `RequestResponse`, that a late answer is the only send that can meet a closed channel;
2. of `AgentLoop`, that with any number of agents a run which was not resumed still saves exactly
   what is new.

Models that could follow: the WebSocket client; `SendCommand` and the upload of chunks; the two
sides of a request for approval in `AgentLoop` with several calls, which `AgentTools` treats as
a function.
