------------------------------ MODULE AgentLoop ------------------------------
(***************************************************************************)
(* One inbound message after another through the agent manager             *)
(* (agent/manager.go) and the loop of the agent it is routed to            *)
(* (agent/agentLoop.go).                                                   *)
(*                                                                         *)
(* The manager's goroutine takes a message, registers a callback, runs or  *)
(* resumes the agent, stores the new messages in the session, replies, and *)
(* queues the removal of its callback.  The run emits events without       *)
(* blocking into the agent's event channel; the agent's event loop, a      *)
(* goroutine of its own, calls every callback registered when it takes an  *)
(* event, and a callback publishes under the message it was made for.      *)
(*                                                                         *)
(* What the model, the tools and the stream do is the environment's        *)
(* choice. A chat message is known by the request that produced it (0 for  *)
(* one of an earlier process) and its place in its run; calls counts the   *)
(* tool calls in it, call names the message a tool's result answers.       *)
(***************************************************************************)
EXTENDS Naturals, Sequences, SequencesExt, FiniteSetsExt

CONSTANTS
  Agents, Sessions,
  Modes,       \* whether the agents may stream, see streaming
  Disturbed,   \* the modes in which users send /clear and the manager is stopped
  Earlier,     \* what sessions may hold from an earlier process
  MaxHistory,  \* messages of a session a run is given (100)
  EventCap,    \* capacity of an event channel (1000)
  MaxRequests, \* bound: inbound messages
  MaxOutputs,  \* bound: messages a run produces
  MaxChunks    \* bound: chunks of a streamed message

Message == [by : 0..MaxRequests, at : Nat, role : {"user", "assistant", "tool"},
            calls : Nat, call : Seq(Nat)]

ASSUME AgentAssumption ==
  /\ Earlier \subseteq Seq(Message)
  /\ Modes \subseteq BOOLEAN /\ Disturbed \subseteq BOOLEAN
  /\ EventCap \in Nat \ {0} /\ MaxHistory \in Nat \ {0}
  /\ MaxRequests \in Nat /\ MaxOutputs \in Nat /\ MaxChunks \in Nat

VARIABLES
  streaming,   \* cfg.Streaming of the agents, fixed at the start
  mpc,         \* where the manager's goroutine is
  cur,         \* the number of the message it handles, 0 at first
  agent, sess, \* the agent and the session of that message
  historyLen,  \* messages of the session the run was given
  allMsgs,     \* the run's messages, history first
  resumed,     \* the run resumes a checkpoint
  last,        \* its latest output: "prompt", "call", "tool" or "answer"
  reading,     \* the output being read
  chunks,      \* chunks read of it
  eventChan,   \* each agent's event channel
  unheard,     \* history: the messages with an answer that no callback may hear of
  callbacks,   \* the messages whose callbacks are registered
  hand, todo,  \* the event the loop delivers, the callbacks left to call
  loops,       \* agents whose event loop runs
  firstStart,  \* messages whose callback has yet to see a start event
  checkPoints, \* messages saved by an interrupt, <<>> for none
  session,     \* the stored conversations
  out,         \* what has been published for each message, in order
  ctx          \* "live", "cancelled" or "stopped"

runVars   == <<streaming, agent, sess, historyLen, allMsgs, resumed, last, reading, chunks>>
loopVars  == <<hand, todo, loops, firstStart>>
storeVars == <<checkPoints, session>>
vars == <<mpc, cur, runVars, eventChan, unheard, callbacks, loopVars, storeVars, out, ctx>>

Requests == 1..MaxRequests
Outputs  == {"call", "tool", "answer"}
NoEvent  == [type |-> "none", of |-> 0, at |-> 0]

EventTypes == {"MessageStart", "MessageUpdate", "MessageEnd", "ToolStart",
               "ToolEnd", "Interrupt", "Unregister"}
Events == [type : EventTypes, of : Requests, at : Nat]

(* Outbound messages: the chunks and the final of a stream, and what the   *)
(* manager sends itself.  Of the chat events only "start" is recorded; the *)
(* others notify of what is recorded here anyway.                          *)
Finals == {"final", "reply", "interrupt", "error", "command"}
Kinds  == Finals \cup {"chunk", "start"}
Published == [kind : Kinds, of : Requests, at : Nat]

Init ==
  /\ streaming \in Modes
  /\ mpc = "idle" /\ cur = 0
  /\ agent \in Agents /\ sess \in Sessions
  /\ historyLen = 0 /\ allMsgs = <<>> /\ resumed = FALSE
  /\ last = "prompt" /\ reading = "none" /\ chunks = 0
  /\ eventChan = [a \in Agents |-> <<>>] /\ unheard = {} /\ callbacks = [a \in Agents |-> {}]
  /\ hand = [a \in Agents |-> NoEvent] /\ todo = [a \in Agents |-> {}]
  /\ loops = Agents /\ firstStart = {}
  /\ checkPoints = [a \in Agents |-> [s \in Sessions |-> <<>>]]
  /\ session \in [Sessions -> Earlier]
  /\ out = [n \in Requests |-> <<>>] /\ ctx = "live"

-----------------------------------------------------------------------------
(* A run's next message, in answer to a tool call of the one before it or  *)
(* not.                                                                    *)
NewMessage(role, calls, before, by) ==
  [by |-> by, at |-> Len(before) + 1, role |-> role, calls |-> calls,
   call |-> IF role = "tool" THEN <<Last(before).by, Last(before).at>> ELSE <<>>]

Answers(m, call) == m.call = <<call.by, call.at>>

(* Mutant: the last messages, whatever the first of them is.               *)
LastMessages(msgs) ==
  IF Len(msgs) <= MaxHistory THEN msgs ELSE SubSeq(msgs, Len(msgs) - MaxHistory + 1, Len(msgs))

(* The calls that a message answers, and the results of one.               *)
Callers(msgs, i) == {j \in 1..(i - 1) : Answers(msgs[i], msgs[j])}
Results(msgs, i) == {k \in (i + 1)..Len(msgs) : Answers(msgs[k], msgs[i])}

(* Where a history that would begin with a message has to begin: with the  *)
(* call that a tool's result answers; with what precedes a call that has   *)
(* not had all its results.  A result without a call is left out.          *)
SafeStart(msgs) ==
  LET start[i \in 1..Len(msgs)] ==
        IF i = 1 THEN 1
        ELSE IF msgs[i].role = "tool"
        THEN IF Callers(msgs, i) = {} THEN i + 1 ELSE start[Max(Callers(msgs, i))]
        ELSE IF Cardinality(Results(msgs, i)) < msgs[i].calls THEN start[i - 1] ELSE i
  IN start

(* The last MaxHistory messages, and those before them that belong to the  *)
(* first.                                                                  *)
GetHistorySafe(msgs) ==
  IF Len(msgs) <= MaxHistory THEN msgs
  ELSE SubSeq(msgs, SafeStart(msgs)[Len(msgs) - MaxHistory + 1], Len(msgs))

(* Publishing may be refused once the manager's context is cancelled.      *)
Publish(n, kind, of, at) ==
  \/ out' = [out EXCEPT ![n] = Append(@, [kind |-> kind, of |-> of, at |-> at])]
  \/ ctx # "live" /\ UNCHANGED out

PublishOwn(kind) == Publish(cur, kind, cur, Len(allMsgs))

(* emit: an event that does not fit is dropped; an answer's end with it,   *)
(* or the events still waiting for a callback that goes at once.           *)
Emit(type) ==
  LET fits == Len(eventChan[agent]) < EventCap IN
  /\ eventChan' = [eventChan EXCEPT ![agent] =
                     IF fits THEN Append(@, [type |-> type, of |-> cur, at |-> Len(allMsgs)]) ELSE @]
  /\ unheard' = IF fits \/ type \notin {"MessageEnd", "Unregister"} THEN unheard ELSE unheard \cup {cur}

(* processMessages: the context is looked at before each ConsumeInbound,   *)
(* and again inside it.                                                    *)
Poll ==
  /\ mpc = "idle"
  /\ mpc' = IF ctx = "live" THEN "consume" ELSE "exited"
  /\ UNCHANGED <<cur, runVars, eventChan, unheard, callbacks, loopVars, storeVars, out, ctx>>

ConsumeCancelled ==
  /\ mpc = "consume" /\ ctx # "live"
  /\ mpc' = "exited"
  /\ UNCHANGED <<cur, runVars, eventChan, unheard, callbacks, loopVars, storeVars, out, ctx>>

(* A command is answered by its handler; only /clear changes anything      *)
(* here.                                                                   *)
RouteCommand(s) ==
  /\ mpc = "consume" /\ streaming \in Disturbed /\ cur < MaxRequests
  /\ cur' = cur + 1
  /\ session' = [session EXCEPT ![s] = <<>>]
  /\ Publish(cur + 1, "command", cur + 1, 0)
  /\ mpc' = "idle"
  /\ UNCHANGED <<runVars, eventChan, unheard, callbacks, loopVars, checkPoints, ctx>>

(* No agent, or a session that cannot be read: an error is logged.         *)
RouteFails ==
  /\ mpc = "consume" /\ cur < MaxRequests
  /\ cur' = cur + 1
  /\ mpc' = "idle"
  /\ UNCHANGED <<runVars, eventChan, unheard, callbacks, loopVars, storeVars, out, ctx>>

(* handleInboundMessage up to the run: the callback, the history, ...      *)
Accept(a, s) ==
  /\ mpc = "consume" /\ cur < MaxRequests
  /\ cur' = cur + 1 /\ agent' = a /\ sess' = s
  /\ callbacks' = [callbacks EXCEPT ![a] = @ \cup {cur + 1}]
  /\ firstStart' = firstStart \cup {cur + 1}
  /\ historyLen' = Len(GetHistorySafe(session[s]))
  /\ reading' = "none" /\ chunks' = 0

(* ... Prompt when nothing is interrupted in this session, ...             *)
Prompt(a, s) ==
  /\ Accept(a, s)
  /\ checkPoints[a][s] = <<>>
  /\ LET history == GetHistorySafe(session[s])
     IN allMsgs' = Append(history, NewMessage("user", 0, history, cur + 1))
  /\ resumed' = FALSE /\ last' = "prompt"
  /\ mpc' = "next"
  /\ UNCHANGED <<streaming, eventChan, unheard, hand, todo, loops, storeVars, out, ctx>>

(* ... else Resume, which deletes the checkpoint first and fails on a      *)
(* parameter of the wrong type or when the runner refuses.                 *)
Resume(a, s) ==
  /\ Accept(a, s)
  /\ checkPoints[a][s] # <<>>
  /\ allMsgs' = checkPoints[a][s]
  /\ checkPoints' = [checkPoints EXCEPT ![a][s] = <<>>]
  /\ resumed' = TRUE /\ last' = "call"
  /\ mpc' \in {"next", "failed"}
  /\ UNCHANGED <<streaming, eventChan, unheard, hand, todo, loops, session, out, ctx>>

-----------------------------------------------------------------------------
(* processEvents: the run's next output arrives ...                        *)
Made == Len(SelectSeq(allMsgs, LAMBDA m : m.by = cur))

NextOutput(kind) ==
  /\ mpc = "next" /\ Made <= MaxOutputs
  /\ (kind = "tool") <=> (last = "call")
  /\ last # "answer"
  /\ Emit("MessageStart")
  /\ reading' = kind /\ chunks' = 0 /\ mpc' = "reading"
  /\ UNCHANGED <<cur, streaming, agent, sess, historyLen, allMsgs, resumed, last, callbacks,
                 loopVars, storeVars, out, ctx>>

(* ... messageParse reads its stream ...                                   *)
ReadChunk ==
  /\ mpc = "reading" /\ streaming /\ chunks < MaxChunks
  /\ Emit("MessageUpdate")
  /\ chunks' = chunks + 1
  /\ UNCHANGED <<mpc, cur, streaming, agent, sess, historyLen, allMsgs, resumed, last, reading,
                 callbacks, loopVars, storeVars, out, ctx>>

ReadFails ==
  /\ mpc = "reading" /\ streaming
  /\ mpc' = "failed"
  /\ UNCHANGED <<cur, runVars, eventChan, unheard, callbacks, loopVars, storeVars, out, ctx>>

(* ... and the whole message is announced and kept.                        *)
FinishOutput ==
  /\ mpc = "reading"
  /\ Emit(CASE reading = "tool"   -> "ToolEnd"
            [] reading = "call"   -> "ToolStart"
            [] reading = "answer" -> "MessageEnd")
  /\ allMsgs' = Append(allMsgs, NewMessage(IF reading = "tool" THEN "tool" ELSE "assistant",
                                           IF reading = "call" THEN 1 ELSE 0, allMsgs, cur))
  /\ last' = reading /\ reading' = "none"
  /\ mpc' = "next"
  /\ UNCHANGED <<cur, streaming, agent, sess, historyLen, resumed, chunks, callbacks, loopVars,
                 storeVars, out, ctx>>

RunEnds ==
  /\ mpc = "next" /\ last = "answer"
  /\ mpc' = "done"
  /\ UNCHANGED <<cur, runVars, eventChan, unheard, callbacks, loopVars, storeVars, out, ctx>>

RunFails ==
  /\ mpc = "next" /\ last # "answer"
  /\ mpc' = "failed"
  /\ UNCHANGED <<cur, runVars, eventChan, unheard, callbacks, loopVars, storeVars, out, ctx>>

(* handleInterrupt: a tool wants the user; the checkpoint keeps the        *)
(* messages.                                                               *)
RunInterrupted ==
  /\ mpc = "next" /\ last = "call"
  /\ checkPoints' = [checkPoints EXCEPT ![agent][sess] = allMsgs]
  /\ Emit("Interrupt")
  /\ mpc' = "interrupted"
  /\ UNCHANGED <<cur, runVars, callbacks, loopVars, session, out, ctx>>

(* Run, not Resume, catches ErrExceedMaxIterations: a notice and a last    *)
(* answer of the model, which no event announces.                          *)
MaxIterations ==
  /\ mpc = "next" /\ ~resumed /\ last = "tool"
  /\ LET notice == Append(allMsgs, NewMessage("user", 0, allMsgs, cur))
     IN allMsgs' = Append(notice, NewMessage("assistant", 0, notice, cur))
  /\ last' = "answer" /\ unheard' = unheard \cup {cur}
  /\ mpc' = "done"
  /\ UNCHANGED <<cur, streaming, agent, sess, historyLen, resumed, reading, chunks, eventChan,
                 callbacks, loopVars, storeVars, out, ctx>>

-----------------------------------------------------------------------------
(* Back in handleInboundMessage.                                           *)
ReplyInterrupt ==
  /\ mpc = "interrupted"
  /\ PublishOwn("interrupt")
  /\ mpc' = "leaving"
  /\ UNCHANGED <<cur, runVars, eventChan, unheard, callbacks, loopVars, storeVars, ctx>>

(* Mutant: only the chat event, no outbound message.                       *)
ReplyErrorEventOnly ==
  /\ mpc = "failed"
  /\ mpc' = "leaving"
  /\ UNCHANGED <<cur, runVars, eventChan, unheard, callbacks, loopVars, storeVars, out, ctx>>

ReplyError ==
  /\ mpc = "failed"
  /\ PublishOwn("error")
  /\ mpc' = "leaving"
  /\ UNCHANGED <<cur, runVars, eventChan, unheard, callbacks, loopVars, storeVars, ctx>>

(* Mutant: responses[historyLen+1:], the user's message taken for history. *)
SaveWithoutPrompt ==
  /\ mpc = "done"
  /\ session' = [session EXCEPT ![sess] =
                   @ \o SubSeq(allMsgs, historyLen + 2, Len(allMsgs))]
  /\ mpc' = "saved"
  /\ UNCHANGED <<cur, runVars, eventChan, unheard, callbacks, loopVars, checkPoints,
                 out, ctx>>

(* responses[historyLen:] goes to the session ...                          *)
SaveSession ==
  /\ mpc = "done"
  /\ session' = [session EXCEPT ![sess] =
                   @ \o SubSeq(allMsgs, historyLen + 1, Len(allMsgs))]
  /\ mpc' = "saved"
  /\ UNCHANGED <<cur, runVars, eventChan, unheard, callbacks, loopVars, checkPoints,
                 out, ctx>>

(* ... and the answer to the bus, unless its stream is left to the         *)
(* callback.                                                               *)
Reply ==
  /\ mpc = "saved"
  /\ IF streaming THEN UNCHANGED out ELSE PublishOwn("reply")
  /\ mpc' = "leaving"
  /\ UNCHANGED <<cur, runVars, eventChan, unheard, callbacks, loopVars, storeVars, ctx>>

(* Mutant: the callback goes at once, whatever events are left.            *)
UnregisterAtOnce ==
  /\ mpc = "leaving"
  /\ callbacks' = [callbacks EXCEPT ![agent] = @ \ {cur}]
  /\ historyLen' = 0 /\ allMsgs' = <<>> /\ resumed' = FALSE
  /\ last' = "prompt" /\ reading' = "none" /\ chunks' = 0
  /\ mpc' = "idle"
  /\ UNCHANGED <<cur, streaming, agent, sess, eventChan, unheard, loopVars, storeVars, out, ctx>>

(* Mutant: the callback stays.                                             *)
UnregisterForgotten ==
  /\ mpc = "leaving"
  /\ historyLen' = 0 /\ allMsgs' = <<>> /\ resumed' = FALSE
  /\ last' = "prompt" /\ reading' = "none" /\ chunks' = 0
  /\ mpc' = "idle"
  /\ UNCHANGED <<cur, streaming, agent, sess, eventChan, unheard, callbacks, loopVars, storeVars, out, ctx>>

(* Mutant: emit drops the event like any other when the channel is full.   *)
UnregisterDropped ==
  /\ mpc = "leaving"
  /\ Emit("Unregister")
  /\ historyLen' = 0 /\ allMsgs' = <<>> /\ resumed' = FALSE
  /\ last' = "prompt" /\ reading' = "none" /\ chunks' = 0
  /\ mpc' = "idle"
  /\ UNCHANGED <<cur, streaming, agent, sess, callbacks, loopVars, storeVars, out, ctx>>

(* The deferred UnregisterCallback is an event like the others, so that    *)
(* the callback sees the events before it; with a full channel it acts at  *)
(* once.                                                                   *)
UnregisterCallback ==
  /\ mpc = "leaving"
  /\ Emit("Unregister")
  /\ callbacks' = [callbacks EXCEPT ![agent] =
                     IF Len(eventChan[agent]) < EventCap THEN @ ELSE @ \ {cur}]
  /\ historyLen' = 0 /\ allMsgs' = <<>> /\ resumed' = FALSE
  /\ last' = "prompt" /\ reading' = "none" /\ chunks' = 0
  /\ mpc' = "idle"
  /\ UNCHANGED <<cur, streaming, agent, sess, loopVars, storeVars, out, ctx>>

-----------------------------------------------------------------------------
(* Mutant: the newest event first.                                         *)
TakeNewest(a) ==
  /\ a \in loops /\ hand[a] = NoEvent /\ eventChan[a] # <<>>
  /\ LET e == Last(eventChan[a]) IN
       IF e.type = "Unregister"
       THEN /\ callbacks' = [callbacks EXCEPT ![a] = @ \ {e.of}]
            /\ UNCHANGED <<hand, todo>>
       ELSE /\ todo' = [todo EXCEPT ![a] = callbacks[a]]
            /\ hand' = [hand EXCEPT ![a] = IF callbacks[a] = {} THEN NoEvent ELSE e]
            /\ UNCHANGED callbacks
  /\ eventChan' = [eventChan EXCEPT ![a] = Front(@)]
  /\ UNCHANGED <<mpc, cur, runVars, unheard, loops, firstStart, storeVars, out, ctx>>

(* eventLoop: take an event and the callbacks registered now ...           *)
TakeEvent(a) ==
  /\ a \in loops /\ hand[a] = NoEvent /\ eventChan[a] # <<>>
  /\ LET e == Head(eventChan[a]) IN
       IF e.type = "Unregister"
       THEN /\ callbacks' = [callbacks EXCEPT ![a] = @ \ {e.of}]
            /\ UNCHANGED <<hand, todo>>
       ELSE /\ todo' = [todo EXCEPT ![a] = callbacks[a]]
            /\ hand' = [hand EXCEPT ![a] = IF callbacks[a] = {} THEN NoEvent ELSE e]
            /\ UNCHANGED callbacks
  /\ eventChan' = [eventChan EXCEPT ![a] = Tail(@)]
  /\ UNCHANGED <<mpc, cur, runVars, unheard, loops, firstStart, storeVars, out, ctx>>

(* handleAgentEvent: what the callback of message n publishes for event e. *)
HandleAgentEvent(e, n) ==
  LET Say(kind) == Publish(n, kind, e.of, e.at) IN
  CASE e.type = "MessageStart" /\ n \in firstStart -> Say("start")
    [] e.type = "MessageUpdate" -> Say("chunk")
    [] e.type = "MessageEnd"    -> Say("final")
    [] OTHER -> UNCHANGED out

(* ... and call them one after the other.                                  *)
CallBack(a) ==
  \E n \in todo[a] :
    /\ HandleAgentEvent(hand[a], n)
    /\ firstStart' = IF hand[a].type = "MessageStart" THEN firstStart \ {n} ELSE firstStart
    /\ todo' = [todo EXCEPT ![a] = @ \ {n}]
    /\ hand' = [hand EXCEPT ![a] = IF todo[a] = {n} THEN NoEvent ELSE @]
    /\ UNCHANGED <<mpc, cur, runVars, eventChan, unheard, callbacks, loops, storeVars, ctx>>

-----------------------------------------------------------------------------
(* Manager.Stop: cancel, wait for processMessages, stop the event loops.   *)
Cancel ==
  /\ streaming \in Disturbed /\ ctx = "live"
  /\ ctx' = "cancelled"
  /\ UNCHANGED <<mpc, cur, runVars, eventChan, unheard, callbacks, loopVars, storeVars, out>>

StopAgents ==
  /\ ctx = "cancelled" /\ mpc = "exited"
  /\ ctx' = "stopped"
  /\ UNCHANGED <<mpc, cur, runVars, eventChan, unheard, callbacks, loopVars, storeVars, out>>

LoopExits(a) ==
  /\ ctx = "stopped" /\ a \in loops /\ hand[a] = NoEvent
  /\ loops' = loops \ {a}
  /\ UNCHANGED <<mpc, cur, runVars, eventChan, unheard, callbacks, hand, todo, firstStart,
                 storeVars, out, ctx>>

-----------------------------------------------------------------------------
RunStep ==
  \/ \E kind \in Outputs : NextOutput(kind)
  \/ ReadChunk \/ ReadFails \/ FinishOutput
  \/ RunEnds \/ RunFails \/ RunInterrupted \/ MaxIterations

ManagerStep ==
  \/ Poll \/ ConsumeCancelled \/ RunStep
  \/ ReplyInterrupt \/ ReplyError \/ SaveSession \/ Reply \/ UnregisterCallback

Inbound ==
  \/ \E s \in Sessions : RouteCommand(s)
  \/ RouteFails
  \/ \E a \in Agents, s \in Sessions : Prompt(a, s) \/ Resume(a, s)

LoopStep(a) == TakeEvent(a) \/ CallBack(a) \/ LoopExits(a)

Next ==
  \/ ManagerStep \/ Inbound
  \/ \E a \in Agents : LoopStep(a)
  \/ Cancel \/ StopAgents

Spec == Init /\ [][Next]_vars

(* Runs end (the model and the tools answer or fail), goroutines go on.    *)
FairSpec ==
  /\ Spec
  /\ WF_vars(ManagerStep)
  /\ \A a \in Agents : WF_vars(LoopStep(a))

-----------------------------------------------------------------------------
ManagerOK ==
  /\ streaming \in BOOLEAN
  /\ mpc \in {"idle", "consume", "next", "reading", "done", "failed", "interrupted",
              "saved", "leaving", "exited"}
  /\ cur \in 0..MaxRequests
  /\ mpc \notin {"idle", "consume", "exited"} => cur # 0
  /\ ctx \in {"live", "cancelled", "stopped"}

RunOK ==
  /\ agent \in Agents /\ sess \in Sessions /\ resumed \in BOOLEAN
  /\ last \in Outputs \cup {"prompt"} /\ reading \in Outputs \cup {"none"}
  /\ mpc = "reading" => reading # "none"
  /\ chunks \in 0..MaxChunks

MessagesOK ==
  /\ historyLen \in Nat /\ allMsgs \in Seq(Message)
  /\ mpc \in {"next", "reading"} => allMsgs # <<>>

ChannelsOK ==
  /\ eventChan \in [Agents -> Seq(Events)]
  /\ \A a \in Agents : Len(eventChan[a]) <= EventCap
  /\ unheard \subseteq Requests

LoopsOK ==
  /\ callbacks \in [Agents -> SUBSET Requests]
  /\ hand \in [Agents -> Events \cup {NoEvent}]
  /\ todo \in [Agents -> SUBSET Requests]
  /\ \A a \in Agents : hand[a] = NoEvent <=> todo[a] = {}
  /\ loops \subseteq Agents /\ firstStart \subseteq Requests

StoreOK ==
  /\ checkPoints \in [Agents -> [Sessions -> Seq(Message)]]
  /\ session \in [Sessions -> Seq(Message)]
  /\ out \in [Requests -> Seq(Published)]

TypeOK == ManagerOK /\ RunOK /\ MessagesOK /\ ChannelsOK /\ LoopsOK /\ StoreOK

(* UnregisterCallback is an event behind the run's own events              *)
(* (agent/agent.go:762): a callback never sees an event of a later run,    *)
(* and, however full the channel was, once the loop has caught up no       *)
(* callback of a handled message is left to be called for the messages     *)
(* that follow.                                                            *)
CallbacksEnd ==
  /\ \A n \in Requests : \A i \in 1..Len(out[n]) : out[n][i].of <= n
  /\ \A a \in Agents :
       mpc \in {"idle", "consume"} /\ eventChan[a] = <<>> => callbacks[a] = {}

(* What a callback publishes keeps the order the run emitted it in: a      *)
(* message streams and ends before the next one starts, and ends after its *)
(* chunks.                                                                 *)
EventsInOrder ==
  \A n \in Requests : \A i, j \in 1..Len(out[n]) :
    LET p == out[n][i]  q == out[n][j] IN
    /\ i < j /\ p.of = q.of
    /\ p.kind \in {"chunk", "final"} /\ q.kind \in {"chunk", "final"}
    => p.at < q.at \/ (p.at = q.at /\ p.kind = "chunk")

(* A save adds to the session exactly the run's messages it does not hold  *)
(* yet, which are its last ones, also those kept in a checkpoint across an *)
(* interrupt (agent/manager.go:825).                                       *)
SaveKeepsNew ==
  mpc = "done" /\ mpc' = "saved" =>
    \E n \in 0..Len(allMsgs) :
      /\ \A i \in 1..Len(allMsgs) : Contains(session[sess], allMsgs[i]) <=> i <= n
      /\ session'[sess] = session[sess] \o SubSeq(allMsgs, n + 1, Len(allMsgs))

(* And a run is given the end of the session: the last MaxHistory messages *)
(* at least, and a tool's result only with its call and all the results of *)
(* that (session/session.go:224).                                          *)
RunSeesWhole ==
  mpc = "consume" /\ mpc' = "next" /\ ~resumed' =>
    LET all == session[sess']
        history == Front(allMsgs')
        unseen == SubSeq(all, 1, Len(all) - Len(history))
    IN /\ all = unseen \o history
       /\ unseen # <<>> => Len(history) >= MaxHistory
       /\ \A i \in DOMAIN history, j \in DOMAIN unseen : ~Answers(history[i], unseen[j])

SessionKeepsNew == [][SaveKeepsNew /\ RunSeesWhole]_vars

(* What SessionKeepsNew depends on, see AgentLoopProofs: only one agent    *)
(* answers in a session, and in what an earlier process left, each result  *)
(* follows its call with at most other results in between.                 *)
SingleAgent == \A a, b \in Agents : a = b

Proper(msgs) ==
  /\ \A i \in 1..Len(msgs) :
       IF msgs[i].role = "tool" THEN Callers(msgs, i) # {} ELSE msgs[i].call = <<>>
  /\ \A j \in 1..Len(msgs), k \in 1..Len(msgs) :
       j < k => /\ msgs[j].by # msgs[k].by \/ msgs[j].at # msgs[k].at
                /\ Answers(msgs[k], msgs[j]) => \A i \in (j + 1)..k : msgs[i].role = "tool"

ProperStart == \A msgs \in Earlier : Proper(msgs) /\ \A i \in 1..Len(msgs) : msgs[i].by = 0

(* What a reply carries was produced for the message it replies to         *)
(* (agent/manager.go:52).                                                  *)
ReplyToOwnRun ==
  \A n \in Requests : \A i \in 1..Len(out[n]) :
    out[n][i].kind # "start" => out[n][i].of = n

(* Every run ends, and its caller gets a final message, whatever happens   *)
(* in it, unless the manager is stopped (agent/manager.go:790, 809, 840).  *)
(* A streaming run that succeeds leaves that to its MessageEnd event: the  *)
(* callback is there until the loop has come to it.  The exceptions are    *)
(* unheard: the answer after the iteration limit, which no event announces *)
(* and a streaming manager does not send, and an event channel so full     *)
(* that the end of the answer, or the place of the callback behind it, is  *)
(* dropped.                                                                *)
Replied(n) == \E i \in 1..Len(out[n]) : out[n][i].kind \in Finals

LeavesReplied ==
  mpc # "leaving" /\ mpc' = "leaving" =>
    Replied(cur)' \/ ctx # "live" \/ (streaming /\ mpc = "saved")

Answered ==
  /\ [][LeavesReplied]_vars
  /\ \A n \in Requests : mpc = "leaving" /\ cur = n ~> Replied(n) \/ ctx # "live" \/ n \in unheard
  /\ []<>(ctx # "live" \/ mpc \in {"idle", "consume", "leaving"})
=============================================================================
