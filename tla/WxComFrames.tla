---------------------------- MODULE WxComFrames ----------------------------
(***************************************************************************)
(* What is said to a WeCom channel and what it says: src/channel/wxcom/    *)
(* handler.go and wxcom.go, and the messages with which                    *)
(* src/agent/manager.go answers.                                           *)
(*                                                                         *)
(* A frame has the request id of its headers, which all callbacks have,    *)
(* and the parts of its body, None where there is no such part: msgtype,   *)
(* event, chat (the chatid of the event, if there is one, or else of the   *)
(* body), user (in the event), text (the content), and url (with what the  *)
(* file behind it becomes: the text of a document, or None if it cannot be *)
(* loaded).                                                                *)
(***************************************************************************)
EXTENDS Integers, SequencesExt

CONSTANT None   \* an empty string, a key that is not there

Published == {"enter_chat", "template_card_event", "feedback_event"}

(* Of a mixed message only the first text, of a picture or a file where it *)
(* is.                                                                     *)
ParseInboundMessage(f) ==
  IF f.msgtype = None THEN None
  ELSE [type |-> f.msgtype, chat |-> f.chat, user |-> IF f.event = None THEN None ELSE f.user,
        text |-> IF f.msgtype \in {"text", "mixed", "voice"} THEN f.text ELSE None,
        url |-> IF f.msgtype \in {"image", "file"} THEN f.url ELSE None]

ConvertToInbound(msg, req) ==
  [id |-> req, chat |-> msg.chat, sender |-> msg.user, text |-> msg.text,
   media |-> IF msg.url = None THEN None ELSE IF msg.type = "image" THEN "image" ELSE "document",
   meta |-> [req |-> req, event |-> None]]

(* A document that can be loaded becomes text; what cannot be loaded       *)
(* stays.                                                                  *)
ProcessMedia(in, file) ==
  IF in.media = "document" /\ file # None THEN [in EXCEPT !.text = file, !.media = None] ELSE in

HandleMessage(f) ==
  LET msg == ParseInboundMessage(f)
  IN IF msg = None THEN None ELSE ProcessMedia(ConvertToInbound(msg, f.req), f.file)

ParseEvent(f) == IF f.event = None THEN None ELSE [type |-> f.event, user |-> f.user, chat |-> f.chat]

(* Three types of events are messages to the agent.  Who enters a chat has *)
(* one of his own.                                                         *)
HandleEventFrame(f) ==
  LET event == ParseEvent(f)
  IN IF event = None THEN None
     ELSE IF event.type \notin Published THEN None
     ELSE [id |-> f.req, chat |-> IF event.type = "enter_chat" THEN event.user ELSE event.chat,
           sender |-> event.user, text |-> event.type, media |-> None, meta |-> [req |-> f.req, event |-> event.type]]

(* handleFrame: by the command of the frame.                               *)
Inbound(f) ==
  CASE f.cmd = "aibot_msg_callback" -> HandleMessage(f) [] f.cmd = "aibot_event_callback" -> HandleEventFrame(f)

-----------------------------------------------------------------------------
(* The outbound messages of RouteInbound, handleInboundMessage and         *)
(* handleAgentEvent, by how the run goes: one that streams, one that does  *)
(* not, an empty one, an error, an interrupt, a command.  chunks: how much *)
(* was said when a chunk is sent.  announced: an event says that the run's *)
(* answer is there, and finds the callback; none does at the iteration     *)
(* limit, or when the channel of events is full (see AgentLoop).           *)
NoMeta == [req |-> None, event |-> None]
Message(in, stream, final, text, meta) ==
  [chat |-> in.chat, stream |-> stream, final |-> final, text |-> text, think |-> None, reply |-> in.id, meta |-> meta]

PublishStreamOutbound(in, chunk) == Message(in, TRUE, FALSE, chunk, in.meta)
PublishFinalOutbound(in, text, think) == [Message(in, TRUE, TRUE, text, in.meta) EXCEPT !.think = think]

(* What the event loop publishes: chunks of a run that streams, also of    *)
(* one that breaks off, and the final of an announced answer, whether it   *)
(* streams or not.                                                         *)
Streamed(in, how, chunks, announced, text, think) ==
  (IF how \in {"stream", "error", "interrupt"}
   THEN [i \in DOMAIN chunks |-> PublishStreamOutbound(in, chunks[i])] ELSE <<>>)
  \o (IF how \in {"stream", "whole"} /\ announced THEN <<PublishFinalOutbound(in, text, think)>> ELSE <<>>)

(* What the manager publishes, if the run does not stream.                 *)
OwnReply(in, how, text, think) ==
  CASE how = "whole" -> [Message(in, FALSE, TRUE, text, in.meta) EXCEPT !.think = think]
    [] how = "command" -> Message(in, FALSE, TRUE, text, in.meta)
    [] how = "empty" -> Message(in, FALSE, TRUE, None, in.meta)
    [] how = "interrupt" -> Message(in, FALSE, TRUE, text, NoMeta)
    [] how = "error" -> Message(in, FALSE, TRUE, None, NoMeta)

(* The two do not wait for each other.                                     *)
Answer(in, how, chunks, announced, text, think) ==
  LET events == Streamed(in, how, chunks, announced, text, think)
  IN IF how = "stream" THEN {events}
     ELSE {InsertAt(events, i, OwnReply(in, how, text, think)) : i \in 1..(Len(events) + 1)}

-----------------------------------------------------------------------------
(* The frames a message is sent with.  A request id of None is made up     *)
(* anew for each frame.  to is the chat of a body that is sent unasked;    *)
(* kind is the body.                                                       *)
Frame(req, cmd, kind, finish, text, to) ==
  [req |-> req, cmd |-> cmd, kind |-> kind, finish |-> finish, text |-> text, to |-> to]

RequestId(msg) == IF msg.meta.req # None THEN msg.meta.req ELSE msg.reply

(* sendEventReply, ReplyWelcome, UpdateTemplateCard.                       *)
SendEventReply(msg) ==
  CASE msg.meta.event = "enter_chat" ->
         Frame(RequestId(msg), "aibot_respond_welcome_msg", "text", TRUE, IF msg.text = None THEN <<"hello">> ELSE msg.text, None)
    [] msg.meta.event = "template_card_event" ->
         Frame(RequestId(msg), "aibot_respond_update_msg", "card", TRUE, msg.text, None)
    [] msg.meta.event = "feedback_event" ->
         Frame(RequestId(msg), "aibot_respond_welcome_msg", "text", TRUE, msg.text, None)

(* What the model thought goes before what it said; chunks and events      *)
(* leave it out.                                                           *)
ConvertOutboundToReply(msg) == IF msg.think = None THEN msg.text ELSE msg.think \o msg.text

(* Send: whole messages and the last one of a stream.                      *)
Send(msg) ==
  IF msg.meta.event # None THEN SendEventReply(msg)
  ELSE Frame(RequestId(msg), "aibot_respond_msg", "stream", TRUE, ConvertOutboundToReply(msg),
             IF msg.meta = NoMeta THEN msg.chat ELSE None)

(* SendStream: dispatchOutbound sends only messages with it that are not   *)
(* final, so that its branch for events is not taken.                      *)
SendStream(msg) == Frame(RequestId(msg), "aibot_respond_msg", "stream", FALSE, msg.text, None)

(* Mutant: the last message of a stream goes the way of the others.        *)
SentAsStream(out) == [i \in DOMAIN out |-> IF out[i].stream THEN SendStream(out[i]) ELSE Send(out[i])]

Sent(out) == [i \in DOMAIN out |-> IF out[i].stream /\ ~out[i].final THEN SendStream(out[i]) ELSE Send(out[i])]

-----------------------------------------------------------------------------
(* The frame that finishes an answer to f: it has the text, and an event   *)
(* is finished with the command it must be answered with, a message with   *)
(* that for messages.  The messages without metadata are an exception:     *)
(* interrupts and errors answer an event like a message, addressed to its  *)
(* chat, and an error has no text.                                         *)
Ways == {"stream", "whole", "empty", "error", "interrupt", "command"}
CommandOf(f, how) ==
  IF f.cmd = "aibot_msg_callback" \/ how \in {"interrupt", "error"} THEN "aibot_respond_msg"
  ELSE IF f.event = "template_card_event" THEN "aibot_respond_update_msg" ELSE "aibot_respond_welcome_msg"

Finishes(frame, f, how, text, think) ==
  /\ frame.cmd = CommandOf(f, how)
  /\ frame.to = IF how \in {"interrupt", "error"} THEN Inbound(f).chat ELSE None
  /\ CASE how = "error" -> frame.text = None
       [] how = "empty" -> frame.text \in {None, <<"hello">>}
       [] OTHER -> frame.text = text \/ (think # None /\ frame.text = think \o text)

(* An answer to a frame: all under its request id; every chunk as a part   *)
(* of a stream that goes on; an end, unless a stream's is not announced;   *)
(* and no end but that one, which is the last frame unless the run breaks  *)
(* off with chunks under way.  The exception is a run that does not stream *)
(* and is announced: its answer is sent twice, and both frames end it.     *)
AnswerRight(f, how, chunks, announced, text, think) ==
  Inbound(f) # None =>
    \A out \in Answer(Inbound(f), how, chunks, announced, text, think) :
      LET sent == Sent(out)
          ends == {i \in DOMAIN sent : sent[i].finish}
      IN /\ \A i \in DOMAIN sent : sent[i].req = f.req
         /\ \A i \in ends : Finishes(sent[i], f, how, text, think)
         /\ \A i \in DOMAIN sent \ ends :
              \E j \in DOMAIN chunks : sent[i] = Frame(f.req, "aibot_respond_msg", "stream", FALSE, chunks[j], None)
         /\ ends # {} <=> (how # "stream" \/ announced)
         /\ \A i, j \in ends : sent[i] = sent[j] /\ (i = j \/ (how = "whole" /\ announced))
         /\ how \notin {"error", "interrupt"} => ends = {} \/ Len(sent) \in ends
=============================================================================
