-------------------------- MODULE RequestResponse --------------------------
(***************************************************************************)
(* Requests that a tool sends to a channel over the message bus, and their *)
(* answers: send_file (agent/tools/send_file_tool.go) registers a request  *)
(* with the RequestResponseManager (bus/request_response.go), publishes it *)
(* and waits; the channel manager's dispatcher (channel/manager.go) has    *)
(* the channel handle it and publishes the response; the bus's fanout      *)
(* gives the response to HandleResponse, which finds the waiting channel.  *)
(*                                                                         *)
(* The map of requests is under a mutex, so each critical section is one   *)
(* step.  HandleResponse leaves the mutex between its lookup and its send. *)
(* A request's id is fresh (a uuid), so a request is named by its caller.  *)
(***************************************************************************)
EXTENDS Naturals, Sequences

CONSTANTS
  Requesters,  \* one call of the tool each
  Sweeps,      \* TRUE: someone calls CleanupStaleRequests
  NoCall,
  SubBuf       \* capacity of the dispatcher's subscription (100)

ASSUME RequestAssumption ==
  /\ NoCall \notin Requesters
  /\ Sweeps \in BOOLEAN
  /\ SubBuf \in Nat \ {0}

VARIABLES
  pc,         \* where each call is
  result,     \* what WaitForResponse (or the failed publish) gave the call
  answer,     \* the response it returned, named by the request it answers
  registered, \* the keys of r.requests
  chan,       \* "none", "open" or "closed": each request's response channel
  buf,        \* the response in it, NoCall when empty
  expired,    \* calls whose 30 s timer has fired
  cancelled,  \* calls whose context is done
  outQ,       \* the outbound queue: requests and responses
  fan,        \* the response HandleResponse is about to send, or NoCall
  target,     \* the request whose channel it found
  sub,        \* requests buffered for the dispatcher
  serving,    \* the request the dispatcher is handling, or NoCall
  panicked    \* "no", or what hit a closed channel: a "send" or a "close"

callVars == <<pc, result, answer, expired, cancelled>>
mapVars  == <<registered, chan, buf>>
wireVars == <<outQ, fan, target, sub, serving>>
callsVars == <<callVars, mapVars, wireVars, panicked>>

Message == [kind : {"request", "response"}, id : Requesters]

GoTo(r, l) == pc' = [pc EXCEPT ![r] = l]

CallsInit ==
  /\ pc = [r \in Requesters |-> "idle"] /\ result = [r \in Requesters |-> "none"]
  /\ answer = [r \in Requesters |-> NoCall]
  /\ expired = {} /\ cancelled = {}
  /\ registered = {} /\ chan = [r \in Requesters |-> "none"]
  /\ buf = [r \in Requesters |-> NoCall]
  /\ outQ = <<>> /\ fan = NoCall /\ target = NoCall /\ sub = <<>> /\ serving = NoCall
  /\ panicked = "no"

-----------------------------------------------------------------------------
CreateRequest(r) ==
  /\ pc[r] = "idle"
  /\ registered' = registered \cup {r}
  /\ chan' = [chan EXCEPT ![r] = "open"]
  /\ GoTo(r, "created")
  /\ UNCHANGED <<result, answer, expired, cancelled, buf, wireVars, panicked>>

(* The tool publishes the request; when that fails (bus closed, context    *)
(* done) it returns at once and leaves its entry in the map.               *)
PublishRequest(r) ==
  /\ pc[r] = "created"
  /\ \/ /\ outQ' = Append(outQ, [kind |-> "request", id |-> r])
        /\ GoTo(r, "waiting")
        /\ UNCHANGED result
     \/ /\ result' = [result EXCEPT ![r] = "unsent"]
        /\ GoTo(r, "done")
        /\ UNCHANGED outQ
  /\ UNCHANGED <<answer, expired, cancelled, mapVars, fan, target, sub, serving, panicked>>

(* WaitForResponse: a response, or the zero value of a closed channel ...  *)
TakeResponse(r) ==
  /\ pc[r] = "waiting"
  /\ buf[r] # NoCall \/ chan[r] = "closed"
  /\ answer' = [answer EXCEPT ![r] = buf[r]]
  /\ result' = [result EXCEPT ![r] = IF buf[r] # NoCall THEN "ok" ELSE "nil"]
  /\ buf' = [buf EXCEPT ![r] = NoCall]
  /\ GoTo(r, "leaving")
  /\ UNCHANGED <<expired, cancelled, registered, chan, wireVars, panicked>>

(* Mutant: no timer, only the caller's context.                            *)
TakeNoTimeout(r) == FALSE /\ UNCHANGED callsVars

(* ... or the timer: DeadlineExceeded; timeoutCtx is done as soon as its   *)
(* parent is, so this arm is also ready after a cancellation ...           *)
TakeTimeout(r) ==
  /\ pc[r] = "waiting" /\ r \in expired \cup cancelled
  /\ result' = [result EXCEPT ![r] = "deadline"]
  /\ GoTo(r, "leaving")
  /\ UNCHANGED <<answer, expired, cancelled, mapVars, wireVars, panicked>>

(* ... or the caller's context: ctx.Err().                                 *)
TakeCancel(r) ==
  /\ pc[r] = "waiting" /\ r \in cancelled
  /\ result' = [result EXCEPT ![r] = "cancelled"]
  /\ GoTo(r, "leaving")
  /\ UNCHANGED <<answer, expired, cancelled, mapVars, wireVars, panicked>>

(* Mutant: the entry stays in the map.                                     *)
DropKeepsEntry(S) ==
  /\ panicked' = IF \E r \in S : chan[r] = "closed" THEN "close" ELSE panicked
  /\ chan' = [r \in Requesters |-> IF r \in S THEN "closed" ELSE chan[r]]
  /\ UNCHANGED registered

(* close(req.responseChan) and delete, for the given entries of the map.   *)
Drop(S) ==
  /\ panicked' = IF \E r \in S : chan[r] = "closed" THEN "close" ELSE panicked
  /\ chan' = [r \in Requesters |-> IF r \in S THEN "closed" ELSE chan[r]]
  /\ registered' = registered \ S

(* The deferred cleanup, which asks whether the entry is still there.      *)
Leave(r) ==
  /\ pc[r] = "leaving"
  /\ Drop({r} \cap registered)
  /\ GoTo(r, "done")
  /\ UNCHANGED <<result, answer, expired, cancelled, buf, wireVars>>

(* The timer starts with WaitForResponse; contexts end when they like.     *)
Expire(r) ==
  /\ pc[r] = "waiting" /\ r \notin expired
  /\ expired' = expired \cup {r}
  /\ UNCHANGED <<pc, result, answer, cancelled, mapVars, wireVars, panicked>>

Cancel(r) ==
  /\ r \notin cancelled
  /\ cancelled' = cancelled \cup {r}
  /\ UNCHANGED <<pc, result, answer, expired, mapVars, wireVars, panicked>>

(* Any entries may be old enough: their age counts from CreateRequest.     *)
CleanupStaleRequests ==
  /\ Sweeps
  /\ \E S \in SUBSET registered \ {{}} : Drop(S)
  /\ UNCHANGED <<callVars, buf, wireVars>>

-----------------------------------------------------------------------------
(* fanoutMessages on a request: a copy for the dispatcher unless its       *)
(* buffer is full.                                                         *)
FanRequest ==
  /\ fan = NoCall /\ outQ # <<>> /\ Head(outQ).kind = "request"
  /\ \/ Len(sub) < SubBuf /\ sub' = Append(sub, Head(outQ).id)
     \/ Len(sub) = SubBuf /\ UNCHANGED sub
  /\ outQ' = Tail(outQ)
  /\ UNCHANGED <<callVars, mapVars, fan, target, serving, panicked>>

(* Mutant: any pending request will do.                                    *)
HandleAnyResponse ==
  /\ fan = NoCall /\ outQ # <<>> /\ Head(outQ).kind = "response"
  /\ \E r \in registered : fan' = Head(outQ).id /\ target' = r
  /\ outQ' = Tail(outQ)
  /\ UNCHANGED <<callVars, mapVars, sub, serving, panicked>>

(* HandleResponse: look the id up and leave the mutex.  An unknown id      *)
(* gives false: the response is broadcast, and every dispatcher skips it.  *)
HandleResponse ==
  /\ fan = NoCall /\ outQ # <<>> /\ Head(outQ).kind = "response"
  /\ LET found == {Head(outQ).id} \cap registered IN
       \/ found = {} /\ UNCHANGED <<fan, target>>
       \/ \E r \in found : fan' = Head(outQ).id /\ target' = r
  /\ outQ' = Tail(outQ)
  /\ UNCHANGED <<callVars, mapVars, sub, serving, panicked>>

(* The non-blocking send.                                                  *)
HandleSend ==
  /\ fan # NoCall
  /\ \/ /\ chan[target] = "closed"
        /\ panicked' = "send"
        /\ UNCHANGED buf
     \/ /\ chan[target] # "closed"
        /\ buf' = [buf EXCEPT ![target] = IF @ = NoCall THEN fan ELSE @]
        /\ UNCHANGED panicked
  /\ fan' = NoCall /\ target' = NoCall
  /\ UNCHANGED <<callVars, registered, chan, outQ, sub, serving>>

-----------------------------------------------------------------------------
(* dispatchOutbound hands a request to handleRequest ...                   *)
Dispatch ==
  /\ serving = NoCall /\ sub # <<>>
  /\ serving' = Head(sub)
  /\ sub' = Tail(sub)
  /\ UNCHANGED <<callVars, mapVars, outQ, fan, target, panicked>>

(* ... which publishes the channel's response or an error response, or     *)
(* nothing when the channel does not handle the type or the bus refuses.   *)
Respond ==
  /\ serving # NoCall
  /\ \/ outQ' = Append(outQ, [kind |-> "response", id |-> serving])
     \/ UNCHANGED outQ
  /\ serving' = NoCall
  /\ UNCHANGED <<callVars, mapVars, fan, target, sub, panicked>>

-----------------------------------------------------------------------------
RequesterStep(r) ==
  \/ CreateRequest(r) \/ PublishRequest(r)
  \/ TakeResponse(r) \/ TakeTimeout(r) \/ TakeCancel(r)
  \/ Leave(r) \/ Expire(r) \/ Cancel(r)

CallsNext ==
  \/ \E r \in Requesters : RequesterStep(r)
  \/ CleanupStaleRequests
  \/ FanRequest \/ HandleResponse \/ HandleSend
  \/ Dispatch \/ Respond

CallsSpec == CallsInit /\ [][CallsNext]_callsVars

(* Timers fire, and a call that can go on does.  Channels may take for     *)
(* ever to handle a request, so nothing is assumed of the dispatcher.      *)
CallsFairness ==
  \A r \in Requesters :
    /\ WF_callsVars(Expire(r))
    /\ WF_callsVars(TakeResponse(r) \/ TakeTimeout(r) \/ TakeCancel(r))
    /\ WF_callsVars(Leave(r))

CallsFairSpec == CallsSpec /\ CallsFairness

-----------------------------------------------------------------------------
CallsTypeOK ==
  /\ pc \in [Requesters -> {"idle", "created", "waiting", "leaving", "done"}]
  /\ result \in [Requesters ->
       {"none", "unsent", "ok", "nil", "deadline", "cancelled"}]
  /\ answer \in [Requesters -> Requesters \cup {NoCall}]
  /\ expired \subseteq Requesters /\ cancelled \subseteq Requesters
  /\ registered \subseteq Requesters
  /\ chan \in [Requesters -> {"none", "open", "closed"}]
  /\ buf \in [Requesters -> Requesters \cup {NoCall}]
  /\ outQ \in Seq(Message) /\ sub \in Seq(Requesters)
  /\ fan \in Requesters \cup {NoCall} /\ target \in Requesters \cup {NoCall}
  /\ serving \in Requesters \cup {NoCall}
  /\ panicked \in {"no", "send", "close"}

(* The map owns the channels: a response channel is open exactly while its *)
(* entry exists, whoever removes it, so WaitForResponse's cleanup and      *)
(* CleanupStaleRequests never close one twice.                             *)
MapOwnsChannel ==
  /\ \A r \in Requesters : r \in registered <=> chan[r] = "open"
  /\ panicked # "close"

(* A call that got a response got the one that answers it, among all the   *)
(* calls in flight (HandleResponse matches by ResponseID).                 *)
OwnAnswer ==
  \A r \in Requesters : result[r] = "ok" => answer[r] = r

(* HandleResponse never sends on a channel its caller has closed.          *)
NoSendOnClosed == panicked # "send"

(* A waiting call returns even if its request or response is lost.         *)
RequestReturns ==
  \A r \in Requesters : pc[r] = "waiting" ~> pc[r] = "done"
=============================================================================
