----------------------------- MODULE AgentTools -----------------------------
(***************************************************************************)
(* The tools of an agent: the registry of src/agent/tools/register.go,     *)
(* what src/agent/agent.go puts into it for each type of agent, and the    *)
(* approval of calls (the registry's middleware and                        *)
(* src/agent/agentLoop.go).                                                *)
(*                                                                         *)
(* A tool is known by its name; the browser and the web tools stand for    *)
(* one name each.  An agent o has a type, sub-agents, whether there is a   *)
(* memory and a scheduler, the options of the tools, the MCP servers       *)
(* (enabled, reachable, and the names they offer), the allowed tools and   *)
(* the list for approval.                                                  *)
(***************************************************************************)
EXTENDS Integers, SequencesExt

CONSTANT FileTools \* the tools of the file system middleware: ls, read_file, execute, ...

(* A map with one more entry.                                              *)
Put(f, key, value) == [k \in {key} \cup DOMAIN f |-> IF k = key THEN value ELSE f[k]]

NewRegistry == [tools |-> << >>, approve |-> <<>>]

(* Mutant: the last tool of a name replaces the others.                    *)
RegisterLast(r, name, from, ask) ==
  [tools |-> Put(r.tools, name, from), approve |-> IF ask THEN Append(r.approve, name) ELSE r.approve]

(* The first tool of a name stays: another one is an error, which is a     *)
(* warning.                                                                *)
Register(r, name, from, ask) ==
  IF name \in DOMAIN r.tools THEN r
  ELSE [tools |-> Put(r.tools, name, from), approve |-> IF ask THEN Append(r.approve, name) ELSE r.approve]

SetAllowedTools(r, allowed) ==
  IF allowed = <<>> THEN r ELSE [r EXCEPT !.tools = Restrict(@, DOMAIN @ \cap ToSet(allowed))]

(* The list replaces what Register put there.                              *)
SetToolsApproval(r, list) == [r EXCEPT !.approve = list]

ApplyToolConfig(r, o) ==
  LET s == SetAllowedTools(r, o.allowed)
  IN IF o.approval = <<>> THEN s ELSE SetToolsApproval(s, o.approval)

BuildMemoriaTool(r, o) ==
  IF ~o.memoria THEN r
  ELSE Register(Register(r, "history_query", "memoria", FALSE), "knowledge_search", "memoria", FALSE)

(* LoadTools: a server that is disabled or cannot be reached is passed     *)
(* over.                                                                   *)
LoadTools(o) == FlattenSeq([i \in DOMAIN o.mcp |-> IF o.mcp[i].enabled /\ o.mcp[i].up THEN o.mcp[i].tools ELSE <<>>])
LoadMCPTools(r, o) == FoldLeft(LAMBDA s, name : Register(s, name, "mcp", FALSE), r, LoadTools(o))

RegisterBuiltinTools(r, o) ==
  LET Optional(s, name) == IF o[name] THEN Register(s, name, name, FALSE) ELSE s
  IN Register(Optional(Optional(Optional(r, "browser"), "web"), "scheduler"), "send_file", "send_file", TRUE)

(* The same steps, in this order, for all four types.                      *)
Registry(o) ==
  ApplyToolConfig(
    RegisterBuiltinTools(
      LoadMCPTools(BuildMemoriaTool(Register(NewRegistry, "memory", "memory", FALSE), o), o), o), o)

-----------------------------------------------------------------------------
(* The four constructors.  What an agent can call, the calls that its      *)
(* handlers stop, and the sub-agents it can give work to.                  *)
WithFiles(tools) == [f \in FileTools \cup DOMAIN tools |-> IF f \in FileTools THEN "files" ELSE tools[f]]
ChatModelAgent(o) == [tools |-> WithFiles(Registry(o).tools), asks |-> ToSet(Registry(o).approve), subs |-> <<>>]
DeepAgent(o) == [ChatModelAgent(o) EXCEPT !.subs = o.subs]

(* The executor gets the tools and no handlers.                            *)
PlanExecuteAgent(o) == [tools |-> Registry(o).tools, asks |-> {}, subs |-> <<>>]

(* The supervisor gets the handlers and no tools of the registry.          *)
SupervisorAgent(o) == [tools |-> WithFiles(<< >>), asks |-> ToSet(Registry(o).approve), subs |-> o.subs]

Types == {"chatmodel", "deep", "planexecute", "supervisor"}
NewAgent(o) ==
  CASE o.type = "chatmodel"   -> ChatModelAgent(o)
    [] o.type = "deep"        -> DeepAgent(o)
    [] o.type = "planexecute" -> PlanExecuteAgent(o)
    [] o.type = "supervisor"  -> SupervisorAgent(o)

-----------------------------------------------------------------------------
(* A message of the model with several calls.  A call is "ran", "refused", *)
(* or "asks" and has interrupted the run; said is the user's answer it was *)
(* given.                                                                  *)
WrapInvokableToolCall(ag, name) == [name |-> name, is |-> IF name \in ag.asks THEN "asks" ELSE "ran", said |-> "none"]
Prompted(ag, names) == [i \in DOMAIN names |-> WrapInvokableToolCall(ag, names[i])]
Asking(calls) == {i \in DOMAIN calls : calls[i].is = "asks"}

(* handleInterrupt: one check point of the session, written for every call *)
(* that asks; the last one remains.                                        *)
CheckPoint(calls) == CHOOSE i \in Asking(calls) : \A j \in Asking(calls) : j <= i

(* The converter of ApprovalResult.                                        *)
Approved(answer) == answer \in {"y", "yes", "agree"}

(* Mutant: the answer is for all calls that ask.                           *)
ResumeAll(calls, answer) ==
  [i \in DOMAIN calls |-> IF i \in Asking(calls)
                          THEN [calls[i] EXCEPT !.is = IF Approved(answer) THEN "ran" ELSE "refused",
                                                !.said = IF i = CheckPoint(calls) THEN answer ELSE "none"]
                          ELSE calls[i]]

(* Resume: the target of the check point runs or is refused, the others    *)
(* interrupt again.                                                        *)
Resume(calls, answer) ==
  IF Asking(calls) = {} THEN calls
  ELSE [calls EXCEPT ![CheckPoint(calls)].is = IF Approved(answer) THEN "ran" ELSE "refused",
                     ![CheckPoint(calls)].said = answer]

-----------------------------------------------------------------------------
(* Answered calls: every call that must be approved is asked for, runs     *)
(* only with a yes of its own, and none asks longer than there are calls.  *)
CallsRight(ag, names, answers) ==
  LET calls == FoldLeft(Resume, Prompted(ag, names), answers)
      yes == SelectSeq(calls, LAMBDA c : c.name \in ag.asks /\ c.is = "ran")
  IN /\ \A i \in DOMAIN calls :
          IF calls[i].name \in ag.asks THEN calls[i].is = "ran" => Approved(calls[i].said) ELSE calls[i].is = "ran"
     /\ Len(answers) >= Len(names) => Asking(calls) = {}
     /\ Len(yes) <= Len(SelectSeq(answers, Approved))

(* What the allowed tools and the approvals of a configuration mean for an *)
(* agent.                                                                  *)
Wanted(o) ==
  {"memory", "send_file"} \cup {n \in {"browser", "web", "scheduler"} : o[n]} \cup ToSet(LoadTools(o))
    \cup (IF o.memoria THEN {"history_query", "knowledge_search"} ELSE {})
Permitted(o) == IF o.allowed = <<>> THEN Wanted(o) ELSE Wanted(o) \cap ToSet(o.allowed)

ToolsRight(o) ==
  LET ag == NewAgent(o)
      mine == DOMAIN ag.tools \ FileTools
      own == IF o.memoria THEN {"memory", "history_query", "knowledge_search"} ELSE {"memory"}
  IN /\ mine = IF o.type = "supervisor" THEN {} ELSE Permitted(o) \ FileTools
     /\ \A n \in mine \cap own : ag.tools[n] # "mcp"
     /\ \A n \in mine \cap {"browser", "web", "scheduler", "send_file"} :
          (ag.tools[n] = "mcp") <=> n \in ToSet(LoadTools(o))
     /\ o.type # "planexecute" =>
          ag.asks = IF o.approval # <<>> THEN ToSet(o.approval)
                    ELSE IF "send_file" \in ToSet(LoadTools(o)) THEN {} ELSE {"send_file"}
     /\ ag.subs # <<>> => o.type \in {"deep", "supervisor"}
=============================================================================
