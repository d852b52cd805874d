--------------------------- MODULE GatewayConfig ---------------------------
(***************************************************************************)
(* What a gateway makes of its configuration: src/config/config.go, and    *)
(* the registrations of src/agent/manager.go, src/channel/manager.go and   *)
(* src/channel/wxcom/register.go.                                          *)
(*                                                                         *)
(* A configuration is a record.  providers and bases are functions on the  *)
(* names that are defined; what JSON leaves out is Blank, an empty         *)
(* sequence, or FALSE.  URLs go with their keys and are left out.          *)
(***************************************************************************)
EXTENDS AgentTools

CONSTANTS
  Blank,          \* a string that is not set, an option that is not there
  DefaultEmbedding, \* the model "text-embedding-3-small"
  DefaultRAG      \* the chunk size and the number of hits of resolveRAGConfig

Failed == Blank

(* GetAgent: the first of that name; Blank if there is none.               *)
GetAgent(config, name) ==
  LET named == SelectSeq(config.agents, LAMBDA a : a.name = name)
  IN IF named = <<>> THEN Blank ELSE Head(named)

Names(config) == [i \in DOMAIN config.agents |-> config.agents[i].name]
GetDefaultAgentName(config) == IF config.agents = <<>> THEN Blank ELSE Head(Names(config))

Or(x, default) == IF x = Blank THEN default ELSE x
Known(refs, config) == SelectSeq(refs, LAMBDA r : r \in DOMAIN config.bases)

(* The first of the bases an agent refers to that has the option.          *)
FromBases(agent, config, option) ==
  LET having == SelectSeq(Known(agent.refs, config), LAMBDA r : config.bases[r][option] # Blank)
  IN IF having = <<>> THEN Blank ELSE config.bases[Head(having)][option]

(* Mutant: the key that was given is overwritten by the provider's.        *)
OverrideLate(o, config, base) ==
  IF o = Blank THEN base
  ELSE [provider |-> Or(o.provider, base.provider), model |-> Or(o.model, base.model),
        key |-> IF o.provider \in DOMAIN config.providers THEN config.providers[o.provider].key
                ELSE Or(o.key, base.key)]

(* resolveEmbeddingConfig, resolveSummarizeModelConfig: an option replaces *)
(* what it names.  A provider that is not defined leaves the agent's key.  *)
Override(o, config, base) ==
  IF o = Blank THEN base
  ELSE [provider |-> Or(o.provider, base.provider), model |-> Or(o.model, base.model),
        key |-> Or(o.key, IF o.provider \in DOMAIN config.providers THEN config.providers[o.provider].key
                          ELSE base.key)]

ResolveEmbedding(agent, config, base) ==
  LET own == Or(agent.embedding, FromBases(agent, config, "embedding"))
      got == Override(own, config, [base EXCEPT !.model = Blank])
  IN [got EXCEPT !.model = Or(@, DefaultEmbedding)]

ResolveSummarize(agent, config, base) == Override(agent.summarize, config, base)

(* resolveFinalRAGConfig, resolveRAGConfig: options are not merged with    *)
(* those of the base; values that make no sense become the default's.      *)
ResolveRAG(agent, config) ==
  LET o == Or(Or(agent.rag, FromBases(agent, config, "rag")), DefaultRAG)
  IN [chunk |-> IF o.chunk <= 0 THEN DefaultRAG.chunk ELSE o.chunk,
      top |-> IF o.top <= 0 THEN DefaultRAG.top ELSE o.top]

(* mergeStringLists: the approvals of all agents, then the agent's own.    *)
MergeStringLists(list1, list2) ==
  FoldLeft(LAMBDA seen, x : IF x \in ToSet(seen) THEN seen ELSE Append(seen, x), <<>>, list1 \o list2)

Approvals(agent, config) ==
  IF config.approval = <<>> THEN agent.approval ELSE MergeStringLists(config.approval, agent.approval)

KnowledgePaths(agent, config) ==
  agent.paths \o FlattenSeq([i \in DOMAIN Known(agent.refs, config) |->
                               config.bases[Known(agent.refs, config)[i]].paths])

(* The tools: those of all agents, and the agent's list of allowed ones;   *)
(* its sub-agents and whether it wants a memory.                           *)
ResolveTools(agent, config) ==
  [type |-> Or(agent.type, "deep"), allowed |-> agent.allowed, approval |-> Approvals(agent, config),
   mcp |-> SelectSeq(config.mcp, LAMBDA server : server.enabled),
   browser |-> config.browser, web |-> config.web, scheduler |-> config.scheduler,
   subs |-> agent.subs, memoria |-> agent.memoria]

(* ResolveAgentConfig: Failed unless the agent, its workspace, its         *)
(* provider and a model are there.                                         *)
ResolveAgentConfig(config, name) ==
  LET agent == GetAgent(config, name)
      provider == Or(agent.provider, config.default)
      base == [provider |-> provider, key |-> config.providers[provider].key,
               model |-> Or(agent.model, config.providers[provider].model)]
  IN IF agent = Blank THEN Failed
     ELSE IF agent.workspace = Blank \/ provider \notin DOMAIN config.providers THEN Failed
     ELSE IF base.model = Blank THEN Failed
     ELSE [name |-> name, llm |-> base,
           embedding |-> ResolveEmbedding(agent, config, base),
           summarize |-> ResolveSummarize(agent, config, base),
           rag |-> ResolveRAG(agent, config), tools |-> ResolveTools(agent, config),
           paths |-> KnowledgePaths(agent, config)]

-----------------------------------------------------------------------------
(* topologicalSortAgents: Kahn's algorithm.  The agents that have sub as a *)
(* sub-agent, once for each time they name it.                             *)
Parents(config, sub) ==
  FlattenSeq([i \in DOMAIN config.agents |->
    LET a == GetAgent(config, Names(config)[i])
    IN [k \in DOMAIN SelectSeq(a.subs, LAMBDA s : s = sub) |-> a.name]])

InDegree(config) ==
  [n \in ToSet(Names(config)) |->
     FoldLeft(LAMBDA d, sub : d + Len(SelectSeq(Parents(config, sub), LAMBDA p : p = n)),
              0, SetToSeq(ToSet(Names(config))))]

(* Mutant: an agent is released by the first of its sub-agents.            *)
PopEarly(config, s) ==
  LET Release(t, p) ==
        IF t.degree[p] = 0 THEN t
        ELSE [t EXCEPT !.degree[p] = 0, !.queue = Append(@, p)]
  IN IF s.queue = <<>> THEN s
     ELSE FoldLeft(Release, [s EXCEPT !.queue = Tail(@), !.sorted = Append(@, Head(s.queue))],
                   Parents(config, Head(s.queue)))

(* An agent is created: those that waited for nothing else join the queue. *)
Pop(config, s) ==
  LET Release(t, p) ==
        LET left == t.degree[p] - 1
        IN [t EXCEPT !.degree[p] = left, !.queue = IF left = 0 THEN Append(@, p) ELSE @]
  IN IF s.queue = <<>> THEN s
     ELSE FoldLeft(Release, [s EXCEPT !.queue = Tail(@), !.sorted = Append(@, Head(s.queue))],
                   Parents(config, Head(s.queue)))

TopologicalSortAgents(config) ==
  LET start == [degree |-> InDegree(config), sorted |-> <<>>,
                queue |-> SelectSeq(Names(config), LAMBDA n : InDegree(config)[n] = 0)]
      done == FoldLeft(LAMBDA s, i : Pop(config, s), start, [i \in 1..2 * Len(config.agents) |-> i])
  IN IF Len(done.sorted) # Len(config.agents) THEN Failed ELSE done.sorted

(* A memory, when it is wanted and there is something to put into it: an   *)
(* embedding model always is.                                              *)
HasMemoria(resolved) == resolved.tools.memoria /\ (resolved.paths # <<>> \/ resolved.embedding.model # Blank)

(* RegisterAgentsFromConfig: the options of NewAgent by name, each with    *)
(* the sub-agents that were created before it; Failed when nothing is      *)
(* registered.                                                             *)
RegisterAgents(config) ==
  LET resolved == [n \in ToSet(Names(config)) |-> ResolveAgentConfig(config, n)]
      sorted == TopologicalSortAgents(config)
      Options(made, n) ==
        [resolved[n].tools EXCEPT !.subs = SelectSeq(@, LAMBDA s : s \in DOMAIN made),
                                  !.memoria = HasMemoria(resolved[n])]
      Created(made, n) ==
        Put(made, n, [opts |-> Options(made, n), is |-> resolved[n], default |-> n = GetDefaultAgentName(config)])
  IN IF config.agents = <<>> \/ Failed \in Range(resolved) THEN Failed
     ELSE IF sorted = Failed \/ \E n \in DOMAIN resolved : resolved[n].tools.type \notin Types THEN Failed
     ELSE FoldLeft(Created, << >>, sorted)

-----------------------------------------------------------------------------
(* The channels: CreateFromConfig of the one factory there is.  An account *)
(* that is enabled and lacks its credentials leaves no channel at all, and *)
(* then InitializeFromConfig does not come to the bindings.                *)
EnabledAccounts(config) == {a \in config.accounts : a.enabled}
ChannelsFail(config) == \E a \in EnabledAccounts(config) : ~a.complete
Registered(config) == IF ChannelsFail(config) THEN {} ELSE {a.name : a \in EnabledAccounts(config)}

(* Bind: the last binding of a session replaces the others, whatever their *)
(* priorities.                                                             *)
Bindings(config) ==
  IF ChannelsFail(config) THEN << >>
  ELSE FoldLeft(LAMBDA f, b : Put(f, b.key, b.target), << >>, config.bindings)

ResolveChannel(bound, origin) == IF origin \in DOMAIN bound THEN bound[origin] ELSE origin

(* validateConfig, of the configuration manager.                           *)
Valid(config) ==
  /\ config.default # Blank => config.default \in DOMAIN config.providers
  /\ \A i \in DOMAIN config.agents :
       LET a == config.agents[i]
       IN /\ a.name # Blank /\ a.workspace # Blank
          /\ a.provider # Blank => a.provider \in DOMAIN config.providers

-----------------------------------------------------------------------------
(* What a configuration means.  An agent can be made when its sub-agents   *)
(* can.                                                                    *)
Subs(config, n) == ToSet(GetAgent(config, n).subs) \cap ToSet(Names(config))
Below(config, n) ==
  FoldLeft(LAMBDA ns, i : ns \cup UNION {Subs(config, m) : m \in ns}, Subs(config, n), Names(config))
Circular(config) ==
  \E n \in ToSet(Names(config)) : n \in Below(config, n)

(* A call to a model carries the key it was given, or else that of the     *)
(* provider it is meant for; only a provider that is not defined gets that *)
(* of the agent.                                                           *)
KeyRight(config, o, got, agent) ==
  got.key = IF o # Blank /\ o.key # Blank THEN o.key
            ELSE IF got.provider \in DOMAIN config.providers THEN config.providers[got.provider].key
            ELSE agent.llm.key

AgentRight(config, agents, n) ==
  LET a == GetAgent(config, n)
  IN /\ ToSet(agents[n].opts.subs) = Subs(config, n)
     /\ agents[n].default = (n = Head(config.agents).name)
     /\ KeyRight(config, Blank, agents[n].is.llm, agents[n].is)
     /\ KeyRight(config, a.summarize, agents[n].is.summarize, agents[n].is)
     /\ KeyRight(config, Or(a.embedding, FromBases(a, config, "embedding")),
                 agents[n].is.embedding, agents[n].is)
     /\ ToSet(config.approval) \cup ToSet(a.approval) = ToSet(agents[n].opts.approval)
     /\ agents[n].is.rag.chunk > 0 /\ agents[n].is.rag.top > 0

ConfigRight(config) ==
  LET agents == RegisterAgents(config)
      usable == /\ config.agents # <<>>
                /\ \A n \in ToSet(Names(config)) :
                     ResolveAgentConfig(config, n) # Failed /\ Or(GetAgent(config, n).type, "deep") \in Types
  IN /\ (agents = Failed) <=> (~usable \/ Circular(config))
     /\ agents # Failed =>
          /\ DOMAIN agents = ToSet(Names(config))
          /\ \A n \in DOMAIN agents : AgentRight(config, agents, n)
=============================================================================
