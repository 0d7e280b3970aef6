------------------------------ MODULE Workspace ------------------------------
(***************************************************************************)
(* The shared workspace of the agents: registry, context and event bus,    *)
(* with the listeners SwarmServer::start registers on the stores           *)
(* (mcp/server.cpp).  A worker thread runs one tool at a time: it makes    *)
(* its change under the store's lock and then emits the event outside of   *)
(* it.  The prune thread may have several agents to announce.              *)
(*                                                                         *)
(* MaxChanges bounds the announced changes of the workers; the prune       *)
(* thread can only undo registrations.                                     *)
(***************************************************************************)
EXTENDS AgentRegistry, ContextStore, EventBus

CONSTANTS
    Pruner,         \* the prune thread; the other threads are workers
    MaxChanges,
    NoEntry         \* the event is not about a context entry

ASSUME WorkspaceAssumption == Pruner \in Threads /\ MaxChanges \in Nat

VARIABLE changes    \* announced changes so far, the name of the last value

workspaceVars == <<now, agents, reported, store, handlers, joined, due,
                   emission, emitted, heard, log, changes>>

Workers == Threads \ {Pruner}

AgentEvents == {"agent.registered", "agent.updated", "agent.deregistered",
                "agent.pruned", "agent.role_changed"}
ContextEvents == {"context.created", "context.updated", "context.merged"}

AgentEvent(type, a) == [type |-> type, about |-> a, entry |-> NoEntry]

WorkspaceInit ==
    /\ ClockInit
    /\ RegistryInit
    /\ StoreInit
    /\ BusInit
    /\ changes = 0

-----------------------------------------------------------------------------
Counts == changes < MaxChanges /\ changes' = changes + 1

AgentChange(t, a) ==
    \/ RegisterAgent(a) /\ Announce(t, <<AgentEvent("agent.registered", a)>>)
    \/ UpdateAgent(a) /\ Announce(t, <<AgentEvent("agent.updated", a)>>)
    \/ DeregisterAgent(a) /\ Announce(t, <<AgentEvent("agent.deregistered", a)>>)
    \/ SetAgentRole(a) /\ Announce(t, <<AgentEvent("agent.role_changed", a)>>)

AgentTool(t) ==
    /\ Silent(t)
    /\ Counts
    /\ \E a \in Agents : AgentChange(t, a)
    /\ UNCHANGED <<now, store>>

(* The heartbeat tool; heartbeats that come in over MQTT are in Presence.  *)
HeartbeatTool(t) ==
    /\ Silent(t)
    /\ \E a \in Agents : Heartbeat(a)
    /\ UNCHANGED <<now, store, busVars, changes>>

ContextEvent(k, type) ==
    [type |-> type, about |-> k, entry |-> Written(k, changes + 1)]

ContextTool(t) ==
    /\ Silent(t)
    /\ Counts
    /\ \E k \in Keys :
          /\ Write(k, changes + 1)
          /\ \E type \in ContextEvents :
                /\ (type = "context.created") = (k \notin StoredKeys)
                /\ Announce(t, <<ContextEvent(k, type)>>)
    /\ UNCHANGED <<now, registryVars>>

(* event_publish, or an event an MQTT bridge passes on: a type of the       *)
(* sender's choice, "*" included, for which wildcard handlers are called    *)
(* twice.                                                                   *)
PublishEvent(t) ==
    /\ Silent(t)
    /\ Counts
    /\ \E type \in Types :
          Announce(t, <<[type |-> type, about |-> NoEntry, entry |-> NoEntry]>>)
    /\ UNCHANGED <<now, registryVars, store>>

(* One round of prune_loop; the map's order is any. *)
Prune ==
    /\ Silent(Pruner)
    /\ Stale # {}
    /\ PruneStale
    /\ \E order \in SetToSeqs(Stale) :
          Announce(Pruner, [i \in DOMAIN order |-> AgentEvent("agent.pruned", order[i])])
    /\ UNCHANGED <<now, store, changes>>

Emits(t) == EmitStep(t) /\ UNCHANGED <<now, registryVars, store, changes>>

Subscribing == Subscription /\ UNCHANGED <<now, registryVars, store, changes>>

Tick == Passes /\ UNCHANGED <<registryVars, store, busVars, changes>>

WorkspaceNext ==
    \/ \E t \in Workers :
          AgentTool(t) \/ HeartbeatTool(t) \/ ContextTool(t) \/ PublishEvent(t)
    \/ \E t \in Threads : Emits(t)
    \/ Prune
    \/ Subscribing
    \/ Tick

WorkspaceSpec == WorkspaceInit /\ [][WorkspaceNext]_workspaceVars

(* The prune thread runs in a loop until the server stops. *)
FairWorkspaceSpec ==
    /\ WorkspaceSpec
    /\ WF_workspaceVars(Prune)
    /\ WF_workspaceVars(Emits(Pruner))

-----------------------------------------------------------------------------
Entry == [value : 1..MaxChanges, version : 1..MaxChanges]

Event == [type : AgentEvents \cup ContextEvents \cup Types,
          about : Agents \cup Keys \cup {NoEntry},
          entry : {NoEntry} \cup Entry]

ASSUME NoEmissionAssumption ==
    NoEmission \notin [id : Nat, event : Event, calls : Seq(Handlers)]

WorkspaceTypeOK ==
    /\ now \in 0..MaxTime
    /\ RegistryTypeOK
    /\ StoreTypeOK
    /\ changes \in 0..MaxChanges
    /\ DOMAIN joined \subseteq Handlers
    /\ handlers \in [Types -> Seq(DOMAIN joined)]
    /\ due \in [Threads -> Seq(Event)]
    /\ \A t \in Threads : emission[t] # NoEmission =>
          emission[t] \in [id : 1..emitted, event : Event, calls : Seq(Handlers)]
    /\ heard \in [Handlers -> SUBSET (1..emitted)]
    /\ log \in Seq([id : 1..emitted, event : Event]) /\ Len(log) <= MaxLog

(* Every event in the log or still to come, and every entry of a key that   *)
(* somebody can see: stored, or in one of them.                             *)
EventsInLog == {log[i].event : i \in DOMAIN log}
EventsDue == UNION {ToSet(due[t]) : t \in Threads}
EventsUnderWay == {emission[t].event : t \in {u \in Threads : emission[u] # NoEmission}}
Events == EventsInLog \cup EventsDue \cup EventsUnderWay

Seen(k) ==
    {e.entry : e \in {f \in Events : f.about = k /\ f.entry # NoEntry}}
        \cup {store[x] : x \in {k} \cap StoredKeys}

(* Events of concurrent writers can be logged in another order than they   *)
(* wrote.  The version tells which is newer: of everything seen of a key,  *)
(* what was written later has the higher version, and the store's is the   *)
(* highest.                                                                *)
VersionsOrderWrites ==
    \A k \in Keys : \A d, e \in Seen(k) :
        /\ d.value < e.value <=> d.version < e.version
        /\ k \in StoredKeys /\ d.version <= store[k].version
=============================================================================
