---------------------------- MODULE AgentRegistry ----------------------------
(***************************************************************************)
(* AgentRegistry (workspace/agent_registry.cpp): the agents that announced *)
(* themselves, behind one shared_mutex.  An agent is kept while it reports *)
(* at least every Timeout seconds; the prune thread drops the others.      *)
(*                                                                         *)
(* An entry is the time of its last report.  Status, role, model and the   *)
(* rest guard nothing here: they are what the listings show.  Who may call *)
(* an operation depends on the caller's token alone, and a denied call     *)
(* changes nothing, so callers are left out too.  The listener's calls,    *)
(* made after the lock is released, are in Workspace.                      *)
(***************************************************************************)
EXTENDS Clock, FiniteSets, Functions

CONSTANTS
    Agents,     \* agent ids
    Timeout     \* heartbeat_timeout in seconds

ASSUME TimeoutAssumption == Timeout \in Nat \ {0}
ASSUME AgentsAssumption == IsFiniteSet(Agents)

VARIABLES
    agents,     \* agents_: for every registered agent its last_heartbeat
    reported    \* history: the last report the registry accepted from an
                \* agent that was not deregistered since

registryVars == <<agents, reported>>

Registered == DOMAIN agents

NoAgents == [a \in {} |-> 0]

RegistryInit == agents = NoAgents /\ reported = NoAgents

RegistryTypeOK ==
    /\ Registered \subseteq Agents
    /\ agents \in [Registered -> 0..MaxTime]
    /\ DOMAIN reported \subseteq Agents
    /\ reported \in [DOMAIN reported -> 0..MaxTime]

-----------------------------------------------------------------------------
(* f with the value v at a, which f need not have been defined at. *)
Put(f, a, v) == [x \in DOMAIN f \cup {a} |-> IF x = a THEN v ELSE f[x]]

Without(f, S) == Restrict(f, DOMAIN f \ S)

(* A report that is accepted and not noted down. *)
ReportForgotten(a) ==
    /\ agents' = Put(agents, a, IF a \in Registered THEN agents[a] ELSE now)
    /\ reported' = Put(reported, a, now)
Report(a) ==
    /\ agents' = Put(agents, a, now)
    /\ reported' = Put(reported, a, now)

(* Registering again replaces the entry. *)
RegisterAgent(a) == Report(a)

UpdateAgent(a) == a \in Registered /\ Report(a)

Heartbeat(a) == a \in Registered /\ Report(a)

(* The role is shown, not stored here. *)
SetAgentRole(a) == a \in Registered /\ UNCHANGED registryVars

DeregisterAgent(a) ==
    /\ a \in Registered
    /\ agents' = Without(agents, {a})
    /\ reported' = Without(reported, {a})

(* Rounded up, an agent is stale a second early; with ">" a tick late.     *)
StaleRoundedUp == {a \in Registered : (now - agents[a] + Second - 1) \div Second >= Timeout}
StaleAfter == {a \in Registered : SecondsSince(agents[a]) > Timeout}
Stale == {a \in Registered : SecondsSince(agents[a]) >= Timeout}

(* prune_stale reads the clock and sweeps the map under one lock. *)
PruneStale ==
    /\ agents' = Without(agents, Stale)
    /\ UNCHANGED reported

-----------------------------------------------------------------------------
(* What a true answer to a heartbeat is good for: an agent is registered   *)
(* for Timeout seconds after each report the registry accepted, whatever   *)
(* the prune thread does meanwhile, unless it is deregistered.             *)
InTimeStays ==
    \A a \in DOMAIN reported :
        now - reported[a] < Timeout * Second => a \in Registered

(* An agent that stopped reporting leaves the registry.                    *)
StaleLeaves ==
    \A a \in Agents :
        [](a \in Registered /\ now - agents[a] >= Timeout * Second
             => <>(a \notin Registered \/ now - agents[a] < Timeout * Second))
=============================================================================
