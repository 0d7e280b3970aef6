------------------------------ MODULE Presence ------------------------------
(***************************************************************************)
(* Heartbeats over MQTT: signed envelopes (mqtt/secure_mqtt.cpp) and the   *)
(* bridge that takes them to the registry (mcp/server.cpp).  The registry  *)
(* dates a heartbeat by its own clock when it gets it; what the broker     *)
(* delivers late, or again, is told from new ones by the time stamp of the *)
(* envelope alone, which is the sender's clock.                            *)
(*                                                                         *)
(* Where an envelope comes from stands for what verify() and the check for *)
(* the swarm look at: "ours" is signed with the swarm's secret and names   *)
(* the swarm.  The agent in the payload need not be the sender; whoever    *)
(* signs for an agent speaks for it.  With no secret set nothing is        *)
(* verified: not modelled.                                                 *)
(***************************************************************************)
EXTENDS AgentRegistry

CONSTANTS
    MaxAge,     \* max_message_age_ in seconds
    Skew,       \* clock_skew_threshold_ms, in ticks
    Drift,      \* how far clocks of senders are off, in ticks
    MaxMail     \* bound: envelopes the broker has

ASSUME PresenceAssumption ==
    MaxAge \in Nat \ {0} /\ Skew \in Nat /\ Drift \in Nat /\ MaxMail \in Nat

VARIABLES
    mail,       \* the envelopes the broker may deliver, any number of times
    spoke       \* history: when somebody last reported for an agent

presenceVars == <<now, agents, reported, mail, spoke>>

Origins == {"ours", "another swarm", "unsigned"}

Envelopes == [about : Agents, stamp : Int, origin : Origins]

PresenceInit ==
    /\ ClockInit
    /\ RegistryInit
    /\ mail = {}
    /\ spoke = [a \in Agents |-> 0]

-----------------------------------------------------------------------------
(* The tools that date the entry. *)
ReportTool ==
    /\ \E a \in Agents :
          /\ RegisterAgent(a) \/ UpdateAgent(a) \/ Heartbeat(a)
          /\ spoke' = [spoke EXCEPT ![a] = now]
    /\ UNCHANGED <<now, mail>>

(* deregister_agent, which no tool of the server calls. *)
Deregistered ==
    /\ \E a \in Agents : DeregisterAgent(a)
    /\ UNCHANGED <<now, mail, spoke>>

(* publish_signed, or a publisher of its own.  *)
Publish ==
    /\ Cardinality(mail) < MaxMail
    /\ \E a \in Agents, off \in -Drift..Drift, origin \in Origins :
          /\ mail' = mail \cup {[about |-> a, stamp |-> now + off, origin |-> origin]}
          /\ spoke' = IF origin = "ours" THEN [spoke EXCEPT ![a] = now] ELSE spoke
    /\ UNCHANGED <<now, registryVars>>

(* is_fresh: not too old, and not too far ahead. *)
FreshIfNotAhead(e) == now - e.stamp >= -Skew
Fresh(e) == now - e.stamp >= -Skew /\ now - e.stamp < MaxAge * Second

Accepted(e) == e.origin = "ours" /\ Fresh(e)

(* on_raw_message and the bridge; what is dropped, and a heartbeat of an   *)
(* agent that is not registered, changes nothing.                          *)
Deliver ==
    /\ \E e \in mail : Accepted(e) /\ Heartbeat(e.about)
    /\ UNCHANGED <<now, mail, spoke>>

(* The broker is done with an envelope, whether it delivered it or not. *)
Discard ==
    /\ \E e \in mail : mail' = mail \ {e}
    /\ UNCHANGED <<now, registryVars, spoke>>

PruneRound ==
    /\ Stale # {}
    /\ PruneStale
    /\ UNCHANGED <<now, mail, spoke>>

PresenceTick == Passes /\ UNCHANGED <<registryVars, mail, spoke>>

PresenceNext ==
    \/ ReportTool
    \/ Deregistered
    \/ Publish
    \/ Deliver
    \/ Discard
    \/ PruneRound
    \/ PresenceTick

PresenceSpec == PresenceInit /\ [][PresenceNext]_presenceVars

-----------------------------------------------------------------------------
(* Replay protection (secure_mqtt.cpp:298): envelopes that come late or     *)
(* again do not keep an agent for which nobody reports any more.  After    *)
(* the timeout, the age an envelope may have and the error of clocks       *)
(* together, such an agent is stale, and the next round drops it.          *)
GhostsGoStale ==
    \A a \in Registered :
        now - spoke[a] >= (Timeout + MaxAge) * Second + Drift => a \in Stale
=============================================================================
