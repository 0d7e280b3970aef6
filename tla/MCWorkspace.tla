---------------------------- MODULE MCWorkspace ----------------------------
(* Two scenarios of the registry for TLC: threads that run tools and emit   *)
(* events, or heartbeats of one agent that come in over MQTT.               *)
EXTENDS Workspace, Presence

CONSTANTS
    Sender,         \* the agent that heartbeats over MQTT
    WorkTime        \* the first scenario ends earlier

VARIABLE mailing

mcVars == <<workspaceVars, mail, spoke, mailing>>

MCInit ==
    /\ WorkspaceInit
    /\ PresenceInit
    /\ mailing \in BOOLEAN

Working(A) == ~mailing /\ A /\ UNCHANGED <<mail, spoke, mailing>>
Mailing(A) == mailing /\ A /\ UNCHANGED <<store, busVars, changes, mailing>>

OnlySender ==
    /\ Registered' \subseteq {Sender}
    /\ \A e \in mail' : e.about = Sender

MCNext ==
    \/ Working(WorkspaceNext) /\ now' <= WorkTime
    \/ Mailing(PresenceNext) /\ OnlySender

MCSpec == MCInit /\ [][MCNext]_mcVars

FairMCSpec ==
    /\ MCSpec
    /\ WF_mcVars(Working(Prune))
    /\ WF_mcVars(Working(Emits(Pruner)))
    /\ WF_mcVars(Mailing(PruneRound))
=============================================================================
