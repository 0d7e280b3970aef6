\* Two workers on one key and two agents, a timeout of one second of two ticks;
\* or one agent whose envelopes are good for a second, with clocks a tick off,
\* until the last that a dead agent's could be accepted has timed out.
SPECIFICATION FairMCSpec
CONSTANTS
    Second = 2
    MaxTime = 6
    WorkTime = 3
    Agents = {a1, a2}
    Sender = a1
    Timeout = 1
    MaxAge = 1
    Skew = 1
    Drift = 1
    MaxMail = 2
    Keys = {k1}
    Threads = {w1, w2, pruner}
    Pruner = pruner
    Handlers = {1}
    Types = {"*", "context.updated"}
    MaxLog = 2
    MaxChanges = 2
    NoEmission = NoEmission
    NoEntry = NoEntry
INVARIANTS
    WorkspaceTypeOK
    InTimeStays
    LoggedIsHeard
    VersionsOrderWrites
    GhostsGoStale
PROPERTIES
    StaleLeaves
\* The instance can use up its changes and its ticks.
CHECK_DEADLOCK FALSE
