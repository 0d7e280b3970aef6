---------------------------- MODULE WorkspaceProofs ----------------------------
(* Proofs about the shared workspace, for any number of agents, keys,       *)
(* threads and handlers, any timeout and any resolution of the clock.       *)
EXTENDS Workspace, FiniteSetTheorems, SequenceTheorems, TLAPS

-----------------------------------------------------------------------------
(* The registry has the last report of every agent in it, and every agent   *)
(* whose last report is younger than the timeout.                           *)
ReportsKnown ==
    /\ now \in Nat
    /\ Registered \subseteq DOMAIN reported /\ DOMAIN reported \subseteq Agents
    /\ \A a \in DOMAIN reported : reported[a] \in Nat /\ reported[a] <= now
    /\ \A a \in Registered : agents[a] = reported[a]

ReportInv == ReportsKnown /\ InTimeStays

LEMMA Periods ==
  /\ Second \in Nat \ {0} /\ Timeout \in Nat /\ Timeout * Second \in Nat
  /\ Timeout * Second > 0
<1>1. Second \in Nat /\ Second > 0 /\ Timeout \in Nat /\ Timeout > 0
  BY ClockAssumption, TimeoutAssumption
<1>2. Timeout * Second \in Nat /\ Timeout * Second > 0
  BY <1>1
<1> QED
  BY <1>1, <1>2

(* A duration cut to whole seconds is short of the timeout exactly if the   *)
(* duration is.                                                             *)
LEMMA CutToSeconds ==
  ASSUME NEW d \in Nat, d < Timeout * Second
  PROVE  ~(d \div Second >= Timeout)
<1> DEFINE q == d \div Second
<1>1. q \in Int /\ Second * q <= d
  BY Periods
<1> HIDE DEF q
<1>2. SUFFICES ASSUME q >= Timeout PROVE FALSE
  BY <1>1 DEF q
<1>3. Second * q >= Timeout * Second
  BY <1>1, <1>2, Periods
<1> QED
  BY <1>1, <1>3, Periods

LEMMA ReportKeeps ==
  ASSUME ReportInv, NEW a \in Agents, Report(a), now' = now
  PROVE  ReportInv'
<1>1. /\ DOMAIN agents' = Registered \cup {a} /\ DOMAIN reported' = DOMAIN reported \cup {a}
      /\ agents'[a] = now /\ reported'[a] = now
      /\ \A x \in Registered \ {a} : agents'[x] = agents[x]
      /\ \A x \in DOMAIN reported \ {a} : reported'[x] = reported[x]
  BY DEF Report, Put, Registered
<1>2. ReportsKnown'
  BY <1>1 DEF ReportInv, ReportsKnown, Registered
<1>3. InTimeStays'
  BY <1>1 DEF ReportInv, InTimeStays, Registered
<1> QED
  BY <1>2, <1>3 DEF ReportInv

LEMMA DeregisterKeeps ==
  ASSUME ReportInv, NEW a \in Agents, DeregisterAgent(a), now' = now
  PROVE  ReportInv'
<1>1. /\ DOMAIN agents' = Registered \ {a} /\ DOMAIN reported' = DOMAIN reported \ {a}
      /\ \A x \in Registered \ {a} : agents'[x] = agents[x]
      /\ \A x \in DOMAIN reported \ {a} : reported'[x] = reported[x]
  BY DEF DeregisterAgent, Without, Restrict, Registered
<1>2. ReportsKnown'
  BY <1>1 DEF ReportInv, ReportsKnown, Registered
<1>3. InTimeStays'
  BY <1>1 DEF ReportInv, InTimeStays, Registered
<1> QED
  BY <1>2, <1>3 DEF ReportInv

LEMMA PruneKeeps ==
  ASSUME ReportInv, PruneStale, now' = now
  PROVE  ReportInv'
<1>1. /\ DOMAIN agents' = Registered \ Stale /\ reported' = reported
      /\ \A x \in Registered \ Stale : agents'[x] = agents[x]
  BY DEF PruneStale, Without, Restrict, Registered
<1>2. ReportsKnown'
  BY <1>1 DEF ReportInv, ReportsKnown, Registered
<1>3. ASSUME NEW a \in DOMAIN reported, now - reported[a] < Timeout * Second
      PROVE  a \in Registered \ Stale
  <2>1. a \in Registered /\ agents[a] = reported[a]
    BY <1>3 DEF ReportInv, ReportsKnown, InTimeStays
  <2>2. now - reported[a] \in Nat
    BY DEF ReportInv, ReportsKnown
  <2>3. ~(SecondsSince(agents[a]) >= Timeout)
    BY <1>3, <2>1, <2>2, CutToSeconds DEF SecondsSince
  <2> QED
    BY <2>1, <2>3 DEF Stale
<1>4. InTimeStays'
  BY <1>1, <1>3 DEF InTimeStays, Registered
<1> QED
  BY <1>2, <1>4 DEF ReportInv

LEMMA TickKeeps ==
  ASSUME ReportInv, Passes, UNCHANGED registryVars
  PROVE  ReportInv'
<1>1. ReportsKnown'
  BY DEF ReportInv, ReportsKnown, Passes, registryVars, Registered
<1>2. now' = now + 1 /\ reported' = reported /\ agents' = agents
  BY DEF Passes, registryVars
<1>3. SUFFICES ASSUME NEW a \in DOMAIN reported, now' - reported[a] < Timeout * Second
               PROVE  a \in Registered
  BY <1>1, <1>2, Zenon DEF ReportInv, InTimeStays, Registered
<1>4. now - reported[a] < Timeout * Second
  BY <1>2, <1>3, Periods DEF ReportInv, ReportsKnown
<1> QED
  BY <1>4 DEF ReportInv, InTimeStays

LEMMA IdleKeepsReports ==
  ASSUME ReportInv, UNCHANGED <<now, registryVars>>
  PROVE  ReportInv'
BY DEF ReportInv, ReportsKnown, InTimeStays, registryVars, Registered

LEMMA StepKeepsReports ==
  ASSUME ReportInv, [WorkspaceNext]_workspaceVars
  PROVE  ReportInv'
<1>1. ASSUME NEW t \in Workers, AgentTool(t) PROVE ReportInv'
  <2>1. PICK a \in Agents : AgentChange(t, a)
    BY <1>1 DEF AgentTool
  <2>2. now' = now
    BY <1>1 DEF AgentTool
  <2>3. CASE RegisterAgent(a)
    BY <2>2, <2>3, ReportKeeps DEF RegisterAgent
  <2>4. CASE UpdateAgent(a)
    BY <2>2, <2>4, ReportKeeps DEF UpdateAgent
  <2>5. CASE DeregisterAgent(a)
    BY <2>2, <2>5, DeregisterKeeps
  <2>6. CASE SetAgentRole(a)
    BY <2>2, <2>6, IdleKeepsReports DEF SetAgentRole
  <2> QED
    BY <2>1, <2>3, <2>4, <2>5, <2>6 DEF AgentChange
<1>2. ASSUME NEW t \in Workers, HeartbeatTool(t) PROVE ReportInv'
  BY <1>2, ReportKeeps DEF HeartbeatTool, Heartbeat
<1>3. ASSUME NEW t \in Workers, ContextTool(t) PROVE ReportInv'
  BY <1>3, IdleKeepsReports DEF ContextTool
<1>4. ASSUME NEW t \in Workers, PublishEvent(t) PROVE ReportInv'
  BY <1>4, IdleKeepsReports DEF PublishEvent
<1>5. ASSUME NEW t \in Threads, Emits(t) PROVE ReportInv'
  BY <1>5, IdleKeepsReports DEF Emits
<1>6. CASE Prune
  BY <1>6, PruneKeeps DEF Prune
<1>7. CASE Subscribing
  BY <1>7, IdleKeepsReports DEF Subscribing
<1>8. CASE Tick
  BY <1>8, TickKeeps DEF Tick
<1>9. CASE UNCHANGED workspaceVars
  BY <1>9, IdleKeepsReports DEF workspaceVars, registryVars
<1> QED
  BY <1>1, <1>2, <1>3, <1>4, <1>5, <1>6, <1>7, <1>8, <1>9 DEF WorkspaceNext

(* An agent that reported within the timeout is registered, unless it was   *)
(* deregistered: AgentRegistry::prune_stale against heartbeats.             *)
THEOREM ReportersStay == WorkspaceSpec => []InTimeStays
<1>1. WorkspaceInit => ReportInv
  BY DEF WorkspaceInit, ClockInit, RegistryInit, NoAgents, ReportInv, ReportsKnown,
         InTimeStays, Registered
<1>2. ReportInv /\ [WorkspaceNext]_workspaceVars => ReportInv'
  BY StepKeepsReports
<1>3. ReportInv => InTimeStays
  BY DEF ReportInv
<1> QED
  BY <1>1, <1>2, <1>3, PTL DEF WorkspaceSpec

-----------------------------------------------------------------------------
(* What an event can be; the versions and values have no bound here.        *)
AnyEvent == [type : AgentEvents \cup ContextEvents \cup Types,
             about : Agents \cup Keys \cup {NoEntry},
             entry : {NoEntry} \cup [value : Nat, version : Nat]]

Logged == [id : Nat, event : AnyEvent]

EventTypes ==
    /\ DOMAIN due = Threads /\ \A t \in Threads : due[t] \in Seq(AnyEvent)
    /\ DOMAIN emission = Threads
    /\ emitted \in Nat
    /\ \A t \in Threads : emission[t] # NoEmission =>
          /\ DOMAIN emission[t] = {"id", "event", "calls"}
          /\ emission[t].id \in Nat /\ emission[t].event \in AnyEvent
    /\ log \in Seq(Logged)

(* What is seen of a key was written, and its newest is in the store.       *)
Ordered(k) ==
    /\ k \in StoredKeys => store[k].value \in Nat /\ store[k].version \in Nat
    /\ \A d \in Seen(k) :
          /\ d.value \in Nat /\ d.value <= changes
          /\ d.version \in Nat
          /\ k \in StoredKeys /\ d.version <= store[k].version
    /\ \A d, e \in Seen(k) : d.value < e.value <=> d.version < e.version

VersionInv ==
    /\ EventTypes
    /\ Registered \subseteq Agents
    /\ changes \in Nat
    /\ \A k \in Keys : Ordered(k)

LEMMA ToSetOfTail ==
  ASSUME NEW S, NEW q \in Seq(S), q # <<>>
  PROVE  /\ Tail(q) \in Seq(S) /\ Head(q) \in S
         /\ Head(q) \in ToSet(q) /\ ToSet(Tail(q)) \subseteq ToSet(q)
<1>1. Tail(q) \in Seq(S) /\ Head(q) = q[1] /\ 1 \in DOMAIN q /\ q[1] \in S
  OBVIOUS
<1>2. \A i \in DOMAIN Tail(q) : i + 1 \in DOMAIN q /\ Tail(q)[i] = q[i + 1]
  OBVIOUS
<1> QED
  BY <1>1, <1>2 DEF ToSet

LEMMA TrimmedFacts ==
  ASSUME NEW l \in Seq(Logged), NEW r \in Logged
  PROVE  /\ Trimmed(Append(l, r)) \in Seq(Logged)
         /\ \A i \in DOMAIN Trimmed(Append(l, r)) :
               \/ Trimmed(Append(l, r))[i] = r
               \/ \E j \in DOMAIN l : Trimmed(Append(l, r))[i] = l[j]
<1> DEFINE m == Append(l, r)
<1>1. m \in Seq(Logged) /\ m # <<>> /\ DOMAIN m = 1..Len(l) + 1 /\ DOMAIN l = 1..Len(l)
  OBVIOUS
<1>2. \A i \in DOMAIN m : m[i] = r \/ (i \in DOMAIN l /\ m[i] = l[i])
  OBVIOUS
<1> HIDE DEF m
<1>3. Tail(m) \in Seq(Logged) /\ \A i \in DOMAIN Tail(m) : i + 1 \in DOMAIN m /\ Tail(m)[i] = m[i + 1]
  BY <1>1
<1>4. Trimmed(m) \in {m, Tail(m)}
  BY DEF Trimmed
<1> QED
  BY <1>1, <1>2, <1>3, <1>4 DEF m

(* Where an event is, before and after a step. *)
Somewhere(e) ==
    \/ \E i \in DOMAIN log : e = log[i].event
    \/ \E t \in Threads : e \in ToSet(due[t])
    \/ \E t \in Threads : emission[t] # NoEmission /\ e = emission[t].event

EventsAre == \A e : e \in Events <=> Somewhere(e)

LEMMA EventsBefore == EventsAre
<1> SUFFICES ASSUME NEW e PROVE e \in Events <=> Somewhere(e)
  BY DEF EventsAre
<1>1. e \in EventsDue <=> \E t \in Threads : e \in ToSet(due[t])
  BY DEF EventsDue
<1>2. e \in EventsInLog <=> \E i \in DOMAIN log : e = log[i].event
  BY DEF EventsInLog
<1>3. e \in EventsUnderWay <=> \E t \in Threads : emission[t] # NoEmission /\ e = emission[t].event
  BY DEF EventsUnderWay
<1> QED
  BY <1>1, <1>2, <1>3 DEF Events, Somewhere

LEMMA EventsAfter ==
  \A e : e \in Events' <=>
      \/ \E i \in DOMAIN log' : e = log'[i].event
      \/ \E t \in Threads : e \in ToSet(due'[t])
      \/ \E t \in Threads : emission'[t] # NoEmission /\ e = emission'[t].event
<1>1. EventsAre'
  BY EventsBefore, PTL
<1> QED
  BY <1>1, Zenon DEF EventsAre, Somewhere, ToSet

(* Announcing adds no other event than those announced. *)
LEMMA AnnounceAdds ==
  ASSUME EventTypes, NEW t \in Threads, NEW evs \in Seq(AnyEvent), Announce(t, evs)
  PROVE  EventTypes' /\ Events' \subseteq Events \cup ToSet(evs)
<1>1. /\ DOMAIN due' = Threads /\ due'[t] = evs
      /\ \A u \in Threads \ {t} : due'[u] = due[u]
      /\ emission' = emission /\ emitted' = emitted /\ log' = log
  BY DEF Announce, EventTypes
<1>2. EventTypes'
  BY <1>1 DEF EventTypes
<1>3. \A u \in Threads : ToSet(due'[u]) \subseteq ToSet(due[u]) \cup ToSet(evs)
  BY <1>1
<1>4. ASSUME NEW e \in Events' PROVE e \in Events \cup ToSet(evs)
  <2>1. \/ \E i \in DOMAIN log : e = log[i].event
        \/ \E u \in Threads : e \in ToSet(due'[u])
        \/ \E u \in Threads : emission[u] # NoEmission /\ e = emission[u].event
    BY <1>1, <1>4, EventsAfter
  <2> QED
    BY <1>3, <2>1, EventsBefore DEF EventsAre, Somewhere
<1> QED
  BY <1>2, <1>4

(* Emitting moves events from what is due through the emission to the log. *)
LEMMA EmittingAdds ==
  ASSUME EventTypes, NEW t \in Threads, EmitStep(t)
  PROVE  EventTypes' /\ Events' \subseteq Events
<1>1. CASE Emit(t)
  <2>1. /\ DOMAIN due' = Threads /\ due'[t] = Tail(due[t])
        /\ \A u \in Threads \ {t} : due'[u] = due[u]
        /\ DOMAIN emission' = Threads
        /\ emission'[t].event = Head(due[t]) /\ emission'[t].id = emitted + 1
        /\ DOMAIN emission'[t] = {"id", "event", "calls"}
        /\ \A u \in Threads \ {t} : emission'[u] = emission[u]
        /\ emitted' = emitted + 1 /\ log' = log /\ due[t] # <<>> /\ due[t] \in Seq(AnyEvent)
    BY <1>1 DEF Emit, EventTypes
  <2>2. /\ Tail(due[t]) \in Seq(AnyEvent) /\ Head(due[t]) \in AnyEvent
        /\ Head(due[t]) \in ToSet(due[t]) /\ ToSet(Tail(due[t])) \subseteq ToSet(due[t])
    BY <2>1, ToSetOfTail
  <2>3. EventTypes'
    <3>1. \A u \in Threads : due'[u] \in Seq(AnyEvent)
      BY <2>1, <2>2 DEF EventTypes
    <3>2. emitted' \in Nat /\ emitted + 1 \in Nat
      BY <2>1 DEF EventTypes
    <3>3. ASSUME NEW u \in Threads, emission'[u] # NoEmission
          PROVE  /\ DOMAIN emission'[u] = {"id", "event", "calls"}
                 /\ emission'[u].id \in Nat /\ emission'[u].event \in AnyEvent
      <4>1. CASE u = t
        BY <2>1, <2>2, <3>2, <4>1
      <4>2. CASE u # t
        BY <2>1, <3>3, <4>2 DEF EventTypes
      <4> QED
        BY <4>1, <4>2
    <3> QED
      BY <2>1, <3>1, <3>2, <3>3 DEF EventTypes
  <2>4. ASSUME NEW e \in Events' PROVE e \in Events
    <3>1. \/ \E i \in DOMAIN log : e = log[i].event
          \/ \E u \in Threads : e \in ToSet(due'[u])
          \/ \E u \in Threads : emission'[u] # NoEmission /\ e = emission'[u].event
      BY <2>1, <2>4, EventsAfter
    <3>2. \A u \in Threads : ToSet(due'[u]) \subseteq ToSet(due[u])
      BY <2>1, <2>2
    <3> QED
      BY <2>1, <2>2, <3>1, <3>2, EventsBefore DEF EventsAre, Somewhere
  <2> QED
    BY <2>3, <2>4
<1>2. CASE CallHandler(t)
  <2>1. /\ DOMAIN emission' = Threads /\ emission[t] # NoEmission
        /\ emission'[t].event = emission[t].event /\ emission'[t].id = emission[t].id
        /\ DOMAIN emission'[t] = {"id", "event", "calls"}
        /\ \A u \in Threads \ {t} : emission'[u] = emission[u]
        /\ due' = due /\ emitted' = emitted /\ log' = log
    BY <1>2 DEF CallHandler, EventTypes
  <2>2. EventTypes'
    BY <2>1 DEF EventTypes
  <2>3. ASSUME NEW e \in Events' PROVE e \in Events
    <3>1. \/ \E i \in DOMAIN log : e = log[i].event
          \/ \E u \in Threads : e \in ToSet(due[u])
          \/ \E u \in Threads : emission'[u] # NoEmission /\ e = emission'[u].event
      BY <2>1, <2>3, EventsAfter
    <3> QED
      BY <2>1, <3>1, EventsBefore DEF EventsAre, Somewhere
  <2> QED
    BY <2>2, <2>3
<1>3. CASE LogEvent(t)
  <2> DEFINE r == [id |-> emission[t].id, event |-> emission[t].event]
  <2>1. /\ DOMAIN emission' = Threads /\ emission[t] # NoEmission
        /\ emission'[t] = NoEmission
        /\ \A u \in Threads \ {t} : emission'[u] = emission[u]
        /\ due' = due /\ emitted' = emitted /\ log' = Trimmed(Append(log, r))
        /\ r \in Logged /\ r.event = emission[t].event /\ log \in Seq(Logged)
    BY <1>3 DEF LogEvent, EventTypes, Logged
  <2> HIDE DEF r
  <2>2. /\ log' \in Seq(Logged)
        /\ \A i \in DOMAIN log' : log'[i] = r \/ \E j \in DOMAIN log : log'[i] = log[j]
    BY <2>1, TrimmedFacts
  <2>3. EventTypes'
    BY <2>1, <2>2 DEF EventTypes
  <2>4. ASSUME NEW e \in Events' PROVE e \in Events
    <3>1. \/ \E i \in DOMAIN log' : e = log'[i].event
          \/ \E u \in Threads : e \in ToSet(due[u])
          \/ \E u \in Threads : emission'[u] # NoEmission /\ e = emission'[u].event
      BY <2>1, <2>4, EventsAfter
    <3> QED
      BY <2>1, <2>2, <3>1, EventsBefore DEF EventsAre, Somewhere
  <2> QED
    BY <2>3, <2>4
<1> QED
  BY <1>1, <1>2, <1>3 DEF EmitStep

-----------------------------------------------------------------------------
(* What is seen of a key, before and after a step. *)
SeenIn(k, d) ==
    \/ \E e \in Events : e.about = k /\ e.entry # NoEntry /\ d = e.entry
    \/ k \in StoredKeys /\ d = store[k]

SeenAre == \A k, d : d \in Seen(k) <=> SeenIn(k, d)

LEMMA SeenBefore == SeenAre
BY DEF SeenAre, SeenIn, Seen

LEMMA SeenAfter ==
  \A k, d : d \in Seen(k)' <=>
      \/ \E e \in Events' : e.about = k /\ e.entry # NoEntry /\ d = e.entry
      \/ k \in DOMAIN store' /\ d = store'[k]
<1>1. SeenAre'
  BY SeenBefore, PTL
<1> QED
  BY <1>1, Zenon DEF SeenAre, SeenIn, StoredKeys

(* A key of which nothing new is seen stays ordered. *)
LEMMA NothingNew ==
  ASSUME VersionInv, NEW k \in Keys,
         Seen(k)' \subseteq Seen(k),
         k \in StoredKeys => k \in StoredKeys' /\ store'[k] = store[k],
         k \notin StoredKeys => k \notin StoredKeys',
         changes' \in Nat, changes' >= changes
  PROVE  Ordered(k)'
BY DEF VersionInv, Ordered

(* Events that are about no entry show nothing of a key. *)
LEMMA AboutNoEntry ==
  ASSUME VersionInv, EventTypes', Registered' \subseteq Agents, store' = store,
         changes' \in Nat, changes' >= changes,
         \A e \in Events' : e \in Events \/ e.entry = NoEntry
  PROVE  VersionInv'
<1>1. ASSUME NEW k \in Keys PROVE Ordered(k)'
  <2>1. Seen(k)' \subseteq Seen(k)
    <3>1. ASSUME NEW d \in Seen(k)' PROVE d \in Seen(k)
      BY <3>1, SeenBefore, SeenAfter DEF SeenAre, SeenIn, StoredKeys
    <3> QED
      BY <3>1
  <2> QED
    BY <2>1, NothingNew DEF StoredKeys
<1> QED
  BY <1>1 DEF VersionInv

(* A write is newer than all that is seen of its key. *)
LEMMA WriteIsNewest ==
  ASSUME VersionInv, NEW k \in Keys,
         changes' = changes + 1,
         k \in StoredKeys', store'[k] = Written(k, changes + 1),
         Seen(k)' \subseteq Seen(k) \cup {Written(k, changes + 1)}
  PROVE  Ordered(k)'
<1> DEFINE w == Written(k, changes + 1)
<1>1. changes \in Nat /\ Ordered(k)
  BY DEF VersionInv
<1>2. w.value = changes + 1 /\ w.version = IF k \in StoredKeys THEN store[k].version + 1 ELSE 1
  BY DEF Written
<1> HIDE DEF w
<1>3. w.value \in Nat /\ w.version \in Nat
  BY <1>1, <1>2 DEF Ordered
<1>4. ASSUME NEW d \in Seen(k)
      PROVE  /\ d.value \in Nat /\ d.version \in Nat
             /\ d.value < w.value /\ d.version < w.version
  BY <1>1, <1>2 DEF Ordered
<1>5. ASSUME NEW d \in Seen(k), NEW e \in Seen(k)
      PROVE  d.value < e.value <=> d.version < e.version
  BY <1>1 DEF Ordered
<1>6. ASSUME NEW d \in Seen(k)'
      PROVE  /\ d.value \in Nat /\ d.value <= changes'
             /\ d.version \in Nat /\ d.version <= w.version
  <2>1. d \in Seen(k) \/ d = w
    BY DEF w
  <2> QED
    BY <2>1, <1>1, <1>2, <1>3, <1>4
<1>7. ASSUME NEW d \in Seen(k)', NEW e \in Seen(k)'
      PROVE  d.value < e.value <=> d.version < e.version
  <2>1. (d \in Seen(k) \/ d = w) /\ (e \in Seen(k) \/ e = w)
    BY DEF w
  <2> QED
    BY <2>1, <1>3, <1>4, <1>5
<1>8. store'[k] = w
  BY DEF w
<1> QED
  BY <1>3, <1>6, <1>7, <1>8 DEF Ordered

-----------------------------------------------------------------------------
LEMMA OneEvent ==
  ASSUME NEW e \in AnyEvent
  PROVE  <<e>> \in Seq(AnyEvent) /\ ToSet(<<e>>) = {e}
BY DEF ToSet

LEMMA AgentEventFacts ==
  ASSUME NEW type \in AgentEvents, NEW a \in Agents
  PROVE  AgentEvent(type, a) \in AnyEvent /\ AgentEvent(type, a).entry = NoEntry
BY DEF AgentEvent, AnyEvent

(* Announcing one event that is about no entry. *)
LEMMA AnnouncesNoEntry ==
  ASSUME VersionInv, NEW t \in Threads, NEW e \in AnyEvent, e.entry = NoEntry,
         Announce(t, <<e>>), Counts, store' = store, Registered' \subseteq Agents
  PROVE  VersionInv'
<1>1. <<e>> \in Seq(AnyEvent) /\ ToSet(<<e>>) = {e}
  BY OneEvent
<1>2. EventTypes' /\ Events' \subseteq Events \cup {e}
  BY <1>1, AnnounceAdds DEF VersionInv
<1>3. changes' \in Nat /\ changes' >= changes
  BY DEF Counts, VersionInv
<1> QED
  BY <1>2, <1>3, AboutNoEntry

LEMMA AgentToolKeeps ==
  ASSUME VersionInv, NEW t \in Workers, AgentTool(t)
  PROVE  VersionInv'
<1> t \in Threads
  BY DEF Workers
<1>1. PICK a \in Agents : AgentChange(t, a)
  BY DEF AgentTool
<1>2. Counts /\ store' = store
  BY DEF AgentTool
<1>3. Registered \subseteq Agents
  BY DEF VersionInv
<1>4. PICK type \in AgentEvents : Announce(t, <<AgentEvent(type, a)>>)
  BY <1>1 DEF AgentChange, AgentEvents
<1>5. Registered' \subseteq Agents
  BY <1>1, <1>3 DEF AgentChange, RegisterAgent, UpdateAgent, DeregisterAgent, SetAgentRole,
                    Report, Put, Without, Restrict, registryVars, Registered
<1> QED
  BY <1>2, <1>4, <1>5, AgentEventFacts, AnnouncesNoEntry

LEMMA PublishKeeps ==
  ASSUME VersionInv, NEW t \in Workers, PublishEvent(t)
  PROVE  VersionInv'
<1> t \in Threads
  BY DEF Workers
<1>1. Counts /\ store' = store /\ Registered' = Registered /\ Registered \subseteq Agents
  BY DEF PublishEvent, registryVars, Registered, VersionInv
<1>2. PICK type \in Types : Announce(t, <<[type |-> type, about |-> NoEntry, entry |-> NoEntry]>>)
  BY DEF PublishEvent
<1>3. [type |-> type, about |-> NoEntry, entry |-> NoEntry] \in AnyEvent
  BY DEF AnyEvent
<1> QED
  BY <1>1, <1>2, <1>3, AnnouncesNoEntry

LEMMA ContextToolKeeps ==
  ASSUME VersionInv, NEW t \in Workers, ContextTool(t)
  PROVE  VersionInv'
<1> t \in Threads
  BY DEF Workers
<1>1. PICK k \in Keys, type \in ContextEvents :
         Write(k, changes + 1) /\ Announce(t, <<ContextEvent(k, type)>>)
  BY DEF ContextTool
<1>2. /\ changes' = changes + 1 /\ changes \in Nat
      /\ Registered' = Registered /\ Registered \subseteq Agents
  BY DEF ContextTool, Counts, registryVars, Registered, VersionInv
<1> DEFINE w == Written(k, changes + 1)
           e == ContextEvent(k, type)
<1>3. w \in [value : Nat, version : Nat]
  BY <1>2 DEF Written, VersionInv, Ordered
<1>4. e \in AnyEvent /\ e.about = k /\ e.entry = w
  BY <1>3 DEF AnyEvent, ContextEvent
<1>5. DOMAIN store' = StoredKeys \cup {k} /\ store'[k] = w
      /\ \A x \in StoredKeys \ {k} : store'[x] = store[x]
  BY <1>1 DEF Write, StoredKeys
<1>6. EventTypes' /\ Events' \subseteq Events \cup {e}
  BY <1>1, <1>4, OneEvent, AnnounceAdds DEF VersionInv
<1> HIDE DEF w, e
<1>7. Ordered(k)'
  <2>1. Seen(k)' \subseteq Seen(k) \cup {w}
    <3>1. ASSUME NEW d \in Seen(k)', d # w PROVE d \in Seen(k)
      <4>1. \/ \E f \in Events' : f.about = k /\ f.entry # NoEntry /\ d = f.entry
            \/ d = store'[k]
        BY <3>1, SeenAfter
      <4>2. \E f \in Events : f.about = k /\ f.entry # NoEntry /\ d = f.entry
        BY <3>1, <4>1, <1>4, <1>5, <1>6
      <4> QED
        BY <4>2, SeenBefore DEF SeenAre, SeenIn
    <3> QED
      BY <3>1
  <2> QED
    BY <2>1, <1>2, <1>5, WriteIsNewest DEF w, StoredKeys
<1>8. ASSUME NEW x \in Keys \ {k} PROVE Ordered(x)'
  <2>1. Seen(x)' \subseteq Seen(x)
    <3>1. ASSUME NEW d \in Seen(x)' PROVE d \in Seen(x)
      <4>1. \/ \E f \in Events' : f.about = x /\ f.entry # NoEntry /\ d = f.entry
            \/ x \in DOMAIN store' /\ d = store'[x]
        BY <3>1, SeenAfter
      <4>2. \/ \E f \in Events : f.about = x /\ f.entry # NoEntry /\ d = f.entry
            \/ x \in StoredKeys /\ d = store[x]
        BY <4>1, <1>4, <1>5, <1>6
      <4> QED
        BY <4>2, SeenBefore DEF SeenAre, SeenIn
    <3> QED
      BY <3>1
  <2>2. x \in StoredKeys' <=> x \in StoredKeys
    BY <1>5 DEF StoredKeys
  <2> QED
    BY <2>1, <2>2, <1>2, <1>5, NothingNew
<1> QED
  BY <1>2, <1>6, <1>7, <1>8 DEF VersionInv

(* The announcements of the prune thread: one for each stale agent. *)
LEMMA PrunedEvents ==
  ASSUME VersionInv, NEW order \in SetToSeqs(Stale)
  PROVE  [i \in DOMAIN order |-> AgentEvent("agent.pruned", order[i])] \in Seq(AnyEvent)
<1>1. Stale \subseteq Agents
  BY DEF VersionInv, Stale
<1>2. Cardinality(Stale) \in Nat
  BY <1>1, AgentsAssumption, FS_Subset, FS_CardinalityType
<1>3. DOMAIN order = 1..Cardinality(Stale) /\ \A i \in DOMAIN order : order[i] \in Agents
  BY <1>1 DEF SetToSeqs
<1>4. "agent.pruned" \in AgentEvents
  BY DEF AgentEvents
<1>5. \A i \in 1..Cardinality(Stale) : AgentEvent("agent.pruned", order[i]) \in AnyEvent
  BY <1>3, <1>4, AgentEventFacts
<1> QED
  BY <1>2, <1>3, <1>5

LEMMA PruneKeepsVersions ==
  ASSUME VersionInv, Prune
  PROVE  VersionInv'
<1> Pruner \in Threads
  BY WorkspaceAssumption
<1>1. PICK order \in SetToSeqs(Stale) :
         Announce(Pruner, [i \in DOMAIN order |-> AgentEvent("agent.pruned", order[i])])
  BY DEF Prune
<1> DEFINE evs == [i \in DOMAIN order |-> AgentEvent("agent.pruned", order[i])]
<1>2. Stale \subseteq Agents
  BY DEF VersionInv, Stale
<1>3. Cardinality(Stale) \in Nat
  BY <1>2, AgentsAssumption, FS_Subset, FS_CardinalityType
<1>4. DOMAIN order = 1..Cardinality(Stale) /\ \A i \in DOMAIN order : order[i] \in Agents
  BY <1>1, <1>2 DEF SetToSeqs
<1>5. "agent.pruned" \in AgentEvents
  BY DEF AgentEvents
<1>6. \A i \in DOMAIN order : evs[i] \in AnyEvent /\ evs[i].entry = NoEntry
  BY <1>4, <1>5, AgentEventFacts
<1>7. DOMAIN evs = 1..Cardinality(Stale) /\ evs = [i \in 1..Cardinality(Stale) |-> evs[i]]
  BY <1>4
<1>8. Announce(Pruner, evs)
  BY <1>1
<1>9. store' = store /\ changes' = changes /\ changes \in Nat /\ Registered' \subseteq Agents
  BY DEF Prune, PruneStale, Without, Restrict, Registered, VersionInv
<1> HIDE DEF evs
<1>10. evs \in Seq(AnyEvent)
  BY <1>3, <1>4, <1>6, <1>7
<1>11. EventTypes' /\ Events' \subseteq Events \cup ToSet(evs)
  BY <1>8, <1>10, AnnounceAdds DEF VersionInv
<1>12. \A e \in ToSet(evs) : e.entry = NoEntry
  BY <1>4, <1>6, <1>7 DEF ToSet
<1> QED
  BY <1>9, <1>11, <1>12, AboutNoEntry

LEMMA EmitsKeepsVersions ==
  ASSUME VersionInv, NEW t \in Threads, Emits(t)
  PROVE  VersionInv'
<1>1. EventTypes' /\ Events' \subseteq Events
  BY EmittingAdds DEF Emits, VersionInv
<1>2. store' = store /\ changes' = changes /\ changes \in Nat /\ Registered' \subseteq Agents
  BY DEF Emits, registryVars, Registered, VersionInv
<1> QED
  BY <1>1, <1>2, AboutNoEntry

LEMMA IdleKeepsVersions ==
  ASSUME VersionInv, Registered' \subseteq Agents,
         UNCHANGED <<store, due, emission, emitted, log, changes>>
  PROVE  VersionInv'
<1>1. EventTypes'
  BY DEF VersionInv, EventTypes
<1>2. Events' = Events
  BY DEF Events, EventsInLog, EventsDue, EventsUnderWay
<1>3. changes' \in Nat /\ changes' >= changes /\ store' = store
  BY DEF VersionInv
<1> QED
  BY <1>1, <1>2, <1>3, AboutNoEntry

LEMMA StepKeepsVersions ==
  ASSUME VersionInv, [WorkspaceNext]_workspaceVars
  PROVE  VersionInv'
<1>1. ASSUME NEW t \in Workers, HeartbeatTool(t) PROVE VersionInv'
  BY <1>1, IdleKeepsVersions
     DEF HeartbeatTool, Heartbeat, Report, Put, Registered, VersionInv, busVars
<1>2. CASE Subscribing
  BY <1>2, IdleKeepsVersions
     DEF Subscribing, Subscription, Subscribe, Unsubscribe, registryVars, Registered, VersionInv
<1>3. CASE Tick
  BY <1>3, IdleKeepsVersions DEF Tick, registryVars, busVars, Registered, VersionInv
<1>4. CASE UNCHANGED workspaceVars
  BY <1>4, IdleKeepsVersions DEF workspaceVars, Registered, VersionInv
<1> QED
  BY <1>1, <1>2, <1>3, <1>4, AgentToolKeeps, ContextToolKeeps, PublishKeeps,
     PruneKeepsVersions, EmitsKeepsVersions DEF WorkspaceNext

LEMMA NothingSeen == WorkspaceInit => VersionInv
<1> SUFFICES ASSUME WorkspaceInit PROVE VersionInv
  OBVIOUS
<1>1. EventTypes
  BY DEF WorkspaceInit, BusInit, EventTypes
<1>2. StoredKeys = {} /\ changes = 0 /\ Registered = {}
  BY DEF WorkspaceInit, StoreInit, StoredKeys, RegistryInit, NoAgents, Registered
<1>3. Events = {}
  BY DEF WorkspaceInit, BusInit, Events, EventsInLog, EventsDue, EventsUnderWay, ToSet
<1>4. \A k : Seen(k) = {}
  BY <1>2, <1>3 DEF Seen
<1> QED
  BY <1>1, <1>2, <1>4 DEF VersionInv, Ordered

LEMMA VersionsInvariant == WorkspaceSpec => []VersionInv
<1>1. VersionInv /\ [WorkspaceNext]_workspaceVars => VersionInv'
  BY StepKeepsVersions
<1> QED
  BY <1>1, NothingSeen, PTL DEF WorkspaceSpec

(* The version in a context event tells which write it was, in whatever     *)
(* order the events of concurrent writers are emitted and logged.           *)
THEOREM VersionsTellTheOrder == WorkspaceSpec => []VersionsOrderWrites
<1>1. VersionInv => VersionsOrderWrites
  BY DEF VersionInv, Ordered, VersionsOrderWrites
<1> QED
  BY <1>1, VersionsInvariant, PTL

-----------------------------------------------------------------------------
(* What was emitted has been heard by those who subscribed before, or they  *)
(* are among the handlers the emission has left to call.                    *)
UnderWayIsHeard ==
    \A t \in Threads : emission[t] # NoEmission =>
        \A h \in SubscribersOf(emission[t].event.type) :
            emission[t].id > joined[h] =>
                emission[t].id \in heard[h] \/ h \in ToSet(emission[t].calls)

HeardTypes ==
    /\ handlers \in [Types -> Seq(Handlers)]
    /\ DOMAIN joined \subseteq Handlers
    /\ \A type \in Types : ToSet(handlers[type]) \subseteq DOMAIN joined
    /\ \A h \in DOMAIN joined : joined[h] \in Nat /\ joined[h] <= emitted
    /\ DOMAIN heard = Handlers
    /\ \A t \in Threads : emission[t] # NoEmission =>
          emission[t].id <= emitted /\ emission[t].calls \in Seq(Handlers)
    /\ \A i \in DOMAIN log : log[i].id <= emitted

HeardInv == HeardTypes /\ LoggedIsHeard /\ UnderWayIsHeard

LEMMA SubscribersJoined ==
  ASSUME HeardTypes, NEW type
  PROVE  SubscribersOf(type) \subseteq DOMAIN joined
<1>1. ToSet(<<>>) = {}
  BY DEF ToSet
<1>2. \A x : ToSet(HandlersOf(x)) \subseteq DOMAIN joined
  BY <1>1 DEF HeardTypes, HandlersOf
<1> QED
  BY <1>2 DEF SubscribersOf

LEMMA LoggedIds ==
  ASSUME EventTypes, NEW i \in DOMAIN log
  PROVE  log[i].id \in Nat
<1>1. log \in Seq(Logged)
  BY DEF EventTypes
<1>2. log[i] \in Logged
  BY <1>1
<1> QED
  BY <1>2 DEF Logged

LEMMA RemoveAtKeeps ==
  ASSUME NEW S, NEW q \in Seq(S), NEW i \in DOMAIN q
  PROVE  RemoveAt(q, i) \in Seq(S) /\ ToSet(RemoveAt(q, i)) \subseteq ToSet(q)
<1> DEFINE a == SubSeq(q, 1, i - 1)
           b == SubSeq(q, i + 1, Len(q))
<1>1. i \in 1..Len(q) /\ Len(q) \in Nat
  OBVIOUS
<1>2. a \in Seq(S) /\ \A j \in DOMAIN a : \E k \in DOMAIN q : a[j] = q[k]
  <2>1. \A k \in 1..(i - 1) : k \in DOMAIN q /\ q[k] \in S
    BY <1>1
  <2>2. /\ a \in Seq(S) /\ Len(a) = IF 1 <= i - 1 THEN (i - 1) - 1 + 1 ELSE 0
        /\ \A j \in 1..((i - 1) - 1 + 1) : a[j] = q[1 + j - 1]
    BY <1>1, <2>1, SubSeqProperties
  <2>3. DOMAIN a = 1..(i - 1) /\ \A j \in 1..(i - 1) : a[j] = q[j]
    BY <1>1, <2>2
  <2> QED
    BY <2>1, <2>2, <2>3
<1>3. b \in Seq(S) /\ \A j \in DOMAIN b : \E k \in DOMAIN q : b[j] = q[k]
  <2>1. \A k \in (i + 1)..Len(q) : k \in DOMAIN q /\ q[k] \in S
    BY <1>1
  <2>2. /\ b \in Seq(S) /\ Len(b) = IF i + 1 <= Len(q) THEN Len(q) - (i + 1) + 1 ELSE 0
        /\ \A j \in 1..(Len(q) - (i + 1) + 1) : b[j] = q[(i + 1) + j - 1]
    BY <1>1, <2>1, SubSeqProperties
  <2>3. DOMAIN b = 1..(Len(q) - i) /\ \A j \in 1..(Len(q) - i) : b[j] = q[i + j]
    BY <1>1, <2>2
  <2>4. \A j \in 1..(Len(q) - i) : i + j \in (i + 1)..Len(q)
    BY <1>1
  <2> QED
    BY <2>1, <2>2, <2>3, <2>4
<1>4. RemoveAt(q, i) = a \o b
  BY DEF RemoveAt
<1> HIDE DEF a, b
<1>5. a \o b \in Seq(S) /\ \A j \in DOMAIN (a \o b) :
         (\E k \in DOMAIN a : (a \o b)[j] = a[k]) \/ (\E k \in DOMAIN b : (a \o b)[j] = b[k])
  <2>1. a \in Seq(S) /\ b \in Seq(S)
    BY <1>2, <1>3
  <2>2. DOMAIN a = 1..Len(a) /\ DOMAIN b = 1..Len(b) /\ Len(a) \in Nat /\ Len(b) \in Nat
    BY <2>1
  <2>3. /\ a \o b \in Seq(S) /\ DOMAIN (a \o b) = 1..(Len(a) + Len(b))
        /\ \A j \in 1..(Len(a) + Len(b)) :
              (a \o b)[j] = IF j <= Len(a) THEN a[j] ELSE b[j - Len(a)]
    BY <2>1
  <2> QED
    BY <2>2, <2>3
<1>6. ToSet(a \o b) \subseteq ToSet(q)
  BY <1>2, <1>3, <1>5 DEF ToSet
<1> QED
  BY <1>4, <1>5, <1>6

LEMMA ToSetOfAppend ==
  ASSUME NEW S, NEW q \in Seq(S), NEW e \in S
  PROVE  Append(q, e) \in Seq(S) /\ ToSet(Append(q, e)) \subseteq ToSet(q) \cup {e}
BY DEF ToSet

(* The copy holds all that are subscribed. *)
LEMMA CopiedAll ==
  ASSUME HeardTypes, NEW type
  PROVE  Copied(type) \in Seq(Handlers) /\ SubscribersOf(type) \subseteq ToSet(Copied(type))
<1> DEFINE a == HandlersOf(type)
           b == HandlersOf(Wildcard)
<1>1. a \in Seq(Handlers) /\ b \in Seq(Handlers)
  BY DEF HeardTypes, HandlersOf
<1>2. Copied(type) = a \o b /\ SubscribersOf(type) = ToSet(a) \cup ToSet(b)
  BY DEF Copied, SubscribersOf
<1> HIDE DEF a, b
<1>3. a \o b \in Seq(Handlers)
  BY <1>1
<1>4. \A j \in DOMAIN a : j \in DOMAIN (a \o b) /\ (a \o b)[j] = a[j]
  BY <1>1
<1>5. \A j \in DOMAIN b : Len(a) + j \in DOMAIN (a \o b) /\ (a \o b)[Len(a) + j] = b[j]
  BY <1>1
<1>6. ToSet(a) \cup ToSet(b) \subseteq ToSet(a \o b)
  BY <1>4, <1>5 DEF ToSet
<1> QED
  BY <1>2, <1>3, <1>6

LEMMA ToSetParts ==
  ASSUME NEW S, NEW q \in Seq(S), q # <<>>
  PROVE  ToSet(q) \subseteq {Head(q)} \cup ToSet(Tail(q)) /\ Tail(q) \in Seq(S) /\ Head(q) \in S
<1>1. Tail(q) \in Seq(S) /\ Head(q) = q[1] /\ Head(q) \in S
  OBVIOUS
<1>2. \A i \in DOMAIN q : i = 1 \/ (i - 1 \in DOMAIN Tail(q) /\ Tail(q)[i - 1] = q[i])
  OBVIOUS
<1> QED
  BY <1>1, <1>2 DEF ToSet

LEMMA EmitKeepsHeard ==
  ASSUME EventTypes, HeardInv, NEW t \in Threads, Emit(t)
  PROVE  HeardInv'
<1> DEFINE e == Head(due[t])
<1>1. /\ DOMAIN emission' = Threads
      /\ emission'[t].id = emitted + 1 /\ emission'[t].event = e
      /\ emission'[t].calls = Copied(e.type)
      /\ \A u \in Threads \ {t} : emission'[u] = emission[u]
      /\ emitted' = emitted + 1 /\ emitted \in Nat
  BY DEF Emit, EventTypes
<1>2. handlers' = handlers /\ joined' = joined /\ heard' = heard /\ log' = log
  BY DEF Emit
<1> HIDE DEF e
<1>3. Copied(e.type) \in Seq(Handlers) /\ SubscribersOf(e.type) \subseteq ToSet(Copied(e.type))
  BY CopiedAll DEF HeardInv
<1>4. \A type : SubscribersOf(type)' = SubscribersOf(type)
  BY <1>2 DEF SubscribersOf, HandlersOf
<1>5. HeardTypes'
  <2>1. \A h \in DOMAIN joined : joined[h] \in Nat /\ joined[h] <= emitted'
    BY <1>1 DEF HeardInv, HeardTypes
  <2>2. \A i \in DOMAIN log : log[i].id <= emitted'
    BY <1>1, LoggedIds DEF HeardInv, HeardTypes
  <2>3. \A u \in Threads : emission'[u] # NoEmission =>
          emission'[u].id <= emitted' /\ emission'[u].calls \in Seq(Handlers)
    BY <1>1, <1>3 DEF HeardInv, HeardTypes, EventTypes
  <2> QED
    BY <1>2, <2>1, <2>2, <2>3 DEF HeardInv, HeardTypes
<1>6. LoggedIsHeard'
  BY <1>2, <1>4 DEF HeardInv, LoggedIsHeard
<1>7. UnderWayIsHeard'
  <2> SUFFICES ASSUME NEW u \in Threads, emission'[u] # NoEmission,
                      NEW h \in SubscribersOf(emission'[u].event.type),
                      emission'[u].id > joined[h]
               PROVE  emission'[u].id \in heard[h] \/ h \in ToSet(emission'[u].calls)
    BY <1>2, <1>4 DEF UnderWayIsHeard
  <2>1. CASE u = t
    BY <1>1, <1>3, <2>1
  <2>2. CASE u # t
    BY <1>1, <2>2 DEF HeardInv, UnderWayIsHeard
  <2> QED
    BY <2>1, <2>2
<1> QED
  BY <1>5, <1>6, <1>7 DEF HeardInv

LEMMA CallKeepsHeard ==
  ASSUME EventTypes, HeardInv, NEW t \in Threads, CallHandler(t)
  PROVE  HeardInv'
<1> DEFINE q == emission[t].calls
<1>1. /\ emission[t] # NoEmission /\ q # <<>>
      /\ DOMAIN emission' = Threads
      /\ emission'[t].id = emission[t].id /\ emission'[t].event = emission[t].event
      /\ emission'[t].calls = Tail(q)
      /\ \A u \in Threads \ {t} : emission'[u] = emission[u]
      /\ emitted' = emitted
  BY DEF CallHandler, EventTypes
<1>2. handlers' = handlers /\ joined' = joined /\ log' = log
  BY DEF CallHandler
<1>3. q \in Seq(Handlers)
  BY <1>1 DEF HeardInv, HeardTypes
<1>4. ToSet(q) \subseteq {Head(q)} \cup ToSet(Tail(q)) /\ Tail(q) \in Seq(Handlers) /\ Head(q) \in Handlers
  BY <1>1, <1>3, ToSetParts
<1>5. /\ DOMAIN heard' = Handlers
      /\ heard'[Head(q)] = heard[Head(q)] \cup {emission[t].id}
      /\ \A h \in Handlers \ {Head(q)} : heard'[h] = heard[h]
  BY <1>4 DEF CallHandler, HeardInv, HeardTypes
<1>6. \A h \in Handlers : heard[h] \subseteq heard'[h]
  BY <1>5
<1>7. \A type : SubscribersOf(type)' = SubscribersOf(type)
  BY <1>2 DEF SubscribersOf, HandlersOf
<1>8. \A type : SubscribersOf(type) \subseteq Handlers
  BY SubscribersJoined DEF HeardInv, HeardTypes
<1> HIDE DEF q
<1>9. HeardTypes'
  BY <1>1, <1>2, <1>4, <1>5 DEF HeardInv, HeardTypes
<1>10. LoggedIsHeard'
  <2> SUFFICES ASSUME NEW i \in DOMAIN log, NEW h \in SubscribersOf(log[i].event.type),
                      log[i].id > joined[h]
               PROVE  log[i].id \in heard'[h]
    BY <1>2, <1>7 DEF LoggedIsHeard
  <2> QED
    BY <1>6, <1>8 DEF HeardInv, LoggedIsHeard
<1>11. UnderWayIsHeard'
  <2> SUFFICES ASSUME NEW u \in Threads, emission'[u] # NoEmission,
                      NEW h \in SubscribersOf(emission'[u].event.type),
                      emission'[u].id > joined[h]
               PROVE  emission'[u].id \in heard'[h] \/ h \in ToSet(emission'[u].calls)
    BY <1>2, <1>7 DEF UnderWayIsHeard
  <2>1. CASE u = t
    <3>1. emission[t].id \in heard[h] \/ h \in ToSet(q)
      BY <1>1, <2>1 DEF HeardInv, UnderWayIsHeard, q
    <3>2. h \in Handlers
      BY <1>8
    <3> QED
      BY <1>1, <1>4, <1>5, <1>6, <2>1, <3>1, <3>2
  <2>2. CASE u # t
    BY <1>1, <1>6, <1>8, <2>2 DEF HeardInv, UnderWayIsHeard
  <2> QED
    BY <2>1, <2>2
<1> QED
  BY <1>9, <1>10, <1>11 DEF HeardInv

LEMMA LogKeepsHeard ==
  ASSUME EventTypes, HeardInv, NEW t \in Threads, LogEvent(t)
  PROVE  HeardInv'
<1> DEFINE r == [id |-> emission[t].id, event |-> emission[t].event]
<1>1. /\ emission[t] # NoEmission /\ emission[t].calls = <<>>
      /\ DOMAIN emission' = Threads /\ emission'[t] = NoEmission
      /\ \A u \in Threads \ {t} : emission'[u] = emission[u]
      /\ emitted' = emitted /\ log' = Trimmed(Append(log, r))
      /\ r \in Logged /\ r.event = emission[t].event /\ r.id = emission[t].id
      /\ log \in Seq(Logged)
  BY DEF LogEvent, EventTypes, Logged
<1>2. handlers' = handlers /\ joined' = joined /\ heard' = heard
  BY DEF LogEvent
<1> HIDE DEF r
<1>3. \A i \in DOMAIN log' : log'[i] = r \/ \E j \in DOMAIN log : log'[i] = log[j]
  BY <1>1, TrimmedFacts
<1>4. \A type : SubscribersOf(type)' = SubscribersOf(type)
  BY <1>2 DEF SubscribersOf, HandlersOf
<1>5. HeardTypes'
  <2>1. \A i \in DOMAIN log' : log'[i].id <= emitted'
    BY <1>1, <1>3 DEF HeardInv, HeardTypes
  <2> QED
    BY <1>1, <1>2, <2>1 DEF HeardInv, HeardTypes
<1>6. \A h \in SubscribersOf(r.event.type) : r.id > joined[h] => r.id \in heard[h]
  <2>1. ToSet(emission[t].calls) = {}
    BY <1>1 DEF ToSet
  <2> QED
    BY <1>1, <2>1 DEF HeardInv, UnderWayIsHeard
<1>7. LoggedIsHeard'
  <2> SUFFICES ASSUME NEW i \in DOMAIN log', NEW h \in SubscribersOf(log'[i].event.type),
                      log'[i].id > joined[h]
               PROVE  log'[i].id \in heard[h]
    BY <1>2, <1>4 DEF LoggedIsHeard
  <2> QED
    BY <1>3, <1>6 DEF HeardInv, LoggedIsHeard
<1>8. UnderWayIsHeard'
  BY <1>1, <1>2, <1>4 DEF HeardInv, UnderWayIsHeard
<1> QED
  BY <1>5, <1>7, <1>8 DEF HeardInv

(* Who subscribes now is owed nothing of what was emitted before. *)
LEMMA SubscribeKeepsHeard ==
  ASSUME EventTypes, HeardInv, NEW h \in Handlers, NEW type \in Types, Subscribe(h, type)
  PROVE  HeardInv'
<1>1. /\ h \notin DOMAIN joined
      /\ DOMAIN joined' = DOMAIN joined \cup {h} /\ joined'[h] = emitted
      /\ \A x \in DOMAIN joined : joined'[x] = joined[x]
      /\ handlers' = [handlers EXCEPT ![type] = Append(handlers[type], h)]
      /\ emission' = emission /\ emitted' = emitted /\ heard' = heard /\ log' = log
  BY DEF Subscribe
<1>2. handlers[type] \in Seq(Handlers)
  BY DEF HeardInv, HeardTypes
<1>3. /\ Append(handlers[type], h) \in Seq(Handlers)
      /\ ToSet(Append(handlers[type], h)) \subseteq ToSet(handlers[type]) \cup {h}
  BY <1>2, ToSetOfAppend
<1>4. /\ DOMAIN handlers' = Types /\ handlers'[type] = Append(handlers[type], h)
      /\ \A x \in Types \ {type} : handlers'[x] = handlers[x]
  BY <1>1 DEF HeardInv, HeardTypes
<1>5. \A x \in Types : ToSet(handlers'[x]) \subseteq ToSet(handlers[x]) \cup {h}
  BY <1>3, <1>4
<1>6. handlers' \in [Types -> Seq(Handlers)]
  <2>1. \A x \in Types : handlers'[x] \in Seq(Handlers)
    BY <1>3, <1>4 DEF HeardInv, HeardTypes
  <2>2. handlers' = [x \in Types |-> handlers'[x]]
    BY <1>1 DEF HeardInv, HeardTypes
  <2> QED
    BY <2>1, <2>2
<1>7. ASSUME NEW x PROVE SubscribersOf(x)' \subseteq SubscribersOf(x) \cup {h}
  <2>1. ToSet(<<>>) = {}
    BY DEF ToSet
  <2>2. \A y : ToSet(HandlersOf(y))' \subseteq ToSet(HandlersOf(y)) \cup {h}
    BY <1>5, <2>1 DEF HandlersOf
  <2> QED
    BY <2>2 DEF SubscribersOf
<1>8. emitted \in Nat
  BY DEF EventTypes
<1>9. HeardTypes'
  <2>1. \A x \in DOMAIN joined' : joined'[x] \in Nat /\ joined'[x] <= emitted'
    BY <1>1, <1>8 DEF HeardInv, HeardTypes
  <2>2. \A x \in Types : ToSet(handlers'[x]) \subseteq DOMAIN joined'
    BY <1>1, <1>5 DEF HeardInv, HeardTypes
  <2> QED
    BY <1>1, <1>6, <2>1, <2>2 DEF HeardInv, HeardTypes
<1>10. \A x : SubscribersOf(x) \subseteq DOMAIN joined
  BY SubscribersJoined DEF HeardInv
<1>11. LoggedIsHeard'
  <2> SUFFICES ASSUME NEW i \in DOMAIN log, NEW x \in SubscribersOf(log[i].event.type)',
                      log[i].id > joined'[x]
               PROVE  log[i].id \in heard[x]
    BY <1>1 DEF LoggedIsHeard
  <2>1. log[i].id \in Nat /\ log[i].id <= emitted
    BY LoggedIds DEF HeardInv, HeardTypes
  <2>2. x # h
    BY <1>1, <1>8, <2>1
  <2>3. x \in SubscribersOf(log[i].event.type) /\ joined'[x] = joined[x]
    BY <1>1, <1>7, <1>10, <2>2
  <2> QED
    BY <2>3 DEF HeardInv, LoggedIsHeard
<1>12. UnderWayIsHeard'
  <2> SUFFICES ASSUME NEW t \in Threads, emission[t] # NoEmission,
                      NEW x \in SubscribersOf(emission[t].event.type)',
                      emission[t].id > joined'[x]
               PROVE  emission[t].id \in heard[x] \/ x \in ToSet(emission[t].calls)
    BY <1>1 DEF UnderWayIsHeard
  <2>1. emission[t].id \in Nat /\ emission[t].id <= emitted
    BY DEF HeardInv, HeardTypes, EventTypes
  <2>2. x # h
    BY <1>1, <1>8, <2>1
  <2>3. x \in SubscribersOf(emission[t].event.type) /\ joined'[x] = joined[x]
    BY <1>1, <1>7, <1>10, <2>2
  <2> QED
    BY <2>3 DEF HeardInv, UnderWayIsHeard
<1> QED
  BY <1>9, <1>11, <1>12 DEF HeardInv

LEMMA UnsubscribeKeepsHeard ==
  ASSUME EventTypes, HeardInv, NEW h \in Handlers, Unsubscribe(h)
  PROVE  HeardInv'
<1>1. PICK type \in Types : \E i \in DOMAIN handlers[type] :
         handlers' = [handlers EXCEPT ![type] = RemoveAt(handlers[type], i)]
  BY DEF Unsubscribe
<1>2. PICK i \in DOMAIN handlers[type] :
         handlers' = [handlers EXCEPT ![type] = RemoveAt(handlers[type], i)]
  BY <1>1
<1>3. /\ joined' = joined /\ emission' = emission /\ emitted' = emitted
      /\ heard' = heard /\ log' = log
  BY DEF Unsubscribe
<1>4. handlers[type] \in Seq(Handlers)
  BY DEF HeardInv, HeardTypes
<1>5. /\ RemoveAt(handlers[type], i) \in Seq(Handlers)
      /\ ToSet(RemoveAt(handlers[type], i)) \subseteq ToSet(handlers[type])
  BY <1>4, RemoveAtKeeps
<1>6. /\ DOMAIN handlers' = Types /\ handlers'[type] = RemoveAt(handlers[type], i)
      /\ \A x \in Types \ {type} : handlers'[x] = handlers[x]
  BY <1>2 DEF HeardInv, HeardTypes
<1>7. \A x \in Types : ToSet(handlers'[x]) \subseteq ToSet(handlers[x])
  BY <1>5, <1>6
<1>8. handlers' \in [Types -> Seq(Handlers)]
  <2>1. \A x \in Types : handlers'[x] \in Seq(Handlers)
    BY <1>5, <1>6 DEF HeardInv, HeardTypes
  <2>2. handlers' = [x \in Types |-> handlers'[x]]
    BY <1>2 DEF HeardInv, HeardTypes
  <2> QED
    BY <2>1, <2>2
<1>9. ASSUME NEW x PROVE SubscribersOf(x)' \subseteq SubscribersOf(x)
  <2>1. \A y : ToSet(HandlersOf(y))' \subseteq ToSet(HandlersOf(y))
    BY <1>7 DEF HandlersOf
  <2> QED
    BY <2>1 DEF SubscribersOf
<1>10. HeardTypes'
  BY <1>3, <1>7, <1>8 DEF HeardInv, HeardTypes
<1>11. LoggedIsHeard'
  BY <1>3, <1>9 DEF HeardInv, LoggedIsHeard
<1>12. UnderWayIsHeard'
  BY <1>3, <1>9 DEF HeardInv, UnderWayIsHeard
<1> QED
  BY <1>10, <1>11, <1>12 DEF HeardInv

LEMMA IdleKeepsHeard ==
  ASSUME HeardInv, UNCHANGED <<handlers, joined, emission, emitted, heard, log>>
  PROVE  HeardInv'
BY DEF HeardInv, HeardTypes, LoggedIsHeard, UnderWayIsHeard, SubscribersOf, HandlersOf

LEMMA StepKeepsHeard ==
  ASSUME EventTypes, HeardInv, [WorkspaceNext]_workspaceVars
  PROVE  HeardInv'
<1>1. ASSUME NEW t \in Threads, NEW events, Announce(t, events) PROVE HeardInv'
  BY <1>1, IdleKeepsHeard DEF Announce
<1>2. ASSUME NEW t \in Workers, AgentTool(t) PROVE HeardInv'
  BY <1>1, <1>2 DEF AgentTool, AgentChange, Workers
<1>3. ASSUME NEW t \in Workers, HeartbeatTool(t) PROVE HeardInv'
  BY <1>3, IdleKeepsHeard DEF HeartbeatTool, busVars
<1>4. ASSUME NEW t \in Workers, ContextTool(t) PROVE HeardInv'
  BY <1>1, <1>4 DEF ContextTool, Workers
<1>5. ASSUME NEW t \in Workers, PublishEvent(t) PROVE HeardInv'
  BY <1>1, <1>5 DEF PublishEvent, Workers
<1>6. ASSUME NEW t \in Threads, Emits(t) PROVE HeardInv'
  BY <1>6, EmitKeepsHeard, CallKeepsHeard, LogKeepsHeard DEF Emits, EmitStep
<1>7. CASE Prune
  BY <1>1, <1>7, WorkspaceAssumption DEF Prune
<1>8. CASE Subscribing
  BY <1>8, SubscribeKeepsHeard, UnsubscribeKeepsHeard DEF Subscribing, Subscription
<1>9. CASE Tick
  BY <1>9, IdleKeepsHeard DEF Tick, busVars
<1>10. CASE UNCHANGED workspaceVars
  BY <1>10, IdleKeepsHeard DEF workspaceVars
<1> QED
  BY <1>2, <1>3, <1>4, <1>5, <1>6, <1>7, <1>8, <1>9, <1>10 DEF WorkspaceNext

-----------------------------------------------------------------------------
(* The types.  The registry's and the store's are kept by their own         *)
(* operations; a version stays within bounds because each write counts.    *)
RegistryTypes == now \in 0..MaxTime /\ RegistryTypeOK

StoreTypes ==
    /\ changes \in 0..MaxChanges
    /\ StoreTypeOK
    /\ \A k \in StoredKeys : store[k].version <= changes

LogEntry(n) == [id : 1..n, event : Event]
Emission(n) == [id : 1..n, event : Event, calls : Seq(Handlers)]

BusTypes ==
    /\ due \in [Threads -> Seq(Event)]
    /\ \A t \in Threads : emission[t] # NoEmission => emission[t] \in Emission(emitted)
    /\ heard \in [Handlers -> SUBSET (1..emitted)]
    /\ log \in Seq(LogEntry(emitted)) /\ Len(log) <= MaxLog

LEMMA ReportTypes ==
  ASSUME RegistryTypes, NEW a \in Agents, Report(a), now' = now
  PROVE  RegistryTypes'
<1>1. /\ agents' = [x \in Registered \cup {a} |-> IF x = a THEN now ELSE agents[x]]
      /\ reported' = [x \in DOMAIN reported \cup {a} |-> IF x = a THEN now ELSE reported[x]]
  BY DEF Report, Put, Registered
<1>2. now \in 0..MaxTime
  BY DEF RegistryTypes
<1>3. agents' \in [Registered \cup {a} -> 0..MaxTime] /\ Registered' = Registered \cup {a}
  BY <1>1, <1>2 DEF RegistryTypes, RegistryTypeOK, Registered
<1>4. /\ reported' \in [DOMAIN reported \cup {a} -> 0..MaxTime]
      /\ DOMAIN reported' = DOMAIN reported \cup {a}
  BY <1>1, <1>2 DEF RegistryTypes, RegistryTypeOK
<1> QED
  BY <1>2, <1>3, <1>4 DEF RegistryTypes, RegistryTypeOK

LEMMA RegistryStepTypes ==
  ASSUME RegistryTypes, [WorkspaceNext]_workspaceVars
  PROVE  RegistryTypes'
<1>1. ASSUME UNCHANGED <<now, agents, reported>> PROVE RegistryTypes'
  BY <1>1 DEF RegistryTypes, RegistryTypeOK, Registered
<1>2. ASSUME NEW t \in Workers, AgentTool(t) PROVE RegistryTypes'
  <2>1. PICK a \in Agents : AgentChange(t, a)
    BY <1>2 DEF AgentTool
  <2>2. now' = now
    BY <1>2 DEF AgentTool
  <2>3. CASE DeregisterAgent(a)
    BY <2>2, <2>3 DEF DeregisterAgent, Without, Restrict, RegistryTypes, RegistryTypeOK, Registered
  <2>4. CASE SetAgentRole(a)
    BY <1>1, <2>2, <2>4 DEF SetAgentRole, registryVars
  <2> QED
    BY <2>1, <2>2, <2>3, <2>4, ReportTypes DEF AgentChange, RegisterAgent, UpdateAgent
<1>3. ASSUME NEW t \in Workers, HeartbeatTool(t) PROVE RegistryTypes'
  BY <1>3, ReportTypes DEF HeartbeatTool, Heartbeat
<1>4. CASE Prune
  BY <1>4 DEF Prune, PruneStale, Without, Restrict, RegistryTypes, RegistryTypeOK, Registered
<1>5. CASE Tick
  <2>1. now' \in 0..MaxTime /\ UNCHANGED <<agents, reported>>
    BY <1>5, ClockAssumption DEF Tick, Passes, registryVars, RegistryTypes
  <2> QED
    BY <2>1 DEF RegistryTypes, RegistryTypeOK, Registered
<1> QED
  BY <1>1, <1>2, <1>3, <1>4, <1>5
     DEF WorkspaceNext, ContextTool, PublishEvent, Emits, Subscribing, registryVars, workspaceVars

LEMMA WrittenTypes ==
  ASSUME StoreTypes, Counts, NEW k \in Keys
  PROVE  /\ Written(k, changes + 1) \in Entry
         /\ Written(k, changes + 1) \in [value : Nat, version : Nat \ {0}]
         /\ Written(k, changes + 1).version <= changes + 1
<1> DEFINE w == Written(k, changes + 1)
           v == IF k \in StoredKeys THEN store[k].version + 1 ELSE 1
<1>1. changes \in Nat /\ changes + 1 <= MaxChanges /\ MaxChanges \in Nat
  BY WorkspaceAssumption DEF StoreTypes, Counts
<1>2. k \in StoredKeys => store[k].version \in Nat /\ store[k].version <= changes
  BY DEF StoreTypes, StoreTypeOK
<1>3. v \in 1..(changes + 1)
  BY <1>1, <1>2
<1>4. w = [value |-> changes + 1, version |-> v]
  BY DEF Written
<1> HIDE DEF w, v
<1>5. /\ changes + 1 \in 1..MaxChanges /\ v \in 1..MaxChanges /\ changes + 1 \in Nat
      /\ v \in Nat \ {0} /\ v <= changes + 1
  BY <1>1, <1>3
<1>6. w \in Entry /\ w \in [value : Nat, version : Nat \ {0}] /\ w.version = v
  BY <1>4, <1>5 DEF Entry
<1> QED
  BY <1>5, <1>6 DEF w

LEMMA StoreStepTypes ==
  ASSUME StoreTypes, [WorkspaceNext]_workspaceVars
  PROVE  StoreTypes'
<1>0. changes \in Nat /\ MaxChanges \in Nat
  BY WorkspaceAssumption DEF StoreTypes
<1>1. ASSUME store' = store, changes' = changes \/ Counts PROVE StoreTypes'
  <2>1. changes' \in 0..MaxChanges /\ changes' >= changes
    BY <1>0, <1>1 DEF StoreTypes, Counts
  <2>2. ASSUME NEW k \in StoredKeys PROVE store[k].version <= changes'
    BY <1>0, <2>1 DEF StoreTypes, StoreTypeOK
  <2> QED
    BY <1>1, <2>1, <2>2 DEF StoreTypes, StoreTypeOK, StoredKeys
<1>2. ASSUME NEW t \in Workers, ContextTool(t) PROVE StoreTypes'
  <2>1. Counts /\ changes' = changes + 1
    BY <1>2 DEF ContextTool, Counts
  <2>2. PICK k \in Keys : Write(k, changes + 1)
    BY <1>2 DEF ContextTool
  <2> DEFINE w == Written(k, changes + 1)
  <2>3. w \in [value : Nat, version : Nat \ {0}] /\ w.version <= changes + 1
    BY <2>1, WrittenTypes
  <2>4. store' = [x \in StoredKeys \cup {k} |-> IF x = k THEN w ELSE store[x]]
    BY <2>2 DEF Write
  <2> HIDE DEF w
  <2>5. /\ StoredKeys' = StoredKeys \cup {k}
        /\ store' \in [StoredKeys \cup {k} -> [value : Nat, version : Nat \ {0}]]
    BY <2>3, <2>4 DEF StoreTypes, StoreTypeOK, StoredKeys
  <2>6. changes' \in 0..MaxChanges
    BY <1>0, <2>1 DEF StoreTypes, Counts
  <2>7. ASSUME NEW x \in StoredKeys \cup {k} PROVE store'[x].version <= changes'
    <3>1. CASE x = k
      BY <2>1, <2>3, <2>4, <3>1
    <3>2. CASE x # k
      <4>1. store'[x] = store[x] /\ x \in StoredKeys
        BY <2>4, <3>2
      <4>2. store[x].version \in Nat /\ store[x].version <= changes
        BY <4>1 DEF StoreTypes, StoreTypeOK
      <4> QED
        BY <1>0, <2>1, <4>1, <4>2
    <3> QED
      BY <3>1, <3>2
  <2> QED
    BY <2>5, <2>6, <2>7 DEF StoreTypes, StoreTypeOK
<1> QED
  BY <1>1, <1>2
     DEF WorkspaceNext, AgentTool, HeartbeatTool, PublishEvent, Emits, Prune, Subscribing, Tick,
         workspaceVars

(* Ids are only ever handed out, so what is typed stays so. *)
LEMMA LaterIds ==
  ASSUME NEW m \in Nat, NEW n \in Nat, m <= n
  PROVE  /\ 1..m \subseteq 1..n
         /\ LogEntry(m) \subseteq LogEntry(n) /\ Emission(m) \subseteq Emission(n)
         /\ Seq(LogEntry(m)) \subseteq Seq(LogEntry(n))
<1>1. 1..m \subseteq 1..n
  OBVIOUS
<1>2. LogEntry(m) \subseteq LogEntry(n) /\ Emission(m) \subseteq Emission(n)
  BY <1>1 DEF LogEntry, Emission
<1>3. ASSUME NEW S, NEW T, S \subseteq T PROVE Seq(S) \subseteq Seq(T)
  BY <1>3
<1> QED
  BY <1>1, <1>2, <1>3

LEMMA TrimmedTypes ==
  ASSUME NEW S, NEW l \in Seq(S), NEW r \in S, Len(l) <= MaxLog
  PROVE  Trimmed(Append(l, r)) \in Seq(S) /\ Len(Trimmed(Append(l, r))) <= MaxLog
<1> DEFINE m == Append(l, r)
<1>1. m \in Seq(S) /\ m # <<>> /\ Len(m) = Len(l) + 1 /\ Len(l) \in Nat
  OBVIOUS
<1> HIDE DEF m
<1>2. Tail(m) \in Seq(S) /\ Len(Tail(m)) = Len(m) - 1
  BY <1>1
<1>3. MaxLog \in Nat
  BY BusAssumption
<1>4. CASE Len(m) > MaxLog
  <2>1. Trimmed(m) = Tail(m)
    BY <1>4 DEF Trimmed
  <2>2. Len(Tail(m)) <= MaxLog
    BY <1>1, <1>2, <1>3
  <2> QED
    BY <1>2, <2>1, <2>2 DEF m
<1>5. CASE ~(Len(m) > MaxLog)
  <2>1. Trimmed(m) = m
    BY <1>5 DEF Trimmed
  <2>2. Len(m) <= MaxLog
    BY <1>1, <1>3, <1>5
  <2> QED
    BY <1>1, <2>1, <2>2 DEF m
<1> QED
  BY <1>4, <1>5

LEMMA AnnounceTypes ==
  ASSUME BusTypes, NEW t \in Threads, NEW evs \in Seq(Event), Announce(t, evs)
  PROVE  BusTypes'
<1>1. UNCHANGED <<emission, emitted, heard, log>> /\ due' = [due EXCEPT ![t] = evs]
  BY DEF Announce
<1>2. due' \in [Threads -> Seq(Event)]
  BY <1>1 DEF BusTypes
<1> QED
  BY <1>1, <1>2 DEF BusTypes

LEMMA EmitTypes ==
  ASSUME BusTypes, EventTypes, HeardTypes, NEW t \in Threads, Emit(t)
  PROVE  BusTypes'
<1> DEFINE e == Head(due[t])
           c == Copied(e.type)
           n == emitted + 1
<1>1. /\ due[t] \in Seq(Event) /\ due[t] # <<>>
      /\ emitted' = n /\ due' = [due EXCEPT ![t] = Tail(due[t])]
      /\ emission' = [emission EXCEPT ![t] = [id |-> n, event |-> e, calls |-> c]]
      /\ UNCHANGED <<heard, log>>
  BY DEF Emit, BusTypes
<1>2. Tail(due[t]) \in Seq(Event) /\ e \in Event
  BY <1>1
<1>3. emitted \in Nat /\ n \in Nat /\ emitted <= n /\ n \in 1..n
  BY DEF EventTypes
<1>4. c \in Seq(Handlers)
  BY CopiedAll
<1> HIDE DEF e, c, n
<1>5. [id |-> n, event |-> e, calls |-> c] \in Emission(n)
  BY <1>2, <1>3, <1>4 DEF Emission
<1>6. Emission(emitted) \subseteq Emission(n) /\ 1..emitted \subseteq 1..n
      /\ Seq(LogEntry(emitted)) \subseteq Seq(LogEntry(n))
  BY <1>3, LaterIds
<1>7. due' \in [Threads -> Seq(Event)]
  BY <1>1, <1>2 DEF BusTypes
<1>8. ASSUME NEW u \in Threads, emission'[u] # NoEmission PROVE emission'[u] \in Emission(n)
  <2>1. CASE u = t
    BY <1>1, <1>5, <2>1 DEF EventTypes
  <2>2. CASE u # t
    <3>1. emission'[u] = emission[u]
      BY <1>1, <2>2 DEF EventTypes
    <3> QED
      BY <1>6, <1>8, <3>1 DEF BusTypes
  <2> QED
    BY <2>1, <2>2
<1>9. heard' \in [Handlers -> SUBSET (1..n)]
  BY <1>1, <1>6 DEF BusTypes
<1>10. log' \in Seq(LogEntry(n)) /\ Len(log') <= MaxLog
  BY <1>1, <1>6 DEF BusTypes
<1> QED
  BY <1>1, <1>7, <1>8, <1>9, <1>10 DEF BusTypes

LEMMA CallTypes ==
  ASSUME BusTypes, EventTypes, NEW t \in Threads, CallHandler(t)
  PROVE  BusTypes'
<1> DEFINE em == emission[t]
           h == Head(em.calls)
<1>1. /\ em # NoEmission /\ em.calls # <<>>
      /\ heard' = [heard EXCEPT ![h] = heard[h] \cup {em.id}]
      /\ emission' = [emission EXCEPT ![t] = [em EXCEPT !.calls = Tail(em.calls)]]
      /\ UNCHANGED <<due, emitted, log>>
  BY DEF CallHandler
<1>2. em \in Emission(emitted)
  BY <1>1 DEF BusTypes
<1> HIDE DEF em
<1>3. em.calls \in Seq(Handlers) /\ em.id \in 1..emitted
  BY <1>2 DEF Emission
<1>4. Tail(em.calls) \in Seq(Handlers) /\ h \in Handlers
  BY <1>1, <1>3
<1>5. [em EXCEPT !.calls = Tail(em.calls)] \in Emission(emitted)
  BY <1>2, <1>4 DEF Emission
<1> HIDE DEF h
<1>6. heard' \in [Handlers -> SUBSET (1..emitted)]
  BY <1>1, <1>3, <1>4 DEF BusTypes
<1>7. \A u \in Threads : emission'[u] # NoEmission => emission'[u] \in Emission(emitted)
  BY <1>1, <1>5 DEF BusTypes, EventTypes
<1> QED
  BY <1>1, <1>6, <1>7 DEF BusTypes

LEMMA LogTypes ==
  ASSUME BusTypes, EventTypes, NEW t \in Threads, LogEvent(t)
  PROVE  BusTypes'
<1> DEFINE r == [id |-> emission[t].id, event |-> emission[t].event]
<1>1. /\ emission[t] # NoEmission /\ emission' = [emission EXCEPT ![t] = NoEmission]
      /\ log' = Trimmed(Append(log, r))
      /\ UNCHANGED <<due, emitted, heard>>
  BY DEF LogEvent
<1>2. emission[t] \in Emission(emitted)
  BY <1>1 DEF BusTypes
<1>3. r \in LogEntry(emitted)
  BY <1>2 DEF Emission, LogEntry
<1> HIDE DEF r
<1>4. log' \in Seq(LogEntry(emitted)) /\ Len(log') <= MaxLog
  BY <1>1, <1>3, TrimmedTypes DEF BusTypes
<1>5. \A u \in Threads : emission'[u] # NoEmission => emission'[u] \in Emission(emitted)
  BY <1>1 DEF BusTypes, EventTypes
<1> QED
  BY <1>1, <1>4, <1>5 DEF BusTypes

LEMMA BusStepTypes ==
  ASSUME BusTypes, StoreTypes, RegistryTypes, EventTypes, HeardTypes,
         [WorkspaceNext]_workspaceVars
  PROVE  BusTypes'
<1>1. ASSUME UNCHANGED <<due, emission, emitted, heard, log>> PROVE BusTypes'
  BY <1>1 DEF BusTypes
<1>2. ASSUME NEW t \in Threads, NEW e \in Event, Announce(t, <<e>>) PROVE BusTypes'
  <2>1. <<e>> \in Seq(Event)
    OBVIOUS
  <2> QED
    BY <1>2, <2>1, AnnounceTypes
<1>3. ASSUME NEW type \in AgentEvents, NEW a \in Agents PROVE AgentEvent(type, a) \in Event
  BY DEF AgentEvent, Event
<1>4. ASSUME NEW t \in Workers, AgentTool(t) PROVE BusTypes'
  <2>1. PICK a \in Agents, type \in AgentEvents : Announce(t, <<AgentEvent(type, a)>>)
    BY <1>4 DEF AgentTool, AgentChange, AgentEvents
  <2> QED
    BY <1>2, <1>3, <2>1 DEF Workers
<1>5. ASSUME NEW t \in Workers, ContextTool(t) PROVE BusTypes'
  <2>1. PICK k \in Keys, type \in ContextEvents : Announce(t, <<ContextEvent(k, type)>>)
    BY <1>5 DEF ContextTool
  <2>2. Written(k, changes + 1) \in Entry
    BY <1>5, WrittenTypes DEF ContextTool
  <2>3. ContextEvent(k, type) \in Event
    BY <2>2 DEF ContextEvent, Event
  <2> QED
    BY <1>2, <2>1, <2>3 DEF Workers
<1>6. ASSUME NEW t \in Workers, PublishEvent(t) PROVE BusTypes'
  <2>1. PICK type \in Types : Announce(t, <<[type |-> type, about |-> NoEntry, entry |-> NoEntry]>>)
    BY <1>6 DEF PublishEvent
  <2>2. [type |-> type, about |-> NoEntry, entry |-> NoEntry] \in Event
    BY DEF Event
  <2> QED
    BY <1>2, <2>1, <2>2 DEF Workers
<1>7. ASSUME NEW t \in Threads, Emits(t) PROVE BusTypes'
  BY <1>7, EmitTypes, CallTypes, LogTypes DEF Emits, EmitStep
<1>8. CASE Prune
  <2>1. PICK order \in SetToSeqs(Stale) :
           Announce(Pruner, [i \in DOMAIN order |-> AgentEvent("agent.pruned", order[i])])
    BY <1>8 DEF Prune
  <2>2. Stale \subseteq Agents
    BY DEF RegistryTypes, RegistryTypeOK, Stale
  <2>3. Cardinality(Stale) \in Nat
    BY <2>2, AgentsAssumption, FS_Subset, FS_CardinalityType
  <2>4. DOMAIN order = 1..Cardinality(Stale) /\ \A i \in DOMAIN order : order[i] \in Agents
    BY <2>1, <2>2 DEF SetToSeqs
  <2>5. "agent.pruned" \in AgentEvents
    BY DEF AgentEvents
  <2>6. \A i \in 1..Cardinality(Stale) : AgentEvent("agent.pruned", order[i]) \in Event
    BY <1>3, <2>4, <2>5
  <2>7. [i \in DOMAIN order |-> AgentEvent("agent.pruned", order[i])] \in Seq(Event)
    BY <2>3, <2>4, <2>6
  <2> QED
    BY <2>1, <2>7, AnnounceTypes, WorkspaceAssumption
<1> QED
  BY <1>1, <1>4, <1>5, <1>6, <1>7, <1>8
     DEF WorkspaceNext, HeartbeatTool, Subscribing, Subscription, Subscribe, Unsubscribe, Tick,
         busVars, workspaceVars

LEMMA StartsTyped == WorkspaceInit => RegistryTypes /\ StoreTypes /\ BusTypes
<1> SUFFICES ASSUME WorkspaceInit PROVE RegistryTypes /\ StoreTypes /\ BusTypes
  OBVIOUS
<1>1. RegistryTypes
  BY ClockAssumption
     DEF WorkspaceInit, ClockInit, RegistryInit, NoAgents, RegistryTypes, RegistryTypeOK, Registered
<1>2. StoreTypes
  BY WorkspaceAssumption DEF WorkspaceInit, StoreInit, StoreTypes, StoreTypeOK, StoredKeys
<1>3. /\ due = [t \in Threads |-> <<>>] /\ \A t \in Threads : emission[t] = NoEmission
      /\ heard = [h \in Handlers |-> {}] /\ log = <<>>
  BY DEF WorkspaceInit, BusInit
<1>4. Len(<<>>) = 0
  OBVIOUS
<1>5. log \in Seq(LogEntry(emitted)) /\ Len(log) <= MaxLog
  BY <1>3, <1>4, BusAssumption
<1>6. BusTypes
  BY <1>3, <1>5 DEF BusTypes
<1> QED
  BY <1>1, <1>2, <1>6

(* The handlers of every type are among those that joined. *)
LEMMA TypedWorkspace ==
  ASSUME RegistryTypes, StoreTypes, BusTypes, HeardTypes
  PROVE  WorkspaceTypeOK
<1>1. \A type \in Types : handlers[type] \in Seq(DOMAIN joined)
  <2>1. ASSUME NEW q \in Seq(Handlers), ToSet(q) \subseteq DOMAIN joined
        PROVE  q \in Seq(DOMAIN joined)
    <3>1. \A i \in 1..Len(q) : q[i] \in DOMAIN joined
      BY <2>1 DEF ToSet
    <3>2. q = [i \in 1..Len(q) |-> q[i]] /\ Len(q) \in Nat
      OBVIOUS
    <3> QED
      BY <3>1, <3>2
  <2> QED
    BY <2>1 DEF HeardTypes
<1>2. handlers \in [Types -> Seq(DOMAIN joined)]
  BY <1>1 DEF HeardTypes
<1> QED
  BY <1>2 DEF WorkspaceTypeOK, RegistryTypes, StoreTypes, BusTypes, HeardTypes, LogEntry, Emission

LEMMA HeardInvariant == WorkspaceSpec => []HeardInv
<1>1. WorkspaceInit => HeardInv
  <2> SUFFICES ASSUME WorkspaceInit PROVE HeardInv
    OBVIOUS
  <2>1. /\ handlers = [type \in Types |-> <<>>] /\ DOMAIN joined = {} /\ log = <<>>
        /\ DOMAIN heard = Handlers /\ \A t \in Threads : emission[t] = NoEmission
    BY DEF WorkspaceInit, BusInit
  <2>2. ToSet(<<>>) = {}
    BY DEF ToSet
  <2>3. HeardTypes
    BY <2>1, <2>2 DEF HeardTypes
  <2> QED
    BY <2>1, <2>3 DEF HeardInv, LoggedIsHeard, UnderWayIsHeard
<1>2. EventTypes /\ HeardInv /\ [WorkspaceNext]_workspaceVars => HeardInv'
  BY StepKeepsHeard
<1>3. VersionInv => EventTypes
  BY DEF VersionInv
<1> QED
  BY <1>1, <1>2, <1>3, VersionsInvariant, PTL DEF WorkspaceSpec

(* A subscriber was called with everything in the log that was emitted      *)
(* after it subscribed: EventBus::emit, which copies the handlers and calls *)
(* them without a lock, against subscribe and unsubscribe.                  *)
THEOREM SubscribersHear == WorkspaceSpec => []LoggedIsHeard
<1>1. HeardInv => LoggedIsHeard
  BY DEF HeardInv
<1> QED
  BY <1>1, HeardInvariant, PTL

LEMMA TypesInvariant == WorkspaceSpec => [](RegistryTypes /\ StoreTypes /\ BusTypes)
<1> DEFINE Typed == RegistryTypes /\ StoreTypes /\ BusTypes
<1>1. VersionInv /\ HeardInv => EventTypes /\ HeardTypes
  BY DEF VersionInv, HeardInv
<1>2. Typed /\ VersionInv /\ HeardInv /\ [WorkspaceNext]_workspaceVars => Typed'
  BY <1>1, RegistryStepTypes, StoreStepTypes, BusStepTypes
<1> QED
  BY <1>2, StartsTyped, VersionsInvariant, HeardInvariant, PTL DEF WorkspaceSpec

(* The registry, the context and the event bus keep their types in every    *)
(* interleaving of the tools' changes, emissions and subscriptions: the     *)
(* handlers that are called are subscribed ones, and the log stays within  *)
(* its limit.                                                              *)
THEOREM WorkspaceTypes == WorkspaceSpec => []WorkspaceTypeOK
<1>1. RegistryTypes /\ StoreTypes /\ BusTypes /\ HeardInv => WorkspaceTypeOK
  BY TypedWorkspace DEF HeardInv
<1> QED
  BY <1>1, TypesInvariant, HeardInvariant, PTL

-----------------------------------------------------------------------------
(* Who reads the log when nobody has anything left to emit, and it has not  *)
(* begun to drop events, finds in it for every key the entry the store has, *)
(* as the one with the highest version: an agent that follows the context  *)
(* by its events gets there, in whatever order they were logged.           *)
LogCatchesUp ==
    (\A t \in Threads : Silent(t)) /\ Len(log) < MaxLog =>
        \A k \in StoredKeys : \E i \in DOMAIN log :
            /\ log[i].event.about = k /\ log[i].event.entry = store[k]
            /\ \A j \in DOMAIN log :
                  log[j].event.about = k /\ log[j].event.entry # NoEntry =>
                      log[j].event.entry.version <= store[k].version

(* What the store has of a key is told: logged, under way or due. *)
Told(k) == \E e \in Events : e.about = k /\ e.entry = store[k]

NewestTold == Len(log) < MaxLog => \A k \in StoredKeys : Told(k)

(* A log that is not full yet has dropped nothing. *)
LEMMA NotFullYet ==
  ASSUME NEW l \in Seq(Logged), NEW r \in Logged, Len(Trimmed(Append(l, r))) < MaxLog
  PROVE  /\ Trimmed(Append(l, r)) = Append(l, r) /\ Len(l) < MaxLog
         /\ Append(l, r)[Len(l) + 1] = r /\ Len(l) + 1 \in DOMAIN Append(l, r)
         /\ \A i \in DOMAIN l : i \in DOMAIN Append(l, r) /\ Append(l, r)[i] = l[i]
<1>1. /\ Append(l, r) \in Seq(Logged) /\ Len(Append(l, r)) = Len(l) + 1 /\ Len(l) \in Nat
      /\ Append(l, r)[Len(l) + 1] = r /\ Len(l) + 1 \in DOMAIN Append(l, r)
      /\ \A i \in DOMAIN l : i \in DOMAIN Append(l, r) /\ Append(l, r)[i] = l[i]
  OBVIOUS
<1>2. MaxLog \in Nat
  BY BusAssumption
<1> DEFINE m == Append(l, r)
<1> HIDE DEF m
<1>3. Len(m) <= MaxLog
  <2> SUFFICES ASSUME Len(m) > MaxLog PROVE FALSE
    BY <1>1, <1>2 DEF m
  <2>1. Trimmed(m) = Tail(m)
    BY DEF Trimmed
  <2>2. Len(Tail(m)) = Len(m) - 1
    BY <1>1, <1>2 DEF m
  <2> QED
    BY <1>1, <1>2, <2>1, <2>2 DEF m
<1>4. Trimmed(m) = m
  BY <1>1, <1>2, <1>3 DEF Trimmed, m
<1> QED
  BY <1>1, <1>2, <1>4 DEF m

(* Announcing loses nothing, since only a silent thread announces. *)
LEMMA AnnounceLosesNothing ==
  ASSUME EventTypes, NEW t \in Threads, Silent(t), NEW evs \in Seq(AnyEvent), Announce(t, evs)
  PROVE  /\ \A e \in Events : e \in Events'
         /\ \A e \in ToSet(evs) : e \in Events'
         /\ log' = log
<1>1. /\ due'[t] = evs /\ due[t] = <<>> /\ \A u \in Threads \ {t} : due'[u] = due[u]
      /\ emission' = emission /\ log' = log
  BY DEF Announce, EventTypes, Silent
<1>2. \A e : e \notin ToSet(due[t])
  <2>1. ToSet(<<>>) = {}
    BY DEF ToSet
  <2> QED
    BY <1>1, <2>1
<1>3. ASSUME NEW e \in Events PROVE e \in Events'
  <2>1. \/ \E i \in DOMAIN log : e = log[i].event
        \/ \E u \in Threads \ {t} : e \in ToSet(due[u])
        \/ \E u \in Threads : emission[u] # NoEmission /\ e = emission[u].event
    BY <1>2, EventsBefore DEF EventsAre, Somewhere
  <2> QED
    BY <1>1, <2>1, EventsAfter
<1>4. ASSUME NEW e \in ToSet(evs) PROVE e \in Events'
  BY <1>1, EventsAfter
<1> QED
  BY <1>1, <1>3, <1>4

(* A thread that emits or goes on to the next handler stays in emit. *)
LEMMA StaysInEmit ==
  ASSUME BusTypes, EventTypes, HeardTypes, NEW t \in Threads, Emit(t) \/ CallHandler(t)
  PROVE  emission'[t] # NoEmission
<1> DEFINE em == emission[t]
<1>1. CASE Emit(t)
  <2> DEFINE e == Head(due[t])
             c == Copied(e.type)
             n == emitted + 1
  <2>1. due[t] \in Seq(Event) /\ due[t] # <<>> /\ n \in Nat
    BY <1>1 DEF Emit, BusTypes, EventTypes
  <2>2. e \in Event
    BY <2>1
  <2>3. emission'[t] = [id |-> n, event |-> e, calls |-> c]
    BY <1>1 DEF Emit, EventTypes
  <2>4. c \in Seq(Handlers)
    BY CopiedAll
  <2> HIDE DEF e, c, n
  <2>5. emission'[t] \in [id : Nat, event : Event, calls : Seq(Handlers)]
    BY <2>1, <2>2, <2>3, <2>4
  <2> QED
    BY <2>5, NoEmissionAssumption
<1>2. CASE CallHandler(t)
  <2>1. em \in Emission(emitted) /\ em.calls # <<>> /\ emitted \in Nat
    BY <1>2 DEF CallHandler, BusTypes, EventTypes
  <2>2. emission'[t] = [em EXCEPT !.calls = Tail(em.calls)]
    BY <1>2 DEF CallHandler, EventTypes
  <2> HIDE DEF em
  <2>3. Tail(em.calls) \in Seq(Handlers)
    BY <2>1 DEF Emission
  <2>4. emission'[t] \in [id : Nat, event : Event, calls : Seq(Handlers)]
    BY <2>1, <2>2, <2>3 DEF Emission
  <2> QED
    BY <2>4, NoEmissionAssumption
<1> QED
  BY <1>1, <1>2

(* Emitting loses nothing while the log is not full. *)
LEMMA EmittingLosesNothing ==
  ASSUME BusTypes, EventTypes, HeardTypes, NEW t \in Threads, EmitStep(t), Len(log') < MaxLog
  PROVE  Len(log) < MaxLog /\ \A e \in Events : e \in Events'
<1>1. CASE Emit(t)
  <2>1. /\ due'[t] = Tail(due[t]) /\ due[t] # <<>> /\ due[t] \in Seq(AnyEvent)
        /\ \A u \in Threads \ {t} : due'[u] = due[u]
        /\ emission[t] = NoEmission /\ emission'[t].event = Head(due[t])
        /\ DOMAIN emission'[t] = {"id", "event", "calls"}
        /\ \A u \in Threads \ {t} : emission'[u] = emission[u]
        /\ log' = log
    BY <1>1 DEF Emit, EventTypes
  <2>2. emission'[t] # NoEmission
    BY <1>1, StaysInEmit
  <2>3. \A e \in ToSet(due[t]) : e = Head(due[t]) \/ e \in ToSet(Tail(due[t]))
    BY <2>1, ToSetParts
  <2>4. ASSUME NEW e \in Events PROVE e \in Events'
    <3>1. Somewhere(e)
      BY <2>4, EventsBefore DEF EventsAre
    <3> QED
      BY <2>1, <2>2, <2>3, <3>1, EventsAfter DEF Somewhere
  <2> QED
    BY <2>1, <2>4
<1>2. CASE CallHandler(t)
  <2>1. /\ emission'[t].event = emission[t].event /\ emission'[t] # NoEmission
        /\ \A u \in Threads \ {t} : emission'[u] = emission[u]
        /\ due' = due /\ log' = log
    BY <1>2, StaysInEmit DEF CallHandler, EventTypes
  <2>2. ASSUME NEW e \in Events PROVE e \in Events'
    BY <2>1, <2>2, EventsBefore, EventsAfter DEF EventsAre, Somewhere
  <2> QED
    BY <2>1, <2>2
<1>3. CASE LogEvent(t)
  <2> DEFINE r == [id |-> emission[t].id, event |-> emission[t].event]
  <2>1. /\ \A u \in Threads \ {t} : emission'[u] = emission[u]
        /\ due' = due /\ log' = Trimmed(Append(log, r))
        /\ r \in Logged /\ r.event = emission[t].event /\ log \in Seq(Logged)
    BY <1>3 DEF LogEvent, EventTypes, Logged
  <2> HIDE DEF r
  <2>2. /\ Len(log) < MaxLog
        /\ log'[Len(log) + 1] = r /\ Len(log) + 1 \in DOMAIN log'
        /\ \A i \in DOMAIN log : i \in DOMAIN log' /\ log'[i] = log[i]
    BY <2>1, NotFullYet
  <2>3. ASSUME NEW e \in Events PROVE e \in Events'
    <3>1. Somewhere(e)
      BY <2>3, EventsBefore DEF EventsAre
    <3>2. CASE e = emission[t].event
      BY <2>1, <2>2, <3>2, EventsAfter
    <3>3. CASE e # emission[t].event
      BY <2>1, <2>2, <3>1, <3>3, EventsAfter DEF Somewhere
    <3> QED
      BY <3>2, <3>3
  <2> QED
    BY <2>2, <2>3
<1> QED
  BY <1>1, <1>2, <1>3 DEF EmitStep

(* What was told stays so if no event is lost, and what is written is told. *)
LEMMA ToldStays ==
  ASSUME NewestTold,
         Len(log') < MaxLog => Len(log) < MaxLog /\ \A e \in Events : e \in Events',
         \A k \in DOMAIN store' :
            \/ k \in StoredKeys /\ store'[k] = store[k]
            \/ \E e \in Events' : e.about = k /\ e.entry = store'[k]
  PROVE  NewestTold'
BY DEF NewestTold, Told, StoredKeys

(* A change that leaves the context alone and has events to announce. *)
LEMMA AnnounceKeepsTold ==
  ASSUME NewestTold, EventTypes, NEW t \in Threads, Silent(t),
         NEW evs \in Seq(AnyEvent), Announce(t, evs), store' = store
  PROVE  NewestTold'
<1>1. log' = log /\ \A e \in Events : e \in Events'
  BY AnnounceLosesNothing
<1> QED
  BY <1>1, ToldStays DEF StoredKeys

LEMMA ContextToolTells ==
  ASSUME NewestTold, VersionInv, NEW t \in Workers, ContextTool(t)
  PROVE  NewestTold'
<1> t \in Threads
  BY DEF Workers
<1>1. PICK k \in Keys, type \in ContextEvents :
         Write(k, changes + 1) /\ Announce(t, <<ContextEvent(k, type)>>)
  BY DEF ContextTool
<1> DEFINE w == Written(k, changes + 1)
           e == ContextEvent(k, type)
<1>2. w \in [value : Nat, version : Nat]
  <2>1. changes + 1 \in Nat /\ (k \in StoredKeys => store[k].version \in Nat)
    BY DEF VersionInv, Ordered
  <2> QED
    BY <2>1 DEF Written
<1>3. e \in AnyEvent /\ e.about = k /\ e.entry = w
  BY <1>2 DEF AnyEvent, ContextEvent
<1>4. DOMAIN store' = StoredKeys \cup {k} /\ store'[k] = w
      /\ \A x \in StoredKeys \ {k} : store'[x] = store[x]
  BY <1>1 DEF Write, StoredKeys
<1>5. Silent(t) /\ EventTypes
  BY DEF ContextTool, VersionInv
<1>6. log' = log /\ (\A f \in Events : f \in Events') /\ e \in Events'
  BY <1>1, <1>3, <1>5, OneEvent, AnnounceLosesNothing
<1> HIDE DEF w, e
<1> QED
  BY <1>3, <1>4, <1>6, ToldStays

LEMMA PruneKeepsTold ==
  ASSUME NewestTold, VersionInv, Prune
  PROVE  NewestTold'
<1> Pruner \in Threads
  BY WorkspaceAssumption
<1>1. PICK order \in SetToSeqs(Stale) :
         Announce(Pruner, [i \in DOMAIN order |-> AgentEvent("agent.pruned", order[i])])
  BY DEF Prune
<1>2. [i \in DOMAIN order |-> AgentEvent("agent.pruned", order[i])] \in Seq(AnyEvent)
  BY PrunedEvents
<1>3. Silent(Pruner) /\ store' = store /\ EventTypes
  BY DEF Prune, VersionInv
<1> QED
  BY <1>1, <1>2, <1>3, AnnounceKeepsTold

LEMMA AgentToolKeepsTold ==
  ASSUME NewestTold, EventTypes, NEW t \in Workers, AgentTool(t) \/ PublishEvent(t)
  PROVE  NewestTold'
<1> t \in Threads
  BY DEF Workers
<1>1. Silent(t) /\ store' = store
  BY DEF AgentTool, PublishEvent
<1>2. PICK e \in AnyEvent : Announce(t, <<e>>)
  <2>1. CASE AgentTool(t)
    <3>1. PICK a \in Agents : AgentChange(t, a)
      BY <2>1 DEF AgentTool
    <3>2. PICK type \in AgentEvents : Announce(t, <<AgentEvent(type, a)>>)
      BY <3>1 DEF AgentChange, AgentEvents
    <3> QED
      BY <3>2, AgentEventFacts
  <2>2. CASE PublishEvent(t)
    <3>1. PICK type \in Types :
             Announce(t, <<[type |-> type, about |-> NoEntry, entry |-> NoEntry]>>)
      BY <2>2 DEF PublishEvent
    <3>2. [type |-> type, about |-> NoEntry, entry |-> NoEntry] \in AnyEvent
      BY DEF AnyEvent
    <3> QED
      BY <3>1, <3>2
  <2> QED
    BY <2>1, <2>2
<1> QED
  BY <1>1, <1>2, OneEvent, AnnounceKeepsTold

LEMMA IdleKeepsTold ==
  ASSUME NewestTold, EventTypes, UNCHANGED <<due, emission, log, store>>
  PROVE  NewestTold'
<1>1. \A e \in Events : e \in Events'
  BY EventsBefore, EventsAfter DEF EventsAre, Somewhere
<1> QED
  BY <1>1, ToldStays DEF StoredKeys

LEMMA StepKeepsTold ==
  ASSUME NewestTold, VersionInv, BusTypes, HeardTypes, [WorkspaceNext]_workspaceVars
  PROVE  NewestTold'
<1>0. EventTypes
  BY DEF VersionInv
<1>1. ASSUME NEW t \in Workers, AgentTool(t) PROVE NewestTold'
  BY <1>0, <1>1, AgentToolKeepsTold
<1>2. ASSUME NEW t \in Workers, HeartbeatTool(t) PROVE NewestTold'
  BY <1>0, <1>2, IdleKeepsTold DEF HeartbeatTool, busVars
<1>3. ASSUME NEW t \in Workers, ContextTool(t) PROVE NewestTold'
  BY <1>3, ContextToolTells
<1>4. ASSUME NEW t \in Workers, PublishEvent(t) PROVE NewestTold'
  BY <1>0, <1>4, AgentToolKeepsTold
<1>5. ASSUME NEW t \in Threads, Emits(t) PROVE NewestTold'
  <2>1. EmitStep(t) /\ store' = store
    BY <1>5 DEF Emits
  <2>2. Len(log') < MaxLog => Len(log) < MaxLog /\ \A e \in Events : e \in Events'
    BY <1>0, <2>1, EmittingLosesNothing
  <2> QED
    BY <2>1, <2>2, ToldStays DEF StoredKeys
<1>6. CASE Prune
  BY <1>6, PruneKeepsTold
<1>7. CASE Subscribing
  BY <1>0, <1>7, IdleKeepsTold DEF Subscribing, Subscription, Subscribe, Unsubscribe
<1>8. CASE Tick
  BY <1>0, <1>8, IdleKeepsTold DEF Tick, busVars
<1>9. CASE UNCHANGED workspaceVars
  BY <1>0, <1>9, IdleKeepsTold DEF workspaceVars
<1> QED
  BY <1>1, <1>2, <1>3, <1>4, <1>5, <1>6, <1>7, <1>8, <1>9 DEF WorkspaceNext

(* When nobody emits, every event there is is in the log. *)
LEMMA QuietIsLogged ==
  ASSUME NewestTold, VersionsOrderWrites, StoredKeys \subseteq Keys
  PROVE  LogCatchesUp
<1> SUFFICES ASSUME \A t \in Threads : Silent(t), Len(log) < MaxLog, NEW k \in StoredKeys
             PROVE  \E i \in DOMAIN log :
                      /\ log[i].event.about = k /\ log[i].event.entry = store[k]
                      /\ \A j \in DOMAIN log :
                            log[j].event.about = k /\ log[j].event.entry # NoEntry =>
                                log[j].event.entry.version <= store[k].version
  BY DEF LogCatchesUp
<1>1. PICK e \in Events : e.about = k /\ e.entry = store[k]
  BY DEF NewestTold, Told
<1>2. \A t \in Threads : \A f : f \notin ToSet(due[t])
  <2>1. ToSet(<<>>) = {}
    BY DEF ToSet
  <2> QED
    BY <2>1 DEF Silent
<1>3. PICK i \in DOMAIN log : e = log[i].event
  BY <1>2, EventsBefore DEF EventsAre, Somewhere, Silent
<1>4. ASSUME NEW j \in DOMAIN log,
             log[j].event.about = k, log[j].event.entry # NoEntry
      PROVE  log[j].event.entry.version <= store[k].version
  <2>1. log[j].event \in Events
    BY EventsBefore DEF EventsAre, Somewhere
  <2>2. log[j].event.entry \in Seen(k)
    BY <1>4, <2>1, SeenBefore DEF SeenAre, SeenIn
  <2> QED
    BY <2>2 DEF VersionsOrderWrites
<1> QED
  BY <1>1, <1>3, <1>4

(* Whatever writers and the prune thread interleave, and in whatever order  *)
(* events get into the log: when all is emitted, the entries the log shows *)
(* as the newest are the context.                                          *)
THEOREM LogFollowsContext == WorkspaceSpec => []LogCatchesUp
<1>1. WorkspaceInit => NewestTold
  BY DEF WorkspaceInit, StoreInit, StoredKeys, NewestTold
<1>2. NewestTold /\ VersionInv /\ HeardInv /\ BusTypes /\ [WorkspaceNext]_workspaceVars => NewestTold'
  BY StepKeepsTold DEF HeardInv
<1>3. NewestTold /\ VersionsOrderWrites /\ StoreTypes => LogCatchesUp
  BY QuietIsLogged DEF StoreTypes, StoreTypeOK
<1> QED
  BY <1>1, <1>2, <1>3, TypesInvariant, VersionsInvariant, HeardInvariant,
     VersionsTellTheOrder, PTL DEF WorkspaceSpec
=============================================================================
