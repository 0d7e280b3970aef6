------------------------------- MODULE Server -------------------------------
(***************************************************************************)
(* The life cycle of the server process (mcp/server.cpp and the end of     *)
(* main.cpp) over its snapshot file: start() loads the snapshot and starts *)
(* three threads and the HTTP transport, the auto-save thread collects a   *)
(* snapshot from the stores one after another while requests change them,  *)
(* stop() ends the threads in a fixed order.  The process can be killed    *)
(* and the power can fail at any time.                                     *)
(*                                                                         *)
(* Each store is one lock, so a store's content is one value here: the     *)
(* number of the change that made it, counted over all stores and all      *)
(* runs, so that a greater number is a later content and nothing changed   *)
(* is 0.  Branches and merge requests are saved and not loaded.            *)
(***************************************************************************)
EXTENDS Persistence, Sequences, Naturals

CONSTANTS
    Order,      \* the stores in the order the auto-save thread reads them
    Restored,   \* those that load_persistence restores
    MaxChanges  \* bound: changes made by requests, over all runs

Parts == {Order[k] : k \in DOMAIN Order}
Content == [Parts -> 0..MaxChanges]
Fresh == [p \in Parts |-> 0]

ASSUME OrderAssumption ==
    Order \in Seq(Parts) /\ Order # <<>> /\ Restored \subseteq Parts /\ MaxChanges \in Nat
ASSUME SnapshotsAssumption == Snapshots = Content

VARIABLES
    main,       \* what the main thread does next
    running,    \* running_
    http,       \* the HTTP transport serves requests
    threads,    \* heartbeat_thread_, prune_thread_ and auto_save_thread_
    autoSave,   \* auto_save_active_
    stores,     \* the contents of the stores
    made,       \* number of changes made so far
    taken,      \* the snapshot the auto-save thread collects
    turn,       \* the store it reads next, 0 when it collects nothing
    woke,       \* history: the stores when it began to collect
    unread      \* history: this process could not open the snapshot

lifeVars == <<main, running, http, threads, autoSave>>
storeVars == <<stores, made>>
collectVars == <<taken, turn, woke>>
serverVars == <<fileVars, lifeVars, storeVars, collectVars, unread>>

Threads == {"heartbeat", "prune", "auto_save"}

(* A std::thread object: none or joined, its loop running, its loop ended. *)
ThreadStates == {"none", "looping", "ended"}

MainSteps == {"down", "load", "threads", "http", "serve", "join_auto_save",
              "stop_http", "join_heartbeat", "join_prune", "destroy",
              "terminated"}

ServerTypeOK ==
    /\ FileTypeOK
    /\ main \in MainSteps
    /\ running \in BOOLEAN /\ http \in BOOLEAN /\ autoSave \in BOOLEAN
    /\ threads \in [Threads -> ThreadStates]
    /\ stores \in Content /\ taken \in Content /\ woke \in Content
    /\ made \in 0..MaxChanges
    /\ turn \in 0..Len(Order)
    /\ unread \in BOOLEAN

NoThreads == [t \in Threads |-> "none"]

ServerInit ==
    /\ FileInit
    /\ main = "down"
    /\ running = FALSE /\ http = FALSE /\ autoSave = FALSE
    /\ threads = NoThreads
    /\ stores = Fresh /\ made = 0
    /\ taken = Fresh /\ turn = 0 /\ woke = Fresh
    /\ unread = FALSE

-----------------------------------------------------------------------------
(* start() *)

Launch ==
    /\ main \in {"down", "terminated"}
    /\ main' = "load"
    /\ UNCHANGED <<fileVars, running, http, threads, autoSave, storeVars, collectVars, unread>>

Start(contents) ==
    /\ main = "load"
    /\ main' = "threads"
    /\ stores' = contents
    /\ UNCHANGED <<fileVars, running, http, threads, autoSave, made, collectVars>>

(* load_persistence: without a snapshot the stores stay empty, also when    *)
(* there is one and it cannot be opened.                                   *)
LoadTasksOnly ==
    /\ Start([p \in Parts |-> IF p = Order[1] /\ Loaded # Nothing THEN Loaded[p] ELSE 0])
    /\ UNCHANGED unread
Load ==
    /\ Start([p \in Parts |-> IF p \in Restored /\ Loaded # Nothing THEN Loaded[p] ELSE 0])
    /\ UNCHANGED unread

LoadFails ==
    /\ path # Absent
    /\ Start(Fresh)
    /\ unread' = TRUE

(* running_, the two loops and setup_auto_save. *)
StartThreads ==
    /\ main = "threads"
    /\ running' = TRUE
    /\ threads' = [t \in Threads |-> "looping"]
    /\ autoSave' = TRUE
    /\ main' = "http"
    /\ UNCHANGED <<fileVars, http, storeVars, collectVars, unread>>

StartHttp ==
    /\ main = "http"
    /\ http' = TRUE
    /\ main' = "serve"
    /\ UNCHANGED <<fileVars, running, threads, autoSave, storeVars, collectVars, unread>>

(* The transport throws (port in use, bad certificate): start() returns    *)
(* false, main() returns 1, and the server object is destroyed.            *)
StartHttpFails ==
    /\ main = "http"
    /\ running' = FALSE
    /\ main' = "destroy"
    /\ UNCHANGED <<fileVars, http, threads, autoSave, storeVars, collectVars, unread>>

-----------------------------------------------------------------------------
(* stop(), called by main() after a signal. *)

Stop ==
    /\ main = "serve"
    /\ running' = FALSE
    /\ autoSave' = FALSE
    /\ main' = "join_auto_save"
    /\ UNCHANGED <<fileVars, http, threads, storeVars, collectVars, unread>>

Join(t, step, next) ==
    /\ main = step
    /\ threads[t] = "ended"
    /\ threads' = [threads EXCEPT ![t] = "none"]
    /\ main' = next
    /\ UNCHANGED <<fileVars, running, http, autoSave, storeVars, collectVars, unread>>

StopHttp ==
    /\ main = "stop_http"
    /\ http' = FALSE
    /\ main' = "join_heartbeat"
    /\ UNCHANGED <<fileVars, running, threads, autoSave, storeVars, collectVars, unread>>

JoinAutoSaveSkipped ==
    /\ main = "join_auto_save"
    /\ main' = "stop_http"
    /\ UNCHANGED <<fileVars, running, http, threads, autoSave, storeVars, collectVars, unread>>
JoinAutoSave == Join("auto_save", "join_auto_save", "stop_http")
JoinHeartbeat == Join("heartbeat", "join_heartbeat", "join_prune")
JoinPrune == Join("prune", "join_prune", "destroy")

(* The process is gone, and with it everything it kept in memory. *)
MemoryLost(step) ==
    /\ main' = step
    /\ running' = FALSE /\ http' = FALSE /\ autoSave' = FALSE
    /\ threads' = NoThreads
    /\ stores' = Fresh
    /\ taken' = Fresh /\ turn' = 0 /\ woke' = Fresh
    /\ unread' = FALSE
    /\ UNCHANGED made

(* ~SwarmServer calls stop(), which returns at once as running_ is false;  *)
(* destroying a std::thread that was not joined ends the process in        *)
(* std::terminate.                                                         *)
Destroy ==
    /\ main = "destroy"
    /\ ProcessEnds
    /\ MemoryLost(IF \A t \in {"heartbeat", "prune"} : threads[t] = "none"
                    THEN "down" ELSE "terminated")

Killed ==
    /\ main \notin {"down", "terminated"}
    /\ ProcessEnds
    /\ MemoryLost("down")

PowerCut == PowerFails /\ MemoryLost("down")

MainNext ==
    \/ Launch \/ Load \/ LoadFails \/ StartThreads \/ StartHttp \/ StartHttpFails
    \/ Stop \/ JoinAutoSave \/ StopHttp \/ JoinHeartbeat \/ JoinPrune
    \/ Destroy

-----------------------------------------------------------------------------
(* A request, or the pruning of agents, changes a store.  (The MQTT bridges *)
(* only renew heartbeats of agents that are already there.)                *)
Change(p) ==
    /\ http \/ threads["prune"] = "looping"
    /\ made < MaxChanges
    /\ made' = made + 1
    /\ stores' = [stores EXCEPT ![p] = made + 1]
    /\ UNCHANGED <<fileVars, lifeVars, collectVars, unread>>

(* heartbeat_loop and prune_loop: sleep, act, look at running_ again. *)
LoopEnds(t) ==
    /\ threads[t] = "looping"
    /\ ~running
    /\ threads' = [threads EXCEPT ![t] = "ended"]
    /\ UNCHANGED <<fileVars, main, running, http, autoSave, storeVars, collectVars, unread>>

Saving == turn # 0 \/ save # "idle"

(* The auto-save thread after its sleep: it ends if auto_save_active_ is   *)
(* false, else it collects a snapshot, one store after another, and saves. *)
AutoSaveEnds ==
    /\ threads["auto_save"] = "looping"
    /\ ~Saving
    /\ ~autoSave
    /\ threads' = [threads EXCEPT !["auto_save"] = "ended"]
    /\ UNCHANGED <<fileVars, main, running, http, autoSave, storeVars, collectVars, unread>>

AutoSaveWakes ==
    /\ threads["auto_save"] = "looping"
    /\ ~Saving
    /\ autoSave
    /\ turn' = 1
    /\ woke' = stores
    /\ UNCHANGED <<fileVars, lifeVars, storeVars, taken, unread>>

(* The last store forgotten. *)
CollectedShort ==
    IF turn = Len(Order) THEN taken
                         ELSE [taken EXCEPT ![Order[turn]] = stores[Order[turn]]]

(* The reading of one store; after the last one the snapshot is handed to  *)
(* save(), whose open may fail.                                            *)
Collected == [taken EXCEPT ![Order[turn]] = stores[Order[turn]]]

AutoSaveReads ==
    /\ turn # 0
    /\ turn < Len(Order)
    /\ taken' = Collected
    /\ turn' = turn + 1
    /\ UNCHANGED <<fileVars, lifeVars, storeVars, woke, unread>>

AutoSaveOpens ==
    /\ turn = Len(Order)
    /\ Open(Collected) \/ UNCHANGED fileVars
    /\ taken' = Fresh /\ turn' = 0 /\ woke' = Fresh
    /\ UNCHANGED <<lifeVars, storeVars, unread>>

AutoSaveWrites ==
    /\ SaveStep
    /\ UNCHANGED <<lifeVars, storeVars, collectVars, unread>>

ThreadNext ==
    \/ LoopEnds("heartbeat") \/ LoopEnds("prune")
    \/ AutoSaveEnds \/ AutoSaveWakes
    \/ AutoSaveReads \/ AutoSaveOpens \/ AutoSaveWrites

ServerNext ==
    \/ MainNext
    \/ ThreadNext
    \/ \E p \in Parts : Change(p)
    \/ WriteBack /\ UNCHANGED <<lifeVars, storeVars, collectVars, unread>>
    \/ Killed
    \/ PowerCut

ServerSpec == ServerInit /\ [][ServerNext]_serverVars

-----------------------------------------------------------------------------
(* While the server runs it knows everything that the file knows of the     *)
(* restored stores, so the next save cannot take the file back: what it     *)
(* started with is not older than the last save that returned true (or     *)
(* than what a power failure left), and nothing is changed or saved before *)
(* load_persistence is through.  The exception is the code's: a snapshot   *)
(* that cannot be opened counts as none and is soon replaced.              *)
NothingSavedIsLost ==
    main \notin {"down", "load", "terminated"} /\ latest # Nothing /\ ~unread
      => \A p \in Restored : stores[p] >= latest[p]

(* The snapshot is collected store by store while requests change them,     *)
(* yet nothing that was there when the collection began is missing in it.  *)
SnapshotIsRecent ==
    [][save = "idle" /\ save' = "write"
          => \A p \in Parts : tmp'.data[p] >= woke[p]]_serverVars

(* stop() waits for a save that is under way and starts none after it: the  *)
(* process that goes down in order leaves no save half done.               *)
NoSaveAfterStop ==
    main \in {"join_heartbeat", "join_prune"} => ~Saving /\ ~autoSave
=============================================================================
