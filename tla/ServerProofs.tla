---------------------------- MODULE ServerProofs ----------------------------
(***************************************************************************)
(* The snapshot file keeps its promise: the write, sync and rename of      *)
(* Persistence implements the one cell of SnapshotFile, and so does the    *)
(* server, none of whose steps touches the file in another way.  What the  *)
(* server saves is never behind what the file has (KnownInv), nor behind   *)
(* what the stores had when its collection began (CollectInv).             *)
(***************************************************************************)
EXTENDS Server, TLAPS

(* A file that fsync confirmed is whole and on the disk. *)
Kept(file) == file # Absent /\ file.confirmed => file.whole /\ file.synced

(* What the refinement needs: only whole files are renamed over path, and  *)
(* a confirmation tells the truth.                                         *)
FileInv ==
    /\ FileTypeOK
    /\ Kept(path) /\ Kept(tmp) /\ Kept(old)
    /\ save \in {"sync", "rename"} => tmp.whole
    /\ LoadsLatest

LEMMA InitKeepsFile == FileInit => FileInv
BY DEF FileInit, FileInv, FileTypeOK, Kept, Steps, LoadsLatest, Loaded, Parsed

(* Writing a file back changes nothing that is read of it. *)
LEMMA WritingBack ==
  ASSUME NEW file \in File \cup {Absent}
  PROVE  /\ OnDisk(file) \in File \cup {Absent}
         /\ Parsed(OnDisk(file)) = Parsed(file)
         /\ AsCell(OnDisk(file)) = AsCell(file)
         /\ Kept(file) => Kept(OnDisk(file))
BY AbsentAssumption DEF OnDisk, Parsed, AsCell, Kept, File

LEMMA OpenKeepsFile ==
  ASSUME FileInv, NEW d \in Snapshots, Open(d) PROVE FileInv'
<1>1. tmp' \in File /\ ~tmp'.confirmed
  BY DEF Open, Truncated, File
<1>2. tmp' # Absent
  BY <1>1, AbsentAssumption
<1> QED
  BY <1>1, <1>2 DEF Open, FileInv, FileTypeOK, Kept, Steps, LoadsLatest, Loaded, Parsed

LEMMA SaveKeepsFile == FileInv /\ SaveStep => FileInv'
<1> SUFFICES ASSUME FileInv, SaveStep PROVE FileInv'
  OBVIOUS
<1> USE AbsentAssumption DEF FileInv, FileTypeOK, Kept, Steps, LoadsLatest, Loaded, Parsed
<1>1. CASE GiveUp
  BY <1>1 DEF GiveUp
<1>2. CASE Write
  BY <1>2 DEF Write, Step, File
<1>3. CASE Sync
  BY <1>3 DEF Sync, Step, File
<1>4. CASE SyncFails
  BY <1>4 DEF SyncFails, Step
<1>5. CASE Rename
  <2>1. tmp \in File
    BY <1>5 DEF Rename, Step
  <2> QED
    BY <1>5, <2>1 DEF Rename, Step, File
<1> QED
  BY <1>1, <1>2, <1>3, <1>4, <1>5 DEF SaveStep

LEMMA WriteBackKeepsFile == FileInv /\ WriteBack => FileInv'
<1> SUFFICES ASSUME FileInv, WriteBack PROVE FileInv'
  OBVIOUS
<1>1. CASE FlushData
  BY <1>1, WritingBack DEF FlushData, FileInv, FileTypeOK, LoadsLatest, Loaded
<1>2. CASE FlushDirectory
  BY <1>2 DEF FlushDirectory, FileInv, FileTypeOK, LoadsLatest, Loaded, Kept
<1> QED
  BY <1>1, <1>2 DEF WriteBack

LEMMA EndKeepsFile == FileInv /\ (ProcessEnds \/ PowerFails) => FileInv'
<1> SUFFICES ASSUME FileInv, ProcessEnds \/ PowerFails PROVE FileInv'
  OBVIOUS
<1>1. CASE ProcessEnds
  BY <1>1 DEF ProcessEnds, FileInv, FileTypeOK, Kept, Steps, LoadsLatest, Loaded
<1>2. CASE PowerFails
  <2>1. Durable \in File \cup {Absent} /\ Kept(Durable)
    BY DEF Durable, FileInv, FileTypeOK
  <2>2. path' \in File \cup {Absent} /\ Kept(path')
    BY <1>2, <2>1, WritingBack, AbsentAssumption DEF PowerFails, Survivors, File, Kept
  <2>3. latest' \in Snapshots \cup {Nothing}
    BY <1>2, <2>2 DEF PowerFails, Loaded, Parsed, File
  <2> QED
    BY <1>2, <2>2, <2>3 DEF PowerFails, FileInv, FileTypeOK, Kept, Steps, LoadsLatest
<1> QED
  BY <1>1, <1>2

LEMMA FileStepKeepsFile == FileInv /\ [FileNext]_fileVars => FileInv'
<1> SUFFICES ASSUME FileInv, [FileNext]_fileVars PROVE FileInv'
  OBVIOUS
<1>1. CASE UNCHANGED fileVars
  BY <1>1 DEF fileVars, FileInv, FileTypeOK, Kept, LoadsLatest, Loaded, Parsed
<1> QED
  BY <1>1, OpenKeepsFile, SaveKeepsFile, WriteBackKeepsFile, EndKeepsFile DEF FileNext

LEMMA FileInvariant == FileSpec => []FileInv
BY InitKeepsFile, FileStepKeepsFile, PTL DEF FileSpec

-----------------------------------------------------------------------------
LEMMA SaveIsCellStep ==
  FileInv /\ SaveStep => [Cell!CellNext]_(Cell!cellVars)
<1> SUFFICES ASSUME FileInv, SaveStep PROVE [Cell!CellNext]_(Cell!cellVars)
  OBVIOUS
<1>1. CASE Rename
  <2>1. tmp \in File /\ tmp.whole
    BY <1>1 DEF Rename, Step, FileInv, FileTypeOK
  <2>2. AsCell(path)' = [data |-> tmp.data, sure |-> tmp.confirmed]
    BY <1>1, <2>1, AbsentAssumption DEF Rename, AsCell, Parsed
  <2>3. AsCell(Durable)' = AsCell(Durable)
    BY <1>1 DEF Rename, Durable, AsCell, Parsed
  <2>4. tmp.data \in Snapshots /\ tmp.confirmed \in BOOLEAN
    BY <2>1 DEF File
  <2> QED
    BY <2>2, <2>3, <2>4 DEF Cell!CellNext, Cell!Saved
<1>2. CASE ~Rename
  <2>1. UNCHANGED <<path, behind, old>>
    BY <1>2 DEF SaveStep, GiveUp, Write, Sync, SyncFails
  <2> QED
    BY <2>1 DEF Cell!cellVars, AsCell, Durable, Parsed
<1> QED
  BY <1>1, <1>2

LEMMA WriteBackIsCellStep ==
  FileInv /\ WriteBack => [Cell!CellNext]_(Cell!cellVars)
<1> SUFFICES ASSUME FileInv, WriteBack PROVE [Cell!CellNext]_(Cell!cellVars)
  OBVIOUS
<1>1. CASE FlushData
  <2>1. AsCell(path)' = AsCell(path) /\ AsCell(old)' = AsCell(old)
    BY <1>1, WritingBack DEF FlushData, FileInv, FileTypeOK, AsCell, Parsed
  <2>2. AsCell(Durable)' = AsCell(Durable)
    BY <1>1, <2>1 DEF FlushData, Durable, AsCell, Parsed
  <2> QED
    BY <2>1, <2>2 DEF Cell!cellVars
<1>2. CASE FlushDirectory
  <2>1. AsCell(path)' = AsCell(path) /\ AsCell(Durable)' = AsCell(path)
    BY <1>2 DEF FlushDirectory, Durable, AsCell, Parsed
  <2> QED
    BY <2>1 DEF Cell!CellNext, Cell!Settled
<1> QED
  BY <1>1, <1>2 DEF WriteBack

LEMMA EndIsCellStep ==
  FileInv /\ (ProcessEnds \/ PowerFails) => [Cell!CellNext]_(Cell!cellVars)
<1> SUFFICES ASSUME FileInv, ProcessEnds \/ PowerFails
             PROVE  [Cell!CellNext]_(Cell!cellVars)
  OBVIOUS
<1>1. CASE ProcessEnds
  BY <1>1 DEF ProcessEnds, Cell!cellVars, AsCell, Durable, Parsed
<1>2. CASE PowerFails
  <2>1. Durable \in File \cup {Absent} /\ Kept(Durable)
    BY DEF Durable, FileInv, FileTypeOK
  <2>2. AsCell(Durable)' = AsCell(path)'
    BY <1>2 DEF PowerFails, Durable, AsCell, Parsed
  <2>3. CASE path' = Durable \/ path' = OnDisk(Durable)
    <3>1. AsCell(path)' = AsCell(Durable)
      BY <2>1, <2>3, WritingBack DEF AsCell, Parsed
    <3> QED
      BY <2>2, <3>1 DEF Cell!CellNext, Cell!PowerFailed
  <2>4. CASE /\ Durable # Absent /\ ~Durable.synced
             /\ path' = [Durable EXCEPT !.whole = FALSE]
    <3>1. Durable \in File /\ ~Durable.confirmed
      BY <2>1, <2>4 DEF Kept
    <3>2. AsCell(Durable).sure = FALSE
      BY <3>1 DEF AsCell
    <3>3. AsCell(path)' = [data |-> Nothing, sure |-> FALSE]
      BY <2>4, <3>1, AbsentAssumption DEF AsCell, Parsed, File
    <3> QED
      BY <2>2, <3>2, <3>3 DEF Cell!Empty, Cell!CellNext, Cell!PowerFailedTorn
  <2> QED
    BY <1>2, <2>3, <2>4 DEF PowerFails, Survivors
<1> QED
  BY <1>1, <1>2

(* The file of Persistence is the cell of SnapshotFile, whatever is saved,  *)
(* whichever step fails and whenever the process or the power ends.        *)
THEOREM FileImplementsCell == FileSpec => IsSnapshotFile
<1>1. FileInit => Cell!CellInit
  BY DEF FileInit, Cell!CellInit, Cell!Empty, AsCell, Parsed, Durable
<1>2. FileInv /\ [FileNext]_fileVars => [Cell!CellNext]_(Cell!cellVars)
  <2> SUFFICES ASSUME FileInv, [FileNext]_fileVars PROVE [Cell!CellNext]_(Cell!cellVars)
    OBVIOUS
  <2>1. CASE UNCHANGED fileVars
    BY <2>1 DEF fileVars, Cell!cellVars, AsCell, Durable, Parsed
  <2>2. CASE \E d \in Snapshots : Open(d)
    BY <2>2 DEF Open, Cell!cellVars, AsCell, Durable, Parsed
  <2> QED
    BY <2>1, <2>2, SaveIsCellStep, WriteBackIsCellStep, EndIsCellStep DEF FileNext
<1> QED
  BY <1>1, <1>2, FileInvariant, PTL DEF FileSpec, IsSnapshotFile, Cell!CellSpec
-----------------------------------------------------------------------------
(* The server.  Until its threads are started nothing is saved, and once    *)
(* the auto-save thread is joined neither.                                 *)
Before == {"down", "load", "threads", "terminated"}
Joined == {"stop_http", "join_heartbeat", "join_prune"}

LifeInv ==
    /\ ServerTypeOK
    /\ Saving => threads["auto_save"] = "looping"
    /\ main \in Before \cup Joined => threads["auto_save"] = "none"
    /\ main \in Joined \cup {"join_auto_save"} => ~autoSave
    /\ main \in Before \cup {"http"} => ~http
    /\ main \in Before => threads["prune"] = "none"
    /\ main \in Before \ {"threads"} => stores = Fresh

(* No content is newer than the last change; what is being collected and    *)
(* saved is not newer than the stores.                                     *)
Made(c) == \A p \in Parts : c[p] <= made
Known(c) == \A p \in Parts : c[p] <= stores[p]

KnownInv ==
    /\ Made(stores)
    /\ path # Absent => Made(path.data)
    /\ tmp # Absent => Made(tmp.data) /\ Known(tmp.data)
    /\ old # Absent => Made(old.data)
    /\ Known(taken)
    /\ NothingSavedIsLost

LEMMA CollectedIsSnapshot ==
  ASSUME ServerTypeOK PROVE Collected \in Snapshots
BY SnapshotsAssumption DEF Collected, ServerTypeOK, Content

LEMMA ServerStepIsFileStep ==
  ServerTypeOK /\ [ServerNext]_serverVars => [FileNext]_fileVars
<1> SUFFICES ASSUME ServerTypeOK, [ServerNext]_serverVars PROVE [FileNext]_fileVars
  OBVIOUS
<1>1. CASE MainNext
  BY <1>1 DEF MainNext, Launch, Load, LoadFails, Start, StartThreads, StartHttp,
     StartHttpFails, Stop, JoinAutoSave, StopHttp, JoinHeartbeat, JoinPrune, Join,
     Destroy, FileNext
<1>2. CASE ThreadNext
  BY <1>2, CollectedIsSnapshot
     DEF ThreadNext, LoopEnds, AutoSaveEnds, AutoSaveWakes, AutoSaveReads,
     AutoSaveOpens, AutoSaveWrites, FileNext
<1>3. CASE \E p \in Parts : Change(p)
  BY <1>3 DEF Change
<1>4. CASE WriteBack \/ Killed \/ PowerCut
  BY <1>4 DEF Killed, PowerCut, FileNext
<1>5. CASE UNCHANGED serverVars
  BY <1>5 DEF serverVars
<1> QED
  BY <1>1, <1>2, <1>3, <1>4, <1>5 DEF ServerNext

LEMMA FreshIsContent == Fresh \in Content
BY OrderAssumption DEF Fresh, Content

LEMMA LoadedIsContent ==
  ASSUME FileInv, NEW S \in SUBSET Parts
  PROVE  [p \in Parts |-> IF p \in S /\ Loaded # Nothing THEN Loaded[p] ELSE 0] \in Content
<1>1. Loaded = Nothing \/ Loaded \in Content
  BY SnapshotsAssumption DEF Loaded, Parsed, FileInv, FileTypeOK, File
<1> QED
  BY <1>1, OrderAssumption DEF Content

LEMMA OrderLength == Len(Order) \in Nat /\ Len(Order) > 0
BY OrderAssumption

(* The life cycle: one step per action of the main thread, the loops, the   *)
(* auto-save thread and the environment.                                   *)
LEMMA LifeStep == LifeInv /\ FileInv /\ [ServerNext]_serverVars => LifeInv'
<1> SUFFICES ASSUME LifeInv, FileInv, [ServerNext]_serverVars PROVE LifeInv'
  OBVIOUS
<1>0. FileTypeOK'
  BY ServerStepIsFileStep, FileStepKeepsFile DEF LifeInv, FileInv
<1> USE <1>0
<1> USE DEF LifeInv, ServerTypeOK, Saving, Before, Joined, MainSteps, Threads, ThreadStates
<1>1. CASE Launch
  BY <1>1 DEF Launch, fileVars, collectVars, storeVars
<1>2. CASE Load
  BY <1>2, LoadedIsContent, OrderAssumption DEF Load, Start, fileVars, collectVars
<1>3. CASE LoadFails
  BY <1>3, FreshIsContent DEF LoadFails, Start, fileVars, collectVars
<1>4. CASE StartThreads
  BY <1>4 DEF StartThreads, fileVars, collectVars, storeVars
<1>5. CASE StartHttp \/ StartHttpFails
  BY <1>5 DEF StartHttp, StartHttpFails, fileVars, collectVars, storeVars
<1>6. CASE Stop
  BY <1>6 DEF Stop, fileVars, collectVars, storeVars
<1>7. CASE JoinAutoSave
  BY <1>7 DEF JoinAutoSave, Join, fileVars, collectVars, storeVars
<1>8. CASE StopHttp
  BY <1>8 DEF StopHttp, fileVars, collectVars, storeVars
<1>9. CASE JoinHeartbeat \/ JoinPrune
  <2>1. /\ threads' \in [Threads -> ThreadStates]
        /\ threads'["auto_save"] = threads["auto_save"]
    BY <1>9 DEF JoinHeartbeat, JoinPrune, Join
  <2> QED
    BY <1>9, <2>1 DEF JoinHeartbeat, JoinPrune, Join, fileVars, collectVars, storeVars
<1>10. CASE Destroy \/ Killed \/ PowerCut
  <2>1. save' = "idle" /\ main' \in {"down", "terminated"}
    BY <1>10 DEF Destroy, Killed, PowerCut, MemoryLost, ProcessEnds, PowerFails
  <2>2. /\ running' = FALSE /\ http' = FALSE /\ autoSave' = FALSE
        /\ threads' = NoThreads
        /\ stores' = Fresh /\ taken' = Fresh /\ woke' = Fresh
        /\ turn' = 0 /\ made' = made /\ unread' = FALSE
    BY <1>10 DEF Destroy, Killed, PowerCut, MemoryLost
  <2>3. /\ threads' \in [Threads -> ThreadStates]
        /\ threads'["auto_save"] = "none" /\ threads'["prune"] = "none"
    BY <2>2 DEF NoThreads
  <2>4. stores' \in Content /\ taken' \in Content /\ woke' \in Content
    BY <2>2, FreshIsContent
  <2>5. turn' \in 0..Len(Order) /\ made' \in 0..MaxChanges
    BY <2>2, OrderLength
  <2>6. running' \in BOOLEAN /\ http' \in BOOLEAN /\ autoSave' \in BOOLEAN /\ unread' \in BOOLEAN
    BY <2>2
  <2>7. ServerTypeOK'
    BY <2>1, <2>3, <2>4, <2>5, <2>6
  <2> QED
    BY <2>1, <2>2, <2>3, <2>7
<1>11. CASE LoopEnds("heartbeat") \/ LoopEnds("prune")
  <2>1. /\ threads' \in [Threads -> ThreadStates]
        /\ threads'["auto_save"] = threads["auto_save"]
    BY <1>11 DEF LoopEnds
  <2> QED
    BY <1>11, <2>1 DEF LoopEnds, fileVars, collectVars, storeVars
<1>12. CASE AutoSaveEnds
  BY <1>12 DEF AutoSaveEnds, fileVars, collectVars, storeVars
<1>13. CASE AutoSaveWakes
  <2>1. turn' \in 0..Len(Order)
    BY <1>13, OrderLength DEF AutoSaveWakes
  <2> QED
    BY <1>13, <2>1 DEF AutoSaveWakes, fileVars, lifeVars, storeVars
<1>14. CASE AutoSaveReads
  <2>1. taken' \in Content
    BY <1>14, CollectedIsSnapshot, SnapshotsAssumption DEF AutoSaveReads
  <2>2. turn' \in 0..Len(Order)
    BY <1>14, OrderLength DEF AutoSaveReads
  <2> QED
    BY <1>14, <2>1, <2>2 DEF AutoSaveReads, fileVars, lifeVars, storeVars
<1>15. CASE AutoSaveOpens
  <2>1. turn' \in 0..Len(Order) /\ turn # 0
    BY <1>15, OrderLength DEF AutoSaveOpens
  <2> QED
    BY <1>15, <2>1, FreshIsContent DEF AutoSaveOpens, lifeVars, storeVars
<1>16. CASE AutoSaveWrites
  <2>1. save # "idle"
    BY <1>16 DEF AutoSaveWrites, SaveStep, GiveUp, Write, Sync, SyncFails, Rename, Step
  <2> QED
    BY <1>16, <2>1 DEF AutoSaveWrites, lifeVars, storeVars, collectVars
<1>17. CASE \E p \in Parts : Change(p)
  <2>1. PICK p \in Parts : Change(p)
    BY <1>17
  <2>2. made < MaxChanges /\ made' = made + 1 /\ stores' = [stores EXCEPT ![p] = made + 1]
    BY <2>1 DEF Change
  <2>3. made' \in 0..MaxChanges
    BY <2>2, OrderAssumption
  <2>4. stores' \in Content
    BY <2>2, <2>3, OrderAssumption DEF Content
  <2>5. UNCHANGED <<fileVars, lifeVars, collectVars, unread>> /\ main \notin Before
    BY <2>1 DEF Change
  <2> QED
    BY <2>3, <2>4, <2>5 DEF fileVars, lifeVars, collectVars
<1>18. CASE WriteBack /\ UNCHANGED <<lifeVars, storeVars, collectVars, unread>>
  BY <1>18 DEF WriteBack, FlushData, FlushDirectory, lifeVars, storeVars, collectVars
<1>19. CASE UNCHANGED serverVars
  BY <1>19 DEF serverVars, fileVars, lifeVars, storeVars, collectVars
<1> QED
  BY <1>1, <1>2, <1>3, <1>4, <1>5, <1>6, <1>7, <1>8, <1>9, <1>10, <1>11, <1>12,
     <1>13, <1>14, <1>15, <1>16, <1>17, <1>18, <1>19
     DEF ServerNext, MainNext, ThreadNext

-----------------------------------------------------------------------------
(* A power failure brings back a file that was there, or a part of it. *)
LEMMA SurvivorsAreKnown ==
  ASSUME FileInv, PowerFails, path' # Absent
  PROVE  Durable # Absent /\ path'.data = Durable.data
<1>1. Durable \in File \cup {Absent}
  BY DEF Durable, FileInv, FileTypeOK
<1> QED
  BY <1>1 DEF PowerFails, Survivors, OnDisk, File

(* What is known stays known: contents only come from the stores, and the   *)
(* stores only from the snapshot, or from changes made later.              *)
LEMMA KnownStep ==
  LifeInv /\ FileInv /\ KnownInv /\ [ServerNext]_serverVars => KnownInv'
<1> SUFFICES ASSUME LifeInv, FileInv, KnownInv, [ServerNext]_serverVars PROVE KnownInv'
  OBVIOUS
<1>0. LifeInv' /\ FileInv'
  BY LifeStep, ServerStepIsFileStep, FileStepKeepsFile DEF LifeInv
<1>a. /\ stores \in [Parts -> Nat] /\ taken \in [Parts -> Nat] /\ made \in Nat
      /\ stores' \in [Parts -> Nat] /\ taken' \in [Parts -> Nat] /\ made' \in Nat
      /\ Restored \subseteq Parts
  BY <1>0, OrderAssumption DEF LifeInv, ServerTypeOK, Content
<1>b. /\ latest = IF path # Absent /\ path.whole THEN path.data ELSE Nothing
      /\ latest' = IF path' # Absent /\ path'.whole THEN path'.data ELSE Nothing
  BY <1>0 DEF FileInv, LoadsLatest, Loaded, Parsed
<1>c. /\ path # Absent => path.data \in [Parts -> Nat]
      /\ tmp # Absent => tmp.data \in [Parts -> Nat]
      /\ old # Absent => old.data \in [Parts -> Nat]
  BY SnapshotsAssumption, OrderAssumption DEF FileInv, FileTypeOK, File, Content
<1> USE DEF KnownInv, Made, Known, NothingSavedIsLost
<1>1. CASE /\ UNCHANGED <<path, tmp, old, latest, stores, made, taken, unread>>
           /\ \/ main \notin {"down", "load", "terminated"}
              \/ main' = "load"
              \/ main' = main
  BY <1>1
<1>2. CASE Load \/ LoadFails
  <2>1. tmp = Absent /\ stores = Fresh
    BY <1>2 DEF Load, LoadFails, Start, LifeInv, Saving, Before, FileInv, FileTypeOK
  <2>2. \A p \in Parts : taken[p] = 0
    BY <2>1, <1>a DEF Fresh
  <2>3. CASE Load
    <3>1. \A p \in Parts : stores'[p] = IF p \in Restored /\ latest # Nothing THEN latest[p] ELSE 0
      BY <2>3 DEF Load, Start, FileInv, LoadsLatest
    <3>2. UNCHANGED <<path, tmp, old, latest, made, taken>>
      BY <2>3 DEF Load, Start, fileVars, collectVars
    <3>3. latest # Nothing => path # Absent /\ latest = path.data
      BY <1>b
    <3>4. \A p \in Parts : latest # Nothing => latest[p] \in Nat /\ latest[p] <= made
      BY <3>3, <1>c
    <3> QED
      BY <2>1, <2>2, <3>1, <3>2, <3>4, <1>a
  <2>4. CASE LoadFails
    <3>1. UNCHANGED <<path, tmp, old, latest, made, taken>> /\ stores' = Fresh /\ unread'
      BY <2>4 DEF LoadFails, Start, fileVars, collectVars
    <3> QED
      BY <2>1, <2>2, <3>1, <1>a DEF Fresh
  <2> QED
    BY <1>2, <2>3, <2>4
<1>3. CASE Destroy \/ Killed \/ PowerCut
  <2>1. /\ tmp' = Absent /\ stores' = Fresh /\ taken' = Fresh /\ made' = made
        /\ main' \in {"down", "terminated"}
    BY <1>3 DEF Destroy, Killed, PowerCut, MemoryLost, ProcessEnds, PowerFails
  <2>2. path' # Absent => Made(path'.data)
    BY <1>3, SurvivorsAreKnown DEF Destroy, Killed, PowerCut, ProcessEnds, Durable
  <2>3. old' # Absent => Made(old'.data)
    BY <1>3 DEF Destroy, Killed, PowerCut, ProcessEnds, PowerFails
  <2> QED
    BY <2>1, <2>2, <2>3, <1>a DEF Fresh
<1>4. CASE AutoSaveReads
  <2>1. \A p \in Parts : taken'[p] = stores[p] \/ taken'[p] = taken[p]
    BY <1>4, <1>a DEF AutoSaveReads, Collected
  <2> QED
    BY <1>4, <2>1, <1>a DEF AutoSaveReads, fileVars, lifeVars, storeVars
<1>5. CASE AutoSaveOpens
  <2>1. \A p \in Parts : Collected[p] = stores[p] \/ Collected[p] = taken[p]
    BY <1>a DEF Collected
  <2>2. UNCHANGED <<path, old, latest, stores, made, main, unread>> /\ taken' = Fresh
    BY <1>5 DEF AutoSaveOpens, Open, fileVars, lifeVars, storeVars
  <2>3. tmp' = tmp \/ tmp'.data = Collected
    BY <1>5 DEF AutoSaveOpens, Open, Truncated, fileVars
  <2> QED
    BY <2>1, <2>2, <2>3, <1>a DEF Fresh
<1>6. CASE AutoSaveWrites
  <2>1. UNCHANGED <<stores, made, taken, main, unread>>
    BY <1>6 DEF AutoSaveWrites, lifeVars, storeVars, collectVars
  <2>2. CASE Rename
    <3>1. tmp # Absent
      BY <2>2 DEF Rename, Step, FileInv, FileTypeOK
    <3> QED
      BY <2>1, <2>2, <3>1, <1>a, <1>c DEF Rename
  <2>3. CASE ~Rename
    <3>1. UNCHANGED <<path, old, latest>>
      BY <1>6, <2>3 DEF AutoSaveWrites, SaveStep, GiveUp, Write, Sync, SyncFails
    <3>2. tmp' = Absent \/ tmp' = tmp \/ (tmp # Absent /\ tmp'.data = tmp.data)
      BY <1>6, <2>3 DEF AutoSaveWrites, SaveStep, GiveUp, Write, Sync, SyncFails, Step,
         FileInv, FileTypeOK, File
    <3> QED
      BY <2>1, <3>1, <3>2
  <2> QED
    BY <2>2, <2>3
<1>7. CASE \E p \in Parts : Change(p)
  <2>1. /\ UNCHANGED <<path, tmp, old, latest, taken, main, unread>>
        /\ made' = made + 1
        /\ \A p \in Parts : stores'[p] = stores[p] \/ stores'[p] = made + 1
    BY <1>7, <1>a DEF Change, fileVars, lifeVars, collectVars
  <2>2. \A p \in Parts : stores[p] <= stores'[p] /\ stores'[p] <= made'
    BY <2>1, <1>a
  <2>3. latest # Nothing => latest \in [Parts -> Nat]
    BY <1>b, <1>c
  <2>4. made <= made'
    BY <2>1, <1>a
  <2>5. /\ path # Absent => \A p \in Parts : path.data[p] <= made'
        /\ old # Absent => \A p \in Parts : old.data[p] <= made'
        /\ tmp # Absent => \A p \in Parts : tmp.data[p] <= made' /\ tmp.data[p] <= stores'[p]
    BY <2>2, <2>4, <1>a, <1>c
  <2>6. \A p \in Parts : taken[p] <= stores'[p]
    BY <2>2, <1>a
  <2>7. NothingSavedIsLost'
    BY <2>1, <2>2, <2>3, <1>a
  <2> QED
    BY <2>1, <2>2, <2>5, <2>6, <2>7
<1>8. CASE WriteBack /\ UNCHANGED <<lifeVars, storeVars, collectVars, unread>>
  <2>1. /\ UNCHANGED <<tmp, latest, stores, made, taken, main, unread>>
        /\ path' \in {path, OnDisk(path)}
        /\ old' \in {old, OnDisk(old), Absent}
    BY <1>8 DEF WriteBack, FlushData, FlushDirectory, lifeVars, storeVars, collectVars
  <2>2. \A f \in File \cup {Absent} :
            OnDisk(f) # Absent => f # Absent /\ OnDisk(f).data = f.data
    BY DEF OnDisk, File
  <2> QED
    BY <2>1, <2>2 DEF FileInv, FileTypeOK
<1>9. CASE Launch \/ StartThreads \/ StartHttp \/ StartHttpFails \/ Stop \/ JoinAutoSave
           \/ StopHttp \/ JoinHeartbeat \/ JoinPrune
  BY <1>1, <1>9 DEF Launch, StartThreads, StartHttp, StartHttpFails, Stop, JoinAutoSave,
     StopHttp, JoinHeartbeat, JoinPrune, Join, fileVars, storeVars, collectVars
<1>10. CASE LoopEnds("heartbeat") \/ LoopEnds("prune") \/ AutoSaveEnds \/ AutoSaveWakes
  BY <1>1, <1>10 DEF LoopEnds, AutoSaveEnds, AutoSaveWakes, fileVars, lifeVars, storeVars, collectVars
<1>11. CASE UNCHANGED serverVars
  BY <1>1, <1>11 DEF serverVars, fileVars, lifeVars, storeVars, collectVars
<1> QED
  BY <1>2, <1>3, <1>4, <1>5, <1>6, <1>7, <1>8, <1>9, <1>10, <1>11
     DEF ServerNext, MainNext, ThreadNext

LEMMA ServerInvariant == ServerSpec => [](LifeInv /\ FileInv /\ KnownInv)
<1>1. ServerInit => LifeInv /\ FileInv /\ KnownInv
  <2> SUFFICES ASSUME ServerInit PROVE LifeInv /\ FileInv /\ KnownInv
    OBVIOUS
  <2>1. FileInv
    BY InitKeepsFile DEF ServerInit
  <2>2. LifeInv
    <3>1. made \in 0..MaxChanges /\ turn \in 0..Len(Order)
      BY OrderLength, OrderAssumption DEF ServerInit
    <3>2. /\ threads \in [Threads -> ThreadStates]
          /\ threads["auto_save"] = "none" /\ threads["prune"] = "none"
      BY DEF ServerInit, Threads, ThreadStates, NoThreads
    <3>3. ServerTypeOK
      BY <2>1, <3>1, <3>2, FreshIsContent
         DEF ServerInit, ServerTypeOK, FileInv, MainSteps
    <3> QED
      BY <3>2, <3>3 DEF ServerInit, FileInit, LifeInv, Saving, Before, Joined
  <2>3. KnownInv
    BY OrderAssumption DEF ServerInit, FileInit, KnownInv, Made, Known, Fresh, NothingSavedIsLost
  <2> QED
    BY <2>1, <2>2, <2>3
<1>2. LifeInv /\ FileInv /\ KnownInv /\ [ServerNext]_serverVars
        => (LifeInv /\ FileInv /\ KnownInv)'
  BY LifeStep, KnownStep, ServerStepIsFileStep, FileStepKeepsFile DEF LifeInv
<1> QED
  BY <1>1, <1>2, PTL DEF ServerSpec

-----------------------------------------------------------------------------
(* The collection.  What the auto-save thread has read so far is as new as  *)
(* the stores were when it began, since a store only ever gets newer while *)
(* it collects.                                                            *)
CollectInv ==
    turn # 0 =>
        /\ \A p \in Parts : woke[p] <= stores[p]
        /\ \A k \in 1..(turn - 1) : taken[Order[k]] >= woke[Order[k]]

LEMMA CollectStep ==
  LifeInv /\ FileInv /\ KnownInv /\ CollectInv /\ [ServerNext]_serverVars => CollectInv'
<1> SUFFICES ASSUME LifeInv, FileInv, KnownInv, CollectInv, [ServerNext]_serverVars
             PROVE  CollectInv'
  OBVIOUS
<1>a. /\ stores \in [Parts -> Nat] /\ taken \in [Parts -> Nat] /\ woke \in [Parts -> Nat]
      /\ made \in Nat /\ turn \in Nat
      /\ \A k \in 1..Len(Order) : Order[k] \in Parts
  BY OrderAssumption DEF LifeInv, ServerTypeOK, Content, Parts
<1>1. CASE UNCHANGED <<stores, taken, turn, woke>>
  BY <1>1 DEF CollectInv
<1>2. CASE turn' = 0
  BY <1>2 DEF CollectInv
<1>3. CASE Load \/ LoadFails
  <2>1. turn = 0 /\ turn' = turn
    BY <1>3 DEF Load, LoadFails, Start, LifeInv, Saving, Before, collectVars
  <2> QED
    BY <1>2, <2>1
<1>4. CASE AutoSaveWakes
  BY <1>4, <1>a DEF AutoSaveWakes, CollectInv, storeVars
<1>5. CASE AutoSaveReads
  <2>1. /\ turn # 0 /\ turn \in 1..Len(Order) /\ turn' = turn + 1
        /\ taken' = [taken EXCEPT ![Order[turn]] = stores[Order[turn]]]
        /\ UNCHANGED <<stores, woke>>
    BY <1>5, <1>a DEF AutoSaveReads, Collected, storeVars, LifeInv, ServerTypeOK
  <2>2. \A p \in Parts : taken'[p] = IF p = Order[turn] THEN stores[p] ELSE taken[p]
    BY <2>1, <1>a
  <2>3. ASSUME NEW k \in 1..turn PROVE taken'[Order[k]] >= woke[Order[k]]
    <3>1. Order[k] \in Parts /\ woke[Order[k]] <= stores[Order[k]]
      BY <2>1, <1>a DEF CollectInv
    <3>2. CASE Order[k] = Order[turn]
      BY <2>2, <3>1, <3>2, <1>a
    <3>3. CASE Order[k] # Order[turn]
      <4>1. k \in 1..(turn - 1)
        BY <3>3, <1>a
      <4> QED
        BY <2>1, <2>2, <3>1, <3>3, <4>1 DEF CollectInv
    <3> QED
      BY <3>2, <3>3
  <2>4. 1..(turn' - 1) = 1..turn
    BY <2>1, <1>a
  <2>5. \A k \in 1..(turn' - 1) : taken'[Order[k]] >= woke'[Order[k]]
    BY <2>1, <2>3, <2>4
  <2> QED
    BY <2>1, <2>5 DEF CollectInv
<1>6. CASE \E p \in Parts : Change(p)
  <2>1. /\ UNCHANGED <<taken, turn, woke>>
        /\ \A p \in Parts : stores'[p] = stores[p] \/ stores'[p] = made + 1
    BY <1>6, <1>a DEF Change, collectVars
  <2>2. \A p \in Parts : stores[p] <= made
    BY DEF KnownInv, Made
  <2>3. stores' \in [Parts -> Nat]
    BY <1>6, <1>a DEF Change
  <2>4. ASSUME NEW p \in Parts PROVE stores[p] <= stores'[p]
    <3>1. stores[p] \in Nat /\ stores[p] <= made
      BY <2>2, <1>a
    <3>2. stores'[p] = stores[p] \/ stores'[p] = made + 1
      BY <2>1
    <3> QED
      BY <3>1, <3>2, <1>a
  <2>5. turn # 0 => \A p \in Parts : woke[p] <= stores'[p]
    BY <2>3, <2>4, <1>a DEF CollectInv
  <2> QED
    BY <2>1, <2>5 DEF CollectInv
<1>7. CASE AutoSaveOpens \/ Destroy \/ Killed \/ PowerCut
  BY <1>2, <1>7 DEF AutoSaveOpens, Destroy, Killed, PowerCut, MemoryLost
<1> QED
  BY <1>1, <1>3, <1>4, <1>5, <1>6, <1>7
     DEF ServerNext, MainNext, ThreadNext, Launch, StartThreads, StartHttp, StartHttpFails,
         Stop, JoinAutoSave, StopHttp, JoinHeartbeat, JoinPrune, Join, LoopEnds, AutoSaveEnds,
         AutoSaveWrites, serverVars, storeVars, collectVars

(* A save begins with the snapshot that was collected, the last store with  *)
(* what it holds now.                                                      *)
LEMMA OpenIsRecent ==
  ASSUME LifeInv, FileInv, CollectInv, [ServerNext]_serverVars, save = "idle", save' = "write"
  PROVE  \A p \in Parts : tmp'.data[p] >= woke[p]
<1>a. /\ stores \in [Parts -> Nat] /\ taken \in [Parts -> Nat] /\ woke \in [Parts -> Nat]
      /\ Len(Order) \in Nat /\ Len(Order) > 0
      /\ \A k \in 1..Len(Order) : Order[k] \in Parts
  BY OrderAssumption DEF LifeInv, ServerTypeOK, Content, Parts
<1>1. AutoSaveOpens
  BY DEF ServerNext, MainNext, ThreadNext, Launch, Load, LoadFails, Start, StartThreads,
         StartHttp, StartHttpFails, Stop, JoinAutoSave, StopHttp, JoinHeartbeat, JoinPrune,
         Join, Destroy, Killed, PowerCut, ProcessEnds, PowerFails, LoopEnds, AutoSaveEnds,
         AutoSaveWakes, AutoSaveReads, AutoSaveWrites, SaveStep, GiveUp, Write, Sync,
         SyncFails, Rename, Step, Change, WriteBack, FlushData, FlushDirectory,
         fileVars, serverVars
<1>2. turn = Len(Order) /\ tmp'.data = Collected
  BY <1>1 DEF AutoSaveOpens, Open, Truncated, fileVars
<1>3. \A p \in Parts : Collected[p] = IF p = Order[turn] THEN stores[p] ELSE taken[p]
  BY <1>a DEF Collected
<1>4. ASSUME NEW p \in Parts PROVE Collected[p] >= woke[p]
  <2>1. PICK k \in 1..Len(Order) : p = Order[k]
    BY OrderAssumption DEF Parts
  <2>2. CASE p = Order[turn]
    BY <1>2, <1>3, <2>2, <1>a DEF CollectInv
  <2>3. CASE p # Order[turn]
    <3>1. k \in 1..(turn - 1) /\ turn # 0
      BY <1>2, <2>1, <2>3, <1>a
    <3> QED
      BY <1>3, <2>1, <2>3, <3>1 DEF CollectInv
  <2> QED
    BY <2>2, <2>3
<1> QED
  BY <1>2, <1>4

-----------------------------------------------------------------------------
(* The main thread, its three threads, the stores and the file keep their   *)
(* types in every interleaving of SwarmServer's steps and after any end.    *)
THEOREM ServerTypes == ServerSpec => []ServerTypeOK
<1>1. LifeInv => ServerTypeOK
  BY DEF LifeInv
<1> QED
  BY <1>1, ServerInvariant, PTL

(* The server never takes the file back, in any order of its steps, and     *)
(* whatever ends it: what it works on includes what was saved before.      *)
THEOREM ServerKeepsWhatIsSaved == ServerSpec => [](LoadsLatest /\ NothingSavedIsLost)
<1>1. LifeInv /\ FileInv /\ KnownInv => LoadsLatest /\ NothingSavedIsLost
  BY DEF FileInv, KnownInv
<1> QED
  BY <1>1, ServerInvariant, PTL

(* stop() leaves no save under way and none to come. *)
THEOREM ServerStopsSaving == ServerSpec => []NoSaveAfterStop
<1>1. LifeInv => NoSaveAfterStop
  BY DEF LifeInv, NoSaveAfterStop, Joined
<1> QED
  BY <1>1, ServerInvariant, PTL

(* The server touches the file through save() only, so under it, too, the   *)
(* file is the one cell its readers rely on.                               *)
THEOREM ServerImplementsCell == ServerSpec => IsSnapshotFile
<1>1. ServerInit => FileInit
  BY DEF ServerInit
<1>2. LifeInv /\ [ServerNext]_serverVars => [FileNext]_fileVars
  BY ServerStepIsFileStep DEF LifeInv
<1>3. ServerSpec => FileSpec
  BY <1>1, <1>2, ServerInvariant, PTL DEF ServerSpec, FileSpec
<1> QED
  BY <1>3, FileImplementsCell, PTL
(* A snapshot misses nothing that was there when its collection began,      *)
(* whatever requests change while the stores are read one by one.          *)
THEOREM SnapshotsAreRecent == ServerSpec => SnapshotIsRecent
<1> DEFINE Inv == LifeInv /\ FileInv /\ KnownInv
           Recent == save = "idle" /\ save' = "write"
                       => \A p \in Parts : tmp'.data[p] >= woke[p]
<1>1. ServerInit => CollectInv
  BY DEF ServerInit, CollectInv
<1>2. Inv /\ CollectInv /\ [ServerNext]_serverVars => CollectInv'
  BY CollectStep
<1>3. Inv /\ CollectInv /\ [ServerNext]_serverVars => [Recent]_serverVars
  BY OpenIsRecent
<1> QED
  BY <1>1, <1>2, <1>3, ServerInvariant, PTL DEF ServerSpec, SnapshotIsRecent
=============================================================================
