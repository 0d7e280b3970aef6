---------------------------- MODULE Persistence ----------------------------
(***************************************************************************)
(* The snapshot file (util/persistence.cpp): save() writes path.tmp, syncs *)
(* it, and renames it over path; load() parses path.  Below it is the file *)
(* system as the program meets it: what the running system shows can be    *)
(* ahead of the disk, in the data of a file and in the directory           *)
(* separately, and a power failure goes back to the disk.                  *)
(*                                                                         *)
(* A snapshot carries the time it was taken (saved_at), so save_if_changed *)
(* never finds it equal to the last one saved and always saves; last_saved_*)
(* is left out.  clear() and exists() are called by tests only.            *)
(***************************************************************************)
CONSTANTS
    Snapshots,  \* what can be saved
    Nothing,    \* load() returned no snapshot
    Absent      \* no file of that name

ASSUME NothingAssumption == Nothing \notin Snapshots

(* A file: its snapshot, whether all of it is written, whether that is on  *)
(* the disk, and whether fsync returned 0 for it.                          *)
File == [data : Snapshots, whole : BOOLEAN, synced : BOOLEAN, confirmed : BOOLEAN]

ASSUME AbsentAssumption == Absent \notin File

VARIABLES
    path,       \* the file path names in the running system, or Absent
    tmp,        \* the file path.tmp names while a save runs
    behind,     \* the directory on the disk does not know path's file yet
    old,        \* the file it names path instead, if behind
    save,       \* how far the save that runs is
    latest      \* history: the snapshot of the last save that returned true,
                \* or what a power failure left of it

fileVars == <<path, tmp, behind, old, save, latest>>

Steps == {"idle", "write", "sync", "rename"}

FileTypeOK ==
    /\ path \in File \cup {Absent}
    /\ tmp \in File \cup {Absent}
    /\ old \in File \cup {Absent}
    /\ behind \in BOOLEAN
    /\ save \in Steps
    /\ tmp = Absent <=> save = "idle"
    /\ latest \in Snapshots \cup {Nothing}

FileInit ==
    /\ path = Absent /\ tmp = Absent /\ old = Absent
    /\ behind = FALSE
    /\ save = "idle"
    /\ latest = Nothing

-----------------------------------------------------------------------------
(* load(): an incomplete file does not parse, and counts as none. *)
Parsed(file) == IF file # Absent /\ file.whole THEN file.data ELSE Nothing
Loaded == Parsed(path)

Truncated(d) == [data |-> d, whole |-> FALSE, synced |-> FALSE, confirmed |-> FALSE]

(* save() up to the open, which truncates a path.tmp that a killed process *)
(* left behind; an open that fails makes it return false.                  *)
Open(d) ==
    /\ save = "idle"
    /\ save' = "write"
    /\ tmp' = Truncated(d)
    /\ UNCHANGED <<path, behind, old, latest>>

Step(from, to) == save = from /\ save' = to

(* The stream is not good, or rename throws: path.tmp is removed, false.   *)
GiveUpKeepsTmp ==
    /\ save \in {"write", "rename"}
    /\ save' = "idle"
    /\ UNCHANGED <<path, tmp, behind, old, latest>>
GiveUp ==
    /\ save \in {"write", "rename"}
    /\ save' = "idle"
    /\ tmp' = Absent
    /\ UNCHANGED <<path, behind, old, latest>>

Write ==
    /\ Step("write", "sync")
    /\ tmp' = [tmp EXCEPT !.whole = TRUE]
    /\ UNCHANGED <<path, behind, old, latest>>

(* "an O_RDONLY fd is a no-op for durability" (persistence.cpp:53) *)
SyncReadOnly ==
    /\ Step("sync", "rename")
    /\ tmp' = [tmp EXCEPT !.confirmed = TRUE]
    /\ UNCHANGED <<path, behind, old, latest>>
Sync ==
    /\ Step("sync", "rename")
    /\ tmp' = [tmp EXCEPT !.synced = TRUE, !.confirmed = TRUE]
    /\ UNCHANGED <<path, behind, old, latest>>

(* open or fsync fails: a warning, and the save goes on. *)
SyncFails ==
    /\ Step("sync", "rename")
    /\ UNCHANGED <<path, tmp, behind, old, latest>>

(* rename() replaces path at once; the directory on the disk still names   *)
(* the file it named before.                                               *)
Rename ==
    /\ Step("rename", "idle")
    /\ path' = tmp
    /\ tmp' = Absent
    /\ behind' = TRUE
    /\ old' = IF behind THEN old ELSE path
    /\ latest' = tmp.data

SaveStep == GiveUp \/ Write \/ Sync \/ SyncFails \/ Rename

-----------------------------------------------------------------------------
(* The file system writes back when it likes, data and directory apart. *)
OnDisk(file) == IF file # Absent /\ file.whole THEN [file EXCEPT !.synced = TRUE]
                                               ELSE file

FlushData ==
    /\ path' \in {path, OnDisk(path)}
    /\ old' \in {old, OnDisk(old)}
    /\ UNCHANGED <<tmp, behind, save, latest>>

FlushDirectory ==
    /\ behind' = FALSE
    /\ old' = Absent
    /\ UNCHANGED <<path, tmp, save, latest>>

WriteBack == FlushData \/ FlushDirectory

(* The process ends in whatever way; the file system carries on.  What is  *)
(* left under path.tmp is never read.                                      *)
ProcessEnds ==
    /\ save' = "idle"
    /\ tmp' = Absent
    /\ UNCHANGED <<path, behind, old, latest>>

(* The file path names on the disk, and what a power failure can leave of  *)
(* a file: data that was not written back is there or not.                 *)
Durable == IF behind THEN old ELSE path

Survivors(file) ==
    IF file # Absent /\ file.whole /\ ~file.synced
      THEN {OnDisk(file), [file EXCEPT !.whole = FALSE]}
      ELSE {file}

PowerFails ==
    /\ path' \in Survivors(Durable)
    /\ latest' = Loaded'
    /\ behind' = FALSE
    /\ old' = Absent
    /\ tmp' = Absent
    /\ save' = "idle"

FileNext ==
    \/ \E d \in Snapshots : Open(d)
    \/ SaveStep
    \/ WriteBack
    \/ ProcessEnds
    \/ PowerFails

FileSpec == FileInit /\ [][FileNext]_fileVars

-----------------------------------------------------------------------------
(* What load() would find of a file, as SnapshotFile sees it. *)
AsCell(file) ==
    [data |-> Parsed(file), sure |-> IF file = Absent THEN FALSE ELSE file.confirmed]

Cell == INSTANCE SnapshotFile
          WITH stored <- AsCell(path), fallback <- AsCell(Durable)

(* Writing aside, syncing and renaming makes one whole, replaceable cell of *)
(* a file, though the program may be killed between any two of these steps *)
(* and the file system may reorder its data and its directory.             *)
IsSnapshotFile == Cell!CellSpec

(* A save that returned true is what the next load() returns, however the   *)
(* process ended; a failed or interrupted save does not touch it.          *)
LoadsLatest == Loaded = latest
=============================================================================
