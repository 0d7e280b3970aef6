---------------------------- MODULE SnapshotFile ----------------------------
(***************************************************************************)
(* What a reader of the snapshot file may rely on (util/persistence.hpp):  *)
(* one cell that holds a whole snapshot or nothing.  A save replaces the   *)
(* cell at once.  Ending the process, however it ends, changes nothing.    *)
(* A power failure may take the file system back to an earlier save, whole *)
(* again; only a save whose fsync failed, which the program merely logs,   *)
(* may be gone altogether.                                                 *)
(***************************************************************************)
CONSTANTS Snapshots, Nothing

VARIABLES
    stored,     \* what load() would return, and whether fsync confirmed it
    fallback    \* what a power failure would leave

cellVars == <<stored, fallback>>

Cell == [data : Snapshots \cup {Nothing}, sure : BOOLEAN]

Empty == [data |-> Nothing, sure |-> FALSE]

CellInit == stored = Empty /\ fallback = Empty

Saved ==
    /\ \E d \in Snapshots, sure \in BOOLEAN : stored' = [data |-> d, sure |-> sure]
    /\ UNCHANGED fallback

Settled ==
    /\ fallback' = stored
    /\ UNCHANGED stored

PowerFailed ==
    /\ stored' = fallback
    /\ UNCHANGED fallback

(* The data of an unconfirmed save did not reach the disk. *)
PowerFailedTorn ==
    /\ ~fallback.sure
    /\ stored' = Empty
    /\ fallback' = Empty

CellNext == Saved \/ Settled \/ PowerFailed \/ PowerFailedTorn

CellSpec == CellInit /\ [][CellNext]_cellVars
=============================================================================
