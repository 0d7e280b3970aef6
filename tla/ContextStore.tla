----------------------------- MODULE ContextStore -----------------------------
(***************************************************************************)
(* ContextStore (workspace/context_store.cpp) as the server uses it:       *)
(* context_set and context_merge, each one change under the store's lock.  *)
(* A value is named by the number of the change that made it, so that what *)
(* merge makes of the old value and the new data is a value of its own.    *)
(* del, update_partial and clear, which no code of the server calls, are   *)
(* left out.                                                               *)
(***************************************************************************)
EXTENDS Naturals

CONSTANTS Keys

VARIABLES store     \* store_: for every key stored its value and version

StoredKeys == DOMAIN store

StoreInit == store = [k \in {} |-> [value |-> 0, version |-> 1]]

StoreTypeOK ==
    /\ StoredKeys \subseteq Keys
    /\ store \in [StoredKeys -> [value : Nat, version : Nat \ {0}]]

(* An update that keeps the version. *)
WrittenInPlace(k, value) ==
    [value |-> value, version |-> IF k \in StoredKeys THEN store[k].version ELSE 1]
(* A new entry has version 1, an update the next one. *)
Written(k, value) ==
    [value |-> value, version |-> IF k \in StoredKeys THEN store[k].version + 1 ELSE 1]

(* set and merge: the entry the listener will be given is the one stored. *)
Write(k, value) ==
    store' = [x \in StoredKeys \cup {k} |-> IF x = k THEN Written(k, value) ELSE store[x]]
=============================================================================
