---------------------------- MODULE DurableMap ----------------------------
(***************************************************************************)
(* What the store promises to a client that writes one record at a time    *)
(* (db.h, "Durability contract"): a map that survives crashes.  A write    *)
(* lands once; when it returns it has landed; a crash while it is in       *)
(* flight may keep it or drop it; nothing else changes the map.            *)
(***************************************************************************)
CONSTANTS
    Key,        \* the keys clients use
    Value,      \* the values clients store
    Tombstone,  \* what a delete writes
    NoEntry,    \* "not found"
    Nil         \* no write in flight

VARIABLES
    store,      \* what clients read once the store is open again
    pending,    \* the write in flight, or Nil
    landed      \* whether that write has reached the store

vars == <<store, pending, landed>>

Write == [key : Key, entry : Value \cup {Tombstone}]

TypeOK ==
    /\ store \in [Key -> Value \cup {NoEntry}]
    /\ pending \in Write \cup {Nil}
    /\ landed \in BOOLEAN

Init ==
    /\ store = [k \in Key |-> NoEntry]
    /\ pending = Nil
    /\ landed = FALSE

\* The map after a write: a tombstone reads as "not found".
With(write) ==
    [store EXCEPT ![write.key] =
        IF write.entry = Tombstone THEN NoEntry ELSE write.entry]

Begin(write) ==
    /\ pending = Nil
    /\ pending' = write
    /\ landed' = FALSE
    /\ UNCHANGED store

Land ==
    /\ pending # Nil
    /\ ~ landed
    /\ store' = With(pending)
    /\ landed' = TRUE
    /\ UNCHANGED pending

\* Only a write that has landed returns to the client.
Return ==
    /\ pending # Nil
    /\ landed
    /\ pending' = Nil
    /\ landed' = FALSE
    /\ UNCHANGED store

\* A crash forgets the write in flight; one that had not landed may land.
Crash ==
    /\ pending # Nil
    /\ store' \in {store} \cup (IF landed THEN {} ELSE {With(pending)})
    /\ pending' = Nil
    /\ landed' = FALSE

Next ==
    \/ \E write \in Write : Begin(write)
    \/ Land
    \/ Return
    \/ Crash

Spec == Init /\ [][Next]_vars
=============================================================================
