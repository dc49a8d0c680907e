-------------------------- MODULE LinearizableMap --------------------------
(***************************************************************************)
(* What the store promises to threads that call it at the same time (db.h, *)
(* "Thread safety"): every put, del and get takes effect at one moment     *)
(* between its call and its return, and a get answers with what the key    *)
(* had at that moment.  Flushing and compacting have no effect.            *)
(***************************************************************************)
CONSTANTS
    Thread,     \* the threads that share the store
    Request,    \* what they may call: records with an op, a key, an entry
    Tombstone,  \* what a delete writes
    NoEntry,    \* "not found"
    Nil         \* no call; no answer yet

VARIABLES
    store,      \* what a get would answer
    asked,      \* the call each thread is in, or Nil
    answer      \* a call that took effect has an answer

vars == <<store, asked, answer>>

Init ==
    /\ \A k \in DOMAIN store : store[k] = NoEntry
    /\ asked = [t \in Thread |-> Nil]
    /\ answer = [t \in Thread |-> Nil]

Begin(t) ==
    /\ asked[t] = Nil
    /\ \E r \in Request : asked' = [asked EXCEPT ![t] = r]
    /\ UNCHANGED <<store, answer>>

\* A tombstone reads as "not found".
With(r) ==
    [store EXCEPT ![r.key] = IF r.entry = Tombstone THEN NoEntry ELSE r.entry]

TakeEffect(t) ==
    /\ asked[t] # Nil
    /\ answer[t] = Nil
    /\ \/ /\ asked[t].op = "write"
          /\ store' = With(asked[t])
          /\ answer' = [answer EXCEPT ![t] = "done"]
       \/ /\ asked[t].op = "get"
          /\ answer' = [answer EXCEPT ![t] = store[asked[t].key]]
          /\ UNCHANGED store
    /\ UNCHANGED asked

End(t) ==
    /\ asked[t] # Nil
    /\ asked[t].op \in {"get", "write"} => answer[t] # Nil
    /\ asked' = [asked EXCEPT ![t] = Nil]
    /\ answer' = [answer EXCEPT ![t] = Nil]
    /\ UNCHANGED store

Next == \E t \in Thread : Begin(t) \/ TakeEffect(t) \/ End(t)

Spec == Init /\ [][Next]_vars
=============================================================================
