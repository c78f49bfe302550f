----------------------------- MODULE MemoryStore -----------------------------
(***************************************************************************)
(* InMemoryStore (internal/storage/memory.go): a map and a history behind  *)
(* one sync.RWMutex.  GetHistory hands out the slice itself, which its     *)
(* callers read without the lock while entries are appended.               *)
(***************************************************************************)
EXTENDS GoSlice, FiniteSets

CONSTANTS Client,    \* the goroutines that share the store
          Value,     \* what may be stored under the one key
          Missing,   \* no value
          MaxCalls   \* bound: calls of each client

ASSUME StoreAssumption == Missing \notin Value /\ MaxCalls \in Nat

VARIABLES
  data,      \* the value under the key
  heap,      \* the arrays that histories live in
  history,   \* the header of the store's history
  locked,    \* the clients inside the RWMutex
  at,        \* each client: out, lock, body, append, store or unlock
  op,        \* the operation it calls
  calls,     \* how many it called
  clock,     \* time.Now()
  entry,     \* the HistoryEntry it makes
  kept,      \* the header that append returned to it
  added,     \* the entries whose AddHistoryEntry has returned
  snapshot,  \* the header GetHistory returned to it last
  seen       \* what it found there

storeVars == <<data, heap, history, locked, at, op, calls, clock, entry, kept,
               added, snapshot, seen>>

\* An entry is known by its Timestamp and by the call that made it.
Entry(time, by, call) == [time |-> time, by |-> by, call |-> call]

Operation == {"Store", "Retrieve", "Delete", "GetHistory", "AddHistoryEntry"}

-----------------------------------------------------------------------------
(* Deliberately wrong variants of definitions below, one per plausible bug.  *)
(* No specification uses them; they show what each property can detect.      *)
Exclusive_MapOnly(o) == o \in {"Store", "Delete"}
Kept_Latest(e) ==                       \* append(s.history[:0], entry)
  [heap |-> AppendHeap(heap, Header(history.array, 0), e),
   header |-> AppendHeader(heap, Header(history.array, 0))]
\* return without the deferred RUnlock when the key is missing
Unlocks_IfFound(c) == op[c] # "Retrieve" \/ data # Missing

-----------------------------------------------------------------------------
\* s.mu.Lock() or s.mu.RLock(), and the deferred release of every method.
Exclusive(o) == o \in {"Store", "Delete", "AddHistoryEntry"}
Unlocks(c) == TRUE

MayEnter(c) == IF Exclusive(op[c]) THEN locked = {}
                                   ELSE \A d \in locked : ~Exclusive(op[d])

StoreInit == /\ data = Missing
             /\ heap = <<<<>>>>
             /\ history = Header(1, 0)
             /\ locked = {}
             /\ at = [c \in Client |-> "out"]
             /\ op = [c \in Client |-> "Retrieve"]
             /\ calls = [c \in Client |-> 0]
             /\ clock = 0
             /\ entry = [c \in Client |-> Entry(0, c, 0)]
             /\ kept = [c \in Client |-> Header(1, 0)]
             /\ added = {}
             /\ snapshot = [c \in Client |-> Header(1, 0)]
             /\ seen = [c \in Client |-> <<>>]

Go(c, place) == at' = [at EXCEPT ![c] = place]

Invoke(c, o) == /\ at[c] = "out"
                /\ calls[c] < MaxCalls
                /\ calls' = [calls EXCEPT ![c] = @ + 1]
                /\ op' = [op EXCEPT ![c] = o]
                /\ Go(c, "lock")
                /\ UNCHANGED <<data, heap, history, locked, clock, entry, kept, added,
                               snapshot, seen>>

Enter(c) == /\ at[c] = "lock"
            /\ MayEnter(c)
            /\ locked' = locked \cup {c}
            /\ Go(c, "body")
            /\ UNCHANGED <<data, heap, history, op, calls, clock, entry, kept, added,
                           snapshot, seen>>

\* The map operations. A Retrieve of a missing key is an error.
Access(c) == /\ at[c] = "body"
             /\ \/ op[c] = "Store" /\ data' \in Value
                \/ op[c] = "Delete" /\ data' = Missing
                \/ op[c] = "Retrieve" /\ UNCHANGED data
             /\ Go(c, "unlock")
             /\ UNCHANGED <<heap, history, locked, op, calls, clock, entry, kept,
                            added, snapshot, seen>>

GetHistory(c) == /\ at[c] = "body" /\ op[c] = "GetHistory"
                 /\ snapshot' = [snapshot EXCEPT ![c] = history]
                 /\ seen' = [seen EXCEPT ![c] = View(heap, history)]
                 /\ Go(c, "unlock")
                 /\ UNCHANGED <<data, heap, history, locked, op, calls, clock,
                                entry, kept, added>>

\* AddHistoryEntry: time.Now(), which may be what it was before, ...
Stamp(c) == /\ at[c] = "body" /\ op[c] = "AddHistoryEntry"
            /\ clock' \in {clock, clock + 1}
            /\ entry' = [entry EXCEPT ![c] = Entry(clock', c, calls[c])]
            /\ Go(c, "append")
            /\ UNCHANGED <<data, heap, history, locked, op, calls, kept, added,
                           snapshot, seen>>

Kept(e) == [heap |-> AppendHeap(heap, history, e),
            header |-> AppendHeader(heap, history)]

\* ... append, ...
AppendEntry(c) == /\ at[c] = "append"
                  /\ heap' = Kept(entry[c]).heap
                  /\ kept' = [kept EXCEPT ![c] = Kept(entry[c]).header]
                  /\ Go(c, "store")
                  /\ UNCHANGED <<data, history, locked, op, calls, clock, entry,
                                 added, snapshot, seen>>

\* ... and the assignment of what it returned.
StoreHistory(c) == /\ at[c] = "store"
                   /\ history' = kept[c]
                   /\ Go(c, "unlock")
                   /\ UNCHANGED <<data, heap, locked, op, calls, clock, entry, kept,
                                  added, snapshot, seen>>

Leave(c) == /\ at[c] = "unlock"
            /\ locked' = IF Unlocks(c) THEN locked \ {c} ELSE locked
            /\ added' = IF op[c] = "AddHistoryEntry" THEN added \cup {entry[c]}
                                                     ELSE added
            /\ Go(c, "out")
            /\ UNCHANGED <<data, heap, history, op, calls, clock, entry, kept,
                           snapshot, seen>>

Method(c) == \/ Enter(c) \/ Access(c) \/ GetHistory(c) \/ Leave(c)
             \/ Stamp(c) \/ AppendEntry(c) \/ StoreHistory(c)

StoreNext == \E c \in Client : Method(c) \/ \E o \in Operation : Invoke(c, o)

StoreSpec == StoreInit /\ [][StoreNext]_storeVars

-----------------------------------------------------------------------------
\* A history somebody got stays what it was, however the store goes on: the
\* callers read it without the lock (memory.go:54-59).
SnapshotStable == \A c \in Client : View(heap, snapshot[c]) = seen[c]

\* The history is in the order of its timestamps, it has no entry twice, and none
\* is lost once AddHistoryEntry has returned, whoever else is adding
\* (memory.go:62-74).
HistoryComplete ==
  LET h == View(heap, history) IN
    /\ \A i \in DOMAIN h : \A j \in 1..(i - 1) : h[j].time <= h[i].time /\ h[j] # h[i]
    /\ \A e \in added : \E i \in DOMAIN h : h[i] = e

\* The lock is held by those inside a method, and nobody else is inside while
\* one of them writes, which Go would answer by ending the process; however a
\* method ends, it gives the lock back (memory.go:37-39, a missing key).
LockDiscipline ==
  /\ locked = {c \in Client : at[c] \in {"body", "append", "store", "unlock"}}
  /\ \A c, d \in locked : c # d => {op[c], op[d]} \subseteq {"Retrieve", "GetHistory"}

==============================================================================
