-------------------------- MODULE MemoryStoreProofs ---------------------------
(***************************************************************************)
(* The lock of the store and the stability of a history that was handed    *)
(* out, for every number of goroutines and calls.                          *)
(***************************************************************************)
EXTENDS MemoryStore, TLAPS

AtPlaces == {"out", "lock", "body", "append", "store", "unlock"}
Inside == {"body", "append", "store", "unlock"}

\* The types the lock needs, and the mutual exclusion in full.
LockInv ==
  /\ at \in [Client -> AtPlaces] /\ op \in [Client -> Operation]
  /\ locked = {c \in Client : at[c] \in Inside}
  /\ \A c, d \in locked : c # d => ~Exclusive(op[c]) /\ ~Exclusive(op[d])
  /\ \A c \in Client : at[c] \in {"append", "store"} => op[c] = "AddHistoryEntry"

\* Every step of a method keeps the mutual exclusion.
LEMMA LockInvariant == StoreSpec => []LockInv
<1>1. StoreInit => LockInv
  BY DEF StoreInit, LockInv, AtPlaces, Inside, Operation
<1>2. LockInv /\ [StoreNext]_storeVars => LockInv'
  <2> SUFFICES ASSUME LockInv, [StoreNext]_storeVars PROVE LockInv'
    OBVIOUS
  <2> USE DEF LockInv, AtPlaces, Inside
  <2>1. ASSUME NEW c \in Client, NEW o \in Operation, Invoke(c, o) PROVE LockInv'
    BY <2>1 DEF Invoke, Go, Exclusive
  <2>2. ASSUME NEW c \in Client, Enter(c) PROVE LockInv'
    BY <2>2 DEF Enter, Go, MayEnter, Exclusive
  <2>3. ASSUME NEW c \in Client, Access(c) PROVE LockInv'
    BY <2>3 DEF Access, Go, Exclusive
  <2>4. ASSUME NEW c \in Client, GetHistory(c) PROVE LockInv'
    BY <2>4 DEF GetHistory, Go, Exclusive
  <2>5. ASSUME NEW c \in Client, Stamp(c) PROVE LockInv'
    BY <2>5 DEF Stamp, Go, Exclusive
  <2>6. ASSUME NEW c \in Client, AppendEntry(c) PROVE LockInv'
    BY <2>6 DEF AppendEntry, Go, Exclusive
  <2>7. ASSUME NEW c \in Client, Leave(c) PROVE LockInv'
    BY <2>7 DEF Leave, Go, Exclusive, Unlocks
  <2>8. ASSUME NEW c \in Client, StoreHistory(c) PROVE LockInv'
    BY <2>8 DEF StoreHistory, Go, Exclusive
  <2>9. CASE UNCHANGED storeVars
    BY <2>9 DEF storeVars, Exclusive
  <2> QED BY <2>1, <2>2, <2>3, <2>4, <2>5, <2>6, <2>7, <2>8, <2>9 DEF StoreNext, Method
<1> QED BY <1>1, <1>2, PTL DEF StoreSpec

\* For any number of goroutines: the lock is held by those inside a method, and
\* a writer is alone.
THEOREM LockHeld == StoreSpec => []LockDiscipline
<1>1. LockInv => LockDiscipline
  BY DEF LockInv, LockDiscipline, Inside, Operation, Exclusive
<1> QED BY <1>1, LockInvariant, PTL

-----------------------------------------------------------------------------
(* The heap.  What a history that was handed out consists of lies in its array  *)
(* below the length of the store's own header, where no append writes.          *)

Entries == [time : Nat, by : Client, call : Nat]
Cell == Entries \cup {Garbage}
Heap == Seq(Seq(Cell))
GoodHeader(h, p) == /\ p.array \in 1..Len(h) /\ p.len \in Nat
                    /\ p.len <= Len(h[p.array])

HeapInv ==
  /\ heap \in Heap
  /\ history \in [array : Nat, len : Nat] /\ GoodHeader(heap, history)
  /\ clock \in Nat /\ entry \in [Client -> Entries] /\ calls \in [Client -> Nat]
  /\ kept \in [Client -> [array : Nat, len : Nat]]
  /\ snapshot \in [Client -> [array : Nat, len : Nat]]
  /\ seen \in [Client -> Seq(Cell)]
  /\ \A c \in Client :
       /\ GoodHeader(heap, snapshot[c])
       /\ snapshot[c].array = history.array => snapshot[c].len <= history.len
  /\ \A c \in Client : at[c] = "store" =>
       /\ GoodHeader(heap, kept[c]) /\ kept[c].len = history.len + 1
       /\ \A d \in Client :
            snapshot[d].array = kept[c].array => snapshot[d].len <= kept[c].len

\* The array that append allocates holds what the slice showed, then the element.
LEMMA Copied ==
  ASSUME NEW h \in Heap, NEW p \in [array : Nat, len : Nat], GoodHeader(h, p),
         NEW e \in Entries
  PROVE  /\ Copy(h, p, e) \in Seq(Cell)
         /\ Len(Copy(h, p, e)) \in Nat /\ p.len + 1 <= Len(Copy(h, p, e))
         /\ Copy(h, p, e)[p.len + 1] = e
         /\ \A i \in 1..p.len : Copy(h, p, e)[i] = h[p.array][i]
<1> DEFINE x == Copy(h, p, e)
           n == NewCap(p)
<1>1. /\ h[p.array] \in Seq(Cell)
      /\ Len(h[p.array]) \in Nat /\ p.len \in Nat /\ p.len <= Len(h[p.array])
  BY DEF GoodHeader, Heap
<1>2. n \in Nat /\ p.len + 1 <= n
  BY <1>1 DEF NewCap
<1>3. \A i \in 1..p.len : Place(h, p, i) = h[p.array][i] /\ i <= p.len /\ i \in 1..n
                        /\ Place(h, p, i) \in Cell
  BY <1>1, <1>2 DEF Place
<1> HIDE DEF n
<1>4. x = [i \in 1..n |-> CASE i <= p.len -> Place(h, p, i)
                           [] i = p.len + 1 -> e
                           [] OTHER -> Garbage]
  BY DEF Copy, n
<1> HIDE DEF x
<1>5. \A i \in 1..p.len : x[i] = Place(h, p, i)
  BY <1>3, <1>4
<1>6. x[p.len + 1] = e
  <2>1. p.len + 1 \in 1..n /\ ~(p.len + 1 <= p.len)
    BY <1>1, <1>2
  <2> QED BY <1>4, <2>1
<1>7. x \in [1..n -> Cell]
  <2>1. e \in Cell /\ Garbage \in Cell
    BY DEF Cell
  <2>2. \A i \in 1..n : i <= p.len => i \in 1..p.len
    BY <1>1, <1>2
  <2> QED BY <1>1, <1>3, <1>4, <2>1, <2>2
<1>8. x \in Seq(Cell) /\ Len(x) = n
  BY <1>2, <1>7
<1> QED BY <1>2, <1>3, <1>5, <1>6, <1>8 DEF x

\* After an append to the slice p of a heap h: where things lie.
LEMMA Appended ==
  ASSUME NEW h \in Heap, NEW p \in [array : Nat, len : Nat], GoodHeader(h, p),
         NEW e \in Entries
  PROVE  LET g == AppendHeap(h, p, e)
             q == AppendHeader(h, p) IN
           /\ g \in Heap /\ q \in [array : Nat, len : Nat] /\ GoodHeader(g, q)
           /\ Len(h) <= Len(g)
           /\ q.len = p.len + 1
           /\ q.array = p.array \/ q.array = Len(h) + 1
           /\ \A a \in 1..Len(h) :
                /\ Len(g[a]) = Len(h[a])
                /\ \A i \in 1..Len(h[a]) : a # p.array \/ i <= p.len => g[a][i] = h[a][i]
<1> DEFINE g == AppendHeap(h, p, e)
           q == AppendHeader(h, p)
           V == Cell
<1>0. /\ Len(h) \in Nat /\ p.array \in 1..Len(h) /\ h[p.array] \in Seq(V)
      /\ Len(h[p.array]) \in Nat /\ p.len \in Nat
      /\ p.len <= Len(h[p.array]) /\ e \in V
  BY DEF GoodHeader, Heap, Cell
<1> HIDE DEF V
<1>1. CASE Room(h, p)
  <2> DEFINE x == [h[p.array] EXCEPT ![p.len + 1] = e]
  <2>1. g = [h EXCEPT ![p.array] = x]
    BY <1>1 DEF AppendHeap
  <2>2. q = [array |-> p.array, len |-> p.len + 1]
    BY <1>1 DEF AppendHeader, Header
  <2>3. p.len + 1 \in 1..Len(h[p.array])
    BY <1>0, <1>1 DEF Room
  <2>4. x \in Seq(V) /\ Len(x) = Len(h[p.array])
        /\ \A i \in 1..p.len : x[i] = h[p.array][i]
    BY <1>0, <2>3
  <2> HIDE DEF x, g
  <2>5. g \in Heap /\ Len(g) = Len(h) /\ g[p.array] = x
        /\ \A a \in 1..Len(h) : a # p.array => g[a] = h[a]
    BY <1>0, <2>1, <2>4 DEF Heap, V
  <2> HIDE DEF g, q
  <2>6. GoodHeader(g, q)
    BY <1>0, <2>2, <2>3, <2>4, <2>5 DEF GoodHeader
  <2>7. q \in [array : Nat, len : Nat] /\ q.len = p.len + 1 /\ q.array = p.array
        /\ Len(h) <= Len(g)
    BY <1>0, <2>2, <2>5
  <2>8. ASSUME NEW a \in 1..Len(h)
        PROVE  /\ Len(g[a]) = Len(h[a])
               /\ \A i \in 1..Len(h[a]) : a # p.array \/ i <= p.len => g[a][i] = h[a][i]
    <3>1. CASE a = p.array
      <4>1. \A i \in 1..Len(h[a]) : i <= p.len => i \in 1..p.len
        BY <1>0, <3>1
      <4> QED BY <2>4, <2>5, <3>1, <4>1
    <3>2. CASE a # p.array
      BY <2>5, <3>2
    <3> QED BY <3>1, <3>2
  <2> QED BY <2>5, <2>6, <2>7, <2>8 DEF g, q
<1>2. CASE ~Room(h, p)
  <2> DEFINE x == Copy(h, p, e)
  <2>1. g = Append(h, x) /\ q = [array |-> Len(h) + 1, len |-> p.len + 1]
    BY <1>2 DEF AppendHeap, AppendHeader, Header
  <2>2. x \in Seq(V) /\ Len(x) \in Nat /\ p.len + 1 <= Len(x)
    BY Copied DEF V
  <2> HIDE DEF x
  <2>3. g \in Heap /\ Len(g) = Len(h) + 1 /\ g[Len(h) + 1] = x
        /\ \A a \in 1..Len(h) : g[a] = h[a]
    BY <1>0, <2>1, <2>2 DEF Heap, V
  <2> HIDE DEF g, q
  <2>4. GoodHeader(g, q)
    BY <1>0, <2>1, <2>2, <2>3 DEF GoodHeader
  <2>5. q \in [array : Nat, len : Nat] /\ q.len = p.len + 1 /\ q.array = Len(h) + 1
        /\ Len(h) <= Len(g)
    BY <1>0, <2>1, <2>3
  <2> QED BY <2>3, <2>4, <2>5 DEF g, q
<1> QED BY <1>1, <1>2

\* What a header shows depends on the places below its length only.
LEMMA SameView ==
  ASSUME NEW h \in Heap, NEW g \in Heap, NEW p, GoodHeader(h, p), GoodHeader(g, p),
         \A i \in 1..p.len : g[p.array][i] = h[p.array][i]
  PROVE  View(g, p) = View(h, p)
<1>1. \A i \in 1..p.len : Place(g, p, i) = Place(h, p, i)
  BY DEF Place, GoodHeader, Heap
<1> QED BY <1>1 DEF View

\* A client that is about to write is the only one inside the lock.
LEMMA WriterAlone ==
  ASSUME LockInv, NEW c \in Client, at[c] \in Inside, op[c] = "AddHistoryEntry"
  PROVE  \A d \in Client : d # c => at[d] \notin Inside
  BY DEF LockInv, Inside, Exclusive

\* No step of the store changes what a header that was handed out shows.
LEMMA HeapInvariant == StoreSpec => [](HeapInv /\ SnapshotStable)
<1>1. StoreInit => HeapInv /\ SnapshotStable
  <2> SUFFICES ASSUME StoreInit PROVE HeapInv /\ SnapshotStable
    OBVIOUS
  <2>1. heap = <<<<>>>> /\ <<>> \in Seq(Cell) /\ heap \in Heap
        /\ Len(heap) = 1 /\ heap[1] = <<>>
    BY DEF StoreInit, Heap
  <2>2. HeapInv
    BY <2>1 DEF StoreInit, HeapInv, GoodHeader, Header, Entry, Entries
  <2>3. View(heap, Header(1, 0)) = <<>>
    BY DEF View, Header
  <2> QED BY <2>2, <2>3 DEF StoreInit, SnapshotStable
<1>2. LockInv /\ HeapInv /\ SnapshotStable /\ [StoreNext]_storeVars
        => (HeapInv /\ SnapshotStable)'
  <2> SUFFICES ASSUME LockInv, HeapInv, SnapshotStable, [StoreNext]_storeVars
               PROVE  HeapInv' /\ SnapshotStable'
    OBVIOUS
  <2>0. at \in [Client -> AtPlaces]
    BY DEF LockInv
  <2>1. ASSUME UNCHANGED <<heap, history, kept, snapshot, seen>>, clock' \in Nat,
               entry' \in [Client -> Entries], calls' \in [Client -> Nat],
               \A d \in Client : at'[d] = "store" => at[d] = "store"
        PROVE  HeapInv' /\ SnapshotStable'
    BY <2>1 DEF HeapInv, SnapshotStable, GoodHeader, View, Place
  <2>2. ASSUME NEW c \in Client, GetHistory(c)
        PROVE  HeapInv' /\ SnapshotStable'
    <3>1. /\ heap' = heap /\ history' = history /\ clock' = clock /\ entry' = entry
          /\ kept' = kept /\ calls' = calls
          /\ snapshot' = [snapshot EXCEPT ![c] = history]
          /\ seen' = [seen EXCEPT ![c] = View(heap, history)]
          /\ at[c] = "body" /\ op[c] = "GetHistory"
          /\ at' = [at EXCEPT ![c] = "unlock"]
      BY <2>2 DEF GetHistory, Go
    <3>2. View(heap, history) \in Seq(Cell)
      <4>1. /\ history.array \in 1..Len(heap) /\ history.len \in Nat
            /\ history.len <= Len(heap[history.array])
            /\ heap[history.array] \in Seq(Cell)
        BY DEF HeapInv, GoodHeader, Heap
      <4>2. \A i \in 1..history.len : Place(heap, history, i) \in Cell
        BY <4>1 DEF Place
      <4> QED BY <4>1, <4>2 DEF View
    <3>3. \A d \in Client : at'[d] # "store"
      BY <2>0, <3>1, WriterAlone DEF LockInv, Inside
    <3>4. HeapInv'
      <4>1. history \in [array : Nat, len : Nat] /\ GoodHeader(heap, history)
            /\ history.len <= history.len
        BY DEF HeapInv
      <4>2. \A d \in Client :
              /\ snapshot'[d] \in {snapshot[d], history}
              /\ seen'[d] \in Seq(Cell)
        BY <3>1, <3>2 DEF HeapInv
      <4>3. /\ snapshot' \in [Client -> [array : Nat, len : Nat]]
            /\ seen' \in [Client -> Seq(Cell)]
        BY <3>1, <3>2, <4>1 DEF HeapInv
      <4>4. \A d \in Client :
              /\ GoodHeader(heap, snapshot'[d])
              /\ snapshot'[d].array = history.array => snapshot'[d].len <= history.len
        BY <4>1, <4>2 DEF HeapInv
      <4> QED BY <3>1, <3>3, <4>3, <4>4 DEF HeapInv, GoodHeader
    <3>5. SnapshotStable'
      BY <3>1 DEF HeapInv, SnapshotStable, View, Place
    <3> QED BY <3>4, <3>5
  <2>3. ASSUME NEW c \in Client, Stamp(c)
        PROVE  HeapInv' /\ SnapshotStable'
    <3>1. /\ clock' \in {clock, clock + 1} /\ clock \in Nat /\ calls[c] \in Nat
          /\ entry' = [entry EXCEPT ![c] = [time |-> clock', by |-> c, call |-> calls[c]]]
          /\ at' = [at EXCEPT ![c] = "append"]
          /\ UNCHANGED <<heap, history, kept, snapshot, seen, calls>>
      BY <2>3 DEF Stamp, HeapInv, Entry, Go
    <3>2. clock' \in Nat
      BY <3>1
    <3>3. entry' \in [Client -> Entries] /\ calls' \in [Client -> Nat]
      BY <3>1, <3>2 DEF HeapInv, Entries
    <3>4. \A d \in Client : at'[d] = "store" => at[d] = "store"
      BY <2>0, <3>1
    <3> QED BY <2>1, <3>1, <3>2, <3>3, <3>4
  <2>4. ASSUME NEW c \in Client, AppendEntry(c)
        PROVE  HeapInv' /\ SnapshotStable'
    <3> DEFINE q == kept'[c]
    <3>1. /\ heap' = AppendHeap(heap, history, entry[c])
          /\ kept' = [kept EXCEPT ![c] = AppendHeader(heap, history)]
          /\ UNCHANGED <<history, clock, entry, calls, snapshot, seen>>
          /\ at[c] = "append" /\ at' = [at EXCEPT ![c] = "store"]
      BY <2>4 DEF AppendEntry, Kept, Go
    <3>2. heap \in Heap /\ history \in [array : Nat, len : Nat]
          /\ GoodHeader(heap, history) /\ entry[c] \in Entries
          /\ kept \in [Client -> [array : Nat, len : Nat]]
      BY DEF HeapInv
    <3>3. q = AppendHeader(heap, history)
      BY <3>1, <3>2
    <3> HIDE DEF q
    <3>4. /\ heap' \in Heap /\ q \in [array : Nat, len : Nat] /\ GoodHeader(heap', q)
          /\ Len(heap) <= Len(heap')
          /\ q.len = history.len + 1
          /\ q.array = history.array \/ q.array = Len(heap) + 1
          /\ \A a \in 1..Len(heap) :
               /\ Len(heap'[a]) = Len(heap[a])
               /\ \A i \in 1..Len(heap[a]) :
                    a # history.array \/ i <= history.len => heap'[a][i] = heap[a][i]
      <4> DEFINE g == AppendHeap(heap, history, entry[c])
      <4>1. heap' = g
        BY <3>1
      <4> HIDE DEF g
      <4>2. LET r == AppendHeader(heap, history) IN
            /\ g \in Heap /\ r \in [array : Nat, len : Nat] /\ GoodHeader(g, r)
            /\ Len(heap) <= Len(g)
            /\ r.len = history.len + 1
            /\ r.array = history.array \/ r.array = Len(heap) + 1
            /\ \A a \in 1..Len(heap) :
                 /\ Len(g[a]) = Len(heap[a])
                 /\ \A i \in 1..Len(heap[a]) :
                      a # history.array \/ i <= history.len => g[a][i] = heap[a][i]
        BY <3>2, Appended DEF g
      <4> QED BY <3>3, <4>1, <4>2
    <3>5. ASSUME NEW p \in [array : Nat, len : Nat], GoodHeader(heap, p),
                 p.array = history.array => p.len <= history.len
          PROVE  /\ GoodHeader(heap', p)
                 /\ p.array = q.array => p.len <= q.len
                 /\ View(heap', p) = View(heap, p)
      <4>1. Len(heap) \in Nat /\ Len(heap') \in Nat
        BY <3>2, <3>4 DEF Heap
      <4>2. GoodHeader(heap', p)
        BY <3>4, <3>5, <4>1 DEF GoodHeader
      <4>3. p.array = q.array => p.len <= q.len
        BY <3>2, <3>4, <3>5, <4>1 DEF GoodHeader
      <4>4. \A i \in 1..p.len : heap'[p.array][i] = heap[p.array][i]
        <5> DEFINE a == p.array
        <5>1. a \in 1..Len(heap) /\ Len(heap[a]) \in Nat /\ p.len <= Len(heap[a])
              /\ p.len \in Nat
          BY <3>2, <3>5 DEF GoodHeader, Heap
        <5>2. history.len \in Nat
          BY <3>2
        <5> HIDE DEF a
        <5>3. \A i \in 1..p.len : a # history.array \/ i <= history.len
          BY <3>5, <5>1, <5>2 DEF a
        <5>4. \A i \in 1..p.len : i \in 1..Len(heap[a])
          BY <5>1
        <5>5. \A i \in 1..p.len : heap'[a][i] = heap[a][i]
          BY <3>4, <5>1, <5>3, <5>4
        <5> QED BY <5>5 DEF a
      <4>5. View(heap', p) = View(heap, p)
        BY <3>2, <3>4, <3>5, <4>2, <4>4, SameView
      <4> QED BY <4>2, <4>3, <4>5
    <3>6. \A d \in Client : /\ GoodHeader(heap', snapshot[d])
                            /\ snapshot[d].array = q.array => snapshot[d].len <= q.len
                            /\ View(heap', snapshot[d]) = View(heap, snapshot[d])
      BY <3>5 DEF HeapInv
    <3>7. GoodHeader(heap', history)
      <4>1. history.array = history.array => history.len <= history.len
        BY <3>2
      <4> QED BY <3>2, <3>5, <4>1
    <3>8. \A d \in Client : at'[d] = "store" => d = c
      <4>1. op[c] = "AddHistoryEntry"
        BY <3>1 DEF LockInv
      <4> QED BY <2>0, <3>1, <4>1, WriterAlone DEF Inside
    <3>9. HeapInv'
      <4>1. kept' \in [Client -> [array : Nat, len : Nat]]
        BY <3>1, <3>2, <3>3, <3>4
      <4> QED BY <3>1, <3>4, <3>6, <3>7, <3>8, <4>1 DEF HeapInv, q
    <3>10. SnapshotStable'
      <4>1. \A d \in Client : View(heap', snapshot'[d]) = seen'[d]
        BY <3>1, <3>6 DEF SnapshotStable
      <4> QED BY <4>1 DEF SnapshotStable, View, Place
    <3> QED BY <3>9, <3>10
  <2>5. ASSUME NEW c \in Client, StoreHistory(c)
        PROVE  HeapInv' /\ SnapshotStable'
    <3>1. /\ at[c] = "store" /\ history' = kept[c]
          /\ at' = [at EXCEPT ![c] = "unlock"]
          /\ UNCHANGED <<heap, clock, entry, calls, kept, snapshot, seen>>
      BY <2>5 DEF StoreHistory, Go
    <3>2. /\ GoodHeader(heap, kept[c]) /\ kept[c] \in [array : Nat, len : Nat]
          /\ \A d \in Client :
               snapshot[d].array = kept[c].array => snapshot[d].len <= kept[c].len
      BY <3>1 DEF HeapInv
    <3>3. \A d \in Client : at'[d] # "store"
      <4>1. op[c] = "AddHistoryEntry"
        BY <3>1 DEF LockInv
      <4> QED BY <2>0, <3>1, <4>1, WriterAlone DEF Inside
    <3>4. HeapInv'
      BY <3>1, <3>2, <3>3 DEF HeapInv, GoodHeader
    <3>5. SnapshotStable'
      BY <3>1 DEF SnapshotStable, View, Place
    <3> QED BY <3>4, <3>5
  <2>6. ASSUME NEW c \in Client,
               (\E o \in Operation : Invoke(c, o)) \/ Enter(c) \/ Access(c) \/ Leave(c)
        PROVE  HeapInv' /\ SnapshotStable'
    <3>1. /\ UNCHANGED <<heap, history, clock, entry, kept, snapshot, seen>>
          /\ calls' = calls \/ calls' = [calls EXCEPT ![c] = @ + 1]
          /\ \E x \in {"lock", "body", "unlock", "out"} : at' = [at EXCEPT ![c] = x]
      BY <2>6 DEF Invoke, Enter, Access, Leave, Go
    <3>2. /\ clock' \in Nat /\ entry' \in [Client -> Entries]
          /\ calls' \in [Client -> Nat]
      <4>1. calls \in [Client -> Nat] /\ calls[c] + 1 \in Nat
        BY DEF HeapInv
      <4> QED BY <3>1, <4>1 DEF HeapInv
    <3>3. \A d \in Client : at'[d] = "store" => at[d] = "store"
      BY <2>0, <3>1
    <3> QED BY <2>1, <3>1, <3>2, <3>3
  <2>7. CASE UNCHANGED storeVars
    BY <2>1, <2>7 DEF storeVars, HeapInv
  <2> QED BY <2>2, <2>3, <2>4, <2>5, <2>6, <2>7 DEF StoreNext, Method
<1> QED BY <1>1, <1>2, LockInvariant, PTL DEF StoreSpec

\* For any number of goroutines and entries: a history that was handed out does
\* not change.
THEOREM SnapshotsStable == StoreSpec => []SnapshotStable
  BY HeapInvariant, PTL

-----------------------------------------------------------------------------
(* The history is what was appended to it, one time stamp after the other.      *)

History == View(heap, history)

\* The entries are in the order of their timestamps, and in that of the calls of
\* each client; the one that is being added is later than all of its client, and
\* stands behind the others in the header that append returns.
OrderInv ==
  /\ \A i \in 1..history.len :
       /\ History[i] \in Entries /\ History[i].time <= clock
       /\ History[i].call <= calls[History[i].by]
       /\ at[History[i].by] \in {"lock", "body", "append", "store"} =>
            History[i].call < calls[History[i].by]
  /\ \A i, j \in 1..history.len : j < i => /\ History[j].time <= History[i].time
                                           /\ History[j] # History[i]
  /\ \A c \in Client : at[c] \in {"append", "store"} =>
       entry[c] = [time |-> clock, by |-> c, call |-> calls[c]]
  /\ \A c \in Client : at[c] = "store" =>
       /\ View(heap, kept[c])[history.len + 1] = entry[c]
       /\ \A i \in 1..history.len : View(heap, kept[c])[i] = History[i]
  /\ \A c \in Client : at[c] = "unlock" /\ op[c] = "AddHistoryEntry" =>
       \E i \in 1..history.len : History[i] = entry[c]
  /\ \A e \in added : \E i \in 1..history.len : History[i] = e

\* append adds its element at the end.
LEMMA AppendedView ==
  ASSUME NEW h \in Heap, NEW p \in [array : Nat, len : Nat], GoodHeader(h, p),
         NEW e \in Entries
  PROVE  LET g == AppendHeap(h, p, e)
             q == AppendHeader(h, p) IN
           /\ q.len = p.len + 1
           /\ View(g, q)[p.len + 1] = e
           /\ \A i \in 1..p.len : View(g, q)[i] = View(h, p)[i]
<1>0. /\ Len(h) \in Nat /\ p.array \in 1..Len(h)
      /\ h[p.array] \in Seq(Cell)
      /\ Len(h[p.array]) \in Nat /\ p.len \in Nat /\ p.len <= Len(h[p.array])
  BY DEF GoodHeader, Heap
<1> DEFINE g == AppendHeap(h, p, e)
           q == AppendHeader(h, p)
<1>1. q.len = p.len + 1
  BY DEF AppendHeader, Header
<1>2. /\ Len(g[q.array]) \in Nat /\ p.len + 1 <= Len(g[q.array])
      /\ g[q.array][p.len + 1] = e
      /\ \A i \in 1..p.len : g[q.array][i] = h[p.array][i]
  <2>1. CASE Room(h, p)
    <3> DEFINE x == [h[p.array] EXCEPT ![p.len + 1] = e]
    <3>1. g = [h EXCEPT ![p.array] = x] /\ q.array = p.array
      BY <2>1 DEF AppendHeap, AppendHeader, Header
    <3>2. p.len + 1 \in 1..Len(h[p.array])
      BY <1>0, <2>1 DEF Room
    <3>3. /\ Len(x) = Len(h[p.array]) /\ x[p.len + 1] = e
          /\ \A i \in 1..p.len : x[i] = h[p.array][i]
      BY <1>0, <3>2
    <3> HIDE DEF x, g, q
    <3>4. g[q.array] = x
      BY <1>0, <3>1 DEF Heap
    <3> QED BY <1>0, <3>2, <3>3, <3>4
  <2>2. CASE ~Room(h, p)
    <3> DEFINE x == Copy(h, p, e)
    <3>1. g = Append(h, x) /\ q.array = Len(h) + 1
      BY <2>2 DEF AppendHeap, AppendHeader, Header
    <3>2. /\ x \in Seq(Cell) /\ Len(x) \in Nat /\ p.len + 1 <= Len(x)
          /\ x[p.len + 1] = e
          /\ \A i \in 1..p.len : x[i] = h[p.array][i]
      BY Copied
    <3> HIDE DEF x, g, q
    <3>3. g[q.array] = x
      BY <1>0, <3>1, <3>2 DEF Heap
    <3> QED BY <3>2, <3>3
  <2> QED BY <2>1, <2>2
<1> HIDE DEF g, q
<1>3. \A i \in 1..(p.len + 1) : View(g, q)[i] = g[q.array][i]
  BY <1>0, <1>1, <1>2 DEF View, Place
<1>4. \A i \in 1..p.len : View(h, p)[i] = h[p.array][i]
  BY <1>0 DEF View, Place
<1> QED BY <1>0, <1>1, <1>2, <1>3, <1>4 DEF g, q

\* Where the history stays and the clients that are about to add stay with it,
\* the order stays.
LEMMA SameOrder ==
  ASSUME OrderInv, UNCHANGED <<heap, history, kept, added>>, HeapInv,
         clock \in Nat, clock' \in Nat, clock <= clock',
         at \in [Client -> AtPlaces], calls \in [Client -> Nat],
         NEW c \in Client, \A d \in Client \ {c} :
           at'[d] = at[d] /\ entry'[d] = entry[d] /\ op'[d] = op[d] /\ calls'[d] = calls[d],
         \A d \in Client : at'[d] \in {"append", "store"} =>
           entry'[d] = [time |-> clock', by |-> d, call |-> calls'[d]],
         at'[c] # "store", calls'[c] \in Nat, calls[c] <= calls'[c],
         at'[c] \in {"lock", "body", "append"} =>
           at[c] \in {"lock", "body"} \/ calls[c] < calls'[c],
         ~(at'[c] = "unlock" /\ op'[c] = "AddHistoryEntry")
  PROVE  OrderInv'
<1>1. History' = History /\ history.len \in Nat
  BY DEF History, View, Place, HeapInv
<1>2. \A i \in 1..history.len :
        /\ History[i] \in Entries /\ History[i].time \in Nat /\ History[i].by \in Client
        /\ History[i].call \in Nat
  BY DEF OrderInv, Entries
<1>3. \A i \in 1..history'.len :
        /\ History'[i] \in Entries /\ History'[i].time <= clock'
        /\ History'[i].call <= calls'[History'[i].by]
        /\ at'[History'[i].by] \in {"lock", "body", "append", "store"} =>
             History'[i].call < calls'[History'[i].by]
  <2> SUFFICES ASSUME NEW i \in 1..history.len
               PROVE  /\ History[i].time <= clock'
                      /\ History[i].call <= calls'[History[i].by]
                      /\ at'[History[i].by] \in {"lock", "body", "append", "store"} =>
                           History[i].call < calls'[History[i].by]
    BY <1>1, <1>2
  <2>1. PICK x, d, n : x = History[i].time /\ d = History[i].by /\ n = History[i].call
    OBVIOUS
  <2>2. /\ x \in Nat /\ d \in Client /\ n \in Nat /\ x <= clock /\ n <= calls[d]
        /\ at[d] \in {"lock", "body", "append", "store"} => n < calls[d]
    BY <1>2, <2>1 DEF OrderInv
  <2>3. x <= clock' /\ n <= calls'[d]
        /\ (at'[d] \in {"lock", "body", "append", "store"} => n < calls'[d])
    BY <2>2
  <2> QED BY <2>1, <2>3
<1>4. \A i, j \in 1..history'.len :
        j < i => History'[j].time <= History'[i].time /\ History'[j] # History'[i]
  BY <1>1 DEF OrderInv
<1>5. \A d \in Client : at'[d] = "store" =>
        /\ View(heap, kept[d])' [history'.len + 1] = entry'[d]
        /\ \A i \in 1..history'.len : View(heap, kept[d])'[i] = History'[i]
  <2>1. \A d \in Client : View(heap, kept[d])' = View(heap, kept[d])
    BY DEF View, Place
  <2> QED BY <1>1, <2>1 DEF OrderInv
<1>6. \A d \in Client : at'[d] = "unlock" /\ op'[d] = "AddHistoryEntry" =>
        \E i \in 1..history'.len : History'[i] = entry'[d]
  BY <1>1 DEF OrderInv
<1>7. \A e \in added' : \E i \in 1..history'.len : History'[i] = e
  BY <1>1 DEF OrderInv
<1> QED BY <1>3, <1>4, <1>5, <1>6, <1>7 DEF OrderInv

\* A timestamp goes from the clock through the one writer to the end of the history.
LEMMA OrderInvariant == StoreSpec => []OrderInv
<1>1. StoreInit => OrderInv
  BY DEF StoreInit, OrderInv, Header
<1>2. LockInv /\ HeapInv /\ OrderInv /\ [StoreNext]_storeVars => OrderInv'
  <2> SUFFICES ASSUME LockInv, HeapInv, OrderInv, [StoreNext]_storeVars
               PROVE  OrderInv'
    OBVIOUS
  <2>0. history.len \in Nat /\ clock \in Nat /\ entry \in [Client -> Entries]
        /\ at \in [Client -> AtPlaces] /\ op \in [Client -> Operation]
        /\ calls \in [Client -> Nat] /\ clock <= clock
    BY DEF HeapInv, LockInv
  <2>1. ASSUME UNCHANGED <<heap, history>> PROVE History' = History
    BY <2>1 DEF History, View, Place
  <2>2. ASSUME NEW c \in Client, NEW o \in Operation, Invoke(c, o) PROVE OrderInv'
    <3>1. /\ at[c] = "out" /\ calls' = [calls EXCEPT ![c] = @ + 1]
          /\ op' = [op EXCEPT ![c] = o] /\ at' = [at EXCEPT ![c] = "lock"]
          /\ UNCHANGED <<heap, history, kept, added, clock, entry>>
      BY <2>2 DEF Invoke, Go
    <3>2. calls'[c] = calls[c] + 1 /\ calls[c] \in Nat /\ at'[c] = "lock"
          /\ calls'[c] \in Nat /\ calls[c] <= calls'[c] /\ calls[c] < calls'[c]
      BY <2>0, <3>1
    <3>3. \A d \in Client \ {c} :
            at'[d] = at[d] /\ entry'[d] = entry[d] /\ op'[d] = op[d] /\ calls'[d] = calls[d]
      BY <2>0, <3>1
    <3>4. \A d \in Client : at'[d] \in {"append", "store"} =>
            entry'[d] = [time |-> clock', by |-> d, call |-> calls'[d]]
      BY <3>1, <3>2, <3>3 DEF OrderInv
    <3> QED BY <2>0, <3>1, <3>2, <3>3, <3>4, SameOrder
  <2>3. ASSUME NEW c \in Client, Enter(c) \/ Access(c) \/ GetHistory(c) PROVE OrderInv'
    <3>1. /\ UNCHANGED <<heap, history, kept, added, clock, entry, op, calls>>
          /\ \/ at[c] = "lock" /\ at' = [at EXCEPT ![c] = "body"]
             \/ op[c] # "AddHistoryEntry" /\ at' = [at EXCEPT ![c] = "unlock"]
      BY <2>3 DEF Enter, Access, GetHistory, Go
    <3>2. \A d \in Client \ {c} :
            at'[d] = at[d] /\ entry'[d] = entry[d] /\ op'[d] = op[d] /\ calls'[d] = calls[d]
      BY <2>0, <3>1
    <3>3. /\ at'[c] \in {"body", "unlock"} /\ (at'[c] = "body" => at[c] = "lock")
          /\ (at'[c] = "unlock" => op'[c] # "AddHistoryEntry")
          /\ calls[c] \in Nat /\ calls'[c] = calls[c] /\ calls[c] <= calls'[c]
      BY <2>0, <3>1
    <3>4. \A d \in Client : at'[d] \in {"append", "store"} =>
            entry'[d] = [time |-> clock', by |-> d, call |-> calls'[d]]
      BY <3>1, <3>2, <3>3 DEF OrderInv
    <3> QED BY <2>0, <3>1, <3>2, <3>3, <3>4, SameOrder
  <2>4. ASSUME NEW c \in Client, Stamp(c) PROVE OrderInv'
    <3>1. /\ at[c] = "body" /\ op[c] = "AddHistoryEntry" /\ clock' \in {clock, clock + 1}
          /\ at' = [at EXCEPT ![c] = "append"]
          /\ entry' = [entry EXCEPT ![c] = [time |-> clock', by |-> c, call |-> calls[c]]]
          /\ UNCHANGED <<heap, history, kept, added, op, calls>>
      BY <2>4 DEF Stamp, Go, Entry
    <3>2. clock' \in Nat /\ clock <= clock'
      BY <2>0, <3>1
    <3>3. \A d \in Client \ {c} : at[d] \notin Inside
      BY <3>1, WriterAlone DEF Inside
    <3>4. \A d \in Client \ {c} :
            at'[d] = at[d] /\ entry'[d] = entry[d] /\ op'[d] = op[d] /\ calls'[d] = calls[d]
      BY <2>0, <3>1
    <3>5. /\ at'[c] = "append" /\ entry'[c] = [time |-> clock', by |-> c, call |-> calls'[c]]
          /\ calls[c] \in Nat /\ calls'[c] = calls[c] /\ calls[c] <= calls'[c]
      BY <2>0, <3>1
    <3>6. \A d \in Client : at'[d] \in {"append", "store"} =>
            entry'[d] = [time |-> clock', by |-> d, call |-> calls'[d]]
      BY <3>3, <3>4, <3>5 DEF Inside
    <3> QED BY <2>0, <3>1, <3>2, <3>4, <3>5, <3>6, SameOrder
  <2>5. ASSUME NEW c \in Client, AppendEntry(c) PROVE OrderInv'
    <3>1. /\ at[c] = "append" /\ op[c] = "AddHistoryEntry"
          /\ at' = [at EXCEPT ![c] = "store"]
          /\ heap' = AppendHeap(heap, history, entry[c])
          /\ kept' = [kept EXCEPT ![c] = AppendHeader(heap, history)]
          /\ UNCHANGED <<history, clock, entry, op, calls, added>>
      BY <2>5 DEF AppendEntry, Go, Kept, LockInv
    <3>2. \A d \in Client \ {c} : at[d] \notin Inside
      BY <3>1, WriterAlone DEF Inside
    <3>3. heap \in Heap /\ history \in [array : Nat, len : Nat]
          /\ GoodHeader(heap, history) /\ entry[c] \in Entries
          /\ kept'[c] = AppendHeader(heap, history)
      BY <3>1 DEF HeapInv
    <3>4. /\ View(heap', kept'[c])[history.len + 1] = entry[c]
          /\ \A i \in 1..history.len : View(heap', kept'[c])[i] = History[i]
      BY <3>1, <3>3, AppendedView DEF History
    <3>5. History' = History
      <4>1. /\ heap' \in Heap /\ Len(heap) <= Len(heap')
            /\ \A a \in 1..Len(heap) :
                 /\ Len(heap'[a]) = Len(heap[a])
                 /\ \A i \in 1..Len(heap[a]) :
                      a # history.array \/ i <= history.len => heap'[a][i] = heap[a][i]
        <5> DEFINE g == AppendHeap(heap, history, entry[c])
        <5>1. heap' = g
          BY <3>1
        <5> HIDE DEF g
        <5>2. /\ g \in Heap /\ Len(heap) <= Len(g)
              /\ \A a \in 1..Len(heap) :
                   /\ Len(g[a]) = Len(heap[a])
                   /\ \A i \in 1..Len(heap[a]) :
                        a # history.array \/ i <= history.len => g[a][i] = heap[a][i]
          BY <3>3, Appended DEF g
        <5> QED BY <5>1, <5>2
      <4>2. Len(heap) \in Nat /\ Len(heap') \in Nat /\ Len(heap[history.array]) \in Nat
            /\ history.array \in 1..Len(heap) /\ history.len <= Len(heap[history.array])
        BY <3>3, <4>1 DEF Heap, GoodHeader
      <4>3. GoodHeader(heap', history)
        BY <3>3, <4>1, <4>2 DEF GoodHeader
      <4>4. \A i \in 1..history.len : heap'[history.array][i] = heap[history.array][i]
        BY <2>0, <4>1, <4>2
      <4>5. View(heap', history) = View(heap, history)
        BY <3>3, <4>1, <4>3, <4>4, SameView
      <4> QED BY <3>1, <4>5 DEF History
    <3>6. \A d \in Client : at'[d] = "store" => d = c
      BY <2>0, <3>1, <3>2 DEF Inside
    <3>7. \A d \in Client : at'[d] \in {"append", "unlock"} => d # c /\ FALSE
      BY <2>0, <3>1, <3>2 DEF Inside
    <3>8. \A i \in 1..history'.len :
            /\ History'[i] \in Entries /\ History'[i].time <= clock'
            /\ History'[i].call <= calls'[History'[i].by]
            /\ at'[History'[i].by] \in {"lock", "body", "append", "store"} =>
                 History'[i].call < calls'[History'[i].by]
      <4> SUFFICES ASSUME NEW i \in 1..history.len,
                          at'[History[i].by] \in {"lock", "body", "append", "store"}
                   PROVE  History[i].call < calls[History[i].by]
        BY <3>1, <3>5 DEF OrderInv
      <4>1. History[i].by \in Client
        BY DEF OrderInv, Entries
      <4>2. at[History[i].by] \in {"lock", "body", "append", "store"}
        BY <2>0, <3>1, <4>1
      <4> QED BY <4>2 DEF OrderInv
    <3>9. \A i, j \in 1..history'.len :
            j < i => History'[j].time <= History'[i].time /\ History'[j] # History'[i]
      BY <3>1, <3>5 DEF OrderInv
    <3>10. \A d \in Client : at'[d] \in {"append", "store"} =>
             entry'[d] = [time |-> clock', by |-> d, call |-> calls'[d]]
      BY <3>1, <3>6, <3>7 DEF OrderInv
    <3>11. \A d \in Client : at'[d] = "store" =>
             /\ View(heap', kept'[d])[history'.len + 1] = entry'[d]
             /\ \A i \in 1..history'.len : View(heap', kept'[d])[i] = History'[i]
      BY <3>1, <3>4, <3>5, <3>6
    <3>12. \A e \in added' : \E i \in 1..history'.len : History'[i] = e
      BY <3>1, <3>5 DEF OrderInv
    <3>13. \A d \in Client : at'[d] = "store" =>
             /\ View(heap, kept[d])'[history'.len + 1] = entry'[d]
             /\ \A i \in 1..history'.len : View(heap, kept[d])'[i] = History'[i]
      BY <3>11 DEF View, Place
    <3> QED BY <3>7, <3>8, <3>9, <3>10, <3>12, <3>13 DEF OrderInv
  <2>6. ASSUME NEW c \in Client, StoreHistory(c) PROVE OrderInv'
    <3>1. /\ at[c] = "store" /\ op[c] = "AddHistoryEntry" /\ history' = kept[c]
          /\ at' = [at EXCEPT ![c] = "unlock"]
          /\ UNCHANGED <<heap, kept, clock, entry, op, calls, added>>
      BY <2>6 DEF StoreHistory, Go, LockInv
    <3>2. \A d \in Client \ {c} : at[d] \notin Inside
      BY <3>1, WriterAlone DEF Inside
    <3>3. /\ history'.len = history.len + 1
          /\ History' = View(heap, kept[c])
          /\ History'[history.len + 1] = entry[c]
          /\ \A i \in 1..history.len : History'[i] = History[i]
          /\ entry[c] = [time |-> clock, by |-> c, call |-> calls[c]]
          /\ entry[c] \in Entries
      <4>1. History' = View(heap, kept[c])
        BY <3>1 DEF History, View, Place
      <4> QED BY <3>1, <4>1 DEF OrderInv, HeapInv
    <3>4. /\ \A i \in 1..(history.len + 1) : i \in 1..history.len \/ i = history.len + 1
          /\ 1..history.len \subseteq 1..(history.len + 1)
          /\ history.len + 1 \in 1..(history.len + 1)
      BY <2>0
    <3>5. \A d \in Client : at'[d] \in {"append", "store"} => FALSE
      BY <2>0, <3>1, <3>2 DEF Inside
    <3>6. calls[c] \in Nat /\ calls[c] <= calls[c] /\ at'[c] = "unlock"
          /\ entry[c].by = c /\ entry[c].call = calls[c] /\ entry[c].time = clock
      BY <2>0, <3>1, <3>3
    <3>7. ASSUME NEW i \in 1..history.len
          PROVE  /\ History[i] \in Entries /\ History[i].time <= clock
                 /\ History[i].call <= calls[History[i].by]
                 /\ at'[History[i].by] \in {"lock", "body", "append", "store"} =>
                      History[i].call < calls[History[i].by]
                 /\ History[i] # entry[c]
      <4>1. /\ History[i] \in Entries /\ History[i].by \in Client /\ History[i].call \in Nat
            /\ History[i].time <= clock /\ History[i].call <= calls[History[i].by]
            /\ at[History[i].by] \in {"lock", "body", "append", "store"} =>
                 History[i].call < calls[History[i].by]
        BY DEF OrderInv, Entries
      <4>2. History[i] # entry[c]
        <5> SUFFICES ASSUME History[i] = entry[c] PROVE FALSE
          OBVIOUS
        <5>1. calls[c] < calls[c]
          BY <3>1, <3>6, <4>1
        <5> QED BY <3>6, <5>1
      <4>3. at'[History[i].by] = at[History[i].by] \/ at'[History[i].by] = "unlock"
        BY <2>0, <3>1, <4>1
      <4> QED BY <4>1, <4>2, <4>3
    <3>8. \A i \in 1..history'.len :
            /\ History'[i] \in Entries /\ History'[i].time <= clock'
            /\ History'[i].call <= calls'[History'[i].by]
            /\ at'[History'[i].by] \in {"lock", "body", "append", "store"} =>
                 History'[i].call < calls'[History'[i].by]
      <4> SUFFICES ASSUME NEW i \in 1..(history.len + 1)
                   PROVE  /\ History'[i] \in Entries /\ History'[i].time <= clock
                          /\ History'[i].call <= calls[History'[i].by]
                          /\ at'[History'[i].by] \in {"lock", "body", "append", "store"} =>
                               History'[i].call < calls[History'[i].by]
        BY <3>1, <3>3
      <4>1. CASE i \in 1..history.len
        BY <3>3, <3>7, <4>1
      <4>2. CASE i = history.len + 1
        <5>1. History'[i] = entry[c]
          BY <3>3, <4>2
        <5> QED BY <2>0, <3>3, <3>6, <5>1
      <4> QED BY <3>4, <4>1, <4>2
    <3>9. \A i, j \in 1..history'.len :
            j < i => History'[j].time <= History'[i].time /\ History'[j] # History'[i]
      <4> SUFFICES ASSUME NEW i \in 1..(history.len + 1), NEW j \in 1..(history.len + 1),
                          j < i
                   PROVE  History'[j].time <= History'[i].time /\ History'[j] # History'[i]
        BY <3>3
      <4>1. j \in 1..history.len
        BY <2>0
      <4>2. CASE i \in 1..history.len
        BY <3>3, <4>1, <4>2 DEF OrderInv
      <4>3. CASE i = history.len + 1
        BY <3>3, <3>6, <3>7, <4>1, <4>3
      <4> QED BY <3>4, <4>2, <4>3
    <3>10. \A d \in Client : at'[d] = "unlock" /\ op'[d] = "AddHistoryEntry" =>
             \E i \in 1..history'.len : History'[i] = entry'[d]
      <4>1. \A d \in Client : at'[d] = "unlock" => d = c
        BY <2>0, <3>1, <3>2 DEF Inside
      <4> QED BY <3>1, <3>3, <3>4, <4>1
    <3>11. \A e \in added' : \E i \in 1..history'.len : History'[i] = e
      BY <3>1, <3>3, <3>4 DEF OrderInv
    <3> QED BY <3>5, <3>8, <3>9, <3>10, <3>11 DEF OrderInv
  <2>7. ASSUME NEW c \in Client, Leave(c) PROVE OrderInv'
    <3>1. /\ at[c] = "unlock" /\ at' = [at EXCEPT ![c] = "out"]
          /\ added' = IF op[c] = "AddHistoryEntry" THEN added \cup {entry[c]} ELSE added
          /\ UNCHANGED <<heap, history, kept, clock, entry, op, calls>>
      BY <2>7 DEF Leave, Go
    <3>2. History' = History
      BY <2>1, <3>1
    <3>3. \A d \in Client : at'[d] = at[d] \/ at'[d] = "out"
      BY <2>0, <3>1
    <3>4. \A e \in added' : \E i \in 1..history'.len : History'[i] = e
      BY <3>1, <3>2 DEF OrderInv
    <3>5. \A i \in 1..history.len : History[i].by \in Client
      BY DEF OrderInv, Entries
    <3>6. \A d \in Client : View(heap, kept[d])' = View(heap, kept[d])
      BY <3>1 DEF View, Place
    <3> QED BY <3>1, <3>2, <3>3, <3>4, <3>5, <3>6 DEF OrderInv
  <2>8. CASE UNCHANGED storeVars
    BY <2>1, <2>8 DEF storeVars, OrderInv, View, Place
  <2> QED BY <2>2, <2>3, <2>4, <2>5, <2>6, <2>7, <2>8 DEF StoreNext, Method
<1> QED BY <1>1, <1>2, LockInvariant, HeapInvariant, PTL DEF StoreSpec

\* For any number of goroutines and entries: the history is in the order of its
\* time stamps, and it has every entry whose call has returned, and none twice.
THEOREM HistoryKept == StoreSpec => []HistoryComplete
<1>1. HeapInv /\ OrderInv => HistoryComplete
  <2> SUFFICES ASSUME HeapInv, OrderInv PROVE HistoryComplete
    OBVIOUS
  <2>1. DOMAIN History = 1..history.len /\ history.len \in Nat
    BY DEF History, View, HeapInv
  <2>2. \A i \in DOMAIN History : \A j \in 1..(i - 1) :
          History[j].time <= History[i].time /\ History[j] # History[i]
    BY <2>1 DEF OrderInv
  <2>3. \A e \in added : \E i \in DOMAIN History : History[i] = e
    BY <2>1 DEF OrderInv
  <2> QED BY <2>2, <2>3 DEF HistoryComplete, History
<1> QED BY <1>1, HeapInvariant, OrderInvariant, PTL

==============================================================================
