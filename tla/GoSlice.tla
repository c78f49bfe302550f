------------------------------- MODULE GoSlice -------------------------------
(***************************************************************************)
(* Slices as the Go runtime keeps them: a header (an array and a length)   *)
(* over a heap of arrays.  append writes behind the length where the array *)
(* has room, which other headers over that array do not notice, and copies *)
(* to a larger array where it has none.  The third word of a header, the   *)
(* capacity, is left out: it is that of the array.  A header torn between  *)
(* array and capacity, which lets append write past the array, is not      *)
(* modelled; one torn between array and length is.                         *)
(***************************************************************************)
EXTENDS Naturals, Sequences

CONSTANT Garbage  \* what lies in unused memory

Header(array, len) == [array |-> array, len |-> len]
Room(heap, h) == h.len < Len(heap[h.array])

\* The i-th place of an array, or of the memory that follows it.
Place(heap, h, i) == IF i <= Len(heap[h.array]) THEN heap[h.array][i] ELSE Garbage
View(heap, h) == [i \in 1..h.len |-> Place(heap, h, i)]

\* Small arrays double.
NewCap(h) == IF h.len = 0 THEN 1 ELSE 2 * h.len

\* The array that append allocates.
Copy(heap, h, e) == [i \in 1..NewCap(h) |-> CASE i <= h.len -> Place(heap, h, i)
                                              [] i = h.len + 1 -> e
                                              [] OTHER -> Garbage]

\* The heap and the header after s = append(s, e), h being the header of s.
AppendHeap(heap, h, e) ==
  IF Room(heap, h) THEN [heap EXCEPT ![h.array][h.len + 1] = e]
                   ELSE Append(heap, Copy(heap, h, e))
AppendHeader(heap, h) ==
  Header(IF Room(heap, h) THEN h.array ELSE Len(heap) + 1, h.len + 1)

==============================================================================
