-------------------------- MODULE ProviderWireProofs --------------------------
(***************************************************************************)
(* The wire formats, for any set of functions, replies of any length and   *)
(* conversations of any length: the requests are well formed, the LLM is   *)
(* shown the calls it made, and every call of a reply is kept.             *)
(***************************************************************************)
EXTENDS ProviderWire, WellFoundedInduction, TLAPS

-----------------------------------------------------------------------------
(* Induction over data.  The library's induction theorems are about operators, *)
(* here they are needed for sets: a set that contains 0 and every successor is *)
(* all of Nat, and one that contains <<>> and every Append is all sequences.   *)

\* The order of Nat, as a relation, is well founded.
LEMMA NatOrder ==
  \E R : IsWellFoundedOn(R, Nat) /\ \A y, x \in Nat : <<y, x>> \in R <=> y < x
<1>1. IsWellFoundedOn(OpToRel(<, Nat), Nat)
  BY NatLessThanWellFounded
<1>2. \A y, x \in Nat : <<y, x>> \in OpToRel(<, Nat) <=> y < x
  BY DEF OpToRel
<1>3. WITNESS OpToRel(<, Nat)
<1> QED BY <1>1, <1>2

\* Every set of numbers that is not empty has a least one.
LEMMA LeastNumber ==
  ASSUME NEW T, T \subseteq Nat, T # {}
  PROVE  \E x \in T : \A y \in T : x <= y
<1>1. PICK R : IsWellFoundedOn(R, Nat) /\ \A y, x \in Nat : <<y, x>> \in R <=> y < x
  BY NatOrder
<1>2. \E x \in T : \A y \in T : ~(<<y, x>> \in R)
  <2>1. IsWellFoundedOn(R, Nat) /\ T \subseteq Nat /\ T # {}
    BY <1>1
  <2> QED BY <2>1, WFMin, Zenon
<1>3. PICK x \in T : \A y \in T : ~(<<y, x>> \in R)
  BY <1>2
<1>4. \A y \in T : ~(y < x) /\ y \in Nat /\ x \in Nat
  BY <1>1, <1>3
<1> QED BY <1>4

\* Induction over the numbers.
LEMMA NumberInduction ==
  ASSUME NEW T, 0 \in T, \A n \in Nat : n \in T => n + 1 \in T
  PROVE  Nat \subseteq T
<1> SUFFICES ASSUME Nat \ T # {} PROVE FALSE
  OBVIOUS
<1>1. PICK x \in Nat \ T : \A y \in Nat \ T : x <= y
  BY LeastNumber
<1>2. x # 0 /\ x - 1 \in Nat /\ (x - 1) + 1 = x /\ ~(x <= x - 1)
  BY <1>1
<1>3. x - 1 \in T
  BY <1>1, <1>2
<1> QED BY <1>1, <1>2, <1>3

\* Induction over the sequences.
LEMMA SequenceInduction ==
  ASSUME NEW S, NEW T, <<>> \in T,
         \A s \in Seq(S) : s \in T => \A x \in S : Append(s, x) \in T
  PROVE  Seq(S) \subseteq T
<1> DEFINE U == {n \in Nat : \A s \in Seq(S) : Len(s) = n => s \in T}
<1>1. 0 \in U
  OBVIOUS
<1>2. ASSUME NEW n \in Nat, n \in U PROVE n + 1 \in U
  <2> SUFFICES ASSUME NEW s \in Seq(S), Len(s) = n + 1 PROVE s \in T
    OBVIOUS
  <2> DEFINE r == SubSeq(s, 1, n)
  <2>1. r \in Seq(S) /\ Len(r) = n /\ s[n + 1] \in S /\ s = Append(r, s[n + 1])
    OBVIOUS
  <2>2. r \in T
    BY <1>2, <2>1
  <2> HIDE DEF r
  <2> QED BY <2>1, <2>2
<1> HIDE DEF U
<1>3. Nat \subseteq U
  BY <1>1, <1>2, NumberInduction
<1> QED BY <1>3 DEF U

-----------------------------------------------------------------------------
(* Folds.  FoldLeft goes through the sets of indices, the last index first. *)

\* The last of the first n indices.
LEMMA LastIndex ==
  ASSUME NEW n \in Nat, NEW t, n + 1 \in t, t \subseteq 1..(n + 1)
  PROVE  Max(t) = n + 1
<1>1. Max(t) = CHOOSE x \in t : \A y \in t : x >= y
  BY DEF Max
<1>2. \A y \in t : y \in Nat /\ n + 1 >= y
  OBVIOUS
<1>3. \E x \in t : \A y \in t : x >= y
  BY <1>2
<1>4. Max(t) \in t /\ \A y \in t : Max(t) >= y
  BY <1>1, <1>3
<1>5. Max(t) >= n + 1 /\ n + 1 >= Max(t) /\ Max(t) \in Nat
  BY <1>2, <1>4
<1> HIDE DEF Max
<1> QED BY <1>5

\* G does what F says at every index of a set, beginning with b.
Iterates(G, V, b, N, F) ==
  /\ G \in [SUBSET (1..N) -> V]
  /\ G[{}] = b
  /\ \A t \in SUBSET (1..N) : t # {} => /\ Max(t) \in t
                                        /\ G[t] = F[<<G[t \ {Max(t)}], Max(t)>>]

\* Whatever is to be done, there is a function that does it.
LEMMA Iteration ==
  ASSUME NEW V, NEW b \in V, NEW N \in Nat, NEW F \in [V \X (1..N) -> V]
  PROVE  \E G : Iterates(G, V, b, N, F)
<1> DEFINE Good(n, G) == /\ G[{}] = b
                         /\ \A t \in SUBSET (1..n) : t # {} =>
                              /\ Max(t) \in t
                              /\ G[t] = F[<<G[t \ {Max(t)}], Max(t)>>]
           Done(n) == \E G \in [SUBSET (1..n) -> V] : Good(n, G)
           T == {n \in Nat : n <= N => Done(n)}
<1>1. 0 \in T
  <2> DEFINE G == [t \in SUBSET (1..0) |-> b]
  <2>1. 1..0 = {}
    OBVIOUS
  <2>2. G \in [SUBSET (1..0) -> V]
    OBVIOUS
  <2>3. Good(0, G)
    BY <2>1
  <2> QED BY <2>2, <2>3
<1>2. ASSUME NEW n \in Nat, n \in T PROVE n + 1 \in T
  <2> HIDE DEF Done
  <2> SUFFICES ASSUME n + 1 <= N PROVE Done(n + 1)
    OBVIOUS
  <2>0. Done(n)
    BY <1>2
  <2> USE DEF Done
  <2>1. PICK G \in [SUBSET (1..n) -> V] : Good(n, G)
    BY <2>0
  <2> DEFINE K == [t \in SUBSET (1..(n + 1)) |->
                     IF n + 1 \in t THEN F[<<G[t \ {n + 1}], n + 1>>] ELSE G[t]]
  <2>2. \A t \in SUBSET (1..(n + 1)) : t \ {n + 1} \in SUBSET (1..n)
    OBVIOUS
  <2>3. n + 1 \in 1..N
    OBVIOUS
  <2>4. K \in [SUBSET (1..(n + 1)) -> V]
    <3>1. ASSUME NEW t \in SUBSET (1..(n + 1)), n + 1 \in t
          PROVE  F[<<G[t \ {n + 1}], n + 1>>] \in V
      <4>1. G[t \ {n + 1}] \in V
        BY <2>2
      <4> QED BY <2>3, <4>1
    <3>2. ASSUME NEW t \in SUBSET (1..(n + 1)), n + 1 \notin t
          PROVE  G[t] \in V
      <4>1. t = t \ {n + 1}
        BY <3>2
      <4> QED BY <2>2, <4>1
    <3> QED BY <3>1, <3>2
  <2>5. \A t \in SUBSET (1..n) : t \in SUBSET (1..(n + 1)) /\ n + 1 \notin t /\ K[t] = G[t]
    <3>1. ASSUME NEW t \in SUBSET (1..n) PROVE t \in SUBSET (1..(n + 1)) /\ n + 1 \notin t
      <4>1. 1..n \subseteq 1..(n + 1) /\ n + 1 \notin 1..n
        OBVIOUS
      <4> QED BY <4>1
    <3> QED BY <3>1
  <2>6. ASSUME NEW t \in SUBSET (1..(n + 1)), t # {}
        PROVE  Max(t) \in t /\ K[t] = F[<<K[t \ {Max(t)}], Max(t)>>]
    <3>1. CASE n + 1 \in t
      <4>1. Max(t) = n + 1
        BY <3>1, LastIndex
      <4>2. K[t] = F[<<G[t \ {n + 1}], n + 1>>]
        BY <3>1
      <4>3. K[t \ {n + 1}] = G[t \ {n + 1}]
        BY <2>2, <2>5
      <4> HIDE DEF K
      <4> QED BY <3>1, <4>1, <4>2, <4>3
    <3>2. CASE n + 1 \notin t
      <4>1. t \in SUBSET (1..n)
        BY <2>2, <3>2
      <4>2. t \ {Max(t)} \in SUBSET (1..n)
        BY <4>1
      <4> HIDE DEF K
      <4> QED BY <2>1, <2>5, <2>6, <4>1, <4>2
    <3> QED BY <3>1, <3>2
  <2>7. K[{}] = b
    BY <2>1
  <2> HIDE DEF K
  <2> QED BY <2>4, <2>6, <2>7
<1> HIDE DEF T
<1>3. Nat \subseteq T
  BY <1>1, <1>2, NumberInduction
<1>4. Done(N)
  <2> HIDE DEF Done
  <2> QED BY <1>3 DEF T
<1> QED BY <1>4 DEF Iterates

\* What is left of the first n + 1 indices without the last.
LEMMA Indices ==
  ASSUME NEW N \in Nat, NEW n \in Nat, n + 1 <= N
  PROVE  /\ 1..(n + 1) \in SUBSET (1..N) /\ 1..(n + 1) # {}
         /\ Max(1..(n + 1)) = n + 1
         /\ (1..(n + 1)) \ {n + 1} = 1..n
<1>1. n + 1 \in 1..(n + 1) /\ 1..(n + 1) \subseteq 1..N
  OBVIOUS
<1>2. Max(1..(n + 1)) = n + 1
  BY <1>1, LastIndex
<1>3. \A x : x \in (1..(n + 1)) \ {n + 1} <=> x \in 1..n
  OBVIOUS
<1> QED BY <1>1, <1>2, <1>3

\* CallsOf, one part after the other.
LEMMA CallsSteps ==
  ASSUME NEW S, NEW s \in Seq(S)
  PROVE  \E H : /\ H[{}] = <<>>
                /\ \A n \in Nat : n + 1 <= Len(s) =>
                     H[1..(n + 1)] = IF IsCall(s[n + 1]) THEN Append(H[1..n], s[n + 1])
                                                         ELSE H[1..n]
                /\ CallsOf(s) = H[1..Len(s)]
<1> DEFINE N == Len(s)
           V == Seq(S)
           Step(c, x) == IF IsCall(x) THEN Append(c, x) ELSE c
           Solves(H) == H = [t \in SUBSET (DOMAIN s) |->
                               IF t = {} THEN <<>> ELSE Step(H[t \ {Max(t)}], s[Max(t)])]
           F == [z \in V \X (1..N) |-> Step(z[1], s[z[2]])]
<1>1. CallsOf(s) = (CHOOSE H : Solves(H))[DOMAIN s]
  BY DEF CallsOf, FoldLeft, MapThenFoldSet
<1>2. N \in Nat /\ DOMAIN s = 1..N /\ <<>> \in V /\ \A i \in 1..N : s[i] \in S
  OBVIOUS
<1>3. F \in [V \X (1..N) -> V]
  <2>1. \A z \in V \X (1..N) : z[1] \in Seq(S) /\ s[z[2]] \in S
    BY <1>2
  <2>2. \A z \in V \X (1..N) : Step(z[1], s[z[2]]) \in V
    BY <2>1
  <2> QED BY <2>2
<1>4. PICK G : Iterates(G, V, <<>>, N, F)
  <2> HIDE DEF V, F, N
  <2> QED BY <1>2, <1>3, Iteration
<1>5. \A t \in SUBSET (1..N) : t # {} => G[t] = Step(G[t \ {Max(t)}], s[Max(t)])
  <2> SUFFICES ASSUME NEW t \in SUBSET (1..N), t # {}
               PROVE  G[t] = Step(G[t \ {Max(t)}], s[Max(t)])
    OBVIOUS
  <2>1. Max(t) \in 1..N /\ t \ {Max(t)} \in SUBSET (1..N)
    BY <1>4 DEF Iterates
  <2>2. <<G[t \ {Max(t)}], Max(t)>> \in V \X (1..N)
    BY <1>4, <2>1 DEF Iterates
  <2> HIDE DEF Step, V, N
  <2> QED BY <1>4, <2>2 DEF Iterates
<1> HIDE DEF Step, F
<1>6. Solves(G)
  BY <1>2, <1>4, <1>5 DEF Iterates
<1> HIDE DEF Solves
<1>7. PICK H : Solves(H) /\ CallsOf(s) = H[DOMAIN s]
  BY <1>1, <1>6
<1> USE DEF Solves
<1>8. H[{}] = <<>>
  BY <1>7
<1>9. ASSUME NEW n \in Nat, n + 1 <= N
      PROVE  H[1..(n + 1)] = Step(H[1..n], s[n + 1])
  <2>1. /\ 1..(n + 1) \in SUBSET (1..N) /\ 1..(n + 1) # {}
        /\ Max(1..(n + 1)) = n + 1 /\ (1..(n + 1)) \ {n + 1} = 1..n
    BY <1>2, <1>9, Indices
  <2> HIDE DEF N
  <2> QED BY <1>2, <1>7, <2>1
<1> QED BY <1>2, <1>7, <1>8, <1>9 DEF Step

\* CallsOf, in equations.
LEMMA CallsEquations ==
  ASSUME NEW S
  PROVE  /\ CallsOf(<<>>) = <<>>
         /\ \A s \in Seq(S), x \in S :
              CallsOf(Append(s, x)) = IF IsCall(x) THEN Append(CallsOf(s), x) ELSE CallsOf(s)
<1>1. CallsOf(<<>>) = <<>>
  <2>1. <<>> \in Seq(S) /\ Len(<<>>) = 0 /\ 1..0 = {}
    OBVIOUS
  <2> QED BY <2>1, CallsSteps
<1>2. ASSUME NEW s \in Seq(S), NEW x \in S
      PROVE  CallsOf(Append(s, x)) = IF IsCall(x) THEN Append(CallsOf(s), x) ELSE CallsOf(s)
  <2> DEFINE N == Len(s)
             r == Append(s, x)
  <2>1. r \in Seq(S) /\ Len(r) = N + 1 /\ r[N + 1] = x /\ \A i \in 1..N : r[i] = s[i]
    OBVIOUS
  <2>2. N \in Nat /\ 1..0 = {}
    OBVIOUS
  <2> HIDE DEF r
  <2>3. PICK G : /\ G[{}] = <<>>
                 /\ \A n \in Nat : n + 1 <= Len(s) =>
                      G[1..(n + 1)] = IF IsCall(s[n + 1]) THEN Append(G[1..n], s[n + 1])
                                                          ELSE G[1..n]
                 /\ CallsOf(s) = G[1..Len(s)]
    BY CallsSteps
  <2>4. PICK H : /\ H[{}] = <<>>
                 /\ \A n \in Nat : n + 1 <= Len(r) =>
                      H[1..(n + 1)] = IF IsCall(r[n + 1]) THEN Append(H[1..n], r[n + 1])
                                                          ELSE H[1..n]
                 /\ CallsOf(r) = H[1..Len(r)]
    BY <2>1, CallsSteps
  <2> DEFINE T == {n \in Nat : n <= N => H[1..n] = G[1..n]}
  <2>5. 0 \in T
    BY <2>2, <2>3, <2>4
  <2>6. ASSUME NEW n \in Nat, n \in T PROVE n + 1 \in T
    <3> SUFFICES ASSUME n + 1 <= N PROVE H[1..(n + 1)] = G[1..(n + 1)]
      OBVIOUS
    <3>1. n <= N /\ n + 1 \in 1..N /\ n + 1 <= Len(r)
      BY <2>1, <2>2
    <3>2. H[1..n] = G[1..n] /\ r[n + 1] = s[n + 1]
      BY <2>1, <2>6, <3>1
    <3> QED BY <2>3, <2>4, <3>1, <3>2
  <2> HIDE DEF T
  <2>7. Nat \subseteq T
    BY <2>5, <2>6, NumberInduction
  <2>8. H[1..N] = G[1..N]
    BY <2>2, <2>7 DEF T
  <2> QED BY <2>1, <2>2, <2>3, <2>4, <2>8 DEF r
<1> QED BY <1>1, <1>2

\* What CallsOf returns: calls only, all of them, and one at least if there is one.
LEMMA CallsAreCalls ==
  ASSUME NEW S, NEW s \in Seq(S)
  PROVE  /\ CallsOf(s) \in Seq({x \in S : IsCall(x)})
         /\ (\A i \in DOMAIN s : IsCall(s[i])) => CallsOf(s) = s
         /\ (\E i \in DOMAIN s : IsCall(s[i])) <=> CallsOf(s) # <<>>
<1> DEFINE C == {x \in S : IsCall(x)}
           Right(r) == /\ CallsOf(r) \in Seq(C)
                       /\ (\A i \in DOMAIN r : IsCall(r[i])) => CallsOf(r) = r
                       /\ (\E i \in DOMAIN r : IsCall(r[i])) <=> CallsOf(r) # <<>>
           T == {r \in Seq(S) : Right(r)}
<1>1. <<>> \in T
  <2>1. CallsOf(<<>>) = <<>>
    BY CallsEquations
  <2>2. <<>> \in Seq(C) /\ <<>> \in Seq(S) /\ DOMAIN <<>> = {}
    OBVIOUS
  <2> HIDE DEF C
  <2>3. Right(<<>>)
    BY <2>1, <2>2
  <2> QED BY <2>2, <2>3
<1>2. ASSUME NEW r \in Seq(S), r \in T, NEW x \in S PROVE Append(r, x) \in T
  <2> DEFINE a == Append(r, x)
  <2>1. CallsOf(a) = IF IsCall(x) THEN Append(CallsOf(r), x) ELSE CallsOf(r)
    BY CallsEquations
  <2>2. a \in Seq(S) /\ DOMAIN a = 1..(Len(r) + 1) /\ DOMAIN r = 1..Len(r) /\ Len(r) \in Nat
        /\ a[Len(r) + 1] = x /\ \A i \in DOMAIN r : a[i] = r[i]
    OBVIOUS
  <2>3. (\E i \in DOMAIN a : IsCall(a[i])) <=> (\E i \in DOMAIN r : IsCall(r[i])) \/ IsCall(x)
    <3>1. \A i : i \in DOMAIN a <=> i \in DOMAIN r \/ i = Len(r) + 1
      BY <2>2
    <3> HIDE DEF a
    <3> QED BY <2>2, <3>1
  <2>4. (\A i \in DOMAIN a : IsCall(a[i])) => (\A i \in DOMAIN r : IsCall(r[i])) /\ IsCall(x)
    <3>1. \A i : i \in DOMAIN a <=> i \in DOMAIN r \/ i = Len(r) + 1
      BY <2>2
    <3> HIDE DEF a
    <3> QED BY <2>2, <3>1
  <2>5. CASE IsCall(x)
    <3>1. CallsOf(a) \in Seq(C) /\ CallsOf(a) # <<>>
      <4>1. x \in C /\ CallsOf(r) \in Seq(C)
        BY <1>2, <2>5
      <4> HIDE DEF C, T
      <4>2. Append(CallsOf(r), x) \in Seq(C) /\ Append(CallsOf(r), x) # <<>>
        BY <4>1
      <4> QED BY <2>1, <2>5, <4>2
    <3>2. (\A i \in DOMAIN a : IsCall(a[i])) => CallsOf(a) = a
      BY <1>2, <2>1, <2>4, <2>5
    <3> HIDE DEF a, C
    <3> QED BY <2>2, <2>3, <2>5, <3>1, <3>2 DEF a
  <2>6. CASE ~IsCall(x)
    <3> HIDE DEF a, C
    <3> QED BY <1>2, <2>1, <2>2, <2>3, <2>4, <2>6 DEF a
  <2> QED BY <2>5, <2>6
<1> HIDE DEF T
<1>3. Seq(S) \subseteq T
  BY <1>1, <1>2, SequenceInduction
<1> QED BY <1>3 DEF T

\* FlattenSeq, one sequence after the other.
LEMMA FlattenSteps ==
  ASSUME NEW X, NEW s \in Seq(Seq(X)), s # <<>>
  PROVE  \E H : /\ H[1] = s[1]
                /\ \A n \in Nat \ {0} : n + 1 <= Len(s) => H[n + 1] = H[n] \o s[n + 1]
                /\ FlattenSeq(s) = H[Len(s)]
<1> DEFINE N == Len(s)
           V == Seq(X)
           Solves(H) == H = [i \in 1..N |-> IF i = 1 THEN s[i] ELSE H[i - 1] \o s[i]]
           F == [z \in V \X (1..N) |-> z[1] \o s[z[2]]]
<1>1. FlattenSeq(s) = (CHOOSE H : Solves(H))[N]
  BY DEF FlattenSeq
<1>2. N \in Nat /\ N # 0 /\ <<>> \in V /\ \A i \in 1..N : s[i] \in V
  OBVIOUS
<1>3. F \in [V \X (1..N) -> V]
  <2>1. \A z \in V \X (1..N) : z[1] \in Seq(X) /\ s[z[2]] \in Seq(X)
    BY <1>2
  <2>2. \A z \in V \X (1..N) : z[1] \o s[z[2]] \in V
    BY <2>1
  <2> QED BY <2>2
<1>4. PICK G : Iterates(G, V, <<>>, N, F)
  <2> HIDE DEF V, F, N
  <2> QED BY <1>2, <1>3, Iteration
<1> DEFINE K == [i \in 1..N |-> G[1..i]]
<1>5. ASSUME NEW n \in Nat, n + 1 <= N
      PROVE  G[1..n] \in V /\ G[1..(n + 1)] = G[1..n] \o s[n + 1]
  <2>1. /\ 1..(n + 1) \in SUBSET (1..N) /\ 1..(n + 1) # {}
        /\ Max(1..(n + 1)) = n + 1 /\ (1..(n + 1)) \ {n + 1} = 1..n
    BY <1>2, <1>5, Indices
  <2>2. n + 1 \in 1..N /\ 1..n \in SUBSET (1..N)
    BY <1>2, <1>5
  <2>3. G[1..n] \in V
    BY <1>4, <2>2 DEF Iterates
  <2>4. <<G[1..n], n + 1>> \in V \X (1..N)
    BY <2>2, <2>3
  <2>5. F[<<G[1..n], n + 1>>] = G[1..n] \o s[n + 1]
    <3> HIDE DEF V, N
    <3> QED BY <2>4
  <2> HIDE DEF F, N, V
  <2>6. G[1..(n + 1)] = F[<<G[1..n], n + 1>>]
    BY <1>4, <2>1 DEF Iterates
  <2> QED BY <2>3, <2>5, <2>6
<1>6. K[1] = s[1]
  <2>1. 1..0 = {} /\ 0 + 1 = 1 /\ 0 \in Nat /\ 0 + 1 <= N /\ 1 \in 1..N
    BY <1>2
  <2>2. G[1..1] = G[1..0] \o s[1]
    BY <1>5, <2>1
  <2>3. G[1..0] = <<>> /\ s[1] \in Seq(X)
    BY <1>2, <1>4, <2>1 DEF Iterates
  <2> QED BY <2>1, <2>2, <2>3
<1>7. ASSUME NEW i \in 1..N, i # 1 PROVE K[i] = K[i - 1] \o s[i]
  <2>1. i - 1 \in Nat /\ (i - 1) + 1 = i /\ i - 1 \in 1..N /\ (i - 1) + 1 <= N
    BY <1>2, <1>7
  <2>2. G[1..i] = G[1..(i - 1)] \o s[i]
    BY <1>5, <2>1
  <2> QED BY <2>1, <2>2
<1>8. Solves(K)
  <2>1. K = [i \in 1..N |-> K[i]]
    OBVIOUS
  <2> HIDE DEF K, N
  <2> QED BY <1>6, <1>7, <2>1
<1> HIDE DEF K, Solves
<1>9. PICK H : Solves(H) /\ FlattenSeq(s) = H[N]
  BY <1>1, <1>8
<1> USE DEF Solves
<1>10. 1 \in 1..N /\ \A n \in Nat \ {0} : n + 1 <= N =>
                       n + 1 \in 1..N /\ n + 1 # 1 /\ (n + 1) - 1 = n
  BY <1>2
<1>11. H[1] = s[1]
  BY <1>9, <1>10
<1>12. ASSUME NEW n \in Nat \ {0}, n + 1 <= N PROVE H[n + 1] = H[n] \o s[n + 1]
  <2> HIDE DEF N
  <2> QED BY <1>9, <1>10, <1>12
<1> QED BY <1>9, <1>11, <1>12

\* FlattenSeq, in equations.
LEMMA FlattenEquations ==
  ASSUME NEW X
  PROVE  /\ FlattenSeq(<<>>) = <<>>
         /\ \A s \in Seq(Seq(X)), x \in Seq(X) :
              /\ FlattenSeq(s) \in Seq(X)
              /\ FlattenSeq(Append(s, x)) = FlattenSeq(s) \o x
<1>1. FlattenSeq(<<>>) = <<>>
  BY DEF FlattenSeq
<1>2. ASSUME NEW s \in Seq(Seq(X)), NEW x \in Seq(X)
      PROVE  FlattenSeq(Append(s, x)) = FlattenSeq(s) \o x
  <2> DEFINE N == Len(s)
             r == Append(s, x)
  <2>1. r \in Seq(Seq(X)) /\ Len(r) = N + 1 /\ r[N + 1] = x /\ \A i \in 1..N : r[i] = s[i]
    <3>1. PICK Y : Y = Seq(X)
      OBVIOUS
    <3>2. s \in Seq(Y) /\ x \in Y
      BY <3>1
    <3>3. r \in Seq(Y) /\ Len(r) = N + 1 /\ r[N + 1] = x /\ \A i \in 1..N : r[i] = s[i]
      BY <3>2
    <3> QED BY <3>1, <3>3
  <2>2. N \in Nat
    OBVIOUS
  <2> HIDE DEF r
  <2>0. r # <<>>
    BY <2>1, <2>2
  <2>3. PICK H : /\ H[1] = r[1]
                 /\ \A n \in Nat \ {0} : n + 1 <= Len(r) => H[n + 1] = H[n] \o r[n + 1]
                 /\ FlattenSeq(r) = H[Len(r)]
    BY <2>0, <2>1, FlattenSteps
  <2>4. CASE s = <<>>
    <3>1. N = 0 /\ FlattenSeq(r) = x
      BY <2>1, <2>3, <2>4
    <3>2. <<>> \o x = x
      OBVIOUS
    <3> QED BY <1>1, <2>4, <3>1, <3>2 DEF r
  <2>5. CASE s # <<>>
    <3>1. PICK G : /\ G[1] = s[1]
                   /\ \A n \in Nat \ {0} : n + 1 <= Len(s) => G[n + 1] = G[n] \o s[n + 1]
                   /\ FlattenSeq(s) = G[Len(s)]
      BY <2>5, FlattenSteps
    <3>2. N # 0
      BY <2>5
    <3> DEFINE T == {n \in Nat : n # 0 /\ n <= N => H[n] = G[n]}
    <3>3. 0 \in T
      OBVIOUS
    <3>4. ASSUME NEW n \in Nat, n \in T PROVE n + 1 \in T
      <4> SUFFICES ASSUME n + 1 <= N PROVE H[n + 1] = G[n + 1]
        OBVIOUS
      <4>1. CASE n = 0
        BY <2>1, <2>2, <2>3, <3>1, <3>2, <4>1
      <4>2. CASE n # 0
        <5>1. n <= N /\ n + 1 \in 1..N /\ n + 1 <= Len(r)
          BY <2>1, <2>2
        <5>2. H[n] = G[n] /\ r[n + 1] = s[n + 1]
          BY <2>1, <3>4, <4>2, <5>1
        <5> QED BY <2>3, <3>1, <4>2, <5>1, <5>2
      <4> QED BY <4>1, <4>2
    <3> HIDE DEF T
    <3>5. Nat \subseteq T
      BY <3>3, <3>4, NumberInduction
    <3>6. H[N] = G[N]
      BY <2>2, <3>2, <3>5 DEF T
    <3>7. H[N + 1] = H[N] \o r[N + 1]
      <4>1. N \in Nat \ {0} /\ N + 1 <= Len(r)
        BY <2>1, <2>2, <3>2
      <4> HIDE DEF N
      <4> QED BY <2>3, <4>1
    <3> QED BY <2>1, <2>3, <3>1, <3>6, <3>7 DEF r
  <2> QED BY <2>4, <2>5
<1>3. PICK Y : Y = Seq(X)
  OBVIOUS
<1> DEFINE T == {s \in Seq(Y) : FlattenSeq(s) \in Y}
<1>4. <<>> \in T
  <2>1. <<>> \in Y /\ <<>> \in Seq(Y)
    BY <1>3
  <2> QED BY <1>1, <2>1
<1>5. ASSUME NEW s \in Seq(Y), s \in T, NEW x \in Y PROVE Append(s, x) \in T
  <2>1. FlattenSeq(Append(s, x)) = FlattenSeq(s) \o x /\ FlattenSeq(s) \in Seq(X)
    BY <1>2, <1>3, <1>5
  <2>2. FlattenSeq(s) \o x \in Y
    BY <1>3, <2>1
  <2>3. Append(s, x) \in Seq(Y)
    OBVIOUS
  <2> QED BY <2>1, <2>2, <2>3
<1> HIDE DEF T
<1>6. Seq(Y) \subseteq T
  BY <1>4, <1>5, SequenceInduction
<1> QED BY <1>1, <1>2, <1>3, <1>6 DEF T

\* What is empty adds nothing.
LEMMA FlattenBlank ==
  ASSUME NEW X, NEW s \in Seq(Seq(X)), NEW e \in Seq({<<>>})
  PROVE  FlattenSeq(s \o e) = FlattenSeq(s)
<1> DEFINE T == {r \in Seq({<<>>}) : FlattenSeq(s \o r) = FlattenSeq(s)}
<1>1. <<>> \in T
  <2>1. s \o <<>> = s
    OBVIOUS
  <2> QED BY <2>1
<1>2. ASSUME NEW r \in Seq({<<>>}), r \in T, NEW x \in {<<>>} PROVE Append(r, x) \in T
  <2>0. PICK Y : Y = Seq(X)
    OBVIOUS
  <2>1. s \in Seq(Y) /\ r \in Seq(Y) /\ x \in Y /\ s \o r \in Seq(Y) /\ x = <<>>
    <3>1. s \in Seq(Y) /\ x \in Y /\ x = <<>> /\ <<>> \in Y
      BY <2>0
    <3>2. r \in Seq(Y)
      BY <3>1
    <3> QED BY <3>1, <3>2
  <2>2. s \o Append(r, x) = Append(s \o r, x)
    BY <2>1
  <2>3. FlattenSeq(Append(s \o r, x)) = FlattenSeq(s \o r) \o x /\ FlattenSeq(s \o r) \in Seq(X)
    BY <2>0, <2>1, FlattenEquations
  <2>4. FlattenSeq(s \o r) \o x = FlattenSeq(s \o r)
    BY <2>1, <2>3
  <2>5. Append(r, x) \in Seq({<<>>})
    OBVIOUS
  <2> QED BY <1>2, <2>2, <2>3, <2>4, <2>5
<1> HIDE DEF T
<1>3. Seq({<<>>}) \subseteq T
  BY <1>1, <1>2, SequenceInduction
<1> QED BY <1>3 DEF T

\* One part that is not empty, and what is empty behind it.
LEMMA FlattenGrows ==
  ASSUME NEW X, NEW s \in Seq(Seq(X)), NEW x \in Seq(X), NEW e \in Seq({<<>>})
  PROVE  FlattenSeq((s \o <<x>>) \o e) = FlattenSeq(s) \o x
<1>1. s \o <<x>> = Append(s, x) /\ Append(s, x) \in Seq(Seq(X))
  OBVIOUS
<1> QED BY <1>1, FlattenBlank, FlattenEquations

-----------------------------------------------------------------------------
(* The converters of Anthropic and Gemini, message by message.                 *)

IDs == ({"", "call"} \cup Name) \X Nat
Names == Name \cup {""}
Parts == [kind : {"text", "call", "result"}, id : IDs, name : Names,
          args : Args \cup {"", "nil", "omitted"}]
Turns == [role : {"system", "user", "assistant", "model", "tool"}, parts : Seq(Parts)]
Calls == [id : IDs, name : Name, params : Args \cup {"nil"}]
Msgs == [role : {"user", "assistant", "tool"}, calls : Seq(Calls), id : IDs, name : Names]

\* The parts that calls of a message become.
CallPart(p, c) ==
  CASE p = "openai" -> Part("call", c.id, c.name, c.params)
    [] p = "anthropic" -> Part("call", c.id, c.name,
                               IF c.params \in {"nil", "empty"} THEN "omitted" ELSE c.params)
    [] OTHER -> Part("call", NoID, c.name, c.params)
CallParts(p, calls) == [k \in DOMAIN calls |-> CallPart(p, calls[k])]
ResultPart(p, c) == CASE p = "openai" -> Part("result", c.id, c.name, "")
                      [] p = "anthropic" -> Part("result", c.id, "", "")
                      [] OTHER -> Part("result", NoID, c.name, "")

\* A sequence of one.
LEMMA One ==
  ASSUME NEW S, NEW x \in S
  PROVE  <<x>> \in Seq(S) /\ Len(<<x>>) = 1 /\ <<x>>[1] = x
OBVIOUS

\* A sequence and one more.
LEMMA Appended ==
  ASSUME NEW S, NEW s \in Seq(S), NEW x \in S
  PROVE  /\ Append(s, x) \in Seq(S) /\ Append(s, x) # <<>> /\ Len(s) \in Nat
         /\ Len(Append(s, x)) = Len(s) + 1 /\ Append(s, x)[Len(s) + 1] = x
         /\ \A k \in 1..Len(s) : Append(s, x)[k] = s[k]
OBVIOUS

\* A sequence that is another one and one more.
LEMMA OneLonger ==
  ASSUME NEW S, NEW s \in Seq(S), NEW r \in Seq(S), NEW x, Len(r) = Len(s) + 1,
         r[Len(s) + 1] = x, \A k \in 1..Len(s) : r[k] = s[k]
  PROVE  r = Append(s, x)
OBVIOUS

\* Append is a concatenation.
LEMMA AppendIs ==
  ASSUME NEW S, NEW s \in Seq(S), NEW x \in S
  PROVE  Append(s, x) = s \o <<x>>
OBVIOUS

\* Two sequences, one behind the other.
LEMMA Concat ==
  ASSUME NEW S, NEW s \in Seq(S), NEW r \in Seq(S)
  PROVE  /\ s \o r \in Seq(S) /\ Len(s \o r) = Len(s) + Len(r)
         /\ DOMAIN (s \o r) = 1..(Len(s) + Len(r))
         /\ \A i \in 1..Len(s) : (s \o r)[i] = s[i]
         /\ \A i \in 1..Len(r) : (s \o r)[Len(s) + i] = r[i]
<1>1. s \o r \in Seq(S) /\ Len(s \o r) = Len(s) + Len(r)
  OBVIOUS
<1>2. DOMAIN (s \o r) = 1..(Len(s) + Len(r))
  OBVIOUS
<1>3. \A i \in 1..Len(s) : (s \o r)[i] = s[i]
  OBVIOUS
<1>4. \A i \in 1..Len(r) : (s \o r)[Len(s) + i] = r[i]
  OBVIOUS
<1> QED BY <1>1, <1>2, <1>3, <1>4

\* A sequence behind one element.
LEMMA Behind ==
  ASSUME NEW S, NEW x \in S, NEW r \in Seq(S)
  PROVE  /\ <<x>> \o r \in Seq(S) /\ Len(<<x>> \o r) = 1 + Len(r)
         /\ DOMAIN (<<x>> \o r) = 1..(1 + Len(r))
         /\ \A i \in 1..(1 + Len(r)) : (<<x>> \o r)[i] = IF i = 1 THEN x ELSE r[i - 1]
<1>1. <<x>> \in Seq(S) /\ <<x>> \o r \in Seq(S) /\ Len(<<x>>) = 1 /\ Len(r) \in Nat
  OBVIOUS
<1>2. Len(<<x>> \o r) = 1 + Len(r)
  BY <1>1
<1>3. \A i \in 1..(1 + Len(r)) : (<<x>> \o r)[i] = IF i = 1 THEN x ELSE r[i - 1]
  BY <1>1
<1>4. DOMAIN (<<x>> \o r) = 1..(1 + Len(r))
  BY <1>1, <1>2
<1> QED BY <1>1, <1>2, <1>3, <1>4

\* Two sequences, one behind the other, with one element between them.
LEMMA Between ==
  ASSUME NEW S, NEW s \in Seq(S), NEW x \in S, NEW r \in Seq(S)
  PROVE  s \o (<<x>> \o r) = s \o <<x>> \o r /\ Append(s, x) \o r = s \o <<x>> \o r
<1>1. <<x>> \in Seq(S)
  OBVIOUS
<1>2. s \o (<<x>> \o r) = s \o <<x>> \o r
  BY <1>1
<1>3. Append(s, x) = s \o <<x>>
  OBVIOUS
<1> QED BY <1>2, <1>3

\* The same, whichever way it is put together.
LEMMA Regroup ==
  ASSUME NEW S, NEW s \in Seq(S), NEW x \in S, NEW r \in Seq(S), NEW e, e = <<x>> \o r
  PROVE  Append(s, x) \o r = s \o e
BY Between

\* A sequence that is two sequences, one behind the other.
LEMMA IsConcat ==
  ASSUME NEW S, NEW s \in Seq(S), NEW r \in Seq(S), NEW h \in Seq(S),
         Len(h) = Len(s) + Len(r),
         \A i \in 1..(Len(s) + Len(r)) : h[i] = IF i \in 1..Len(s) THEN s[i] ELSE r[i - Len(s)]
  PROVE  h = s \o r
<1>1. s \o r \in Seq(S) /\ Len(s \o r) = Len(h)
  OBVIOUS
<1>2. \A i \in 1..Len(h) : h[i] = (s \o r)[i]
  OBVIOUS
<1> QED BY <1>1, <1>2

\* They are parts of a turn.
LEMMA PartTypes ==
  ASSUME NEW p \in Provider, NEW c \in Calls
  PROVE  /\ CallPart(p, c) \in Parts /\ ResultPart(p, c) \in Parts /\ TextPart \in Parts
         /\ CallPart(p, c).kind = "call" /\ ResultPart(p, c).kind = "result"
<1>1. NoID \in IDs /\ "" \in Names /\ c.name \in Names /\ c.id \in IDs
      /\ c.params \in Args \cup {"nil"}
  BY DEF NoID, IDs, Names, Calls
<1>2. TextPart \in Parts
  BY <1>1 DEF TextPart, Part, Parts
<1>3. \A k \in {"text", "call", "result"}, i \in IDs, n \in Names,
        a \in Args \cup {"", "nil", "omitted"} :
          Part(k, i, n, a) \in Parts /\ Part(k, i, n, a).kind = k
  BY DEF Part, Parts
<1>4. CallPart(p, c) \in Parts /\ CallPart(p, c).kind = "call"
  <2>1. CASE p = "openai"
    BY <1>1, <1>3, <2>1 DEF CallPart
  <2>2. CASE p = "anthropic"
    BY <1>1, <1>3, <2>2 DEF CallPart
  <2>3. CASE p = "gemini"
    BY <1>1, <1>3, <2>3 DEF CallPart
  <2> QED BY <2>1, <2>2, <2>3 DEF Provider
<1>5. ResultPart(p, c) \in Parts /\ ResultPart(p, c).kind = "result"
  <2>1. CASE p = "openai"
    BY <1>1, <1>3, <2>1 DEF ResultPart
  <2>2. CASE p = "anthropic"
    BY <1>1, <1>3, <2>2 DEF ResultPart
  <2>3. CASE p = "gemini"
    BY <1>1, <1>3, <2>3 DEF ResultPart
  <2> QED BY <2>1, <2>2, <2>3 DEF Provider
<1> QED BY <1>2, <1>4, <1>5

\* A result is added to the turns.
LEMMA ResultTypes ==
  ASSUME NEW out \in Seq(Turns), NEW part \in Parts
  PROVE  AddResult(out, part) \in Seq(Turns)
<1>1. \A ps \in Seq(Parts) : Turn("user", ps) \in Turns
  BY DEF Turn, Turns
<1>2. Turn("user", <<part>>) \in Turns
  BY <1>1, One
<1>3. ASSUME out # <<>>
      PROVE  Append(Front(out), Turn("user", Append(Last(out).parts, part))) \in Seq(Turns)
  <2>1. Last(out) \in Turns
    BY <1>3 DEF Last
  <2>2. Append(Last(out).parts, part) \in Seq(Parts)
    BY <2>1 DEF Turns
  <2>3. Turn("user", Append(Last(out).parts, part)) \in Turns
    BY <1>1, <2>2
  <2>4. Front(out) \in Seq(Turns)
    BY <1>3 DEF Front
  <2> HIDE DEF Turns
  <2> QED BY <2>3, <2>4
<1>4. Append(out, Turn("user", <<part>>)) \in Seq(Turns)
  <2> HIDE DEF Turns
  <2> QED BY <1>2
<1> QED BY <1>3, <1>4 DEF AddResult

\* A message is added to the turns.
LEMMA MessageTypes ==
  ASSUME NEW out \in Seq(Turns), NEW m \in Msgs
  PROVE  AntMessage(out, m) \in Seq(Turns) /\ GeminiMessage(out, m) \in Seq(Turns)
<1>1. /\ m.role \in {"user", "assistant", "tool"} /\ m.calls \in Seq(Calls)
      /\ m.id \in IDs /\ m.name \in Names
  BY DEF Msgs
<1>2. \A p \in Provider : CallParts(p, m.calls) \in Seq(Parts)
  <2>1. ASSUME NEW p \in Provider, NEW k \in DOMAIN m.calls
        PROVE  CallPart(p, m.calls[k]) \in Parts
    <3>1. m.calls[k] \in Calls
      BY <1>1, <2>1
    <3> QED BY <3>1, PartTypes
  <2> QED BY <1>1, <2>1 DEF CallParts
<1>3. TextPart \in Parts /\ Part("result", m.id, "", "") \in Parts
      /\ Part("result", NoID, m.name, "") \in Parts
  BY <1>1 DEF TextPart, Part, Parts, NoID, IDs, Names
<1>4. \A r \in {"user", "assistant", "model"}, ps \in Seq(Parts) : Turn(r, ps) \in Turns
  BY DEF Turn, Turns
<1>5. <<TextPart>> \in Seq(Parts)
  BY <1>3, One
<1>6. \A t \in Turns : Append(out, t) \in Seq(Turns)
  OBVIOUS
<1>7. AntMessage(out, m) \in Seq(Turns)
  <2>1. CASE m.role = "user"
    BY <1>4, <1>5, <1>6, <2>1 DEF AntMessage
  <2>2. CASE m.role = "assistant" /\ m.calls = <<>>
    BY <1>4, <1>5, <1>6, <2>2 DEF AntMessage
  <2>3. CASE m.role = "assistant" /\ m.calls # <<>>
    <3>1. AntMessage(out, m) = Append(out, Turn("assistant", CallParts("anthropic", m.calls)))
      BY <2>3 DEF AntMessage, Map, CallParts, CallPart
    <3> QED BY <1>2, <1>4, <1>6, <3>1 DEF Provider
  <2>4. CASE m.role = "tool"
    BY <1>3, <2>4, ResultTypes DEF AntMessage
  <2> QED BY <1>1, <2>1, <2>2, <2>3, <2>4
<1>8. GeminiMessage(out, m) \in Seq(Turns)
  <2>1. CASE m.role = "user"
    BY <1>4, <1>5, <1>6, <2>1 DEF GeminiMessage
  <2>2. CASE m.role = "assistant"
    <3>1. GeminiMessage(out, m) = Append(out, Turn("model", CallParts("gemini", m.calls)))
      BY <2>2 DEF GeminiMessage, Map, CallParts, CallPart
    <3> QED BY <1>2, <1>4, <1>6, <3>1 DEF Provider
  <2>3. CASE m.role = "tool"
    BY <1>3, <2>3, ResultTypes DEF GeminiMessage
  <2> QED BY <1>1, <2>1, <2>2, <2>3
<1> QED BY <1>7, <1>8

\* toAntMessages, one message after the other.
LEMMA AntSteps ==
  ASSUME NEW s \in Seq(Msgs)
  PROVE  \E H : /\ H[{}] = <<>>
                /\ \A n \in Nat : n + 1 <= Len(s) =>
                     H[1..(n + 1)] = AntMessage(H[1..n], s[n + 1])
                /\ toAntMessages(s) = H[1..Len(s)]
<1> DEFINE N == Len(s)
           V == Seq(Turns)
           Solves(H) == H = [t \in SUBSET (DOMAIN s) |->
                               IF t = {} THEN <<>>
                               ELSE AntMessage(H[t \ {Max(t)}], s[Max(t)])]
           F == [z \in V \X (1..N) |-> AntMessage(z[1], s[z[2]])]
<1>1. toAntMessages(s) = (CHOOSE H : Solves(H))[DOMAIN s]
  BY DEF toAntMessages, FoldLeft, MapThenFoldSet
<1>2. N \in Nat /\ DOMAIN s = 1..N /\ <<>> \in V /\ \A i \in 1..N : s[i] \in Msgs
  OBVIOUS
<1>3. F \in [V \X (1..N) -> V]
  <2>1. \A z \in V \X (1..N) : z[1] \in Seq(Turns) /\ s[z[2]] \in Msgs
    BY <1>2
  <2>2. \A z \in V \X (1..N) : AntMessage(z[1], s[z[2]]) \in V
    BY <2>1, MessageTypes
  <2> QED BY <2>2
<1>4. PICK G : Iterates(G, V, <<>>, N, F)
  <2> HIDE DEF V, F, N
  <2> QED BY <1>2, <1>3, Iteration
<1>5. \A t \in SUBSET (1..N) : t # {} => G[t] = AntMessage(G[t \ {Max(t)}], s[Max(t)])
  <2> SUFFICES ASSUME NEW t \in SUBSET (1..N), t # {}
               PROVE  G[t] = AntMessage(G[t \ {Max(t)}], s[Max(t)])
    OBVIOUS
  <2>1. Max(t) \in 1..N /\ t \ {Max(t)} \in SUBSET (1..N)
    BY <1>4 DEF Iterates
  <2>2. <<G[t \ {Max(t)}], Max(t)>> \in V \X (1..N)
    BY <1>4, <2>1 DEF Iterates
  <2> HIDE DEF V, N
  <2> QED BY <1>4, <2>2 DEF Iterates
<1> HIDE DEF F
<1>6. Solves(G)
  BY <1>2, <1>4, <1>5 DEF Iterates
<1> HIDE DEF Solves
<1>7. PICK H : Solves(H) /\ toAntMessages(s) = H[DOMAIN s]
  BY <1>1, <1>6
<1> USE DEF Solves
<1>8. H[{}] = <<>>
  BY <1>7
<1>9. ASSUME NEW n \in Nat, n + 1 <= N
      PROVE  H[1..(n + 1)] = AntMessage(H[1..n], s[n + 1])
  <2>1. /\ 1..(n + 1) \in SUBSET (1..N) /\ 1..(n + 1) # {}
        /\ Max(1..(n + 1)) = n + 1 /\ (1..(n + 1)) \ {n + 1} = 1..n
    BY <1>2, <1>9, Indices
  <2> HIDE DEF N
  <2> QED BY <1>2, <1>7, <2>1
<1> QED BY <1>2, <1>7, <1>8, <1>9

\* toAntMessages, in equations.
LEMMA AntEquations ==
  /\ toAntMessages(<<>>) = <<>>
  /\ \A s \in Seq(Msgs), m \in Msgs :
       toAntMessages(Append(s, m)) = AntMessage(toAntMessages(s), m)
<1>1. toAntMessages(<<>>) = <<>>
  <2>1. <<>> \in Seq(Msgs) /\ Len(<<>>) = 0 /\ 1..0 = {}
    OBVIOUS
  <2> QED BY <2>1, AntSteps
<1>2. ASSUME NEW s \in Seq(Msgs), NEW m \in Msgs
      PROVE  toAntMessages(Append(s, m)) = AntMessage(toAntMessages(s), m)
  <2> DEFINE N == Len(s)
             r == Append(s, m)
  <2>1. r \in Seq(Msgs) /\ Len(r) = N + 1 /\ r[N + 1] = m /\ \A i \in 1..N : r[i] = s[i]
    OBVIOUS
  <2>2. N \in Nat /\ 1..0 = {}
    OBVIOUS
  <2> HIDE DEF r
  <2>3. PICK G : /\ G[{}] = <<>>
                 /\ \A n \in Nat : n + 1 <= Len(s) =>
                      G[1..(n + 1)] = AntMessage(G[1..n], s[n + 1])
                 /\ toAntMessages(s) = G[1..Len(s)]
    BY AntSteps
  <2>4. PICK H : /\ H[{}] = <<>>
                 /\ \A n \in Nat : n + 1 <= Len(r) =>
                      H[1..(n + 1)] = AntMessage(H[1..n], r[n + 1])
                 /\ toAntMessages(r) = H[1..Len(r)]
    BY <2>1, AntSteps
  <2> DEFINE T == {n \in Nat : n <= N => H[1..n] = G[1..n]}
  <2>5. 0 \in T
    BY <2>2, <2>3, <2>4
  <2>6. ASSUME NEW n \in Nat, n \in T PROVE n + 1 \in T
    <3> SUFFICES ASSUME n + 1 <= N PROVE H[1..(n + 1)] = G[1..(n + 1)]
      OBVIOUS
    <3>1. n <= N /\ n + 1 \in 1..N /\ n + 1 <= Len(r)
      BY <2>1, <2>2
    <3>2. H[1..n] = G[1..n] /\ r[n + 1] = s[n + 1]
      BY <2>1, <2>6, <3>1
    <3> QED BY <2>3, <2>4, <3>1, <3>2
  <2> HIDE DEF T
  <2>7. Nat \subseteq T
    BY <2>5, <2>6, NumberInduction
  <2>8. H[1..N] = G[1..N]
    BY <2>2, <2>7 DEF T
  <2> QED BY <2>1, <2>2, <2>3, <2>4, <2>8 DEF r
<1> QED BY <1>1, <1>2

\* toGeminiContents, one message after the other.
LEMMA GeminiSteps ==
  ASSUME NEW s \in Seq(Msgs)
  PROVE  \E H : /\ H[{}] = <<>>
                /\ \A n \in Nat : n + 1 <= Len(s) =>
                     H[1..(n + 1)] = GeminiMessage(H[1..n], s[n + 1])
                /\ toGeminiContents(s) = H[1..Len(s)]
<1> DEFINE N == Len(s)
           V == Seq(Turns)
           Solves(H) == H = [t \in SUBSET (DOMAIN s) |->
                               IF t = {} THEN <<>>
                               ELSE GeminiMessage(H[t \ {Max(t)}], s[Max(t)])]
           F == [z \in V \X (1..N) |-> GeminiMessage(z[1], s[z[2]])]
<1>1. toGeminiContents(s) = (CHOOSE H : Solves(H))[DOMAIN s]
  BY DEF toGeminiContents, FoldLeft, MapThenFoldSet
<1>2. N \in Nat /\ DOMAIN s = 1..N /\ <<>> \in V /\ \A i \in 1..N : s[i] \in Msgs
  OBVIOUS
<1>3. F \in [V \X (1..N) -> V]
  <2>1. \A z \in V \X (1..N) : z[1] \in Seq(Turns) /\ s[z[2]] \in Msgs
    BY <1>2
  <2>2. \A z \in V \X (1..N) : GeminiMessage(z[1], s[z[2]]) \in V
    BY <2>1, MessageTypes
  <2> QED BY <2>2
<1>4. PICK G : Iterates(G, V, <<>>, N, F)
  <2> HIDE DEF V, F, N
  <2> QED BY <1>2, <1>3, Iteration
<1>5. \A t \in SUBSET (1..N) : t # {} => G[t] = GeminiMessage(G[t \ {Max(t)}], s[Max(t)])
  <2> SUFFICES ASSUME NEW t \in SUBSET (1..N), t # {}
               PROVE  G[t] = GeminiMessage(G[t \ {Max(t)}], s[Max(t)])
    OBVIOUS
  <2>1. Max(t) \in 1..N /\ t \ {Max(t)} \in SUBSET (1..N)
    BY <1>4 DEF Iterates
  <2>2. <<G[t \ {Max(t)}], Max(t)>> \in V \X (1..N)
    BY <1>4, <2>1 DEF Iterates
  <2> HIDE DEF V, N
  <2> QED BY <1>4, <2>2 DEF Iterates
<1> HIDE DEF F
<1>6. Solves(G)
  BY <1>2, <1>4, <1>5 DEF Iterates
<1> HIDE DEF Solves
<1>7. PICK H : Solves(H) /\ toGeminiContents(s) = H[DOMAIN s]
  BY <1>1, <1>6
<1> USE DEF Solves
<1>8. H[{}] = <<>>
  BY <1>7
<1>9. ASSUME NEW n \in Nat, n + 1 <= N
      PROVE  H[1..(n + 1)] = GeminiMessage(H[1..n], s[n + 1])
  <2>1. /\ 1..(n + 1) \in SUBSET (1..N) /\ 1..(n + 1) # {}
        /\ Max(1..(n + 1)) = n + 1 /\ (1..(n + 1)) \ {n + 1} = 1..n
    BY <1>2, <1>9, Indices
  <2> HIDE DEF N
  <2> QED BY <1>2, <1>7, <2>1
<1> QED BY <1>2, <1>7, <1>8, <1>9

\* toGeminiContents, in equations.
LEMMA GeminiEquations ==
  /\ toGeminiContents(<<>>) = <<>>
  /\ \A s \in Seq(Msgs), m \in Msgs :
       toGeminiContents(Append(s, m)) = GeminiMessage(toGeminiContents(s), m)
<1>1. toGeminiContents(<<>>) = <<>>
  <2>1. <<>> \in Seq(Msgs) /\ Len(<<>>) = 0 /\ 1..0 = {}
    OBVIOUS
  <2> QED BY <2>1, GeminiSteps
<1>2. ASSUME NEW s \in Seq(Msgs), NEW m \in Msgs
      PROVE  toGeminiContents(Append(s, m)) = GeminiMessage(toGeminiContents(s), m)
  <2> DEFINE N == Len(s)
             r == Append(s, m)
  <2>1. r \in Seq(Msgs) /\ Len(r) = N + 1 /\ r[N + 1] = m /\ \A i \in 1..N : r[i] = s[i]
    OBVIOUS
  <2>2. N \in Nat /\ 1..0 = {}
    OBVIOUS
  <2> HIDE DEF r
  <2>3. PICK G : /\ G[{}] = <<>>
                 /\ \A n \in Nat : n + 1 <= Len(s) =>
                      G[1..(n + 1)] = GeminiMessage(G[1..n], s[n + 1])
                 /\ toGeminiContents(s) = G[1..Len(s)]
    BY GeminiSteps
  <2>4. PICK H : /\ H[{}] = <<>>
                 /\ \A n \in Nat : n + 1 <= Len(r) =>
                      H[1..(n + 1)] = GeminiMessage(H[1..n], r[n + 1])
                 /\ toGeminiContents(r) = H[1..Len(r)]
    BY <2>1, GeminiSteps
  <2> DEFINE T == {n \in Nat : n <= N => H[1..n] = G[1..n]}
  <2>5. 0 \in T
    BY <2>2, <2>3, <2>4
  <2>6. ASSUME NEW n \in Nat, n \in T PROVE n + 1 \in T
    <3> SUFFICES ASSUME n + 1 <= N PROVE H[1..(n + 1)] = G[1..(n + 1)]
      OBVIOUS
    <3>1. n <= N /\ n + 1 \in 1..N /\ n + 1 <= Len(r)
      BY <2>1, <2>2
    <3>2. H[1..n] = G[1..n] /\ r[n + 1] = s[n + 1]
      BY <2>1, <2>6, <3>1
    <3> QED BY <2>3, <2>4, <3>1, <3>2
  <2> HIDE DEF T
  <2>7. Nat \subseteq T
    BY <2>5, <2>6, NumberInduction
  <2>8. H[1..N] = G[1..N]
    BY <2>2, <2>7 DEF T
  <2> QED BY <2>1, <2>2, <2>3, <2>4, <2>8 DEF r
<1> QED BY <1>1, <1>2

-----------------------------------------------------------------------------
(* The invariant.                                                              *)

\* What a service may ask for.
SentCalls(p) == {b \in Parts : /\ b.kind = "call" /\ b.name \in Name /\ b.args \in Args
                               /\ p = "gemini" => b.id = NoID}

\* The rules of WireWellFormed, for any conversation.
AnswersFor(p, part, call) ==
  part.kind = "result" /\ (IF p = "gemini" THEN part.name = call.name ELSE part.id = call.id)
WellFormed(p, w) ==
  \A i \in DOMAIN w :
    LET calls == Requested(w[i]) IN
    IF p = "openai"
    THEN \A k \in DOMAIN calls :
           /\ i + k \in DOMAIN w /\ w[i + k].role = "tool"
           /\ AnswersFor(p, w[i + k].parts[1], calls[k])
    ELSE /\ w[i].role # "user" <=> i % 2 = 0
         /\ calls # <<>> =>
              /\ i + 1 \in DOMAIN w
              /\ Len(w[i + 1].parts) = Len(calls)
              /\ \A k \in DOMAIN calls : AnswersFor(p, w[i + 1].parts[k], calls[k])

\* A conversation that may be sent: it is well formed, no turn of it is empty,
\* and it ends in a turn of the user's, so that the LLM is next.
Sendable(p, w) ==
  /\ w \in Seq(Turns) /\ w # <<>>
  /\ \A i \in DOMAIN w : w[i].parts # <<>>
  /\ p # "openai" => Len(w) % 2 = 1
  /\ WellFormed(p, w)

\* The calls that a conversation shows.
Shown(w) == FlattenSeq(Map(Requested, w))
\* One of them is what the LLM sent.
Echoes(s, b) == /\ s.id = b.id /\ s.name = b.name
                /\ \/ s.args = b.args
                   \/ b.args = "malformed" /\ s.args = "nil"
                   \/ b.args = "empty" /\ s.args = "omitted"

\* The calls that the messages of the agent hold.
Kept(msgs) == FlattenSeq(Map(LAMBDA m : m.calls, msgs))

MessagesInv == /\ messages \in Seq(Msgs)
               /\ asked \in Seq(SentCalls(provider))
               /\ Sendable(provider, Wire(provider, messages))
               /\ Len(Shown(Wire(provider, messages))) = Len(asked)
               /\ \A i \in DOMAIN asked : Echoes(Shown(Wire(provider, messages))[i], asked[i])
               /\ Len(Kept(messages)) = Len(asked)

RequestInv == /\ request # <<>> => Sendable(provider, request)
              /\ Len(Shown(request)) <= Len(asked)
              /\ \A i \in DOMAIN Shown(request) : Echoes(Shown(request)[i], asked[i])
              /\ reply = "awaited" => request = Wire(provider, messages)

IInv == TypeOK /\ MessagesInv /\ RequestInv

-----------------------------------------------------------------------------
(* A reply's calls and their results, on the wire.                             *)

\* The agent's answer to calls, as messages and as turns.
ToolMessages(calls) == [k \in DOMAIN calls |->
                          Message("tool", <<>>, calls[k].id, calls[k].name)]
ResultParts(p, calls) == [k \in DOMAIN calls |-> ResultPart(p, calls[k])]
CallTurn(p, calls) == Turn(IF p = "gemini" THEN "model" ELSE "assistant", CallParts(p, calls))
NewTurns(p, calls) ==
  <<CallTurn(p, calls)>>
    \o (IF p = "openai"
        THEN [k \in DOMAIN calls |-> Turn("tool", <<ResultPart(p, calls[k])>>)]
        ELSE <<Turn("user", ResultParts(p, calls))>>)

\* The types of all of them.
LEMMA BatchTypes ==
  ASSUME NEW p \in Provider, NEW calls \in Seq(Calls)
  PROVE  /\ Message("assistant", calls, NoID, "") \in Msgs
         /\ ToolMessages(calls) \in Seq(Msgs) /\ Len(ToolMessages(calls)) = Len(calls)
         /\ CallParts(p, calls) \in Seq(Parts) /\ Len(CallParts(p, calls)) = Len(calls)
         /\ ResultParts(p, calls) \in Seq(Parts) /\ Len(ResultParts(p, calls)) = Len(calls)
         /\ CallTurn(p, calls) \in Turns
         /\ Turn("user", ResultParts(p, calls)) \in Turns
         /\ \A k \in DOMAIN calls : Turn("tool", <<ResultPart(p, calls[k])>>) \in Turns
<1>1. \A k \in DOMAIN calls : calls[k] \in Calls
  OBVIOUS
<1>2. \A c \in Calls : /\ CallPart(p, c) \in Parts /\ ResultPart(p, c) \in Parts
                       /\ Message("tool", <<>>, c.id, c.name) \in Msgs
  <2>1. \A c \in Calls : Message("tool", <<>>, c.id, c.name) \in Msgs
    <3>1. \A c \in Calls : c.id \in IDs /\ c.name \in Names
      BY DEF Calls, Names
    <3>2. <<>> \in Seq(Calls)
      OBVIOUS
    <3> QED BY <3>1, <3>2 DEF Message, Msgs
  <2> QED BY <2>1, PartTypes
<1>3. Message("assistant", calls, NoID, "") \in Msgs
  <2>1. NoID \in IDs /\ "" \in Names
    BY DEF NoID, IDs, Names
  <2> QED BY <2>1 DEF Message, Msgs
<1>4. ToolMessages(calls) \in Seq(Msgs) /\ Len(ToolMessages(calls)) = Len(calls)
  <2> HIDE DEF Msgs, Calls, Message
  <2> QED BY <1>1, <1>2 DEF ToolMessages
<1>5. CallParts(p, calls) \in Seq(Parts) /\ Len(CallParts(p, calls)) = Len(calls)
  BY <1>1, <1>2 DEF CallParts
<1>6. ResultParts(p, calls) \in Seq(Parts) /\ Len(ResultParts(p, calls)) = Len(calls)
  BY <1>1, <1>2 DEF ResultParts
<1>7. \A r \in {"user", "assistant", "model", "tool"}, ps \in Seq(Parts) : Turn(r, ps) \in Turns
  BY DEF Turn, Turns
<1>8. CallTurn(p, calls) \in Turns /\ Turn("user", ResultParts(p, calls)) \in Turns
  BY <1>5, <1>6, <1>7 DEF CallTurn
<1>9. \A k \in DOMAIN calls : <<ResultPart(p, calls[k])>> \in Seq(Parts)
  BY <1>1, <1>2, One
<1> QED BY <1>3, <1>4, <1>5, <1>6, <1>7, <1>8, <1>9

\* A result begins a turn behind a turn that holds no results.
LEMMA FirstResult ==
  ASSUME NEW out \in Seq(Turns), NEW t \in Turns, NEW part,
         t.parts # <<>>, t.parts[1].kind # "result"
  PROVE  AddResult(Append(out, t), part) = Append(Append(out, t), Turn("user", <<part>>))
<1>1. Append(out, t) # <<>> /\ Last(Append(out, t)) = t
  <2> HIDE DEF Turns
  <2> QED BY DEF Last
<1> QED BY <1>1 DEF AddResult

\* A result joins the results before it.
LEMMA NextResult ==
  ASSUME NEW out \in Seq(Turns), NEW t \in Turns, NEW part,
         t.parts # <<>>, t.parts[1].kind = "result"
  PROVE  AddResult(Append(out, t), part) = Append(out, Turn("user", Append(t.parts, part)))
<1>1. Append(out, t) # <<>> /\ Last(Append(out, t)) = t /\ Front(Append(out, t)) = out
  <2> HIDE DEF Turns
  <2> QED BY DEF Last, Front
<1> QED BY <1>1 DEF AddResult

\* What Anthropic and Gemini are sent, message by message.
LEMMA WireSteps ==
  ASSUME NEW p \in {"anthropic", "gemini"}, NEW msgs \in Seq(Msgs)
  PROVE  /\ Wire(p, <<>>) = <<>>
         /\ Wire(p, msgs) \in Seq(Turns)
         /\ \A calls \in Seq(Calls) : calls # <<>> =>
              Wire(p, Append(msgs, Message("assistant", calls, NoID, "")))
                = Append(Wire(p, msgs), CallTurn(p, calls))
         /\ \A c \in Calls :
              Wire(p, Append(msgs, Message("tool", <<>>, c.id, c.name)))
                = AddResult(Wire(p, msgs), ResultPart(p, c))
<1> DEFINE Step(out, m) == IF p = "anthropic" THEN AntMessage(out, m) ELSE GeminiMessage(out, m)
           T == {s \in Seq(Msgs) : Wire(p, s) \in Seq(Turns)}
<1>1. /\ Wire(p, <<>>) = <<>>
      /\ \A s \in Seq(Msgs), m \in Msgs : Wire(p, Append(s, m)) = Step(Wire(p, s), m)
  <2>1. CASE p = "anthropic"
    BY <2>1, AntEquations DEF Wire
  <2>2. CASE p = "gemini"
    BY <2>2, GeminiEquations DEF Wire
  <2> QED BY <2>1, <2>2
<1>2. \A out \in Seq(Turns), m \in Msgs : Step(out, m) \in Seq(Turns)
  BY MessageTypes
<1>3. Seq(Msgs) \subseteq T
  <2>1. <<>> \in T
    <3>1. <<>> \in Seq(Turns) /\ <<>> \in Seq(Msgs)
      OBVIOUS
    <3> HIDE DEF Step
    <3> QED BY <1>1, <3>1
  <2>2. ASSUME NEW s \in Seq(Msgs), s \in T, NEW m \in Msgs PROVE Append(s, m) \in T
    <3>1. Append(s, m) \in Seq(Msgs)
      OBVIOUS
    <3> HIDE DEF Step
    <3> QED BY <1>1, <1>2, <2>2, <3>1
  <2> HIDE DEF T
  <2> QED BY <2>1, <2>2, SequenceInduction
<1>4. Wire(p, msgs) \in Seq(Turns)
  BY <1>3
<1>5. ASSUME NEW calls \in Seq(Calls), calls # <<>>
      PROVE  Wire(p, Append(msgs, Message("assistant", calls, NoID, "")))
               = Append(Wire(p, msgs), CallTurn(p, calls))
  <2> DEFINE m == Message("assistant", calls, NoID, "")
  <2>1. m \in Msgs /\ m.role = "assistant" /\ m.calls = calls
    BY BatchTypes DEF Provider, Message
  <2> HIDE DEF m
  <2>2. Wire(p, Append(msgs, m)) = Step(Wire(p, msgs), m)
    BY <1>1, <2>1
  <2>3. CASE p = "anthropic"
    <3>1. AntMessage(Wire(p, msgs), m)
            = Append(Wire(p, msgs), Turn("assistant", CallParts("anthropic", calls)))
      BY <1>5, <2>1 DEF AntMessage, Map, CallParts, CallPart
    <3> QED BY <2>2, <2>3, <3>1 DEF CallTurn, m
  <2>4. CASE p = "gemini"
    <3>1. GeminiMessage(Wire(p, msgs), m)
            = Append(Wire(p, msgs), Turn("model", CallParts("gemini", calls)))
      BY <2>1 DEF GeminiMessage, Map, CallParts, CallPart
    <3> QED BY <2>2, <2>4, <3>1 DEF CallTurn, m
  <2> QED BY <2>3, <2>4
<1>6. ASSUME NEW c \in Calls
      PROVE  Wire(p, Append(msgs, Message("tool", <<>>, c.id, c.name)))
               = AddResult(Wire(p, msgs), ResultPart(p, c))
  <2> DEFINE m == Message("tool", <<>>, c.id, c.name)
  <2>1. m \in Msgs
    <3>1. c.id \in IDs /\ c.name \in Names
      BY DEF Calls, Names
    <3> QED BY <3>1 DEF Message, Msgs
  <2>2. m.role = "tool" /\ m.id = c.id /\ m.name = c.name
    BY DEF Message
  <2> HIDE DEF m
  <2>3. Wire(p, Append(msgs, m)) = Step(Wire(p, msgs), m)
    BY <1>1, <2>1
  <2>4. CASE p = "anthropic"
    <3>1. AntMessage(Wire(p, msgs), m)
            = AddResult(Wire(p, msgs), ResultPart("anthropic", c))
      BY <2>2 DEF AntMessage, ResultPart
    <3> QED BY <2>3, <2>4, <3>1 DEF m
  <2>5. CASE p = "gemini"
    <3>1. GeminiMessage(Wire(p, msgs), m)
            = AddResult(Wire(p, msgs), ResultPart("gemini", c))
      BY <2>2 DEF GeminiMessage, ResultPart
    <3> QED BY <2>3, <2>5, <3>1 DEF m
  <2> QED BY <2>4, <2>5
<1> QED BY <1>1, <1>4, <1>5, <1>6

\* One call more, one result more.
LEMMA OneMore ==
  ASSUME NEW p \in Provider, NEW cs \in Seq(Calls), NEW c \in Calls
  PROVE  /\ ToolMessages(Append(cs, c))
              = Append(ToolMessages(cs), Message("tool", <<>>, c.id, c.name))
         /\ ResultParts(p, Append(cs, c)) = Append(ResultParts(p, cs), ResultPart(p, c))
<1>1. PICK as \in Seq(Calls) : as = Append(cs, c)
  BY Appended
<1>2. PICK n \in Nat : n = Len(cs) /\ DOMAIN cs = 1..n
  OBVIOUS
<1>3. /\ Len(as) = n + 1 /\ as[n + 1] = c /\ DOMAIN as = 1..(n + 1)
      /\ \A k \in 1..n : as[k] = cs[k]
  <2>1. DOMAIN as = 1..Len(as)
    BY <1>1
  <2> QED BY <1>1, <1>2, <2>1, Appended
<1>4. n + 1 \in 1..(n + 1) /\ 1..n \subseteq 1..(n + 1)
  OBVIOUS
<1>5. /\ ToolMessages(cs) \in Seq(Msgs) /\ Len(ToolMessages(cs)) = n
      /\ ToolMessages(as) \in Seq(Msgs) /\ Len(ToolMessages(as)) = n + 1
      /\ ResultParts(p, cs) \in Seq(Parts) /\ Len(ResultParts(p, cs)) = n
      /\ ResultParts(p, as) \in Seq(Parts) /\ Len(ResultParts(p, as)) = n + 1
  BY <1>2, <1>3, BatchTypes
<1>6. /\ \A k \in 1..n : ToolMessages(as)[k] = ToolMessages(cs)[k]
      /\ ToolMessages(as)[n + 1] = Message("tool", <<>>, c.id, c.name)
  BY <1>2, <1>3, <1>4, Zenon DEF ToolMessages
<1>7. /\ \A k \in 1..n : ResultParts(p, as)[k] = ResultParts(p, cs)[k]
      /\ ResultParts(p, as)[n + 1] = ResultPart(p, c)
  BY <1>2, <1>3, <1>4, Zenon DEF ResultParts
<1>8. ToolMessages(as) = Append(ToolMessages(cs), Message("tool", <<>>, c.id, c.name))
  <2>1. PICK e : e = Message("tool", <<>>, c.id, c.name)
    OBVIOUS
  <2>2. PICK f, g : f = ToolMessages(cs) /\ g = ToolMessages(as)
    OBVIOUS
  <2>3. /\ f \in Seq(Msgs) /\ g \in Seq(Msgs)
        /\ Len(g) = Len(f) + 1 /\ g[Len(f) + 1] = e /\ \A k \in 1..Len(f) : g[k] = f[k]
    BY <1>5, <1>6, <2>1, <2>2
  <2>4. g = Append(f, e)
    BY <2>3, OneLonger
  <2> QED BY <2>1, <2>2, <2>4
<1>9. ResultParts(p, as) = Append(ResultParts(p, cs), ResultPart(p, c))
  <2>1. /\ ResultParts(p, cs) \in Seq(Parts) /\ ResultParts(p, as) \in Seq(Parts)
        /\ Len(ResultParts(p, as)) = Len(ResultParts(p, cs)) + 1
        /\ ResultParts(p, as)[Len(ResultParts(p, cs)) + 1] = ResultPart(p, c)
        /\ \A k \in 1..Len(ResultParts(p, cs)) : ResultParts(p, as)[k] = ResultParts(p, cs)[k]
    BY <1>5, <1>7
  <2> QED BY <2>1, OneLonger, Zenon
<1> QED BY <1>1, <1>8, <1>9

\* The results of a batch are one turn.
LEMMA Grouped ==
  ASSUME NEW p \in {"anthropic", "gemini"}, NEW msgs \in Seq(Msgs),
         NEW t \in Turns, t.parts # <<>>, t.parts[1].kind # "result",
         NEW out \in Seq(Turns), Wire(p, msgs) = Append(out, t),
         NEW calls \in Seq(Calls), calls # <<>>
  PROVE  Wire(p, msgs \o ToolMessages(calls))
           = Append(Append(out, t), Turn("user", ResultParts(p, calls)))
<1> DEFINE Out == Append(out, t)
           T == {cs \in Seq(Calls) :
                   Wire(p, msgs \o ToolMessages(cs))
                     = IF cs = <<>> THEN Out
                                    ELSE Append(Out, Turn("user", ResultParts(p, cs)))}
<1>0. p \in Provider /\ Out \in Seq(Turns)
  <2>1. p \in Provider
    BY DEF Provider
  <2> HIDE DEF Turns
  <2> QED BY <2>1
<1>1. <<>> \in T
  <2>1. ToolMessages(<<>>) = <<>> /\ <<>> \in Seq(Calls)
    BY DEF ToolMessages
  <2>2. msgs \o <<>> = msgs
    OBVIOUS
  <2> QED BY <2>1, <2>2
<1>2. ASSUME NEW cs \in Seq(Calls), cs \in T, NEW c \in Calls PROVE Append(cs, c) \in T
  <2> DEFINE ms == msgs \o ToolMessages(cs)
             as == Append(cs, c)
  <2>1. as \in Seq(Calls) /\ as # <<>> /\ Len(as) = Len(cs) + 1 /\ as[Len(cs) + 1] = c
        /\ (\A k \in 1..Len(cs) : as[k] = cs[k]) /\ Len(cs) \in Nat
        /\ DOMAIN cs = 1..Len(cs) /\ DOMAIN as = 1..(Len(cs) + 1)
    <3>1. DOMAIN cs = 1..Len(cs) /\ DOMAIN as = 1..Len(as)
      OBVIOUS
    <3> QED BY <3>1, Appended
  <2>2. ToolMessages(as) = Append(ToolMessages(cs), Message("tool", <<>>, c.id, c.name))
    BY <1>0, OneMore
  <2>3. ResultParts(p, as) = Append(ResultParts(p, cs), ResultPart(p, c))
    BY <1>0, OneMore
  <2> HIDE DEF as
  <2>4. msgs \o ToolMessages(as) = Append(ms, Message("tool", <<>>, c.id, c.name)) /\ ms \in Seq(Msgs)
    <3>1. ToolMessages(cs) \in Seq(Msgs) /\ Message("tool", <<>>, c.id, c.name) \in Msgs
      <4>1. Message("tool", <<>>, c.id, c.name) \in Msgs
        <5>1. c.id \in IDs /\ c.name \in Names
          BY DEF Calls, Names
        <5> QED BY <5>1 DEF Message, Msgs
      <4> QED BY <1>0, <4>1, BatchTypes
    <3> HIDE DEF Msgs
    <3> QED BY <2>2, <3>1
  <2>5. Wire(p, msgs \o ToolMessages(as)) = AddResult(Wire(p, ms), ResultPart(p, c))
    <3> HIDE DEF ms, T
    <3> QED BY <2>4, WireSteps
  <2>6. CASE cs = <<>>
    <3>1. Wire(p, ms) = Out
      BY <1>2, <2>6
    <3>2. AddResult(Out, ResultPart(p, c)) = Append(Out, Turn("user", <<ResultPart(p, c)>>))
      BY FirstResult
    <3>3. ResultParts(p, as) = <<ResultPart(p, c)>>
      <4>1. ResultParts(p, cs) = <<>>
        BY <2>6 DEF ResultParts
      <4> QED BY <2>3, <4>1
    <3> HIDE DEF ms, Out
    <3> QED BY <2>1, <2>5, <3>1, <3>2, <3>3 DEF as
  <2>7. CASE cs # <<>>
    <3> DEFINE u == Turn("user", ResultParts(p, cs))
    <3>1. Wire(p, ms) = Append(Out, u)
      BY <1>2, <2>7
    <3>2. u \in Turns /\ u.parts = ResultParts(p, cs)
      BY <1>0, BatchTypes DEF Turn
    <3>3. u.parts # <<>> /\ u.parts[1].kind = "result"
      <4>1. 1 \in DOMAIN cs /\ cs[1] \in Calls
        <5> HIDE DEF Calls
        <5> QED BY <2>7
      <4>2. ResultPart(p, cs[1]).kind = "result"
        BY <1>0, <4>1, PartTypes
      <4> HIDE DEF u
      <4> QED BY <3>2, <4>1, <4>2 DEF ResultParts
    <3> HIDE DEF u, Out
    <3>4. AddResult(Append(Out, u), ResultPart(p, c))
            = Append(Out, Turn("user", Append(u.parts, ResultPart(p, c))))
      BY <1>0, <3>2, <3>3, NextResult
    <3> HIDE DEF ms
    <3> QED BY <2>1, <2>3, <2>5, <3>1, <3>2, <3>4 DEF as, Out
  <2> QED BY <2>6, <2>7
<1> HIDE DEF T
<1>3. Seq(Calls) \subseteq T
  BY <1>1, <1>2, SequenceInduction
<1> QED BY <1>3 DEF T

\* OpenAI's turns are one for each message.
LEMMA OAITypes ==
  ASSUME NEW m \in Msgs
  PROVE  OAIMessage(m) \in Turns
<1>1. /\ m.role \in {"user", "assistant", "tool"} /\ m.calls \in Seq(Calls)
      /\ m.id \in IDs /\ m.name \in Names
  BY DEF Msgs
<1>2. CallParts("openai", m.calls) \in Seq(Parts)
  BY <1>1, BatchTypes DEF Provider
<1>3. <<TextPart>> \in Seq(Parts) /\ <<Part("result", m.id, m.name, "")>> \in Seq(Parts)
  <2>1. TextPart \in Parts /\ Part("result", m.id, m.name, "") \in Parts
    BY <1>1 DEF TextPart, Part, Parts, NoID, IDs, Names
  <2> QED BY <2>1, One
<1>4. \A r \in {"user", "assistant", "tool"}, ps \in Seq(Parts) : Turn(r, ps) \in Turns
  BY DEF Turn, Turns
<1>5. CASE m.role = "user"
  BY <1>3, <1>4, <1>5 DEF OAIMessage
<1>6. CASE m.role = "assistant" /\ m.calls = <<>>
  BY <1>3, <1>4, <1>6 DEF OAIMessage
<1>7. CASE m.role = "assistant" /\ m.calls # <<>>
  <2>1. OAIMessage(m) = Turn("assistant", CallParts("openai", m.calls))
    BY <1>7 DEF OAIMessage, Map, CallParts, CallPart
  <2> QED BY <1>2, <1>4, <2>1
<1>8. CASE m.role = "tool"
  BY <1>3, <1>4, <1>8 DEF OAIMessage
<1> QED BY <1>1, <1>5, <1>6, <1>7, <1>8

\* Two conversations, one behind the other.
LEMMA OAIConcat ==
  ASSUME NEW s \in Seq(Msgs), NEW r \in Seq(Msgs)
  PROVE  /\ toOAIMessages(s) \in Seq(Turns) /\ Map(OAIMessage, r) \in Seq(Turns)
         /\ toOAIMessages(s \o r) = toOAIMessages(s) \o Map(OAIMessage, r)
<1> DEFINE sys == <<Turn("system", <<TextPart>>)>>
<1>1. sys \in Seq(Turns)
  <2>1. TextPart \in Parts
    BY DEF TextPart, Part, Parts, NoID, IDs, Names
  <2>2. Turn("system", <<TextPart>>) \in Turns
    BY <2>1, One DEF Turn, Turns
  <2> QED BY <2>2, One
<1>2. \A q \in Seq(Msgs) : Map(OAIMessage, q) \in Seq(Turns) /\ Len(Map(OAIMessage, q)) = Len(q)
  <2> TAKE q \in Seq(Msgs)
  <2>1. \A i \in DOMAIN q : OAIMessage(q[i]) \in Turns
    <3>1. \A i \in DOMAIN q : q[i] \in Msgs
      OBVIOUS
    <3> QED BY <3>1, OAITypes
  <2> QED BY <2>1 DEF Map
<1>3. Map(OAIMessage, s \o r) = Map(OAIMessage, s) \o Map(OAIMessage, r)
  <2>1. PICK f, g, h : f = Map(OAIMessage, s) /\ g = Map(OAIMessage, r) /\ h = Map(OAIMessage, s \o r)
    OBVIOUS
  <2>2. s \o r \in Seq(Msgs) /\ Len(s \o r) = Len(s) + Len(r) /\ Len(s) \in Nat /\ Len(r) \in Nat
        /\ DOMAIN s = 1..Len(s) /\ DOMAIN r = 1..Len(r) /\ DOMAIN (s \o r) = 1..(Len(s) + Len(r))
    OBVIOUS
  <2>3. /\ f \in Seq(Turns) /\ g \in Seq(Turns) /\ h \in Seq(Turns)
        /\ Len(f) = Len(s) /\ Len(g) = Len(r) /\ Len(h) = Len(s) + Len(r)
    BY <1>2, <2>1, <2>2
  <2>4. \A i \in 1..(Len(s) + Len(r)) :
          (s \o r)[i] = IF i \in 1..Len(s) THEN s[i] ELSE r[i - Len(s)]
    OBVIOUS
  <2>5. \A i \in 1..(Len(s) + Len(r)) : i \notin 1..Len(s) => i - Len(s) \in 1..Len(r)
    BY <2>2
  <2>6. \A i \in 1..(Len(s) + Len(r)) :
          h[i] = IF i \in 1..Len(s) THEN f[i] ELSE g[i - Len(s)]
    BY <2>1, <2>2, <2>4, <2>5 DEF Map
  <2>7. h = f \o g
    <3>1. /\ f \in Seq(Turns) /\ g \in Seq(Turns) /\ h \in Seq(Turns)
          /\ Len(h) = Len(f) + Len(g)
          /\ \A i \in 1..(Len(f) + Len(g)) :
               h[i] = IF i \in 1..Len(f) THEN f[i] ELSE g[i - Len(f)]
      BY <2>3, <2>6
    <3> QED BY <3>1, IsConcat, Zenon
  <2> QED BY <2>1, <2>7
<1> HIDE DEF sys
<1>4. sys \o (Map(OAIMessage, s) \o Map(OAIMessage, r))
        = (sys \o Map(OAIMessage, s)) \o Map(OAIMessage, r)
      /\ sys \o Map(OAIMessage, s) \in Seq(Turns)
  <2>1. PICK f, g : f = Map(OAIMessage, s) /\ g = Map(OAIMessage, r)
    OBVIOUS
  <2>2. f \in Seq(Turns) /\ g \in Seq(Turns)
    BY <1>2, <2>1
  <2>3. sys \o (f \o g) = (sys \o f) \o g /\ sys \o f \in Seq(Turns)
    BY <1>1, <2>2
  <2> QED BY <2>1, <2>3
<1>5. Map(OAIMessage, r) \in Seq(Turns)
  BY <1>2
<1> QED BY <1>3, <1>4, <1>5 DEF toOAIMessages, sys

\* A batch on the wire: the turn of the calls and what answers them.
LEMMA WireBatch ==
  ASSUME NEW p \in Provider, NEW msgs \in Seq(Msgs), NEW calls \in Seq(Calls), calls # <<>>
  PROVE  /\ Wire(p, msgs) \in Seq(Turns)
         /\ NewTurns(p, calls) \in Seq(Turns)
         /\ Wire(p, msgs \o <<Message("assistant", calls, NoID, "")>> \o ToolMessages(calls))
              = Wire(p, msgs) \o NewTurns(p, calls)
<1>1. PICK a \in Msgs : a = Message("assistant", calls, NoID, "")
  BY BatchTypes
<1>2. PICK ts \in Seq(Msgs) : ts = ToolMessages(calls)
  BY BatchTypes
<1>3. PICK t \in Turns : t = CallTurn(p, calls)
  BY BatchTypes
<1>4. CASE p = "openai"
  <2>1. PICK us : us = [k \in DOMAIN calls |-> Turn("tool", <<ResultPart(p, calls[k])>>)]
    OBVIOUS
  <2>2. us \in Seq(Turns)
    <3>1. \A k \in DOMAIN calls : Turn("tool", <<ResultPart(p, calls[k])>>) \in Turns
      BY BatchTypes
    <3>2. PICK n \in Nat : DOMAIN calls = 1..n
      OBVIOUS
    <3> QED BY <2>1, <3>1, <3>2
  <2>3. PICK w \in Seq(Turns) : w = Wire(p, msgs)
    BY <1>4, OAIConcat DEF Wire
  <2>4. Wire(p, msgs \o (<<a>> \o ts)) = w \o Map(OAIMessage, <<a>> \o ts)
    <3>1. <<a>> \o ts \in Seq(Msgs)
      BY <1>1, <1>2, Behind
    <3> QED BY <1>4, <2>3, <3>1, OAIConcat DEF Wire
  <2>5. Map(OAIMessage, <<a>> \o ts) = <<t>> \o us
    <3>1. OAIMessage(a) = t
      BY <1>1, <1>3, <1>4 DEF OAIMessage, Message, CallTurn, Map, CallParts, CallPart
    <3>2. \A k \in DOMAIN calls : OAIMessage(ts[k]) = us[k]
      BY <1>2, <1>4, <2>1 DEF ToolMessages, OAIMessage, Message, ResultPart
    <3>3. Len(ts) = Len(us) /\ Len(us) \in Nat /\ DOMAIN calls = 1..Len(us)
      <4>1. Len(us) = Len(calls) /\ DOMAIN calls = 1..Len(calls) /\ Len(calls) \in Nat
        BY <2>1
      <4> QED BY <1>2, <4>1, BatchTypes
    <3>4. DOMAIN (<<a>> \o ts) = 1..(1 + Len(us))
          /\ \A i \in 1..(1 + Len(us)) : (<<a>> \o ts)[i] = IF i = 1 THEN a ELSE ts[i - 1]
      <4>1. Len(ts) = Len(us) /\ a \in Msgs /\ ts \in Seq(Msgs)
        BY <1>1, <1>2, <3>3
      <4>2. /\ DOMAIN (<<a>> \o ts) = 1..(1 + Len(ts))
            /\ \A i \in 1..(1 + Len(ts)) : (<<a>> \o ts)[i] = IF i = 1 THEN a ELSE ts[i - 1]
        BY <4>1, Behind, SMT
      <4> QED BY <4>1, <4>2
    <3>5. DOMAIN (<<t>> \o us) = 1..(1 + Len(us)) /\ <<t>> \o us \in Seq(Turns)
          /\ \A i \in 1..(1 + Len(us)) : (<<t>> \o us)[i] = IF i = 1 THEN t ELSE us[i - 1]
      BY <1>3, <2>2, <3>3
    <3>6. \A i \in 1..(1 + Len(us)) : i # 1 => i - 1 \in DOMAIN calls
      BY <3>3
    <3>7. \A i \in 1..(1 + Len(us)) : OAIMessage((<<a>> \o ts)[i]) = (<<t>> \o us)[i]
      BY <3>1, <3>2, <3>4, <3>5, <3>6
    <3>8. Map(OAIMessage, <<a>> \o ts) = [i \in 1..(1 + Len(us)) |-> (<<t>> \o us)[i]]
      BY <3>4, <3>7 DEF Map
    <3>9. <<t>> \o us = [i \in 1..(1 + Len(us)) |-> (<<t>> \o us)[i]]
      BY <3>5
    <3> QED BY <3>8, <3>9
  <2>6. msgs \o (<<a>> \o ts) = msgs \o <<a>> \o ts /\ <<t>> \o us \in Seq(Turns)
    <3>1. msgs \in Seq(Msgs) /\ a \in Msgs /\ ts \in Seq(Msgs) /\ t \in Turns /\ us \in Seq(Turns)
      BY <1>1, <1>2, <1>3, <2>2
    <3>2. msgs \o (<<a>> \o ts) = msgs \o <<a>> \o ts
      <4>1. PICK e : e = <<a>> \o ts
        OBVIOUS
      <4>2. Append(msgs, a) \o ts = msgs \o <<a>> \o ts
        BY <3>1, Between, SMT
      <4>3. Append(msgs, a) \o ts = msgs \o e
        BY <3>1, <4>1, Regroup
      <4> QED BY <4>1, <4>2, <4>3
    <3>3. <<t>> \o us \in Seq(Turns)
      BY <3>1, Behind, Zenon
    <3> QED BY <3>2, <3>3
  <2>7. NewTurns(p, calls) = <<t>> \o us
    BY <1>3, <1>4, <2>1 DEF NewTurns
  <2> QED BY <1>1, <1>2, <2>3, <2>4, <2>5, <2>6, <2>7
<1>5. CASE p \in {"anthropic", "gemini"}
  <2>1. PICK w \in Seq(Turns) : w = Wire(p, msgs)
    BY <1>5, WireSteps
  <2>2. PICK u \in Turns : u = Turn("user", ResultParts(p, calls))
    BY BatchTypes
  <2>3. PICK b \in Seq(Msgs) : b = Append(msgs, a)
    BY <1>1, Appended
  <2>4. Wire(p, b) = Append(w, t)
    BY <1>1, <1>3, <1>5, <2>1, <2>3, WireSteps
  <2>5. t.parts # <<>> /\ t.parts[1].kind # "result"
    <3>1. t.parts = CallParts(p, calls)
      BY <1>3 DEF CallTurn, Turn
    <3>2. 1 \in DOMAIN calls /\ calls[1] \in Calls
      OBVIOUS
    <3>3. t.parts[1] = CallPart(p, calls[1])
      BY <3>1, <3>2 DEF CallParts
    <3>4. t.parts # <<>>
      BY <3>1, <3>2 DEF CallParts
    <3> QED BY <3>2, <3>3, <3>4, PartTypes
  <2>6. Wire(p, b \o ts) = Append(Append(w, t), u)
    <3>1. Wire(p, b \o ToolMessages(calls))
            = Append(Append(w, t), Turn("user", ResultParts(p, calls)))
      <4>1. b \in Seq(Msgs) /\ w \in Seq(Turns) /\ t \in Turns
        BY <1>3, <2>1, <2>3
      <4> QED BY <1>5, <2>4, <2>5, <4>1, Grouped
    <3> QED BY <1>2, <2>1, <2>2, <2>3, <2>4, <3>1
  <2>7. Append(Append(w, t), u) = w \o (<<t>> \o <<u>>) /\ <<t>> \o <<u>> \in Seq(Turns)
    BY <1>3, <2>1, <2>2
  <2>8. b \o ts = msgs \o <<a>> \o ts
    <3>1. msgs \in Seq(Msgs) /\ a \in Msgs /\ ts \in Seq(Msgs)
      BY <1>1, <1>2
    <3>2. Append(msgs, a) \o ts = msgs \o <<a>> \o ts
      BY <3>1, Between, SMT
    <3> QED BY <2>3, <3>2
  <2>9. NewTurns(p, calls) = <<t>> \o <<u>>
    BY <1>3, <1>5, <2>2 DEF NewTurns
  <2> QED BY <1>1, <1>2, <2>1, <2>6, <2>7, <2>8, <2>9
<1> QED BY <1>4, <1>5 DEF Provider

\* The calls that the turns of a batch make.
LEMMA RequestedOfBatch ==
  ASSUME NEW p \in Provider, NEW calls \in Seq(Calls)
  PROVE  /\ Requested(CallTurn(p, calls)) = CallParts(p, calls)
         /\ Requested(Turn("user", ResultParts(p, calls))) = <<>>
         /\ \A k \in DOMAIN calls : Requested(Turn("tool", <<ResultPart(p, calls[k])>>)) = <<>>
<1>1. \A k \in DOMAIN calls : calls[k] \in Calls
  OBVIOUS
<1>2. CallsOf(CallParts(p, calls)) = CallParts(p, calls)
  <2>1. CallParts(p, calls) \in Seq(Parts) /\ DOMAIN CallParts(p, calls) = DOMAIN calls
    BY BatchTypes DEF CallParts
  <2>2. \A k \in DOMAIN calls : IsCall(CallParts(p, calls)[k])
    BY <1>1, PartTypes DEF CallParts, IsCall
  <2> QED BY <2>1, <2>2, CallsAreCalls
<1>3. \A ps \in Seq(Parts) : (\A i \in DOMAIN ps : ps[i].kind = "result") => CallsOf(ps) = <<>>
  <2> SUFFICES ASSUME NEW ps \in Seq(Parts), \A i \in DOMAIN ps : ps[i].kind = "result"
               PROVE  CallsOf(ps) = <<>>
    OBVIOUS
  <2>1. ~ \E i \in DOMAIN ps : IsCall(ps[i])
    BY DEF IsCall
  <2> QED BY <2>1, CallsAreCalls
<1>4. CallsOf(ResultParts(p, calls)) = <<>>
  <2>1. ResultParts(p, calls) \in Seq(Parts) /\ DOMAIN ResultParts(p, calls) = DOMAIN calls
    BY BatchTypes DEF ResultParts
  <2>2. \A k \in DOMAIN calls : ResultParts(p, calls)[k].kind = "result"
    BY <1>1, PartTypes DEF ResultParts
  <2> QED BY <1>3, <2>1, <2>2
<1>5. ASSUME NEW k \in DOMAIN calls PROVE CallsOf(<<ResultPart(p, calls[k])>>) = <<>>
  <2>1. ResultPart(p, calls[k]) \in Parts /\ ResultPart(p, calls[k]).kind = "result"
    BY <1>1, <1>5, PartTypes
  <2>2. PICK part \in Parts : part = ResultPart(p, calls[k]) /\ part.kind = "result"
    BY <2>1
  <2>3. <<part>> \in Seq(Parts) /\ \A i \in DOMAIN <<part>> : <<part>>[i] = part
    BY <2>2
  <2> QED BY <1>3, <2>2, <2>3
<1> QED BY <1>2, <1>4, <1>5 DEF Requested, CallTurn, Turn

\* What lies behind the first n + 1 numbers.
LEMMA Beyond ==
  ASSUME NEW n \in Nat, NEW m \in Nat, NEW i \in 1..(n + 1 + m), i \notin 1..n, i # n + 1
  PROVE  \E k \in 1..m : n + 1 + k = i
<1>1. i - n - 1 \in 1..m /\ n + 1 + (i - n - 1) = i
  OBVIOUS
<1> QED BY <1>1

\* The turns of a batch, one by one, behind a conversation.
LEMMA TurnsBehind ==
  ASSUME NEW p \in Provider, NEW w \in Seq(Turns), NEW calls \in Seq(Calls), calls # <<>>
  PROVE  \E v \in Seq(Turns), n \in Nat :
           /\ v = w \o NewTurns(p, calls) /\ n = Len(w)
           /\ DOMAIN w = 1..n
           /\ Len(v) = n + 1 + (IF p = "openai" THEN Len(calls) ELSE 1)
           /\ DOMAIN v = 1..Len(v)
           /\ \A i \in 1..n : v[i] = w[i]
           /\ v[n + 1] = CallTurn(p, calls)
           /\ p = "openai" => \A k \in DOMAIN calls :
                                v[n + 1 + k] = Turn("tool", <<ResultPart(p, calls[k])>>)
           /\ p # "openai" => v[n + 2] = Turn("user", ResultParts(p, calls))
<1>1. PICK t \in Turns : t = CallTurn(p, calls)
  BY BatchTypes
<1>2. PICK us \in Seq(Turns) :
        us = IF p = "openai"
             THEN [k \in DOMAIN calls |-> Turn("tool", <<ResultPart(p, calls[k])>>)]
             ELSE <<Turn("user", ResultParts(p, calls))>>
  <2>1. CASE p = "openai"
    <3>1. \A k \in DOMAIN calls : Turn("tool", <<ResultPart(p, calls[k])>>) \in Turns
      BY BatchTypes
    <3>2. PICK n \in Nat : DOMAIN calls = 1..n
      OBVIOUS
    <3>3. [k \in DOMAIN calls |-> Turn("tool", <<ResultPart(p, calls[k])>>)] \in Seq(Turns)
      BY <3>1, <3>2
    <3> QED BY <2>1, <3>3
  <2>2. CASE p # "openai"
    <3>1. Turn("user", ResultParts(p, calls)) \in Turns
      BY BatchTypes
    <3> QED BY <2>2, <3>1, One
  <2> QED BY <2>1, <2>2
<1>3. PICK nt \in Seq(Turns) : nt = <<t>> \o us /\ nt = NewTurns(p, calls)
  <2>1. <<t>> \o us \in Seq(Turns)
    BY Behind
  <2> QED BY <1>1, <1>2, <2>1 DEF NewTurns
<1>4. /\ Len(us) = IF p = "openai" THEN Len(calls) ELSE 1
      /\ Len(us) \in Nat /\ Len(us) # 0
  <2>1. CASE p = "openai"
    BY <1>2, <2>1
  <2>2. CASE p # "openai"
    BY <1>2, <2>2, One
  <2> QED BY <2>1, <2>2
<1>5. /\ Len(nt) = 1 + Len(us) /\ nt[1] = t
      /\ \A k \in 1..Len(us) : nt[1 + k] = us[k]
  <2>1. /\ Len(nt) = 1 + Len(us)
        /\ \A i \in 1..(1 + Len(us)) : nt[i] = IF i = 1 THEN t ELSE us[i - 1]
    BY <1>3, Behind
  <2>2. \A k \in 1..Len(us) : 1 + k \in 1..(1 + Len(us)) /\ 1 + k # 1 /\ (1 + k) - 1 = k
    BY <1>4
  <2>3. 1 \in 1..(1 + Len(us))
    BY <1>4
  <2> QED BY <2>1, <2>2, <2>3
<1>6. PICK n \in Nat : n = Len(w) /\ DOMAIN w = 1..n
  OBVIOUS
<1>7. PICK v \in Seq(Turns) : v = w \o nt
  <2>1. w \o nt \in Seq(Turns)
    BY <1>3
  <2> QED BY <2>1
<1>8. /\ Len(v) = n + 1 + Len(us) /\ DOMAIN v = 1..Len(v)
      /\ \A i \in 1..n : v[i] = w[i]
      /\ \A i \in 1..(1 + Len(us)) : v[n + i] = nt[i]
  <2>1. nt \in Seq(Turns) /\ w \in Seq(Turns)
    BY <1>3
  <2>2. /\ Len(v) = Len(w) + Len(nt) /\ DOMAIN v = 1..(Len(w) + Len(nt))
        /\ \A i \in 1..Len(w) : v[i] = w[i]
        /\ \A i \in 1..Len(nt) : v[Len(w) + i] = nt[i]
    BY <1>7, <2>1, Concat
  <2>3. n \in Nat /\ Len(w) = n /\ Len(nt) = 1 + Len(us)
    BY <1>5, <1>6
  <2>4. n + (1 + Len(us)) = n + 1 + Len(us)
    <3>1. Len(us) \in Nat
      BY <1>4
    <3> QED BY <2>3, <3>1
  <2> QED BY <2>2, <2>3, <2>4
<1>9. v[n + 1] = t /\ \A k \in 1..Len(us) : v[n + 1 + k] = us[k]
  <2>1. /\ 1 \in 1..(1 + Len(us))
        /\ \A k \in 1..Len(us) : 1 + k \in 1..(1 + Len(us)) /\ n + (1 + k) = n + 1 + k
    BY <1>4
  <2> QED BY <1>5, <1>8, <2>1
<1>10. p = "openai" => \A k \in DOMAIN calls :
                         v[n + 1 + k] = Turn("tool", <<ResultPart(p, calls[k])>>)
  <2> SUFFICES ASSUME p = "openai", NEW k \in DOMAIN calls
               PROVE  v[n + 1 + k] = Turn("tool", <<ResultPart(p, calls[k])>>)
    OBVIOUS
  <2>1. k \in 1..Len(us)
    <3>1. DOMAIN calls = 1..Len(calls)
      OBVIOUS
    <3> QED BY <1>4, <3>1
  <2> QED BY <1>2, <1>9, <2>1
<1>11. p # "openai" => v[n + 2] = Turn("user", ResultParts(p, calls))
  <2> SUFFICES ASSUME p # "openai" PROVE v[n + 2] = Turn("user", ResultParts(p, calls))
    OBVIOUS
  <2>1. us[1] = Turn("user", ResultParts(p, calls)) /\ 1 \in 1..Len(us) /\ n + 1 + 1 = n + 2
    BY <1>2, <1>4
  <2> QED BY <1>9, <2>1
<1>12. Len(v) = n + 1 + (IF p = "openai" THEN Len(calls) ELSE 1)
  BY <1>4, <1>8
<1> QED BY <1>1, <1>3, <1>6, <1>7, <1>8, <1>9, <1>10, <1>11, <1>12

\* A result answers its call.
LEMMA ResultAnswers ==
  ASSUME NEW p \in Provider, NEW c \in Calls
  PROVE  AnswersFor(p, ResultPart(p, c), CallPart(p, c))
<1>1. ResultPart(p, c).kind = "result"
  BY PartTypes
<1>2. CASE p = "openai"
  <2>1. ResultPart(p, c).id = c.id /\ CallPart(p, c).id = c.id
    BY <1>2 DEF ResultPart, CallPart, Part
  <2> QED BY <1>1, <1>2, <2>1 DEF AnswersFor
<1>3. CASE p = "anthropic"
  <2>1. ResultPart(p, c).id = c.id /\ CallPart(p, c).id = c.id
    BY <1>3 DEF ResultPart, CallPart, Part
  <2> QED BY <1>1, <1>3, <2>1 DEF AnswersFor
<1>4. CASE p = "gemini"
  <2>1. ResultPart(p, c).name = c.name /\ CallPart(p, c).name = c.name
    BY <1>4 DEF ResultPart, CallPart, Part
  <2> QED BY <1>1, <1>4, <2>1 DEF AnswersFor
<1> QED BY <1>2, <1>3, <1>4 DEF Provider

\* A batch that is answered leaves a conversation that may be sent.
LEMMA SendableGrows ==
  ASSUME NEW p \in Provider, NEW w, Sendable(p, w), NEW calls \in Seq(Calls), calls # <<>>
  PROVE  Sendable(p, w \o NewTurns(p, calls))
<1>1. w \in Seq(Turns)
  BY DEF Sendable
<1>2. PICK v \in Seq(Turns), n \in Nat :
           /\ v = w \o NewTurns(p, calls) /\ n = Len(w)
           /\ DOMAIN w = 1..n
           /\ Len(v) = n + 1 + (IF p = "openai" THEN Len(calls) ELSE 1)
           /\ DOMAIN v = 1..Len(v)
           /\ \A i \in 1..n : v[i] = w[i]
           /\ v[n + 1] = CallTurn(p, calls)
           /\ p = "openai" => \A k \in DOMAIN calls :
                                v[n + 1 + k] = Turn("tool", <<ResultPart(p, calls[k])>>)
           /\ p # "openai" => v[n + 2] = Turn("user", ResultParts(p, calls))
  BY <1>1, TurnsBehind
<1>3. PICK m \in Nat : m = Len(calls) /\ DOMAIN calls = 1..m /\ m # 0
  OBVIOUS
<1>4. /\ CallParts(p, calls) # <<>> /\ ResultParts(p, calls) # <<>>
      /\ DOMAIN CallParts(p, calls) = 1..m /\ Len(CallParts(p, calls)) = m
      /\ Len(ResultParts(p, calls)) = m
  <2>1. CallParts(p, calls) \in Seq(Parts) /\ Len(CallParts(p, calls)) = m
        /\ ResultParts(p, calls) \in Seq(Parts) /\ Len(ResultParts(p, calls)) = m
    BY <1>3, BatchTypes
  <2> QED BY <1>3, <2>1 DEF CallParts
<1>5. \A k \in 1..m : AnswersFor(p, ResultPart(p, calls[k]), CallParts(p, calls)[k])
  <2> TAKE k \in 1..m
  <2>1. CallParts(p, calls)[k] = CallPart(p, calls[k]) /\ calls[k] \in Calls
    BY <1>3 DEF CallParts
  <2> QED BY <2>1, ResultAnswers
<1>9. n \in Nat /\ m \in Nat
  BY <1>2, <1>3
<1>10. DOMAIN v = 1..(n + 1 + (IF p = "openai" THEN m ELSE 1))
  BY <1>2, <1>3
<1>6. v # <<>> /\ \A i \in DOMAIN v : v[i].parts # <<>>
  <2>1. v[n + 1].parts # <<>>
    BY <1>2, <1>4 DEF CallTurn, Turn
  <2>2. \A i \in 1..n : v[i].parts # <<>>
    BY <1>2 DEF Sendable
  <2>3. CASE p = "openai"
    <3>1. \A k \in 1..m : v[n + 1 + k].parts # <<>>
      <4>1. \A k \in 1..m : v[n + 1 + k] = Turn("tool", <<ResultPart(p, calls[k])>>)
        BY <1>2, <1>3, <2>3
      <4>2. \A part : Turn("tool", <<part>>).parts # <<>>
        BY DEF Turn
      <4> QED BY <4>1, <4>2
    <3>2. \A i \in 1..(n + 1 + m) : i \in 1..n \/ i = n + 1 \/ \E k \in 1..m : n + 1 + k = i
      BY <1>9, Beyond
    <3>3. DOMAIN v = 1..(n + 1 + m)
      BY <1>10, <2>3
    <3>4. ASSUME NEW i \in 1..(n + 1 + m) PROVE v[i].parts # <<>>
      BY <2>1, <2>2, <3>1, <3>2, <3>4, Zenon
    <3> QED BY <3>3, <3>4
  <2>4. CASE p # "openai"
    <3>1. v[n + 2].parts # <<>>
      BY <1>2, <1>4, <2>4 DEF Turn
    <3>2. \A i \in 1..(n + 1 + 1) : i \in 1..n \/ i = n + 1 \/ i = n + 2
      BY <1>9
    <3> QED BY <1>10, <2>1, <2>2, <2>4, <3>1, <3>2
  <2>5. v # <<>>
    <3>1. 1 \in DOMAIN v
      BY <1>9, <1>10
    <3> QED BY <3>1
  <2> QED BY <2>3, <2>4, <2>5
<1>7. p # "openai" => Len(v) % 2 = 1 /\ n % 2 = 1
  <2>1. p # "openai" => n % 2 = 1 /\ Len(v) = n + 1 + 1
    BY <1>2 DEF Sendable
  <2> QED BY <1>9, <2>1
<1>8. WellFormed(p, v)
  <2>1. Requested(v[n + 1]) = CallParts(p, calls)
    BY <1>2, RequestedOfBatch
  <2>2. \A i \in 1..n : v[i] = w[i] /\ i \in DOMAIN w
    BY <1>2
  <2>3. CASE p = "openai"
    <3>1. \A k \in 1..m : /\ v[n + 1 + k].role = "tool"
                          /\ v[n + 1 + k].parts[1] = ResultPart(p, calls[k])
                          /\ Requested(v[n + 1 + k]) = <<>>
                          /\ n + 1 + k \in DOMAIN v
      <4>1. \A k \in 1..m : v[n + 1 + k] = Turn("tool", <<ResultPart(p, calls[k])>>)
        BY <1>2, <1>3, <2>3
      <4>2. \A k \in 1..m : Requested(v[n + 1 + k]) = <<>>
        BY <1>3, <4>1, RequestedOfBatch
      <4>3. \A k \in 1..m : n + 1 + k \in DOMAIN v
        BY <1>9, <1>10, <2>3
      <4>4. \A k \in 1..m : /\ v[n + 1 + k].role = "tool"
                            /\ v[n + 1 + k].parts[1] = ResultPart(p, calls[k])
        <5>1. \A part : /\ Turn("tool", <<part>>).role = "tool"
                         /\ Turn("tool", <<part>>).parts[1] = part
          BY DEF Turn
        <5> QED BY <4>1, <5>1
      <4> QED BY <4>2, <4>3, <4>4
    <3>2. ASSUME NEW i \in DOMAIN v, NEW k \in DOMAIN Requested(v[i])
          PROVE  /\ i + k \in DOMAIN v /\ v[i + k].role = "tool"
                 /\ AnswersFor(p, v[i + k].parts[1], Requested(v[i])[k])
      <4>1. CASE i \in 1..n
        <5>1. /\ i + k \in DOMAIN w /\ w[i + k].role = "tool"
              /\ AnswersFor(p, w[i + k].parts[1], Requested(w[i])[k])
          BY <2>2, <2>3, <3>2, <4>1 DEF Sendable, WellFormed
        <5>2. i + k \in 1..n /\ i + k \in DOMAIN v
          BY <1>2, <1>3, <2>3, <5>1
        <5> QED BY <2>2, <4>1, <5>1, <5>2
      <4>2. CASE i = n + 1
        <5>1. k \in 1..m
          BY <1>4, <2>1, <3>2, <4>2
        <5> QED BY <1>5, <2>1, <3>1, <4>2, <5>1
      <4>3. CASE i \notin 1..(n + 1)
        <5>1. i \in 1..(n + 1 + m)
          BY <1>10, <2>3, <3>2
        <5>2. i \notin 1..n /\ i # n + 1
          BY <1>9, <4>3
        <5>3. PICK l \in 1..m : n + 1 + l = i
          BY <1>9, <5>1, <5>2, Beyond
        <5>4. Requested(v[i]) = <<>>
          BY <3>1, <5>3
        <5>5. DOMAIN <<>> = {}
          OBVIOUS
        <5> QED BY <3>2, <5>4, <5>5
      <4> QED BY <4>1, <4>2, <4>3
    <3> QED BY <2>3, <3>2 DEF WellFormed
  <2>4. CASE p # "openai"
    <3>1. /\ v[n + 2].role = "user" /\ v[n + 2].parts = ResultParts(p, calls)
          /\ Requested(v[n + 2]) = <<>> /\ n + 2 \in DOMAIN v
      <4>1. v[n + 2] = Turn("user", ResultParts(p, calls)) /\ n + 2 \in DOMAIN v
        BY <1>2, <2>4
      <4> QED BY <4>1, RequestedOfBatch DEF Turn
    <3>2. v[n + 1].role # "user" /\ (n + 1) % 2 = 0 /\ (n + 2) % 2 # 0
      <4>1. (n + 1) % 2 = 0 /\ (n + 2) % 2 # 0
        BY <1>7, <1>9, <2>4
      <4>2. v[n + 1].role \in {"model", "assistant"}
        BY <1>2 DEF CallTurn, Turn
      <4> QED BY <4>1, <4>2
    <3>3. ASSUME NEW i \in DOMAIN v
          PROVE  /\ v[i].role # "user" <=> i % 2 = 0
                 /\ Requested(v[i]) # <<>> =>
                      /\ i + 1 \in DOMAIN v
                      /\ Len(v[i + 1].parts) = Len(Requested(v[i]))
                      /\ \A k \in DOMAIN Requested(v[i]) :
                           AnswersFor(p, v[i + 1].parts[k], Requested(v[i])[k])
      <4>1. CASE i \in 1..n
        <5>1. /\ w[i].role # "user" <=> i % 2 = 0
              /\ Requested(w[i]) # <<>> =>
                   /\ i + 1 \in DOMAIN w
                   /\ Len(w[i + 1].parts) = Len(Requested(w[i]))
                   /\ \A k \in DOMAIN Requested(w[i]) :
                        AnswersFor(p, w[i + 1].parts[k], Requested(w[i])[k])
          BY <2>2, <2>4, <4>1 DEF Sendable, WellFormed
        <5>2. i + 1 \in DOMAIN w => i + 1 \in DOMAIN v /\ v[i + 1] = w[i + 1]
          BY <1>2, <2>4
        <5> QED BY <2>2, <4>1, <5>1, <5>2
      <4>2. CASE i = n + 1
        <5>1. n + 1 + 1 = n + 2
          OBVIOUS
        <5>2. \A k \in 1..m : ResultParts(p, calls)[k] = ResultPart(p, calls[k])
          BY <1>3 DEF ResultParts
        <5> QED BY <1>4, <1>5, <2>1, <3>1, <3>2, <4>2, <5>1, <5>2
      <4>3. CASE i = n + 2
        BY <3>1, <3>2, <4>3
      <4>4. i \in 1..n \/ i = n + 1 \/ i = n + 2
        <5>1. i \in 1..(n + 1 + 1)
          BY <1>10, <2>4, <3>3
        <5> QED BY <1>9, <5>1
      <4> QED BY <4>1, <4>2, <4>3, <4>4
    <3> QED BY <2>4, <3>3 DEF WellFormed
  <2> QED BY <2>3, <2>4
<1> QED BY <1>2, <1>6, <1>7, <1>8 DEF Sendable

\* h is s with one more, x, and k empty ones behind it.
Longer(h, s, x, k) ==
  /\ Len(h) = Len(s) + 1 + k
  /\ \A i \in 1..Len(s) : h[i] = s[i]
  /\ h[Len(s) + 1] = x
  /\ \A i \in 1..k : h[Len(s) + 1 + i] = <<>>

\* Of all that is behind s, only x counts.
LEMMA FlattenOne ==
  ASSUME NEW X, NEW s \in Seq(Seq(X)), NEW x \in Seq(X), NEW h \in Seq(Seq(X)), NEW k \in Nat,
         Longer(h, s, x, k)
  PROVE  FlattenSeq(h) = FlattenSeq(s) \o x
<1>0. /\ Len(h) = Len(s) + 1 + k
      /\ \A i \in 1..Len(s) : h[i] = s[i]
      /\ h[Len(s) + 1] = x
      /\ \A i \in 1..k : h[Len(s) + 1 + i] = <<>>
  BY DEF Longer
<1>1. PICK Y : Y = Seq(X)
  OBVIOUS
<1>2. PICK n \in Nat : n = Len(s)
  <2>1. s \in Seq(Y)
    BY <1>1
  <2> QED BY <2>1
<1>3. PICK a \in Seq(Y) : a = s \o <<x>> /\ Len(a) = n + 1 /\ a[n + 1] = x
                          /\ \A i \in 1..n : a[i] = s[i]
  <2>1. s \in Seq(Y) /\ x \in Y
    BY <1>1
  <2>2. Append(s, x) = s \o <<x>>
    BY <2>1, AppendIs
  <2>3. /\ Append(s, x) \in Seq(Y)
        /\ Len(Append(s, x)) = Len(s) + 1 /\ Append(s, x)[Len(s) + 1] = x
        /\ \A i \in 1..Len(s) : Append(s, x)[i] = s[i]
    BY <2>1, Appended
  <2> QED BY <1>2, <2>2, <2>3
<1>4. PICK e : e = [i \in 1..k |-> <<>>]
  OBVIOUS
<1>5. e \in Seq({<<>>}) /\ e \in Seq(Y) /\ Len(e) = k /\ \A i \in 1..k : e[i] = <<>>
  <2>1. <<>> \in Y
    BY <1>1
  <2> QED BY <1>4, <2>1
<1>6. h = a \o e
  <2>1. h \in Seq(Y) /\ Len(h) = n + 1 + k
    BY <1>0, <1>1, <1>2
  <2>2. ASSUME NEW i \in 1..(n + 1 + k)
        PROVE  h[i] = IF i \in 1..(n + 1) THEN a[i] ELSE e[i - (n + 1)]
    <3>1. CASE i \in 1..n
      <4>1. i \in 1..(n + 1)
        BY <3>1
      <4> QED BY <1>0, <1>2, <1>3, <3>1, <4>1
    <3>2. CASE i = n + 1
      <4>1. i \in 1..(n + 1)
        BY <3>2
      <4> QED BY <1>0, <1>2, <1>3, <3>2, <4>1
    <3>3. CASE i \notin 1..n /\ i # n + 1
      <4>1. PICK l \in 1..k : n + 1 + l = i
        BY <2>2, <3>3, Beyond
      <4>2. i - (n + 1) = l /\ i \notin 1..(n + 1)
        BY <4>1
      <4> QED BY <1>0, <1>2, <1>5, <4>1, <4>2
    <3> QED BY <3>1, <3>2, <3>3
  <2>3. Len(a) = n + 1 /\ Len(e) = k
    BY <1>3, <1>5
  <2>4. /\ a \in Seq(Y) /\ e \in Seq(Y) /\ Len(h) = Len(a) + Len(e)
        /\ \A i \in 1..(Len(a) + Len(e)) :
             h[i] = IF i \in 1..Len(a) THEN a[i] ELSE e[i - Len(a)]
    BY <1>3, <1>5, <2>1, <2>2, <2>3
  <2> QED BY <2>1, <2>4, IsConcat
<1>7. FlattenSeq((s \o <<x>>) \o e) = FlattenSeq(s) \o x
  BY <1>5, FlattenGrows
<1> QED BY <1>3, <1>6, <1>7

\* What a conversation shows is parts.
LEMMA ShownTypes ==
  ASSUME NEW w \in Seq(Turns)
  PROVE  /\ Map(Requested, w) \in Seq(Seq(Parts)) /\ Len(Map(Requested, w)) = Len(w)
         /\ \A i \in 1..Len(w) : Map(Requested, w)[i] = Requested(w[i])
         /\ Shown(w) \in Seq(Parts)
<1>1. \A t \in Turns : Requested(t) \in Seq(Parts)
  <2> TAKE t \in Turns
  <2>1. t.parts \in Seq(Parts)
    BY DEF Turns
  <2>2. CallsOf(t.parts) \in Seq({x \in Parts : IsCall(x)})
    BY <2>1, CallsAreCalls
  <2>3. Seq({x \in Parts : IsCall(x)}) \subseteq Seq(Parts)
    OBVIOUS
  <2> QED BY <2>2, <2>3 DEF Requested
<1>2. PICK n \in Nat : n = Len(w) /\ DOMAIN w = 1..n
  OBVIOUS
<1>3. Map(Requested, w) = [i \in 1..n |-> Requested(w[i])]
  BY <1>2 DEF Map
<1>4. PICK Y : Y = Seq(Parts)
  OBVIOUS
<1>5. \A i \in 1..n : Requested(w[i]) \in Y
  <2>1. \A i \in 1..n : w[i] \in Turns
    BY <1>2
  <2> QED BY <1>1, <1>4, <2>1
<1>6. PICK f : f = [i \in 1..n |-> Requested(w[i])]
  OBVIOUS
<1>7. f \in Seq(Y) /\ Len(f) = n /\ \A i \in 1..n : f[i] = Requested(w[i])
  BY <1>5, <1>6
<1>8. FlattenSeq(f) \in Seq(Parts)
  BY <1>4, <1>7, FlattenEquations
<1> QED BY <1>2, <1>3, <1>4, <1>6, <1>7, <1>8 DEF Shown

\* Without calls there is nothing to show.
LEMMA ShownNothing ==
  \A v \in Seq(Turns) : (\A i \in DOMAIN v : Requested(v[i]) = <<>>) => Shown(v) = <<>>
<1> SUFFICES ASSUME NEW v \in Seq(Turns), \A i \in DOMAIN v : Requested(v[i]) = <<>>
             PROVE  Shown(v) = <<>>
  OBVIOUS
<1>1. PICK f : f = Map(Requested, v)
  OBVIOUS
<1>2. PICK n \in Nat : n = Len(v) /\ DOMAIN v = 1..n
  OBVIOUS
<1>3. f = [i \in 1..n |-> <<>>]
  BY <1>1, <1>2 DEF Map
<1>4. f \in Seq({<<>>})
  BY <1>3
<1>5. <<>> \in Seq(Seq(Parts)) /\ <<>> \o f = f
  BY <1>4
<1>6. FlattenSeq(<<>> \o f) = FlattenSeq(<<>>) /\ FlattenSeq(<<>>) = <<>>
  BY <1>4, <1>5, FlattenBlank, FlattenEquations
<1> QED BY <1>1, <1>5, <1>6 DEF Shown

\* What a batch adds to what a conversation shows.
LEMMA ShownGrows ==
  ASSUME NEW p \in Provider, NEW w \in Seq(Turns), NEW calls \in Seq(Calls), calls # <<>>
  PROVE  /\ Shown(w) \in Seq(Parts)
         /\ Shown(w \o NewTurns(p, calls)) = Shown(w) \o CallParts(p, calls)
<1>1. PICK v \in Seq(Turns), n \in Nat :
           /\ v = w \o NewTurns(p, calls) /\ n = Len(w)
           /\ DOMAIN w = 1..n
           /\ Len(v) = n + 1 + (IF p = "openai" THEN Len(calls) ELSE 1)
           /\ DOMAIN v = 1..Len(v)
           /\ \A i \in 1..n : v[i] = w[i]
           /\ v[n + 1] = CallTurn(p, calls)
           /\ p = "openai" => \A k \in DOMAIN calls :
                                v[n + 1 + k] = Turn("tool", <<ResultPart(p, calls[k])>>)
           /\ p # "openai" => v[n + 2] = Turn("user", ResultParts(p, calls))
  BY TurnsBehind
<1>2. PICK m \in Nat : m = IF p = "openai" THEN Len(calls) ELSE 1
  OBVIOUS
<1>3. PICK s, h : s = Map(Requested, w) /\ h = Map(Requested, v)
  OBVIOUS
<1>4. /\ s \in Seq(Seq(Parts)) /\ Len(s) = n
      /\ \A i \in 1..n : s[i] = Requested(w[i])
  BY <1>1, <1>3, ShownTypes
<1>5. /\ h \in Seq(Seq(Parts)) /\ Len(h) = n + 1 + m
      /\ \A i \in 1..(n + 1 + m) : h[i] = Requested(v[i])
  BY <1>1, <1>2, <1>3, ShownTypes
<1>n. n \in Nat /\ m \in Nat
  BY <1>1, <1>2
<1>6. \A i \in 1..n : h[i] = s[i]
  <2>1. \A i \in 1..n : i \in 1..(n + 1 + m)
    BY <1>n
  <2> QED BY <1>1, <1>4, <1>5, <2>1
<1>7. h[n + 1] = CallParts(p, calls)
  <2>1. n + 1 \in 1..(n + 1 + m)
    BY <1>n
  <2> QED BY <1>1, <1>5, <2>1, RequestedOfBatch
<1>8. \A i \in 1..m : h[n + 1 + i] = <<>>
  <2>1. \A i \in 1..m : n + 1 + i \in 1..(n + 1 + m)
    BY <1>n
  <2>2. CASE p = "openai"
    <3>1. DOMAIN calls = 1..m
      BY <1>2, <2>2
    <3>2. ASSUME NEW i \in 1..m PROVE h[n + 1 + i] = <<>>
      <4>1. v[n + 1 + i] = Turn("tool", <<ResultPart(p, calls[i])>>) /\ i \in DOMAIN calls
        BY <1>1, <2>2, <3>1
      <4>2. h[n + 1 + i] = Requested(v[n + 1 + i])
        BY <1>5, <2>1
      <4> QED BY <4>1, <4>2, RequestedOfBatch
    <3> QED BY <3>2
  <2>3. CASE p # "openai"
    <3>1. m = 1 /\ n + 1 + 1 = n + 2
      BY <1>2, <2>3
    <3>2. h[n + 2] = <<>>
      BY <1>1, <1>5, <2>1, <2>3, <3>1, RequestedOfBatch
    <3> QED BY <3>1, <3>2
  <2> QED BY <2>2, <2>3
<1>9. CallParts(p, calls) \in Seq(Parts)
  BY BatchTypes
<1>10. FlattenSeq(h) = FlattenSeq(s) \o CallParts(p, calls)
  <2>1. PICK x \in Seq(Parts) : x = CallParts(p, calls)
    BY <1>9
  <2>2. /\ s \in Seq(Seq(Parts)) /\ h \in Seq(Seq(Parts)) /\ Len(h) = Len(s) + 1 + m
        /\ \A i \in 1..Len(s) : h[i] = s[i]
        /\ h[Len(s) + 1] = x
        /\ \A i \in 1..m : h[Len(s) + 1 + i] = <<>>
    BY <1>4, <1>5, <1>6, <1>7, <1>8, <2>1
  <2>3. FlattenSeq(h) = FlattenSeq(s) \o x
    <3>1. Longer(h, s, x, m)
      BY <2>2 DEF Longer
    <3>2. /\ s \in Seq(Seq(Parts)) /\ h \in Seq(Seq(Parts)) /\ x \in Seq(Parts)
          /\ m \in Nat /\ Longer(h, s, x, m)
      BY <1>n, <2>1, <2>2, <3>1
    <3> QED BY <3>2, FlattenOne
  <2> QED BY <2>1, <2>3
<1> QED BY <1>1, <1>3, <1>10, ShownTypes DEF Shown

\* What a batch adds to what the agent keeps.
LEMMA KeptGrows ==
  ASSUME NEW msgs \in Seq(Msgs), NEW calls \in Seq(Calls)
  PROVE  /\ Kept(msgs) \in Seq(Calls)
         /\ Kept(msgs \o <<Message("assistant", calls, NoID, "")>> \o ToolMessages(calls))
              = Kept(msgs) \o calls
<1>1. \A m \in Msgs : m.calls \in Seq(Calls)
  BY DEF Msgs
<1>2. PICK Y : Y = Seq(Calls)
  OBVIOUS
<1> DEFINE Of(q) == [i \in DOMAIN q |-> q[i].calls]
<1>3. \A q : Kept(q) = FlattenSeq(Of(q))
  BY DEF Kept, Map
<1>4. ASSUME NEW q \in Seq(Msgs)
      PROVE  /\ Of(q) \in Seq(Y) /\ Len(Of(q)) = Len(q)
             /\ \A i \in 1..Len(q) : Of(q)[i] = q[i].calls
  <2>1. PICK n \in Nat : n = Len(q) /\ DOMAIN q = 1..n
    BY <1>4
  <2>2. \A i \in 1..n : q[i].calls \in Y
    <3>1. \A i \in 1..n : q[i] \in Msgs
      BY <1>4, <2>1
    <3> QED BY <1>1, <1>2, <3>1
  <2> QED BY <2>1, <2>2
<1> HIDE DEF Of
<1>5. PICK a \in Msgs : a = Message("assistant", calls, NoID, "") /\ a.calls = calls
  BY BatchTypes DEF Provider, Message
<1>6. PICK ts \in Seq(Msgs) : ts = ToolMessages(calls)
  BY BatchTypes DEF Provider
<1>7. PICK k \in Nat : k = Len(ts) /\ DOMAIN ts = 1..k
  BY <1>6
<1>8. \A i \in 1..k : ts[i].calls = <<>>
  <2>1. DOMAIN calls = 1..k
    BY <1>6, <1>7 DEF ToolMessages
  <2> QED BY <1>6, <2>1 DEF ToolMessages, Message
<1>9. PICK n \in Nat : n = Len(msgs)
  OBVIOUS
<1>10. PICK b \in Seq(Msgs) : /\ b = Append(msgs, a) /\ Len(b) = n + 1 /\ b[n + 1] = a
                              /\ \A i \in 1..n : b[i] = msgs[i]
  <2>1. msgs \in Seq(Msgs) /\ a \in Msgs
    BY <1>5
  <2>2. /\ Append(msgs, a) \in Seq(Msgs)
        /\ Len(Append(msgs, a)) = Len(msgs) + 1 /\ Append(msgs, a)[Len(msgs) + 1] = a
        /\ \A i \in 1..Len(msgs) : Append(msgs, a)[i] = msgs[i]
    BY <2>1, Appended
  <2> QED BY <1>9, <2>2
<1>11. PICK g \in Seq(Msgs) : /\ g = b \o ts /\ Len(g) = n + 1 + k
                              /\ \A i \in 1..(n + 1) : g[i] = b[i]
                              /\ \A i \in 1..k : g[n + 1 + i] = ts[i]
  <2>1. b \in Seq(Msgs) /\ ts \in Seq(Msgs) /\ Len(b) = n + 1 /\ Len(ts) = k
    BY <1>6, <1>7, <1>10
  <2>2. /\ b \o ts \in Seq(Msgs) /\ Len(b \o ts) = Len(b) + Len(ts)
        /\ \A i \in 1..Len(b) : (b \o ts)[i] = b[i]
        /\ \A i \in 1..Len(ts) : (b \o ts)[Len(b) + i] = ts[i]
    <3>1. PICK c : c = b \o ts
      OBVIOUS
    <3>2. c \in Seq(Msgs) /\ Len(c) = Len(b) + Len(ts)
      BY <2>1, <3>1, Concat
    <3>3. \A i \in 1..Len(b) : c[i] = b[i]
      BY <2>1, <3>1, Concat
    <3>4. \A i \in 1..Len(ts) : c[Len(b) + i] = ts[i]
      BY <2>1, <3>1, Concat
    <3> QED BY <3>1, <3>2, <3>3, <3>4
  <2> QED BY <2>1, <2>2
<1>12. g = msgs \o <<a>> \o ts
  <2>1. msgs \in Seq(Msgs) /\ a \in Msgs /\ ts \in Seq(Msgs)
    BY <1>5, <1>6
  <2> QED BY <1>10, <1>11, <2>1, Between, SMT
<1>13. FlattenSeq(Of(g)) = FlattenSeq(Of(msgs)) \o calls
  <2>1. PICK s, h : s = Of(msgs) /\ h = Of(g)
    OBVIOUS
  <2>2. s \in Seq(Seq(Calls)) /\ Len(s) = n /\ \A i \in 1..n : s[i] = msgs[i].calls
    BY <1>2, <1>4, <1>9, <2>1
  <2>3. h \in Seq(Seq(Calls)) /\ Len(h) = n + 1 + k /\ \A i \in 1..(n + 1 + k) : h[i] = g[i].calls
    BY <1>2, <1>4, <1>11, <2>1
  <2>4. \A i \in 1..n : i \in 1..(n + 1) /\ i \in 1..(n + 1 + k)
    BY <1>7, <1>9
  <2>5. \A i \in 1..k : n + 1 + i \in 1..(n + 1 + k)
    BY <1>7, <1>9
  <2>6. n + 1 \in 1..(n + 1) /\ n + 1 \in 1..(n + 1 + k)
    BY <1>7, <1>9
  <2>7. \A i \in 1..n : h[i] = s[i]
    <3>1. \A i \in 1..n : g[i] = msgs[i]
      BY <1>10, <1>11, <2>4
    <3> QED BY <2>2, <2>3, <2>4, <3>1
  <2>8. h[n + 1] = calls
    BY <1>5, <1>10, <1>11, <2>3, <2>6
  <2>9. \A i \in 1..k : h[n + 1 + i] = <<>>
    BY <1>8, <1>11, <2>3, <2>5
  <2>10. /\ s \in Seq(Seq(Calls)) /\ h \in Seq(Seq(Calls)) /\ Len(h) = Len(s) + 1 + k
         /\ \A i \in 1..Len(s) : h[i] = s[i]
         /\ h[Len(s) + 1] = calls
         /\ \A i \in 1..k : h[Len(s) + 1 + i] = <<>>
    BY <2>2, <2>3, <2>7, <2>8, <2>9
  <2>11. FlattenSeq(h) = FlattenSeq(s) \o calls
    <3>1. Longer(h, s, calls, k)
      BY <2>10 DEF Longer
    <3> QED BY <1>7, <2>10, <3>1, FlattenOne
  <2> QED BY <2>1, <2>11
<1>14. FlattenSeq(Of(msgs)) \in Seq(Calls)
  BY <1>2, <1>4, FlattenEquations
<1> QED BY <1>3, <1>5, <1>6, <1>12, <1>13, <1>14

-----------------------------------------------------------------------------
(* Replies.                                                                    *)

\* A text is no call.
LEMMA TextIsNoCall == ~IsCall(TextPart)
BY DEF IsCall, TextPart, Part

\* Calls as a service sends them.
LEMMA CallTypes ==
  ASSUME NEW p \in Provider, NEW f \in Name, NEW a \in Args, NEW n \in Nat
  PROVE  /\ <<"call", n>> \in IDs /\ NoID \in IDs
         /\ p = "gemini" => Part("call", NoID, f, a) \in SentCalls(p)
         /\ p # "gemini" => Part("call", <<"call", n>>, f, a) \in SentCalls(p)
<1>1. <<"call", n>> \in IDs /\ NoID \in IDs
  <2>1. "call" \in {"", "call"} \cup Name /\ "" \in {"", "call"} \cup Name
    OBVIOUS
  <2> QED BY <2>1 DEF IDs, NoID
<1>2. ASSUME NEW id \in IDs, p = "gemini" => id = NoID
      PROVE  Part("call", id, f, a) \in SentCalls(p)
  <2>1. Part("call", id, f, a) \in Parts
    <3>1. f \in Names
      BY DEF Names
    <3> QED BY <3>1 DEF Part, Parts
  <2>2. /\ Part("call", id, f, a).kind = "call" /\ Part("call", id, f, a).id = id
        /\ Part("call", id, f, a).name = f /\ Part("call", id, f, a).args = a
    BY DEF Part
  <2> QED BY <1>2, <2>1, <2>2 DEF SentCalls
<1> QED BY <1>1, <1>2

\* What a service sends.
LEMMA ReplyTypes ==
  ASSUME NEW p \in Provider, NEW n \in Nat, NEW r \in ApiReply(p, n)
  PROVE  /\ r.stop \in {"tools", "end", "cut"}
         /\ r.blocks \in Seq(SentCalls(p) \cup {TextPart})
         /\ r.stop = "tools" => (\E i \in DOMAIN r.blocks : IsCall(r.blocks[i])) /\ p # "gemini"
         /\ r.stop = "end" => ~(\E i \in DOMAIN r.blocks : IsCall(r.blocks[i])) \/ p = "gemini"
<1>1. /\ r.stop \in {"tools", "end", "cut"} /\ r.blocks \in Blocks(p, n)
      /\ r.stop = "tools" => (\E i \in DOMAIN r.blocks : IsCall(r.blocks[i])) /\ p # "gemini"
      /\ r.stop = "end" => ~(\E i \in DOMAIN r.blocks : IsCall(r.blocks[i])) \/ p = "gemini"
  BY DEF ApiReply
<1>2. PICK s \in BoundedSeq(CallBlocks(p, n) \cup {TextPart}, MaxBlocks) :
             r.blocks = Numbered(p, n, s)
  BY <1>1 DEF Blocks
<1>3. PICK m \in Nat : s \in [1..m -> CallBlocks(p, n) \cup {TextPart}]
  <2>1. s \in UNION {[1..m -> CallBlocks(p, n) \cup {TextPart}] : m \in 0..MaxBlocks}
    BY <1>2 DEF BoundedSeq, SeqOf
  <2>2. PICK m \in 0..MaxBlocks : s \in [1..m -> CallBlocks(p, n) \cup {TextPart}]
    BY <2>1
  <2> QED BY <2>2, BlocksAssumption
<1>4. ASSUME NEW i \in 1..m PROVE Numbered(p, n, s)[i] \in SentCalls(p) \cup {TextPart}
  <2>1. s[i] \in CallBlocks(p, n) \cup {TextPart} /\ DOMAIN s = 1..m /\ n + i \in Nat
    BY <1>3, <1>4
  <2>2. Numbered(p, n, s)[i] = IF IsCall(s[i]) /\ p # "gemini"
                               THEN [s[i] EXCEPT !.id = <<"call", n + i>>] ELSE s[i]
    BY <2>1 DEF Numbered
  <2>3. CASE s[i] = TextPart
    BY <2>2, <2>3, TextIsNoCall
  <2>4. CASE s[i] \in CallBlocks(p, n)
    <3>1. PICK f \in Name, a \in Args :
            s[i] = Part("call", IF p = "gemini" THEN NoID ELSE <<"call", n>>, f, a)
      BY <2>4 DEF CallBlocks
    <3>2. IsCall(s[i])
      BY <3>1 DEF IsCall, Part
    <3>3. CASE p = "gemini"
      BY <2>2, <3>1, <3>3, CallTypes
    <3>4. CASE p # "gemini"
      <4>1. [s[i] EXCEPT !.id = <<"call", n + i>>] = Part("call", <<"call", n + i>>, f, a)
        BY <3>1 DEF Part
      <4> QED BY <2>1, <2>2, <3>1, <3>2, <3>4, <4>1, CallTypes
    <3> QED BY <3>3, <3>4
  <2> QED BY <2>1, <2>3, <2>4
<1>5. Numbered(p, n, s) \in Seq(SentCalls(p) \cup {TextPart})
  <2>1. DOMAIN s = 1..m
    BY <1>3
  <2>2. PICK f : f = Numbered(p, n, s)
    OBVIOUS
  <2>3. f = [i \in 1..m |-> f[i]]
    BY <2>1, <2>2 DEF Numbered
  <2> QED BY <1>4, <2>2, <2>3
<1> QED BY <1>1, <1>2, <1>5

\* What the back end makes of it: the calls that came, one by one, unless the
\* reply is taken for final; then there were none, or the reply was cut short.
LEMMA Heard ==
  ASSUME NEW p \in Provider, NEW n \in Nat, NEW r \in ApiReply(p, n)
  PROVE  /\ r.stop \in {"tools", "end", "cut"}
         /\ CallsOf(r.blocks) \in Seq(SentCalls(p))
         /\ Response(p, r).terminal /\ r.stop # "cut" => CallsOf(r.blocks) = <<>>
         /\ ~Response(p, r).terminal =>
              /\ CallsOf(r.blocks) # <<>>
              /\ Response(p, r).calls \in Seq(Calls)
              /\ Len(Response(p, r).calls) = Len(CallsOf(r.blocks))
              /\ \A k \in DOMAIN CallsOf(r.blocks) :
                   Echoes(CallPart(p, Response(p, r).calls[k]), CallsOf(r.blocks)[k])
<1>1. /\ r.stop \in {"tools", "end", "cut"}
      /\ r.blocks \in Seq(SentCalls(p) \cup {TextPart})
      /\ r.stop = "tools" => (\E i \in DOMAIN r.blocks : IsCall(r.blocks[i])) /\ p # "gemini"
      /\ r.stop = "end" => ~(\E i \in DOMAIN r.blocks : IsCall(r.blocks[i])) \/ p = "gemini"
  BY ReplyTypes
<1>2. PICK sent : sent = CallsOf(r.blocks)
  OBVIOUS
<1>3. sent \in Seq(SentCalls(p))
  <2>1. sent \in Seq({x \in SentCalls(p) \cup {TextPart} : IsCall(x)})
    BY <1>1, <1>2, CallsAreCalls
  <2>2. {x \in SentCalls(p) \cup {TextPart} : IsCall(x)} \subseteq SentCalls(p)
    BY TextIsNoCall
  <2> QED BY <2>1, <2>2
<1>4. (\E i \in DOMAIN r.blocks : IsCall(r.blocks[i])) <=> sent # <<>>
  BY <1>1, <1>2, CallsAreCalls
<1>5. PICK m \in Nat : m = Len(sent) /\ DOMAIN sent = 1..m /\ \A k \in 1..m : sent[k] \in SentCalls(p)
  BY <1>3
<1>6. \A b \in SentCalls(p) : /\ b.id \in IDs /\ b.name \in Name /\ b.args \in Args
                              /\ p = "gemini" => b.id = NoID
  BY DEF SentCalls, Parts
<1> DEFINE Heeds(calls) ==
             /\ calls \in Seq(Calls) /\ Len(calls) = m
             /\ \A k \in 1..m : Echoes(CallPart(p, calls[k]), sent[k])
<1>7. CASE p = "openai"
  <2>1. PICK calls : calls = [k \in 1..m |->
                                ToolCall(sent[k].id, sent[k].name, Parsed(sent[k].args))]
    OBVIOUS
  <2>2. ASSUME NEW k \in 1..m
        PROVE  calls[k] \in Calls /\ Echoes(CallPart(p, calls[k]), sent[k])
    <3>1. calls[k] = ToolCall(sent[k].id, sent[k].name, Parsed(sent[k].args))
      BY <2>1, <2>2
    <3>2. sent[k].id \in IDs /\ sent[k].name \in Name /\ sent[k].args \in Args
      BY <1>5, <1>6, <2>2
    <3>3. Parsed(sent[k].args) \in Args \cup {"nil"}
      BY <3>2 DEF Parsed
    <3>4. calls[k] \in Calls
      BY <3>1, <3>2, <3>3 DEF ToolCall, Calls
    <3>5. CallPart(p, calls[k]) = Part("call", sent[k].id, sent[k].name, Parsed(sent[k].args))
      BY <1>7, <3>1 DEF CallPart, ToolCall
    <3> QED BY <3>4, <3>5 DEF Echoes, Part, Parsed
  <2>3. Heeds(calls)
    <3>1. calls \in Seq(Calls) /\ Len(calls) = m
      BY <2>1, <2>2
    <3> QED BY <2>2, <3>1
  <2>4. Response(p, r).terminal <=> r.stop # "tools"
    BY <1>7 DEF Response, fromOAIResponse
  <2>5. r.stop = "tools" => Response(p, r).calls = calls
    BY <1>2, <1>5, <1>7, <2>1 DEF Response, fromOAIResponse, Map
  <2> HIDE DEF Heeds
  <2>6. ~Response(p, r).terminal => sent # <<>> /\ Heeds(Response(p, r).calls)
    BY <1>1, <1>4, <2>3, <2>4, <2>5
  <2>7. Response(p, r).terminal /\ r.stop # "cut" => sent = <<>>
    BY <1>1, <1>4, <1>7, <2>4
  <2> QED BY <1>1, <1>2, <1>3, <1>5, <2>6, <2>7 DEF Heeds
<1>8. CASE p = "anthropic"
  <2>1. PICK calls : calls = [k \in 1..m |-> ToolCall(sent[k].id, sent[k].name, sent[k].args)]
    OBVIOUS
  <2>2. ASSUME NEW k \in 1..m
        PROVE  calls[k] \in Calls /\ Echoes(CallPart(p, calls[k]), sent[k])
    <3>1. calls[k] = ToolCall(sent[k].id, sent[k].name, sent[k].args)
      BY <2>1, <2>2
    <3>2. sent[k].id \in IDs /\ sent[k].name \in Name /\ sent[k].args \in Args
      BY <1>5, <1>6, <2>2
    <3>3. calls[k] \in Calls
      BY <3>1, <3>2 DEF ToolCall, Calls
    <3>4. CallPart(p, calls[k]) = Part("call", sent[k].id, sent[k].name,
                                       IF sent[k].args \in {"nil", "empty"} THEN "omitted"
                                                                            ELSE sent[k].args)
      BY <1>8, <3>1 DEF CallPart, ToolCall
    <3> QED BY <3>2, <3>3, <3>4 DEF Echoes, Part, Args
  <2>3. Heeds(calls)
    <3>1. calls \in Seq(Calls) /\ Len(calls) = m
      BY <2>1, <2>2
    <3> QED BY <2>2, <3>1
  <2>4. Response(p, r).terminal <=> r.stop # "tools"
    BY <1>8 DEF Response, fromAntResponse
  <2>5. r.stop = "tools" => Response(p, r).calls = calls
    BY <1>2, <1>5, <1>8, <2>1 DEF Response, fromAntResponse, Map
  <2> HIDE DEF Heeds
  <2>6. ~Response(p, r).terminal => sent # <<>> /\ Heeds(Response(p, r).calls)
    BY <1>1, <1>4, <2>3, <2>4, <2>5
  <2>7. Response(p, r).terminal /\ r.stop # "cut" => sent = <<>>
    BY <1>1, <1>4, <1>8, <2>4
  <2> QED BY <1>1, <1>2, <1>3, <1>5, <2>6, <2>7 DEF Heeds
<1>9. CASE p = "gemini"
  <2>1. PICK calls : calls = [k \in 1..m |->
                                ToolCall(<<sent[k].name, 0>>, sent[k].name, sent[k].args)]
    OBVIOUS
  <2>2. ASSUME NEW k \in 1..m
        PROVE  calls[k] \in Calls /\ Echoes(CallPart(p, calls[k]), sent[k])
    <3>1. calls[k] = ToolCall(<<sent[k].name, 0>>, sent[k].name, sent[k].args)
      BY <2>1, <2>2
    <3>2. /\ sent[k].id = NoID /\ sent[k].name \in Name /\ sent[k].args \in Args
          /\ <<sent[k].name, 0>> \in IDs
      <4>1. sent[k].id = NoID /\ sent[k].name \in Name /\ sent[k].args \in Args
        BY <1>5, <1>6, <1>9, <2>2
      <4> QED BY <4>1 DEF IDs
    <3>3. calls[k] \in Calls
      BY <3>1, <3>2 DEF ToolCall, Calls
    <3>4. CallPart(p, calls[k]) = Part("call", NoID, sent[k].name, sent[k].args)
      BY <1>9, <3>1 DEF CallPart, ToolCall
    <3> QED BY <3>2, <3>3, <3>4 DEF Echoes, Part
  <2>3. Heeds(calls)
    <3>1. calls \in Seq(Calls) /\ Len(calls) = m
      BY <2>1, <2>2
    <3> QED BY <2>2, <3>1
  <2>4. Response(p, r).terminal <=> sent = <<>>
    BY <1>2, <1>9 DEF Response, fromGeminiResponse, GeminiFinal
  <2>5. Response(p, r).calls = calls
    BY <1>2, <1>5, <1>9, <2>1 DEF Response, fromGeminiResponse, Map
  <2> HIDE DEF Heeds
  <2>6. ~Response(p, r).terminal => sent # <<>> /\ Heeds(Response(p, r).calls)
    BY <2>3, <2>4, <2>5
  <2> QED BY <1>1, <1>2, <1>3, <1>5, <2>4, <2>6 DEF Heeds
<1> QED BY <1>7, <1>8, <1>9 DEF Provider

-----------------------------------------------------------------------------
(* The steps.                                                                  *)

\* An agent that has said nothing yet.
LEMMA InitInv == Init => IInv
<1> SUFFICES ASSUME Init PROVE IInv
  OBVIOUS
<1>1. PICK u \in Msgs : u = Message("user", <<>>, NoID, "") /\ u.role = "user" /\ u.calls = <<>>
  <2>1. NoID \in IDs /\ "" \in Names /\ <<>> \in Seq(Calls)
    <3>1. "" \in {"", "call"} \cup Name
      OBVIOUS
    <3>2. <<"", 0>> \in ({"", "call"} \cup Name) \X Nat
      BY <3>1
    <3>3. <<>> \in Seq(Calls)
      OBVIOUS
    <3> QED BY <3>2, <3>3 DEF IDs, NoID, Names
  <2>2. Message("user", <<>>, NoID, "") \in Msgs
    BY <2>1 DEF Message, Msgs
  <2>3. Message("user", <<>>, NoID, "").role = "user" /\ Message("user", <<>>, NoID, "").calls = <<>>
    BY DEF Message
  <2> QED BY <2>2, <2>3
<1>2. /\ provider \in Provider /\ messages = <<u>> /\ request = <<>> /\ reply = "none"
      /\ stop = "none" /\ asked = <<>> /\ turns = 0
  BY <1>1 DEF Init
<1>3. <<u>> \in Seq(Msgs) /\ <<u>> = Append(<<>>, u) /\ <<>> \in Seq(Msgs)
  <2>1. \A x : <<x>> = Append(<<>>, x)
    OBVIOUS
  <2>2. <<u>> \in Seq(Msgs)
    BY <1>1, One
  <2>3. <<>> \in Seq(Msgs)
    OBVIOUS
  <2> QED BY <2>1, <2>2, <2>3
<1>4. TextPart \in Parts /\ <<TextPart>> \in Seq(Parts)
  <2>1. TextPart \in Parts
    BY DEF TextPart, Part, Parts, NoID, IDs, Names
  <2> QED BY <2>1, One
<1>5. /\ Turn("user", <<TextPart>>) \in Turns /\ Turn("system", <<TextPart>>) \in Turns
      /\ \A t \in {"user", "system"} : /\ Turn(t, <<TextPart>>).role = t
                                       /\ Turn(t, <<TextPart>>).parts = <<TextPart>>
  BY <1>4 DEF Turn, Turns
<1>6. CallsOf(<<TextPart>>) = <<>>
  <2>1. ~ \E i \in DOMAIN <<TextPart>> : IsCall(<<TextPart>>[i])
    BY TextIsNoCall
  <2> QED BY <1>4, <2>1, CallsAreCalls
<1>7. PICK w : w = Wire(provider, messages)
  OBVIOUS
<1>8. /\ provider = "openai" =>
           w = <<Turn("system", <<TextPart>>)>> \o <<Turn("user", <<TextPart>>)>>
      /\ provider # "openai" => w = <<Turn("user", <<TextPart>>)>>
  <2>1. CASE provider = "openai"
    <3>1. OAIMessage(u) = Turn("user", <<TextPart>>)
      BY <1>1 DEF OAIMessage
    <3>2. Map(OAIMessage, <<u>>) = <<Turn("user", <<TextPart>>)>>
      BY <3>1 DEF Map
    <3>3. w = <<Turn("system", <<TextPart>>)>> \o <<Turn("user", <<TextPart>>)>>
      BY <1>2, <1>7, <2>1, <3>2 DEF Wire, toOAIMessages
    <3> QED BY <2>1, <3>3
  <2>2. CASE provider = "anthropic"
    <3>1. toAntMessages(<<u>>) = AntMessage(<<>>, u)
      BY <1>1, <1>3, AntEquations
    <3>2. AntMessage(<<>>, u) = <<Turn("user", <<TextPart>>)>>
      <4>1. AntMessage(<<>>, u) = Append(<<>>, Turn("user", <<TextPart>>))
        BY <1>1 DEF AntMessage
      <4>2. \A x : <<x>> = Append(<<>>, x)
        OBVIOUS
      <4> QED BY <4>1, <4>2
    <3> QED BY <1>2, <1>7, <2>2, <3>1, <3>2 DEF Wire
  <2>3. CASE provider = "gemini"
    <3>1. toGeminiContents(<<u>>) = GeminiMessage(<<>>, u)
      BY <1>1, <1>3, GeminiEquations
    <3>2. GeminiMessage(<<>>, u) = <<Turn("user", <<TextPart>>)>>
      <4>1. GeminiMessage(<<>>, u) = Append(<<>>, Turn("user", <<TextPart>>))
        BY <1>1 DEF GeminiMessage
      <4>2. \A x : <<x>> = Append(<<>>, x)
        OBVIOUS
      <4> QED BY <4>1, <4>2
    <3> QED BY <1>2, <1>7, <2>3, <3>1, <3>2 DEF Wire
  <2> QED BY <1>2, <2>1, <2>2, <2>3 DEF Provider
<1>9. /\ w \in Seq(Turns) /\ w # <<>>
      /\ provider # "openai" => Len(w) = 1
      /\ \A i \in DOMAIN w : w[i].parts = <<TextPart>>
      /\ provider # "openai" => \A i \in DOMAIN w : i = 1 /\ w[i].role = "user"
  <2>1. PICK t, y : t = Turn("user", <<TextPart>>) /\ y = Turn("system", <<TextPart>>)
    OBVIOUS
  <2>2. t \in Turns /\ y \in Turns /\ t.role = "user" /\ t.parts = <<TextPart>> /\ y.parts = <<TextPart>>
    BY <1>5, <2>1
  <2>3. CASE provider = "openai"
    <3>1. w = <<y>> \o <<t>>
      BY <1>8, <2>1, <2>3
    <3>2. PICK q \in Seq(Turns) : q = <<t>> /\ Len(q) = 1 /\ q[1] = t
      BY <2>2, One
    <3>3. /\ w \in Seq(Turns) /\ Len(w) = 1 + 1 /\ DOMAIN w = 1..(1 + 1)
          /\ \A i \in 1..(1 + 1) : w[i] = IF i = 1 THEN y ELSE q[i - 1]
      <4>1. /\ <<y>> \o q \in Seq(Turns) /\ Len(<<y>> \o q) = 1 + Len(q)
            /\ DOMAIN (<<y>> \o q) = 1..(1 + Len(q))
            /\ \A i \in 1..(1 + Len(q)) : (<<y>> \o q)[i] = IF i = 1 THEN y ELSE q[i - 1]
        BY <2>2, <3>2, Behind
      <4> QED BY <3>1, <3>2, <4>1
    <3>4. w # <<>> /\ \A i \in DOMAIN w : w[i] \in {y, t}
      <4>1. \A i \in 1..(1 + 1) : i = 1 \/ i - 1 = 1
        OBVIOUS
      <4>2. \A i \in 1..(1 + 1) : w[i] \in {y, t}
        BY <3>2, <3>3, <4>1
      <4>3. Len(w) # 0
        BY <3>3
      <4>4. w # <<>>
        <5>1. Len(<<>>) = 0
          OBVIOUS
        <5> QED BY <4>3, <5>1
      <4>5. DOMAIN w = 1..(1 + 1)
        BY <3>3
      <4> QED BY <4>2, <4>4, <4>5
    <3> QED BY <2>2, <2>3, <3>3, <3>4
  <2>4. CASE provider # "openai"
    <3>1. w = <<t>>
      BY <1>8, <2>1, <2>4
    <3> QED BY <2>2, <2>4, <3>1
  <2> QED BY <2>3, <2>4
<1>10. \A i \in DOMAIN w : Requested(w[i]) = <<>>
  BY <1>6, <1>9 DEF Requested
<1>11. Sendable(provider, w)
  <2>1. WellFormed(provider, w)
    <3>1. DOMAIN <<>> = {} /\ 1 % 2 # 0
      OBVIOUS
    <3> QED BY <1>9, <1>10, <3>1 DEF WellFormed
  <2>2. \A i \in DOMAIN w : w[i].parts # <<>>
    <3>1. <<TextPart>> # <<>>
      OBVIOUS
    <3> QED BY <1>9, <3>1
  <2>3. provider # "openai" => Len(w) % 2 = 1
    <3>1. 1 % 2 = 1
      OBVIOUS
    <3> QED BY <1>9, <3>1
  <2>4. w \in Seq(Turns) /\ w # <<>>
    BY <1>9
  <2> QED BY <2>1, <2>2, <2>3, <2>4, Zenon DEF Sendable
<1>12. \A v \in Seq(Turns) : (\A i \in DOMAIN v : Requested(v[i]) = <<>>) => Shown(v) = <<>>
  BY ShownNothing
<1>13. Shown(w) = <<>> /\ Shown(request) = <<>>
  <2>1. Shown(w) = <<>>
    BY <1>9, <1>10, <1>12, Zenon
  <2>2. <<>> \in Seq(Turns) /\ DOMAIN <<>> = {}
    OBVIOUS
  <2> QED BY <1>2, <1>12, <2>1, <2>2
<1>14. Kept(messages) = <<>>
  <2>1. PICK f : f = Map(LAMBDA m : m.calls, messages)
    OBVIOUS
  <2>2. DOMAIN messages = 1..1 /\ messages[1] = u
    BY <1>2
  <2>3. f = [i \in 1..1 |-> <<>>]
    <3>1. \A i \in 1..1 : messages[i].calls = <<>>
      <4>1. u.calls = <<>>
        BY <1>1
      <4>2. \A i \in 1..1 : i = 1
        OBVIOUS
      <4> QED BY <2>2, <4>1, <4>2, Zenon
    <3> QED BY <2>1, <2>2, <3>1 DEF Map
  <2>4. f \in Seq({<<>>})
    BY <2>3
  <2>5. <<>> \in Seq(Seq(Calls)) /\ <<>> \o f = f
    BY <2>4
  <2>6. FlattenSeq(<<>> \o f) = FlattenSeq(<<>>) /\ FlattenSeq(<<>>) = <<>>
    BY <2>4, <2>5, FlattenBlank, FlattenEquations
  <2> QED BY <2>1, <2>5, <2>6 DEF Kept
<1>15. TypeOK
  <2>1. messages[1] = u /\ DOMAIN messages = {1} /\ DOMAIN request = {}
    BY <1>2
  <2>2. \A i \in DOMAIN messages : messages[i].role \in {"user", "assistant", "tool"}
    BY <1>1, <2>1
  <2>3. turns \in 0..MaxTurns
    BY <1>2, BlocksAssumption
  <2> QED BY <1>2, <2>1, <2>2, <2>3 DEF TypeOK
<1>16. MessagesInv
  <2>1. <<>> \in Seq(SentCalls(provider)) /\ Len(<<>>) = 0 /\ DOMAIN <<>> = {}
    OBVIOUS
  <2> QED BY <1>2, <1>3, <1>7, <1>11, <1>13, <1>14, <2>1 DEF MessagesInv
<1>17. RequestInv
  <2>1. Len(<<>>) = 0 /\ DOMAIN <<>> = {} /\ 0 <= 0
    OBVIOUS
  <2> QED BY <1>2, <1>13, <2>1 DEF RequestInv
<1> QED BY <1>15, <1>16, <1>17 DEF IInv

\* What has been asked for, and what is asked for now.
LEMMA EchoGrows ==
  ASSUME NEW S, NEW s \in Seq(S), NEW x \in Seq(S), NEW R, NEW a \in Seq(R), NEW b \in Seq(R),
         Len(s) = Len(a), Len(x) = Len(b),
         \A i \in DOMAIN a : Echoes(s[i], a[i]), \A i \in DOMAIN b : Echoes(x[i], b[i])
  PROVE  /\ Len(s \o x) = Len(a \o b)
         /\ \A i \in DOMAIN (a \o b) : Echoes((s \o x)[i], (a \o b)[i])
<1>1. PICK n \in Nat, m \in Nat : /\ n = Len(a) /\ DOMAIN a = 1..n
                                  /\ m = Len(b) /\ DOMAIN b = 1..m
  OBVIOUS
<1>2. PICK g, h : g = s \o x /\ h = a \o b
  OBVIOUS
<1>3. /\ Len(g) = n + m
      /\ \A i \in 1..n : g[i] = s[i]
      /\ \A i \in 1..m : g[n + i] = x[i]
  <2>1. /\ Len(g) = Len(s) + Len(x)
        /\ \A i \in 1..Len(s) : g[i] = s[i]
        /\ \A i \in 1..Len(x) : g[Len(s) + i] = x[i]
    <3>1. Len(g) = Len(s) + Len(x)
      BY <1>2, Concat
    <3>2. \A i \in 1..Len(s) : g[i] = s[i]
      BY <1>2, Concat
    <3>3. \A i \in 1..Len(x) : g[Len(s) + i] = x[i]
      BY <1>2, Concat
    <3> QED BY <3>1, <3>2, <3>3
  <2> QED BY <1>1, <2>1
<1>4. /\ Len(h) = n + m /\ DOMAIN h = 1..(n + m)
      /\ \A i \in 1..n : h[i] = a[i]
      /\ \A i \in 1..m : h[n + i] = b[i]
  <2>1. /\ Len(h) = Len(a) + Len(b) /\ DOMAIN h = 1..(Len(a) + Len(b))
        /\ \A i \in 1..Len(a) : h[i] = a[i]
        /\ \A i \in 1..Len(b) : h[Len(a) + i] = b[i]
    BY <1>2, Concat
  <2> QED BY <1>1, <2>1
<1>5. ASSUME NEW i \in 1..(n + m) PROVE Echoes(g[i], h[i])
  <2>1. CASE i \in 1..n
    BY <1>1, <1>3, <1>4, <2>1
  <2>2. CASE i \notin 1..n
    <3>1. PICK k \in 1..m : n + k = i
      <4>1. i - n \in 1..m /\ n + (i - n) = i
        BY <2>2
      <4> QED BY <4>1
    <3> QED BY <1>1, <1>3, <1>4, <3>1
  <2> QED BY <2>1, <2>2
<1> QED BY <1>2, <1>3, <1>4, <1>5

\* What is shown stays an echo of what was asked for when more is asked for.
LEMMA PrefixStays ==
  ASSUME NEW s, NEW R, NEW a \in Seq(R), NEW b \in Seq(R), Len(s) \in Nat, Len(s) <= Len(a),
         DOMAIN s = 1..Len(s), \A i \in DOMAIN s : Echoes(s[i], a[i])
  PROVE  Len(s) <= Len(a \o b) /\ \A i \in DOMAIN s : Echoes(s[i], (a \o b)[i])
<1>1. Len(a \o b) = Len(a) + Len(b) /\ Len(a) \in Nat /\ Len(b) \in Nat
      /\ \A i \in 1..Len(a) : (a \o b)[i] = a[i]
  BY Concat
<1>2. \A i \in 1..Len(s) : i \in 1..Len(a)
  BY <1>1
<1>3. Len(s) <= Len(a \o b)
  BY <1>1
<1> QED BY <1>1, <1>2, <1>3

\* The request is the conversation.
LEMMA AskInv ==
  ASSUME IInv, Ask
  PROVE  IInv'
<1> USE DEF Ask
<1>1. TypeOK /\ MessagesInv /\ RequestInv
  BY DEF IInv
<1>2. Sendable(provider, Wire(provider, messages))
  BY <1>1 DEF MessagesInv
<1>3. UNCHANGED <<provider, messages, stop, asked>> /\ request' = Wire(provider, messages)
      /\ reply' = "awaited" /\ turns' = turns + 1 /\ turns < MaxTurns
  OBVIOUS
<1> HIDE DEF Ask
<1>4. MessagesInv'
  BY <1>1, <1>3 DEF MessagesInv
<1>5. RequestInv'
  <2>1. PICK w \in Seq(Turns) : w = Wire(provider, messages)
    BY <1>2 DEF Sendable
  <2>2. /\ Len(Shown(w)) = Len(asked) /\ asked \in Seq(SentCalls(provider))
        /\ \A i \in DOMAIN asked : Echoes(Shown(w)[i], asked[i])
    BY <1>1, <2>1 DEF MessagesInv
  <2>3. Shown(w) \in Seq(Parts)
    BY ShownTypes
  <2>4. DOMAIN Shown(w) = DOMAIN asked /\ Len(Shown(w)) <= Len(asked)
    <3>1. DOMAIN Shown(w) = 1..Len(Shown(w)) /\ DOMAIN asked = 1..Len(asked) /\ Len(asked) \in Nat
      BY <2>2, <2>3
    <3> QED BY <2>2, <3>1
  <2>5. request' = w /\ asked' = asked /\ provider' = provider /\ messages' = messages
    BY <1>3, <2>1
  <2>6. Sendable(provider, w)
    BY <1>2, <2>1
  <2> QED BY <2>1, <2>2, <2>4, <2>5, <2>6 DEF RequestInv
<1>6. TypeOK'
  <2>1. turns' \in 0..MaxTurns
    BY <1>1, <1>3, BlocksAssumption DEF TypeOK
  <2>2. \A i \in DOMAIN request' : /\ request'[i].role \in {"system", "user", "assistant",
                                                            "model", "tool"}
                                   /\ request'[i].parts # <<>>
    <3>1. PICK w \in Seq(Turns) : w = request' /\ \A i \in DOMAIN w : w[i].parts # <<>>
      BY <1>2, <1>3 DEF Sendable
    <3>2. \A i \in DOMAIN w : w[i] \in Turns
      BY <3>1
    <3>3. \A t \in Turns : t.role \in {"system", "user", "assistant", "model", "tool"}
      BY DEF Turns
    <3> QED BY <3>1, <3>2, <3>3
  <2> QED BY <1>1, <1>3, <2>1, <2>2 DEF TypeOK
<1> QED BY <1>4, <1>5, <1>6 DEF IInv

\* A product of numbers is a number.
LEMMA NatTimes == \A m, n \in Nat : m * n \in Nat
OBVIOUS

\* A reply adds its calls, and their results.
LEMMA ReceiveInv ==
  ASSUME IInv, Receive
  PROVE  IInv'
<1>1. TypeOK /\ MessagesInv /\ RequestInv
  BY DEF IInv
<1>2. provider \in Provider /\ turns * (MaxBlocks + 1) \in Nat
  <2>1. provider \in Provider /\ turns \in Nat /\ MaxBlocks + 1 \in Nat
    BY <1>1, BlocksAssumption DEF TypeOK
  <2> QED BY <2>1, NatTimes
<1>3. PICK r \in ApiReply(provider, turns * (MaxBlocks + 1)) :
        LET resp == Response(provider, r)
            results == Map(LAMBDA c : Message("tool", <<>>, c.id, c.name), resp.calls)
        IN  /\ stop' = r.stop
            /\ IF resp.terminal
               THEN reply' = "final" /\ UNCHANGED messages
               ELSE /\ reply' = "calls"
                    /\ messages' = messages
                         \o <<Message("assistant", resp.calls, NoID, "")>> \o results
            /\ asked' = IF r.stop = "cut" /\ resp.terminal THEN asked
                        ELSE asked \o CallsOf(r.blocks)
  BY DEF Receive
<1>4. reply = "awaited" /\ UNCHANGED <<provider, request, turns>>
  BY DEF Receive
<1>5. PICK sent, final, calls : /\ sent = CallsOf(r.blocks) /\ final = Response(provider, r).terminal
                                /\ calls = Response(provider, r).calls
  OBVIOUS
<1>6. /\ stop' \in {"tools", "end", "cut"} /\ sent \in Seq(SentCalls(provider))
      /\ final /\ r.stop # "cut" => sent = <<>>
  BY <1>2, <1>3, <1>5, Heard
<1>7. ~final => /\ sent # <<>> /\ calls \in Seq(Calls) /\ Len(calls) = Len(sent)
                /\ \A k \in DOMAIN sent : Echoes(CallPart(provider, calls[k]), sent[k])
  BY <1>2, <1>5, Heard
<1>8. final => reply' = "final" /\ messages' = messages
  BY <1>3, <1>5
<1>9. ~final => /\ reply' = "calls"
                /\ messages' = messages \o <<Message("assistant", calls, NoID, "")>>
                                 \o ToolMessages(calls)
  BY <1>3, <1>5 DEF Map, ToolMessages
<1>10. asked' = IF r.stop = "cut" /\ final THEN asked ELSE asked \o sent
  BY <1>3, <1>5
<1>11. asked \in Seq(SentCalls(provider))
  BY <1>1 DEF MessagesInv
<1>12. final => asked' = asked
  <2>1. asked \o <<>> = asked
    BY <1>11
  <2> QED BY <1>6, <1>10, <2>1
<1>13. /\ MessagesInv'
       /\ \A i \in DOMAIN messages' : messages'[i].role \in {"user", "assistant", "tool"}
  <2>1. CASE final
    BY <1>1, <1>4, <1>8, <1>12, <2>1 DEF MessagesInv, TypeOK
  <2>2. CASE ~final
    <3>1. PICK w : w = Wire(provider, messages)
      OBVIOUS
    <3>2. /\ messages \in Seq(Msgs) /\ Sendable(provider, w) /\ Len(Shown(w)) = Len(asked)
          /\ \A i \in DOMAIN asked : Echoes(Shown(w)[i], asked[i])
          /\ Len(Kept(messages)) = Len(asked)
      BY <1>1, <3>1 DEF MessagesInv
    <3>3. calls \in Seq(Calls) /\ Len(calls) = Len(sent) /\ calls # <<>>
      BY <1>6, <1>7, <2>2
    <3>4. Wire(provider, messages') = w \o NewTurns(provider, calls)
      BY <1>2, <1>9, <2>2, <3>1, <3>2, <3>3, WireBatch
    <3>5. Sendable(provider, w \o NewTurns(provider, calls))
      BY <1>2, <3>2, <3>3, SendableGrows
    <3>6. w \in Seq(Turns)
      BY <3>2 DEF Sendable
    <3>7. /\ Shown(w) \in Seq(Parts)
          /\ Shown(w \o NewTurns(provider, calls)) = Shown(w) \o CallParts(provider, calls)
      BY <1>2, <3>3, <3>6, ShownGrows
    <3>8. /\ CallParts(provider, calls) \in Seq(Parts) /\ Len(CallParts(provider, calls)) = Len(sent)
          /\ \A k \in DOMAIN sent : Echoes(CallParts(provider, calls)[k], sent[k])
      <4>1. CallParts(provider, calls) \in Seq(Parts) /\ Len(CallParts(provider, calls)) = Len(calls)
        BY <1>2, <3>3, BatchTypes
      <4>2. DOMAIN sent = DOMAIN calls
        <5>1. DOMAIN sent = 1..Len(sent) /\ DOMAIN calls = 1..Len(calls)
          BY <1>6, <3>3
        <5> QED BY <3>3, <5>1
      <4> QED BY <1>7, <2>2, <3>3, <4>1, <4>2 DEF CallParts
    <3>9. asked' = asked \o sent /\ asked \o sent \in Seq(SentCalls(provider))
      BY <1>6, <1>10, <1>11, <2>2, Concat
    <3>10. PICK x, s : x = CallParts(provider, calls) /\ s = Shown(w)
      OBVIOUS
    <3>11. /\ Len(s \o x) = Len(asked \o sent)
           /\ \A i \in DOMAIN (asked \o sent) : Echoes((s \o x)[i], (asked \o sent)[i])
      BY <1>6, <1>11, <3>2, <3>7, <3>8, <3>10, EchoGrows
    <3>12. Kept(messages') = Kept(messages) \o calls /\ Kept(messages) \in Seq(Calls)
      BY <1>9, <2>2, <3>2, <3>3, KeptGrows
    <3>13. Len(Kept(messages')) = Len(asked \o sent)
      <4>1. Len(Kept(messages) \o calls) = Len(Kept(messages)) + Len(calls)
        BY <3>3, <3>12, Concat
      <4>2. Len(asked \o sent) = Len(asked) + Len(sent)
        BY <1>6, <1>11, Concat
      <4> QED BY <3>2, <3>3, <3>12, <4>1, <4>2
    <3>14. messages' \in Seq(Msgs)
      <4>1. /\ messages \in Seq(Msgs) /\ Message("assistant", calls, NoID, "") \in Msgs
            /\ ToolMessages(calls) \in Seq(Msgs)
        BY <1>2, <3>2, <3>3, BatchTypes
      <4>2. PICK a \in Msgs : a = Message("assistant", calls, NoID, "")
        BY <4>1
      <4>3. <<a>> \in Seq(Msgs)
        BY <4>2, One
      <4>4. messages \o <<a>> \in Seq(Msgs)
        BY <4>1, <4>3, Concat
      <4>5. messages \o <<a>> \o ToolMessages(calls) \in Seq(Msgs)
        BY <4>1, <4>4, Concat
      <4> QED BY <1>9, <2>2, <4>2, <4>5
    <3>15. MessagesInv'
      <4>1. Shown(Wire(provider, messages')) = s \o x
        BY <3>4, <3>7, <3>10
      <4>2. Sendable(provider, Wire(provider, messages'))
        BY <3>4, <3>5
      <4>3. provider' = provider
        BY <1>4
      <4> QED BY <3>9, <3>11, <3>13, <3>14, <4>1, <4>2, <4>3 DEF MessagesInv
    <3>16. \A i \in DOMAIN messages' : messages'[i].role \in {"user", "assistant", "tool"}
      <4>1. \A m \in Msgs : m.role \in {"user", "assistant", "tool"}
        BY DEF Msgs
      <4>2. \A i \in DOMAIN messages' : messages'[i] \in Msgs
        BY <3>14
      <4> QED BY <4>1, <4>2
    <3> QED BY <3>15, <3>16
  <2> QED BY <2>1, <2>2
<1>14. RequestInv'
  <2>1. /\ request # <<>> => Sendable(provider, request)
        /\ Len(Shown(request)) <= Len(asked)
        /\ \A i \in DOMAIN Shown(request) : Echoes(Shown(request)[i], asked[i])
    BY <1>1 DEF RequestInv
  <2>2. request \in Seq(Turns)
    <3>1. <<>> \in Seq(Turns)
      OBVIOUS
    <3> QED BY <2>1, <3>1 DEF Sendable
  <2>3. PICK s \in Seq(Parts) : s = Shown(request)
    BY <2>2, ShownTypes
  <2>4. Len(s) \in Nat /\ DOMAIN s = 1..Len(s)
    BY <2>3
  <2>5. Len(s) <= Len(asked') /\ \A i \in DOMAIN s : Echoes(s[i], asked'[i])
    <3>1. CASE final
      BY <1>12, <2>1, <2>3, <3>1
    <3>2. CASE ~final
      <4>1. asked' = asked \o sent
        BY <1>10, <3>2
      <4>2. /\ Len(s) <= Len(asked \o sent)
            /\ \A i \in DOMAIN s : Echoes(s[i], (asked \o sent)[i])
        BY <1>6, <1>11, <2>1, <2>3, <2>4, PrefixStays
      <4> QED BY <4>1, <4>2
    <3> QED BY <3>1, <3>2
  <2>6. reply' # "awaited" /\ request' = request /\ provider' = provider
    BY <1>4, <1>8, <1>9
  <2> QED BY <2>1, <2>3, <2>5, <2>6 DEF RequestInv
<1>15. TypeOK'
  <2>1. reply' \in {"calls", "final"}
    BY <1>8, <1>9
  <2> QED BY <1>1, <1>4, <1>6, <1>13, <2>1 DEF TypeOK
<1> QED BY <1>13, <1>14, <1>15 DEF IInv

\* Every step keeps the invariant.
LEMMA NextInv == IInv /\ [Next]_vars => IInv'
<1> SUFFICES ASSUME IInv, [Next]_vars PROVE IInv'
  OBVIOUS
<1>1. CASE Ask
  BY <1>1, AskInv
<1>2. CASE Receive
  BY <1>2, ReceiveInv
<1>3. CASE Fail
  BY <1>3 DEF Fail, IInv, TypeOK, MessagesInv, RequestInv
<1>4. CASE UNCHANGED vars
  BY <1>4 DEF vars, IInv, TypeOK, MessagesInv, RequestInv
<1> QED BY <1>1, <1>2, <1>3, <1>4 DEF Next

-----------------------------------------------------------------------------
(* What holds of every conversation, whatever the functions and the bounds.    *)

\* The invariant holds in every reachable state.
LEMMA Invariance == Spec => []IInv
BY InitInv, NextInv, PTL DEF Spec

\* The variables keep their types, and no turn that is sent is empty.
THEOREM WireTypes == Spec => []TypeOK
<1>1. IInv => TypeOK
  BY DEF IInv
<1> QED BY Invariance, <1>1, PTL

\* Every request keeps the rules of its API: each call has its results where
\* the API wants them (the three converters, whatever the conversation).
THEOREM EveryRequestWellFormed == Spec => []WireWellFormed
<1>1. IInv => WireWellFormed
  <2> SUFFICES ASSUME IInv PROVE WireWellFormed
    OBVIOUS
  <2>1. CASE request = <<>>
    <3>1. DOMAIN request = {}
      BY <2>1
    <3> QED BY <3>1 DEF WireWellFormed
  <2>2. CASE request # <<>>
    <3>1. WellFormed(provider, request)
      BY <2>2 DEF IInv, RequestInv, Sendable
    <3> QED BY <3>1 DEF WellFormed, WireWellFormed, Answers, AnswersFor
  <2> QED BY <2>1, <2>2
<1> QED BY Invariance, <1>1, PTL

\* Every request shows the LLM the calls it made, all of them, once, in order.
THEOREM EveryCallEchoed == Spec => []CallsEchoed
<1>1. IInv => CallsEchoed
  <2> SUFFICES ASSUME IInv PROVE CallsEchoed
    OBVIOUS
  <2>1. /\ Len(Shown(request)) <= Len(asked)
        /\ \A i \in DOMAIN Shown(request) : Echoes(Shown(request)[i], asked[i])
        /\ reply = "awaited" => Len(Shown(request)) = Len(asked)
    BY DEF IInv, RequestInv, MessagesInv
  <2> QED BY <2>1, Zenon DEF CallsEchoed, Shown, Echoes
<1> QED BY Invariance, <1>1, PTL

\* No call of a reply is left out of what the agent runs, unless the reply was
\* cut short and taken for the final answer.
THEOREM EveryCallHeeded == Spec => []CallsHeeded
<1>1. IInv => CallsHeeded
  BY DEF IInv, MessagesInv, CallsHeeded, Kept
<1> QED BY Invariance, <1>1, PTL

==============================================================================
