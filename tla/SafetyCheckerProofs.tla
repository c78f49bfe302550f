------------------------- MODULE SafetyCheckerProofs --------------------------
(***************************************************************************)
(* A rule that was added alone is found by every later check, for any      *)
(* number of AddRules that race before and after it: whatever header and   *)
(* array the races leave, the places of the settled rules are the same in  *)
(* all of them, and no append writes there any more.                       *)
(***************************************************************************)
EXTENDS SafetyChecker, TLAPS

Word == Keyword \cup {Garbage}
Defaults == {Default[i] : i \in DOMAIN Default}
Phase == {"new", "load", "store", "returned"}
Heap == Seq(Seq(Word))

\* A header whose array exists. A race may leave it longer than its array.
HeadersOf(h) == [array : 1..Len(h), len : Nat]

CheckerTypes ==
  /\ arrays \in Heap /\ keywords \in HeadersOf(arrays)
  /\ adder \in [Adder -> Phase] /\ todo \in [Adder -> SUBSET {"array", "len", "element"}]
  /\ slice \in [Adder -> HeadersOf(arrays)] /\ alone \subseteq Adder
  /\ range \in HeadersOf(arrays) /\ next \in Nat

\* What is to be done in each phase; the place of the element exists.
PhaseInv == \A a \in Adder :
  /\ adder[a] = "new" => todo[a] = HeaderPart
  /\ adder[a] = "load" => todo[a] \subseteq HeaderPart
  /\ adder[a] = "store" => slice[a].len \in 1..Len(arrays[slice[a].array])

\* The rules that no later AddRule can lose.
Settled == Defaults \cup {Rule(a) : a \in {b \in alone : adder[b] = "returned"}}

\* The arrays and lengths that the header of the list may still come to have, and
\* the places where an element is still to be written.
HasArray == {a \in Adder : \/ adder[a] = "store"
                           \/ adder[a] = "load" /\ "array" \notin todo[a]}
HasLen == {a \in Adder : \/ adder[a] = "store"
                         \/ adder[a] = "load" /\ "len" \notin todo[a]}
HasElement == {a \in Adder : adder[a] = "store" /\ "element" \in todo[a]}
LiveArrays == {keywords.array} \cup {slice[a].array : a \in HasArray}
LiveLens == {keywords.len} \cup {slice[a].len : a \in HasLen}
Pending == {slice[a].len : a \in HasElement}

\* The first n places are the same in all of them, hold the settled rules, and
\* nothing will be written there.
Common(n, P) ==
  /\ Settled \subseteq {P[i] : i \in 1..n}
  /\ \A x \in LiveArrays : n <= Len(arrays[x]) /\ \A i \in 1..n : arrays[x][i] = P[i]
  /\ \A l \in LiveLens : n <= l
  /\ \A l \in Pending : n < l

\* The rules that are due are in the first m places, of which the check misses
\* none, and those that it compared are not in the text.
Checked(m, P) ==
  /\ due \subseteq {P[i] : i \in 1..m}
  /\ "len" \notin unread => m <= range.len
  /\ "array" \notin unread => /\ m <= Len(arrays[range.array])
                              /\ \A i \in 1..m : arrays[range.array][i] = P[i]
  /\ verdict = "running" => \A i \in 1..m : i < next => P[i] \notin text \cup {""}

\* Both, for some n and P.
CommonAndChecked(n, P) ==
  Common(n, P) /\ (verdict # "new" => \E m \in 0..n : Checked(m, P))
PrefixInv == \E n \in Nat : \E P \in [1..n -> Word] : CommonAndChecked(n, P)

\* An AddRule that is alone works on the header of the list, and what it has
\* stored is there.
AloneInv == \A a \in alone \cap Active :
  /\ Active = {a}
  /\ adder[a] = "load" =>
       /\ "array" \notin todo[a] => slice[a].array = keywords.array
       /\ "len" \notin todo[a] => slice[a].len = keywords.len
  /\ adder[a] = "store" =>
       /\ "array" \notin todo[a] => slice[a].array = keywords.array
       /\ "len" \notin todo[a] => slice[a].len = keywords.len
       /\ "element" \notin todo[a] => arrays[slice[a].array][slice[a].len] = Rule(a)

IInv == CheckerTypes /\ PhaseInv /\ PrefixInv /\ AloneInv /\ AddedRulesBlock

-----------------------------------------------------------------------------
(* Arrays and headers.                                                        *)

\* The array that append allocates shows what is in the slice, then the element.
LEMMA RulesCopied ==
  ASSUME NEW h \in Heap, NEW p \in HeadersOf(h), NEW e \in Word
  PROVE  /\ Copy(h, p, e) \in Seq(Word)
         /\ Len(Copy(h, p, e)) \in Nat /\ p.len + 1 <= Len(Copy(h, p, e))
         /\ Copy(h, p, e)[p.len + 1] = e
         /\ \A i \in 1..p.len : Copy(h, p, e)[i] = Place(h, p, i)
<1> DEFINE x == Copy(h, p, e)
           n == NewCap(p)
<1>1. /\ h[p.array] \in Seq(Word) /\ Len(h[p.array]) \in Nat /\ p.len \in Nat
  BY DEF HeadersOf, Heap
<1>2. n \in Nat /\ p.len + 1 <= n
  BY <1>1 DEF NewCap
<1>3. \A i \in 1..p.len : Place(h, p, i) \in Word /\ i <= p.len /\ i \in 1..n
  BY <1>1, <1>2 DEF Place, Word
<1> HIDE DEF n
<1>4. x = [i \in 1..n |-> CASE i <= p.len -> Place(h, p, i)
                           [] i = p.len + 1 -> e
                           [] OTHER -> Garbage]
  BY DEF Copy, n
<1> HIDE DEF x
<1>5. ASSUME NEW i \in 1..p.len PROVE x[i] = Place(h, p, i)
  <2>1. i \in 1..n /\ i <= p.len /\ i # p.len + 1
    BY <1>1, <1>3
  <2> QED BY <1>4, <2>1
<1>6. x[p.len + 1] = e
  <2>1. p.len + 1 \in 1..n /\ ~(p.len + 1 <= p.len)
    BY <1>1, <1>2
  <2> QED BY <1>4, <2>1
<1>7. x \in [1..n -> Word]
  <2>1. Garbage \in Word
    BY DEF Word
  <2>2. \A i \in 1..n : i <= p.len => i \in 1..p.len
    BY <1>1, <1>2
  <2> QED BY <1>1, <1>3, <1>4, <2>1, <2>2
<1>8. x \in Seq(Word) /\ Len(x) = n
  BY <1>2, <1>7
<1> QED BY <1>2, <1>5, <1>6, <1>8 DEF x

\* What the members of a heap and of its headers are.
LEMMA HeapFacts ==
  ASSUME NEW h \in Heap
  PROVE  /\ Len(h) \in Nat
         /\ \A x \in 1..Len(h) : h[x] \in Seq(Word) /\ Len(h[x]) \in Nat
         /\ \A p \in HeadersOf(h) : p.array \in 1..Len(h) /\ p.len \in Nat
  BY DEF Heap, HeadersOf

\* The live arrays exist, and the lengths are numbers.
LEMMA LiveFacts ==
  ASSUME CheckerTypes
  PROVE  /\ LiveArrays \subseteq 1..Len(arrays) /\ LiveLens \subseteq Nat
         /\ Pending \subseteq Nat
<1>1. \A p \in HeadersOf(arrays) : p.array \in 1..Len(arrays) /\ p.len \in Nat
  BY HeapFacts DEF CheckerTypes
<1>2. keywords \in HeadersOf(arrays) /\ \A a \in Adder : slice[a] \in HeadersOf(arrays)
  BY DEF CheckerTypes
<1> QED BY <1>1, <1>2 DEF LiveArrays, LiveLens, Pending, HasArray, HasLen, HasElement

-----------------------------------------------------------------------------
(* The steps.                                                                 *)

\* Where nothing changes below the pending places and nothing comes to be live,
\* nothing is lost.
LEMMA NothingNew ==
  ASSUME CheckerTypes, PrefixInv, UNCHANGED <<text, verdict, range, unread, next, due>>,
         Settled' \subseteq Settled, LiveArrays' \subseteq LiveArrays,
         LiveLens' \subseteq LiveLens, Pending' \subseteq Pending,
         \A x \in 1..Len(arrays) : \A n \in Nat :
           (\A l \in Pending : n < l) =>
             /\ Len(arrays'[x]) = Len(arrays[x])
             /\ \A i \in 1..n : arrays'[x][i] = arrays[x][i]
  PROVE  PrefixInv'
<1>1. PICK n \in Nat : \E P \in [1..n -> Word] : CommonAndChecked(n, P)
  BY DEF PrefixInv
<1>2. PICK P \in [1..n -> Word] : CommonAndChecked(n, P)
  BY <1>1
<1>3. Common(n, P)
  BY <1>2 DEF CommonAndChecked
<1>4. \A x \in 1..Len(arrays) : /\ Len(arrays'[x]) = Len(arrays[x])
                                /\ \A i \in 1..n : arrays'[x][i] = arrays[x][i]
  BY <1>3 DEF Common
<1>5. \A x \in LiveArrays' : n <= Len(arrays'[x]) /\ \A i \in 1..n : arrays'[x][i] = P[i]
  BY <1>3, <1>4, LiveFacts DEF Common
<1>6. Common(n, P)'
  BY <1>3, <1>5 DEF Common
<1>7. ASSUME NEW m \in 0..n, Checked(m, P)
      PROVE  Checked(m, P)'
  <2>1. range.array \in 1..Len(arrays)
    BY HeapFacts DEF CheckerTypes
  <2>2. 1..m \subseteq 1..n
    OBVIOUS
  <2>3. Len(arrays'[range.array]) = Len(arrays[range.array])
        /\ \A i \in 1..m : arrays'[range.array][i] = arrays[range.array][i]
    BY <1>4, <2>1, <2>2
  <2> QED BY <1>7, <2>3 DEF Checked
<1>8. verdict' # "new" => \E m \in 0..n : Checked(m, P)'
  BY <1>2, <1>7 DEF CommonAndChecked
<1> QED BY <1>6, <1>8 DEF PrefixInv, CommonAndChecked

\* The same where only the part of the check changes that Checked does not see.
LEMMA ArraysSame ==
  ASSUME arrays' = arrays
  PROVE  \A x \in 1..Len(arrays) : \A n \in Nat :
           (\A l \in Pending : n < l) =>
             /\ Len(arrays'[x]) = Len(arrays[x])
             /\ \A i \in 1..n : arrays'[x][i] = arrays[x][i]
  OBVIOUS

\* The list begins with the default rules, and nothing is being added.
LEMMA CheckerStarts == RulesInit => IInv
<1> SUFFICES ASSUME RulesInit PROVE IInv
  OBVIOUS
<1>1. Default \in Seq(Word) /\ Len(Default) \in Nat /\ DOMAIN Default = 1..Len(Default)
  BY RuleAssumption DEF Word
<1>2. arrays = <<Default>> /\ Len(arrays) = 1 /\ arrays[1] = Default /\ arrays \in Heap
  BY <1>1 DEF RulesInit, Heap
<1>3. Active = {} /\ Settled = Defaults /\ HasArray = {} /\ HasLen = {} /\ HasElement = {}
  BY DEF RulesInit, Active, Settled, HasArray, HasLen, HasElement
<1>4. CheckerTypes
  BY <1>1, <1>2 DEF RulesInit, HeadersOf, Header, CheckerTypes, Phase, HeaderPart
<1>5. PhaseInv
  BY DEF RulesInit, PhaseInv
<1>6. Common(Len(Default), Default)
  BY <1>1, <1>2, <1>3
     DEF RulesInit, Common, LiveArrays, LiveLens, Pending, Header, Defaults
<1>7. Default \in [1..Len(Default) -> Word] /\ verdict = "new"
  BY <1>1 DEF RulesInit
<1>8. PrefixInv
  BY <1>1, <1>6, <1>7 DEF PrefixInv, CommonAndChecked
<1>9. AloneInv /\ AddedRulesBlock
  BY <1>3, <1>7 DEF AloneInv, AddedRulesBlock
<1> QED BY <1>4, <1>5, <1>8, <1>9 DEF IInv

\* A part of the list's header is loaded; two calls that meet are no longer alone.
LEMMA LoadKeeps ==
  ASSUME IInv, NEW a \in Adder, LoadArray(a) \/ LoadLen(a)
  PROVE  IInv'
<1>0. PICK part \in HeaderPart :
        \E header :
          /\ adder[a] \in {"new", "load"} /\ part \in todo[a]
          /\ adder' = [adder EXCEPT ![a] = "load"]
          /\ todo' = [todo EXCEPT ![a] = @ \ {part}]
          /\ slice' = [slice EXCEPT ![a] = header]
          /\ \/ /\ part = "array" /\ header.array = keywords.array
                /\ header.len = slice[a].len
             \/ /\ part = "len" /\ header.len = keywords.len
                /\ header.array = slice[a].array
          /\ header = Header(header.array, header.len)
          /\ alone' = IF Active \subseteq {a} THEN alone ELSE alone \ (Active \cup {a})
  BY DEF LoadArray, LoadLen, LoadPart, HeaderPart, Header
<1>1. PICK header :
        /\ adder[a] \in {"new", "load"} /\ part \in todo[a]
        /\ adder' = [adder EXCEPT ![a] = "load"]
        /\ todo' = [todo EXCEPT ![a] = @ \ {part}]
        /\ slice' = [slice EXCEPT ![a] = header]
        /\ \/ /\ part = "array" /\ header.array = keywords.array
              /\ header.len = slice[a].len
           \/ /\ part = "len" /\ header.len = keywords.len
              /\ header.array = slice[a].array
        /\ header = Header(header.array, header.len)
        /\ alone' = IF Active \subseteq {a} THEN alone ELSE alone \ (Active \cup {a})
  BY <1>0
<1>2. UNCHANGED <<arrays, keywords, text, verdict, range, unread, next, due>>
  BY DEF LoadArray, LoadLen, LoadPart, checkVars
<1>3. /\ adder \in [Adder -> Phase] /\ slice \in [Adder -> HeadersOf(arrays)]
      /\ todo \in [Adder -> SUBSET {"array", "len", "element"}]
      /\ keywords \in HeadersOf(arrays) /\ arrays \in Heap /\ alone \subseteq Adder
  BY DEF IInv, CheckerTypes
<1>4. header \in HeadersOf(arrays)
  BY <1>1, <1>3 DEF HeadersOf, Header
<1>5. /\ adder'[a] = "load" /\ slice'[a] = header /\ todo'[a] = todo[a] \ {part}
      /\ todo'[a] \subseteq HeaderPart /\ part \notin todo'[a]
      /\ \A b \in Adder \ {a} : adder'[b] = adder[b] /\ slice'[b] = slice[b]
                                /\ todo'[b] = todo[b]
  BY <1>1, <1>3 DEF IInv, PhaseInv
<1>6. CheckerTypes'
  <2>1. adder' \in [Adder -> Phase] /\ slice' \in [Adder -> HeadersOf(arrays)]
    BY <1>1, <1>3, <1>4 DEF Phase
  <2>2. todo' \in [Adder -> SUBSET {"array", "len", "element"}]
    BY <1>1, <1>3
  <2>3. alone' \subseteq Adder
    BY <1>1, <1>3
  <2> QED BY <1>2, <2>1, <2>2, <2>3 DEF IInv, CheckerTypes, HeadersOf
<1>7. PhaseInv'
  BY <1>2, <1>5 DEF IInv, PhaseInv
<1>8. Active' = Active \cup {a}
  BY <1>5 DEF Active
<1>9. Settled' \subseteq Settled
  BY <1>1, <1>5 DEF Settled
<1>10. LiveArrays' \subseteq LiveArrays
  <2>1. ASSUME NEW b \in HasArray' PROVE slice'[b].array \in LiveArrays
    <3>1. CASE b = a
      <4>1. "array" \notin todo'[a] /\ slice'[a] = header
        BY <1>5, <2>1, <3>1 DEF HasArray
      <4>2. CASE part = "array"
        BY <1>1, <3>1, <4>1, <4>2 DEF LiveArrays
      <4>3. CASE part = "len"
        <5>1. "array" \notin todo[a] /\ adder[a] = "load"
          BY <1>1, <1>5, <4>1, <4>3 DEF IInv, PhaseInv, HeaderPart
        <5> QED BY <1>1, <3>1, <4>1, <4>3, <5>1 DEF LiveArrays, HasArray
      <4> QED BY <4>2, <4>3 DEF HeaderPart
    <3>2. CASE b # a
      BY <1>5, <2>1, <3>2 DEF LiveArrays, HasArray
    <3> QED BY <3>1, <3>2
  <2> QED BY <1>2, <2>1 DEF LiveArrays
<1>11. LiveLens' \subseteq LiveLens
  <2>1. ASSUME NEW b \in HasLen' PROVE slice'[b].len \in LiveLens
    <3>1. CASE b = a
      <4>1. "len" \notin todo'[a] /\ slice'[a] = header
        BY <1>5, <2>1, <3>1 DEF HasLen
      <4>2. CASE part = "len"
        BY <1>1, <3>1, <4>1, <4>2 DEF LiveLens
      <4>3. CASE part = "array"
        <5>1. "len" \notin todo[a] /\ adder[a] = "load"
          BY <1>1, <1>5, <4>1, <4>3 DEF IInv, PhaseInv, HeaderPart
        <5> QED BY <1>1, <3>1, <4>1, <4>3, <5>1 DEF LiveLens, HasLen
      <4> QED BY <4>2, <4>3 DEF HeaderPart
    <3>2. CASE b # a
      BY <1>5, <2>1, <3>2 DEF LiveLens, HasLen
    <3> QED BY <3>1, <3>2
  <2> QED BY <1>2, <2>1 DEF LiveLens
<1>12. Pending' \subseteq Pending
  BY <1>5 DEF Pending, HasElement
<1>13. PrefixInv'
  BY <1>2, <1>9, <1>10, <1>11, <1>12, ArraysSame, NothingNew DEF IInv
<1>14. AloneInv'
  <2> SUFFICES ASSUME NEW b \in alone', b \in Active'
               PROVE  /\ Active' = {b} /\ adder'[b] # "store"
                      /\ "array" \notin todo'[b] => slice'[b].array = keywords'.array
                      /\ "len" \notin todo'[b] => slice'[b].len = keywords'.len
    BY DEF AloneInv
  <2>1. Active \subseteq {a} /\ alone' = alone
    BY <1>1, <1>8
  <2>2. b = a /\ Active' = {a}
    BY <1>8, <2>1
  <2>3. CASE adder[a] = "new"
    BY <1>1, <1>2, <1>5, <2>2, <2>3 DEF IInv, PhaseInv, HeaderPart
  <2>4. CASE adder[a] = "load"
    <3>1. /\ "array" \notin todo[a] => slice[a].array = keywords.array
          /\ "len" \notin todo[a] => slice[a].len = keywords.len
      BY <2>1, <2>2, <2>4 DEF IInv, AloneInv, Active
    <3> QED BY <1>1, <1>2, <1>5, <2>2, <3>1
  <2> QED BY <1>1, <2>3, <2>4
<1>15. AddedRulesBlock'
  BY <1>2 DEF IInv, AddedRulesBlock
<1> QED BY <1>6, <1>7, <1>13, <1>14, <1>15 DEF IInv

\* append: in place, behind what is common, or to a new array that begins with it.
LEMMA AppendKeeps ==
  ASSUME IInv, NEW a \in Adder, AppendRule(a)
  PROVE  IInv'
<1> DEFINE p == slice[a]
           q == AppendHeader(arrays, slice[a])
<1>1. /\ adder[a] = "load" /\ todo[a] = {}
      /\ arrays' = IF Room(arrays, p) THEN arrays
                   ELSE Append(arrays, Copy(arrays, p, Garbage))
      /\ slice' = [slice EXCEPT ![a] = q]
      /\ todo' = [todo EXCEPT ![a] = {"len", "element"} \cup
                                       IF Room(arrays, p) THEN {} ELSE {"array"}]
      /\ adder' = [adder EXCEPT ![a] = "store"]
      /\ UNCHANGED <<keywords, alone, text, verdict, range, unread, next, due>>
  BY DEF AppendRule, checkVars
<1>2. /\ adder \in [Adder -> Phase] /\ slice \in [Adder -> HeadersOf(arrays)]
      /\ todo \in [Adder -> SUBSET {"array", "len", "element"}]
      /\ keywords \in HeadersOf(arrays) /\ arrays \in Heap /\ alone \subseteq Adder
      /\ range \in HeadersOf(arrays) /\ next \in Nat
  BY DEF IInv, CheckerTypes
<1>3. /\ p \in HeadersOf(arrays) /\ p.array \in 1..Len(arrays) /\ p.len \in Nat
      /\ Len(arrays) \in Nat /\ Len(arrays[p.array]) \in Nat
  <2>1. p \in HeadersOf(arrays)
    BY <1>2
  <2> QED BY <1>2, <2>1, HeapFacts
<1>4. q.len = p.len + 1 /\ q = Header(q.array, q.len)
      /\ q.array = IF Room(arrays, p) THEN p.array ELSE Len(arrays) + 1
  BY DEF AppendHeader, Header
<1> HIDE DEF q
<1>5. /\ adder'[a] = "store" /\ slice'[a] = q
      /\ todo'[a] = {"len", "element"} \cup IF Room(arrays, p) THEN {} ELSE {"array"}
      /\ \A b \in Adder \ {a} : adder'[b] = adder[b] /\ slice'[b] = slice[b]
                                /\ todo'[b] = todo[b]
  BY <1>1, <1>2
<1> DEFINE c == Copy(arrays, p, Garbage)
<1>6. /\ c \in Seq(Word) /\ Len(c) \in Nat /\ p.len + 1 <= Len(c)
      /\ \A i \in 1..p.len : c[i] = Place(arrays, p, i)
  BY <1>2, <1>3, RulesCopied DEF Word
<1> HIDE DEF p, c
<1>7. /\ arrays' \in Heap /\ Len(arrays') \in Nat /\ Len(arrays) <= Len(arrays')
      /\ \A x \in 1..Len(arrays) : arrays'[x] = arrays[x]
      /\ q.array \in 1..Len(arrays') /\ q.len \in 1..Len(arrays'[q.array])
  <2>1. CASE Room(arrays, p)
    BY <1>1, <1>2, <1>3, <1>4, <2>1 DEF Room, p
  <2>2. CASE ~Room(arrays, p)
    <3>1. arrays' = Append(arrays, c) /\ q.array = Len(arrays) + 1
      BY <1>1, <1>4, <2>2 DEF p, c
    <3>2. /\ arrays' \in Heap /\ Len(arrays') = Len(arrays) + 1
          /\ arrays'[Len(arrays) + 1] = c
          /\ \A x \in 1..Len(arrays) : arrays'[x] = arrays[x]
      BY <1>2, <1>3, <1>6, <3>1 DEF Heap
    <3> QED BY <1>3, <1>4, <1>6, <3>1, <3>2
  <2> QED BY <2>1, <2>2
<1>8. HeadersOf(arrays) \subseteq HeadersOf(arrays)'
  BY <1>3, <1>7 DEF HeadersOf
<1>9. q \in HeadersOf(arrays)'
  BY <1>3, <1>4, <1>7 DEF HeadersOf, Header
<1>10. CheckerTypes'
  <2>1. adder' \in [Adder -> Phase]
    BY <1>1, <1>2 DEF Phase
  <2>2. slice' \in [Adder -> HeadersOf(arrays)']
    BY <1>1, <1>2, <1>8, <1>9
  <2>3. todo' \in [Adder -> SUBSET {"array", "len", "element"}]
    BY <1>1, <1>2
  <2>4. keywords' \in HeadersOf(arrays)' /\ range' \in HeadersOf(arrays)'
        /\ alone' \subseteq Adder /\ next' \in Nat
    BY <1>1, <1>2, <1>8
  <2> QED BY <1>7, <2>1, <2>2, <2>3, <2>4 DEF CheckerTypes
<1>11. PhaseInv'
  <2>1. \A b \in Adder : slice[b].array \in 1..Len(arrays)
    BY <1>2 DEF HeadersOf
  <2>2. ASSUME NEW b \in Adder
        PROVE  /\ adder'[b] = "new" => todo'[b] = HeaderPart
               /\ adder'[b] = "load" => todo'[b] \subseteq HeaderPart
               /\ adder'[b] = "store" => slice'[b].len \in 1..Len(arrays'[slice'[b].array])
    <3>1. CASE b = a
      BY <1>5, <1>7, <3>1
    <3>2. CASE b # a
      BY <1>5, <1>7, <2>1, <3>2 DEF IInv, PhaseInv
    <3> QED BY <3>1, <3>2
  <2> QED BY <2>2 DEF PhaseInv
<1>12. PrefixInv'
  <2>1. PICK n \in Nat : \E P \in [1..n -> Word] : CommonAndChecked(n, P)
    BY DEF IInv, PrefixInv
  <2>2. PICK P \in [1..n -> Word] : CommonAndChecked(n, P)
    BY <2>1
  <2>3. Common(n, P)
    BY <2>2 DEF CommonAndChecked
  <2>4. p.array \in LiveArrays /\ p.len \in LiveLens
    BY <1>1 DEF LiveArrays, LiveLens, HasArray, HasLen, p
  <2>5. /\ n <= p.len /\ n <= Len(arrays[p.array])
        /\ \A i \in 1..n : arrays[p.array][i] = P[i]
    BY <2>3, <2>4 DEF Common
  <2>6. Settled' \subseteq Settled
    BY <1>1, <1>5 DEF Settled
  <2>7. LiveArrays' \subseteq LiveArrays \cup {q.array}
    BY <1>1, <1>5 DEF LiveArrays, HasArray
  <2>8. LiveLens' \subseteq LiveLens \cup {q.len}
    BY <1>1, <1>5 DEF LiveLens, HasLen
  <2>9. Pending' \subseteq Pending \cup {q.len}
    BY <1>5 DEF Pending, HasElement
  <2>10. n <= Len(arrays'[q.array]) /\ \A i \in 1..n : arrays'[q.array][i] = P[i]
    <3>1. CASE Room(arrays, p)
      BY <1>3, <1>4, <1>7, <2>5, <3>1
    <3>2. CASE ~Room(arrays, p)
      <4>1. arrays' = Append(arrays, c) /\ q.array = Len(arrays) + 1
        BY <1>1, <1>4, <3>2 DEF p, c
      <4>2. arrays'[q.array] = c
        BY <1>2, <1>3, <1>6, <4>1 DEF Heap
      <4>3. \A i \in 1..n : Place(arrays, p, i) = arrays[p.array][i] /\ i \in 1..p.len
        BY <1>3, <2>5 DEF Place
      <4>4. n <= Len(c)
        BY <1>3, <1>6, <2>5
      <4> QED BY <1>6, <2>5, <4>2, <4>3, <4>4
    <3> QED BY <3>1, <3>2
  <2>11. \A x \in LiveArrays :
           n <= Len(arrays'[x]) /\ \A i \in 1..n : arrays'[x][i] = P[i]
    BY <1>7, <2>3, LiveFacts DEF Common, IInv
  <2>12. n <= q.len /\ n < q.len
    BY <1>3, <1>4, <2>5
  <2>13. Common(n, P)'
    <3>1. Settled' \subseteq {P[i] : i \in 1..n}
      BY <2>3, <2>6 DEF Common
    <3>2. \A x \in LiveArrays' :
            n <= Len(arrays'[x]) /\ \A i \in 1..n : arrays'[x][i] = P[i]
      BY <2>7, <2>10, <2>11
    <3>3. \A l \in LiveLens' : n <= l
      BY <2>3, <2>8, <2>12 DEF Common
    <3>4. \A l \in Pending' : n < l
      BY <2>3, <2>9, <2>12 DEF Common
    <3> QED BY <3>1, <3>2, <3>3, <3>4 DEF Common
  <2>14. ASSUME NEW m \in 0..n, Checked(m, P)
         PROVE  Checked(m, P)'
    <3>1. arrays'[range.array] = arrays[range.array]
      BY <1>2, <1>7 DEF HeadersOf
    <3> QED BY <1>1, <2>14, <3>1 DEF Checked
  <2>15. verdict' # "new" => \E m \in 0..n : Checked(m, P)'
    BY <1>1, <2>2, <2>14 DEF CommonAndChecked
  <2> QED BY <2>13, <2>15 DEF PrefixInv, CommonAndChecked
<1>13. AloneInv'
  <2>1. Active' = Active /\ a \in Active
    BY <1>1, <1>5 DEF Active
  <2> SUFFICES ASSUME NEW b \in alone', b \in Active'
               PROVE  /\ Active' = {b} /\ adder'[b] # "load"
                      /\ "array" \notin todo'[b] => slice'[b].array = keywords'.array
                      /\ "len" \in todo'[b] /\ "element" \in todo'[b]
    BY DEF AloneInv
  <2>2. b = a /\ Active = {a}
    BY <1>1, <2>1 DEF IInv, AloneInv
  <2>3. slice[a].array = keywords.array
    BY <1>1, <2>1, <2>2 DEF IInv, AloneInv
  <2> QED BY <1>1, <1>4, <1>5, <2>1, <2>2, <2>3 DEF p
<1>14. AddedRulesBlock'
  BY <1>1 DEF IInv, AddedRulesBlock
<1> QED BY <1>10, <1>11, <1>12, <1>13, <1>14 DEF IInv

\* What a store does to the header, the arrays and the calls.
LEMMA StoreFacts ==
  ASSUME IInv, NEW a \in Adder, StoreLen(a) \/ StoreArray(a) \/ StoreElement(a)
  PROVE  \E part \in {"array", "len", "element"} :
    /\ adder[a] = "store" /\ part \in todo[a]
    /\ todo' = [todo EXCEPT ![a] = @ \ {part}]
    /\ adder' = IF todo[a] = {part} THEN [adder EXCEPT ![a] = "returned"] ELSE adder
    /\ UNCHANGED <<slice, alone, text, verdict, range, unread, next, due>>
    /\ keywords' \in HeadersOf(arrays)
    /\ keywords'.array = IF part = "array" THEN slice[a].array ELSE keywords.array
    /\ keywords'.len = IF part = "len" THEN slice[a].len ELSE keywords.len
    /\ arrays' \in Heap /\ Len(arrays') = Len(arrays)
    /\ \A x \in 1..Len(arrays) :
         /\ Len(arrays'[x]) = Len(arrays[x])
         /\ \A i \in Nat : \/ part = "element" /\ i = slice[a].len
                           \/ arrays'[x][i] = arrays[x][i]
    /\ part # "element" => arrays' = arrays
    /\ part = "element" /\ a \in alone =>
         arrays'[slice[a].array][slice[a].len] = Rule(a)
<1>1. /\ arrays \in Heap /\ keywords \in HeadersOf(arrays) /\ slice[a] \in HeadersOf(arrays)
  BY DEF IInv, CheckerTypes
<1>2. /\ Len(arrays) \in Nat /\ slice[a].array \in 1..Len(arrays) /\ slice[a].len \in Nat
      /\ keywords.array \in 1..Len(arrays) /\ keywords.len \in Nat
      /\ \A x \in 1..Len(arrays) : arrays[x] \in Seq(Word) /\ Len(arrays[x]) \in Nat
  BY <1>1, HeapFacts
<1>3. CASE StoreLen(a)
  <2>1. /\ keywords' = Header(keywords.array, slice[a].len) /\ arrays' = arrays
        /\ adder[a] = "store" /\ "len" \in todo[a]
        /\ todo' = [todo EXCEPT ![a] = @ \ {"len"}]
        /\ adder' = IF todo[a] = {"len"} THEN [adder EXCEPT ![a] = "returned"] ELSE adder
        /\ UNCHANGED <<slice, alone, text, verdict, range, unread, next, due>>
    BY <1>3 DEF StoreLen, StorePart, checkVars
  <2>2. /\ keywords' \in HeadersOf(arrays) /\ keywords'.array = keywords.array
        /\ keywords'.len = slice[a].len
    BY <1>2, <2>1 DEF HeadersOf, Header
  <2> QED BY <1>1, <2>1, <2>2
<1>4. CASE StoreArray(a)
  <2>1. /\ keywords' = Header(slice[a].array, keywords.len) /\ arrays' = arrays
        /\ adder[a] = "store" /\ "array" \in todo[a]
        /\ todo' = [todo EXCEPT ![a] = @ \ {"array"}]
        /\ adder' = IF todo[a] = {"array"} THEN [adder EXCEPT ![a] = "returned"] ELSE adder
        /\ UNCHANGED <<slice, alone, text, verdict, range, unread, next, due>>
    BY <1>4 DEF StoreArray, StorePart, checkVars
  <2>2. /\ keywords' \in HeadersOf(arrays) /\ keywords'.array = slice[a].array
        /\ keywords'.len = keywords.len
    BY <1>2, <2>1 DEF HeadersOf, Header
  <2> QED BY <1>1, <2>1, <2>2
<1>5. CASE StoreElement(a)
  <2>1. PICK e \in {Rule(a)} \cup (IF Raced(a) THEN {Garbage} ELSE {}) :
          arrays' = [arrays EXCEPT ![slice[a].array][slice[a].len] = e]
    BY <1>5 DEF StoreElement
  <2>2. /\ keywords' = keywords
        /\ adder[a] = "store" /\ "element" \in todo[a]
        /\ todo' = [todo EXCEPT ![a] = @ \ {"element"}]
        /\ adder' = IF todo[a] = {"element"} THEN [adder EXCEPT ![a] = "returned"]
                    ELSE adder
        /\ UNCHANGED <<slice, alone, text, verdict, range, unread, next, due>>
    BY <1>5 DEF StoreElement, StorePart, checkVars
  <2>3. e \in Word /\ (a \in alone => e = Rule(a))
    <3>1. Rule(a) \in Keyword
      BY DEF Keyword, Rule
    <3>2. a \in alone => ~Raced(a)
      BY DEF Raced
    <3> QED BY <2>1, <3>1, <3>2 DEF Word
  <2>4. slice[a].len \in 1..Len(arrays[slice[a].array])
    BY <2>2 DEF IInv, PhaseInv
  <2> DEFINE s == slice[a].array
             y == [arrays[slice[a].array] EXCEPT ![slice[a].len] = e]
  <2>5. /\ y \in Seq(Word) /\ Len(y) = Len(arrays[s]) /\ y[slice[a].len] = e
        /\ \A i \in Nat : i = slice[a].len \/ y[i] = arrays[s][i]
    BY <1>2, <2>3, <2>4
  <2>6. arrays' = [arrays EXCEPT ![s] = y]
    BY <2>1
  <2> HIDE DEF s, y
  <2>7. /\ arrays' \in Seq(Seq(Word)) /\ Len(arrays') = Len(arrays) /\ arrays'[s] = y
        /\ \A x \in 1..Len(arrays) : x = s \/ arrays'[x] = arrays[x]
    BY <1>1, <1>2, <2>5, <2>6 DEF Heap, s
  <2>8. \A x \in 1..Len(arrays) :
          /\ Len(arrays'[x]) = Len(arrays[x])
          /\ \A i \in Nat : i = slice[a].len \/ arrays'[x][i] = arrays[x][i]
    BY <2>5, <2>7
  <2>9. a \in alone => arrays'[slice[a].array][slice[a].len] = Rule(a)
    BY <2>3, <2>5, <2>7 DEF s
  <2> QED BY <1>1, <2>2, <2>7, <2>8, <2>9 DEF Heap
<1> QED BY <1>3, <1>4, <1>5

\* A store reaches no place that is common; where it is the last of a call that was
\* alone, all that its slice shows is.
LEMMA StoreKeeps ==
  ASSUME IInv, NEW a \in Adder, StoreLen(a) \/ StoreArray(a) \/ StoreElement(a)
  PROVE  IInv'
<1>1. PICK part \in {"array", "len", "element"} :
    /\ adder[a] = "store" /\ part \in todo[a]
    /\ todo' = [todo EXCEPT ![a] = @ \ {part}]
    /\ adder' = IF todo[a] = {part} THEN [adder EXCEPT ![a] = "returned"] ELSE adder
    /\ UNCHANGED <<slice, alone, text, verdict, range, unread, next, due>>
    /\ keywords' \in HeadersOf(arrays)
    /\ keywords'.array = IF part = "array" THEN slice[a].array ELSE keywords.array
    /\ keywords'.len = IF part = "len" THEN slice[a].len ELSE keywords.len
    /\ arrays' \in Heap /\ Len(arrays') = Len(arrays)
    /\ \A x \in 1..Len(arrays) :
         /\ Len(arrays'[x]) = Len(arrays[x])
         /\ \A i \in Nat : \/ part = "element" /\ i = slice[a].len
                           \/ arrays'[x][i] = arrays[x][i]
    /\ part # "element" => arrays' = arrays
    /\ part = "element" /\ a \in alone =>
         arrays'[slice[a].array][slice[a].len] = Rule(a)
  BY StoreFacts
<1>2. /\ adder \in [Adder -> Phase] /\ slice \in [Adder -> HeadersOf(arrays)]
      /\ todo \in [Adder -> SUBSET {"array", "len", "element"}]
      /\ keywords \in HeadersOf(arrays) /\ arrays \in Heap /\ alone \subseteq Adder
      /\ range \in HeadersOf(arrays) /\ next \in Nat
  BY DEF IInv, CheckerTypes
<1>3. /\ todo'[a] = todo[a] \ {part} /\ adder'[a] \in {"store", "returned"}
      /\ adder'[a] = "returned" <=> todo[a] = {part}
      /\ \A b \in Adder \ {a} : adder'[b] = adder[b] /\ todo'[b] = todo[b]
  BY <1>1, <1>2
<1>4. CheckerTypes'
  <2>1. HeadersOf(arrays)' = HeadersOf(arrays)
    BY <1>1 DEF HeadersOf
  <2>2. adder' \in [Adder -> Phase]
    BY <1>1, <1>2 DEF Phase
  <2>3. todo' \in [Adder -> SUBSET {"array", "len", "element"}]
    BY <1>1, <1>2
  <2> QED BY <1>1, <1>2, <2>1, <2>2, <2>3 DEF CheckerTypes
<1>5. \A b \in Adder : slice[b].array \in 1..Len(arrays) /\ slice[b].len \in Nat
  BY <1>2, HeapFacts
<1>6. PhaseInv'
  <2>1. ASSUME NEW b \in Adder
        PROVE  /\ adder'[b] = "new" => todo'[b] = HeaderPart
               /\ adder'[b] = "load" => todo'[b] \subseteq HeaderPart
               /\ adder'[b] = "store" => slice'[b].len \in 1..Len(arrays'[slice'[b].array])
    BY <1>1, <1>3, <1>5 DEF IInv, PhaseInv
  <2> QED BY <2>1 DEF PhaseInv
<1>7. Active' \subseteq Active /\ a \in Active /\ (adder'[a] = "returned" => a \notin Active')
  BY <1>1, <1>3 DEF Active
<1>8. a \in HasArray /\ a \in HasLen /\ (part = "element" => a \in HasElement)
  BY <1>1 DEF HasArray, HasLen, HasElement
<1>9. HasArray' \subseteq HasArray /\ HasLen' \subseteq HasLen /\ HasElement' \subseteq HasElement
  BY <1>1, <1>3 DEF HasArray, HasLen, HasElement
<1>10. LiveArrays' \subseteq LiveArrays
  BY <1>1, <1>8, <1>9 DEF LiveArrays
<1>11. LiveLens' \subseteq LiveLens
  BY <1>1, <1>8, <1>9 DEF LiveLens
<1>12. Pending' \subseteq Pending
  BY <1>1, <1>9 DEF Pending
<1>13. \A x \in 1..Len(arrays) : \A n \in Nat :
         (\A l \in Pending : n < l) =>
           /\ Len(arrays'[x]) = Len(arrays[x])
           /\ \A i \in 1..n : arrays'[x][i] = arrays[x][i]
  <2> SUFFICES ASSUME NEW x \in 1..Len(arrays), NEW n \in Nat, \A l \in Pending : n < l,
                      NEW i \in 1..n
               PROVE  arrays'[x][i] = arrays[x][i]
    BY <1>1
  <2>1. part = "element" => n < slice[a].len
    BY <1>8 DEF Pending
  <2>2. ~(part = "element" /\ i = slice[a].len)
    BY <1>5, <2>1
  <2> QED BY <1>1, <2>2
<1>14. CASE a \in alone /\ adder'[a] = "returned"
  <2>1. Active = {a} /\ Active' = {}
    BY <1>7, <1>14 DEF IInv, AloneInv
  <2>0. PICK s \in 1..Len(arrays), N \in Nat : s = slice[a].array /\ N = slice[a].len
    BY <1>5
  <2>2. todo[a] = {part}
    BY <1>3, <1>14
  <2>3. keywords'.array = s /\ keywords'.len = N
    BY <2>0, <1>1, <1>7, <1>14, <2>2 DEF IInv, AloneInv
  <2>4. arrays'[s][N] = Rule(a)
    <3>1. CASE part = "element"
      BY <2>0, <1>1, <1>14, <3>1
    <3>2. CASE part # "element"
      BY <2>0, <1>1, <1>7, <1>14, <2>2, <3>2 DEF IInv, AloneInv
    <3> QED BY <3>1, <3>2
  <2>5. s \in 1..Len(arrays) /\ N \in Nat /\ 1 <= N /\ N <= Len(arrays[s])
        /\ Len(arrays'[s]) = Len(arrays[s]) /\ arrays'[s] \in Seq(Word)
        /\ Len(arrays[s]) \in Nat
    <3>1. s \in 1..Len(arrays) /\ N \in 1..Len(arrays[s])
      BY <2>0, <1>1, <1>5 DEF IInv, PhaseInv
    <3>2. Len(arrays[s]) \in Nat
      BY <1>2, <3>1, HeapFacts
    <3> QED BY <1>1, <3>1, <3>2 DEF Heap
  <2>6. LiveArrays' = {s} /\ LiveLens' = {N} /\ Pending' = {}
    <3>1. HasArray' = {} /\ HasLen' = {} /\ HasElement' = {}
      BY <2>1 DEF Active, HasArray, HasLen, HasElement
    <3> QED BY <2>3, <3>1 DEF LiveArrays, LiveLens, Pending
  <2>7. Settled' \subseteq Settled \cup {Rule(a)}
    BY <1>1, <1>3 DEF Settled
  <2>8. s \in LiveArrays /\ N \in LiveLens
    BY <1>8, <2>0 DEF LiveArrays, LiveLens
  <2>9. PICK Q \in [1..N -> Word] : \A i \in 1..N : Q[i] = arrays'[s][i]
    <3> DEFINE q == [i \in 1..N |-> arrays'[s][i]]
    <3>1. q \in [1..N -> Word] /\ \A i \in 1..N : q[i] = arrays'[s][i]
      BY <2>5
    <3> QED BY <3>1
  <2>10. PICK n \in Nat : \E P \in [1..n -> Word] : CommonAndChecked(n, P)
    BY DEF IInv, PrefixInv
  <2>11. PICK P \in [1..n -> Word] : CommonAndChecked(n, P)
    BY <2>10
  <2>12. Common(n, P)
    BY <2>11 DEF CommonAndChecked
  <2>13. \A x \in 1..Len(arrays) : \A i \in 1..n : arrays'[x][i] = arrays[x][i]
    BY <1>13, <2>12 DEF Common
  <2>14. n <= N /\ \A i \in 1..n : Q[i] = P[i]
    <3>1. n <= N /\ \A i \in 1..n : arrays[s][i] = P[i]
      BY <2>8, <2>12 DEF Common
    <3>2. \A i \in 1..n : i \in 1..N
      BY <2>5, <3>1
    <3> QED BY <2>5, <2>9, <2>13, <3>1, <3>2
  <2>15. Common(N, Q)'
    <3>1. Settled \subseteq {Q[i] : i \in 1..N}
      <4>1. \A i \in 1..n : i \in 1..N
        BY <2>5, <2>14
      <4> QED BY <2>12, <2>14, <4>1 DEF Common
    <3>2. Rule(a) \in {Q[i] : i \in 1..N}
      <4>1. N \in 1..N
        BY <2>5
      <4> QED BY <2>4, <2>9, <4>1
    <3>3. Settled' \subseteq {Q[i] : i \in 1..N}
      BY <2>7, <3>1, <3>2
    <3>4. \A x \in LiveArrays' : N <= Len(arrays'[x]) /\ \A i \in 1..N : arrays'[x][i] = Q[i]
      BY <2>5, <2>6, <2>9
    <3>5. \A l \in LiveLens' : N <= l
      BY <2>5, <2>6
    <3> QED BY <2>6, <3>3, <3>4, <3>5 DEF Common
  <2>16. ASSUME NEW m \in 0..n, Checked(m, P)
         PROVE  m \in 0..N /\ Checked(m, Q)'
    <3>1. m \in 0..N /\ \A i \in 1..m : i \in 1..n
      BY <2>5, <2>14
    <3>2. \A i \in 1..m : Q[i] = P[i]
      BY <2>14, <3>1
    <3>3. range.array \in 1..Len(arrays)
      BY <1>2, HeapFacts
    <3>4. Len(arrays'[range.array]) = Len(arrays[range.array])
          /\ \A i \in 1..m : arrays'[range.array][i] = arrays[range.array][i]
      BY <1>1, <2>13, <3>1, <3>3
    <3>5. due' \subseteq {Q[i] : i \in 1..m}
      <4>1. due \subseteq {P[i] : i \in 1..m}
        BY <2>16 DEF Checked
      <4>2. \A k \in due : \E i \in 1..m : k = Q[i]
        BY <3>2, <4>1
      <4> QED BY <1>1, <4>2
    <3>6. /\ "len" \notin unread' => m <= range'.len
          /\ "array" \notin unread' => /\ m <= Len(arrays'[range'.array])
                                       /\ \A i \in 1..m : arrays'[range'.array][i] = Q[i]
      BY <1>1, <2>16, <3>2, <3>4 DEF Checked
    <3>7. verdict' = "running" => \A i \in 1..m : i < next' => Q[i] \notin text' \cup {""}
      BY <1>1, <2>16, <3>2 DEF Checked
    <3> QED BY <3>1, <3>5, <3>6, <3>7 DEF Checked
  <2>17. verdict' # "new" => \E m \in 0..N : Checked(m, Q)'
    BY <1>1, <2>11, <2>16 DEF CommonAndChecked
  <2>18. CommonAndChecked(N, Q)'
    BY <2>15, <2>17 DEF CommonAndChecked
  <2>19. PrefixInv'
    BY <2>5, <2>9, <2>18 DEF PrefixInv
  <2>20. AloneInv'
    BY <2>1 DEF AloneInv
  <2> QED BY <1>1, <1>4, <1>6, <2>19, <2>20 DEF IInv, AddedRulesBlock
<1>15. CASE ~(a \in alone /\ adder'[a] = "returned")
  <2>1. Settled' \subseteq Settled
    BY <1>1, <1>3, <1>15 DEF Settled
  <2>2. PrefixInv'
    BY <1>1, <1>10, <1>11, <1>12, <1>13, <2>1, NothingNew DEF IInv
  <2>3. AloneInv'
    <3> SUFFICES ASSUME NEW b \in alone', b \in Active'
                 PROVE  /\ Active' = {b} /\ adder'[b] # "load"
                        /\ "array" \notin todo'[b] => slice'[b].array = keywords'.array
                        /\ "len" \notin todo'[b] => slice'[b].len = keywords'.len
                        /\ "element" \notin todo'[b] =>
                             arrays'[slice'[b].array][slice'[b].len] = Rule(b)
      BY DEF AloneInv
    <3>1. b \in alone /\ Active = {b} /\ b = a /\ Active' = {b}
      BY <1>1, <1>7 DEF IInv, AloneInv
    <3>2. /\ "array" \notin todo[a] => slice[a].array = keywords.array
          /\ "len" \notin todo[a] => slice[a].len = keywords.len
          /\ "element" \notin todo[a] => arrays[slice[a].array][slice[a].len] = Rule(a)
      BY <1>1, <1>7, <3>1 DEF IInv, AloneInv
    <3>3. "array" \notin todo'[a] => slice'[a].array = keywords'.array
      BY <1>1, <1>3, <3>2
    <3>4. "len" \notin todo'[a] => slice'[a].len = keywords'.len
      BY <1>1, <1>3, <3>2
    <3>5. "element" \notin todo'[a] => arrays'[slice'[a].array][slice'[a].len] = Rule(a)
      BY <1>1, <1>3, <3>1, <3>2
    <3>6. adder'[a] # "load"
      BY <1>3
    <3> QED BY <3>1, <3>3, <3>4, <3>5, <3>6
  <2> QED BY <1>1, <1>4, <1>6, <2>2, <2>3 DEF IInv, AddedRulesBlock
<1> QED BY <1>14, <1>15

\* Only the check moves on: what the calls and the list keep stays.
LEMMA ListStays ==
  ASSUME CheckerTypes, UNCHANGED addVars
  PROVE  /\ PhaseInv => PhaseInv'
         /\ AloneInv => AloneInv'
         /\ \A n \in Nat : \A P \in [1..n -> Word] : Common(n, P) => Common(n, P)'
         /\ HeadersOf(arrays)' = HeadersOf(arrays)
<1>1. UNCHANGED <<arrays, keywords, adder, todo, slice, alone>>
  BY DEF addVars
<1>2. Active' = Active /\ Settled' = Settled /\ HasArray' = HasArray /\ HasLen' = HasLen
      /\ HasElement' = HasElement
  BY <1>1 DEF Active, Settled, HasArray, HasLen, HasElement
<1>3. LiveArrays' = LiveArrays /\ LiveLens' = LiveLens /\ Pending' = Pending
  BY <1>1, <1>2 DEF LiveArrays, LiveLens, Pending
<1>4. PhaseInv => PhaseInv'
  BY <1>1 DEF PhaseInv
<1>5. AloneInv => AloneInv'
  BY <1>1, <1>2 DEF AloneInv
<1>6. HeadersOf(arrays)' = HeadersOf(arrays)
  BY <1>1 DEF HeadersOf
<1>7. ASSUME NEW n \in Nat, NEW P \in [1..n -> Word], Common(n, P)
      PROVE  Common(n, P)'
  BY <1>1, <1>2, <1>3, <1>7 DEF Common
<1> QED BY <1>4, <1>5, <1>6, <1>7

\* When a check begins, the rules that are due are the settled ones.
LEMMA BeginKeeps ==
  ASSUME IInv, BeginCheck
  PROVE  IInv'
<1>1. /\ UNCHANGED addVars /\ range' = range /\ verdict' = "running" /\ next' = 1
      /\ unread' = HeaderPart /\ due' = Settled
  BY DEF BeginCheck, Settled, Defaults
<1>2. CheckerTypes'
  BY <1>1, ListStays DEF IInv, CheckerTypes, addVars
<1>3. PICK n \in Nat : \E P \in [1..n -> Word] : CommonAndChecked(n, P)
  BY DEF IInv, PrefixInv
<1>4. PICK P \in [1..n -> Word] : CommonAndChecked(n, P)
  BY <1>3
<1>5. Common(n, P) /\ Common(n, P)'
  BY <1>1, <1>4, ListStays DEF CommonAndChecked, IInv
<1>6. Checked(n, P)'
  <2>1. due' \subseteq {P[i] : i \in 1..n}
    BY <1>1, <1>5 DEF Common
  <2>2. "len" \in unread' /\ "array" \in unread'
    BY <1>1 DEF HeaderPart
  <2>3. \A i \in 1..n : ~(i < next')
    BY <1>1
  <2> QED BY <2>1, <2>2, <2>3 DEF Checked
<1>7. PrefixInv'
  <2>1. n \in 0..n
    OBVIOUS
  <2> QED BY <1>5, <1>6, <2>1 DEF PrefixInv, CommonAndChecked
<1> QED BY <1>1, <1>2, <1>7, ListStays DEF IInv, AddedRulesBlock

\* A part of the header is loaded: it shows what is common.
LEMMA RangeKeeps ==
  ASSUME IInv, RangeArray \/ RangeLen
  PROVE  IInv'
<1>1. PICK part \in HeaderPart :
        /\ verdict = "running" /\ part \in unread /\ unread' = unread \ {part}
        /\ UNCHANGED <<text, verdict, next, due>> /\ UNCHANGED addVars
        /\ range'.array = IF part = "array" THEN keywords.array ELSE range.array
        /\ range'.len = IF part = "len" THEN keywords.len ELSE range.len
        /\ range' = Header(range'.array, range'.len)
  BY DEF RangeArray, RangeLen, RangePart, Header, HeaderPart
<1>2. arrays' = arrays /\ keywords' = keywords
  BY <1>1 DEF addVars
<1>3. CheckerTypes'
  <2>1. range' \in HeadersOf(arrays)
    BY <1>1 DEF IInv, CheckerTypes, HeadersOf, Header
  <2> QED BY <1>1, <2>1, ListStays DEF IInv, CheckerTypes, addVars
<1>4. PICK n \in Nat : \E P \in [1..n -> Word] : CommonAndChecked(n, P)
  BY DEF IInv, PrefixInv
<1>5. PICK P \in [1..n -> Word] : CommonAndChecked(n, P)
  BY <1>4
<1>6. Common(n, P) /\ Common(n, P)'
  BY <1>1, <1>5, ListStays DEF CommonAndChecked, IInv
<1>7. /\ n <= keywords.len /\ n <= Len(arrays[keywords.array])
      /\ \A i \in 1..n : arrays[keywords.array][i] = P[i]
      /\ keywords.len \in Nat /\ Len(arrays[keywords.array]) \in Nat
  <2>1. keywords.array \in LiveArrays /\ keywords.len \in LiveLens
    BY DEF LiveArrays, LiveLens
  <2>2. keywords.array \in 1..Len(arrays) /\ keywords.len \in Nat
        /\ Len(arrays[keywords.array]) \in Nat
    BY HeapFacts DEF IInv, CheckerTypes
  <2> QED BY <1>6, <2>1, <2>2 DEF Common
<1>8. ASSUME NEW m \in 0..n, Checked(m, P)
      PROVE  Checked(m, P)'
  <2>1. m <= n /\ \A i \in 1..m : i \in 1..n
    OBVIOUS
  <2>2. m <= keywords.len /\ m <= Len(arrays[keywords.array])
    BY <1>7, <2>1
  <2>3. "len" \notin unread' => m <= range'.len
    BY <1>1, <1>8, <2>2 DEF Checked
  <2>4. "array" \notin unread' => /\ m <= Len(arrays'[range'.array])
                                  /\ \A i \in 1..m : arrays'[range'.array][i] = P[i]
    <3>1. CASE part = "array"
      BY <1>1, <1>2, <1>7, <2>1, <2>2, <3>1
    <3>2. CASE part # "array"
      BY <1>1, <1>2, <1>8, <3>2 DEF Checked
    <3> QED BY <3>1, <3>2
  <2> QED BY <1>1, <1>8, <2>3, <2>4 DEF Checked
<1>9. PrefixInv'
  BY <1>1, <1>5, <1>6, <1>8 DEF PrefixInv, CommonAndChecked
<1> QED BY <1>1, <1>3, <1>9, ListStays DEF IInv, AddedRulesBlock

\* A place that is common and does not block holds no word of the text.
LEMMA CompareKeeps ==
  ASSUME IInv, CheckKeyword
  PROVE  IInv'
<1>1. /\ verdict = "running" /\ unread = {} /\ next <= range.len /\ next' = next + 1
      /\ UNCHANGED <<text, range, unread, due>> /\ UNCHANGED addVars
      /\ \/ verdict' \in {"blocked", "crashed"}
         \/ ~Matches(Place(arrays, range, next)) /\ verdict' = "running"
  BY DEF CheckKeyword
<1>2. arrays' = arrays /\ range \in HeadersOf(arrays) /\ next \in Nat
      /\ Len(arrays[range.array]) \in Nat
  BY <1>1, HeapFacts DEF addVars, IInv, CheckerTypes
<1>3. CheckerTypes'
  BY <1>1, <1>2, ListStays DEF IInv, CheckerTypes, addVars
<1>4. PICK n \in Nat : \E P \in [1..n -> Word] : CommonAndChecked(n, P)
  BY DEF IInv, PrefixInv
<1>5. PICK P \in [1..n -> Word] : CommonAndChecked(n, P)
  BY <1>4
<1>6. Common(n, P)'
  BY <1>1, <1>5, ListStays DEF CommonAndChecked, IInv
<1>7. ASSUME NEW m \in 0..n, Checked(m, P)
      PROVE  Checked(m, P)'
  <2>1. /\ m <= Len(arrays[range.array])
        /\ \A i \in 1..m : arrays[range.array][i] = P[i]
    BY <1>1, <1>7 DEF Checked
  <2>2. ASSUME verdict' = "running", NEW i \in 1..m, i < next'
        PROVE  P[i] \notin text' \cup {""}
    <3>1. CASE i < next
      BY <1>1, <1>7, <3>1 DEF Checked
    <3>2. CASE i = next
      <4>1. Place(arrays, range, next) = P[i]
        BY <1>2, <2>1, <3>2 DEF Place
      <4> QED BY <1>1, <2>2, <4>1 DEF Matches
    <3>3. i < next \/ i = next
      BY <1>1, <1>2, <2>2
    <3> QED BY <3>1, <3>2, <3>3
  <2> QED BY <1>1, <1>2, <1>7, <2>2 DEF Checked
<1>8. PrefixInv'
  BY <1>1, <1>5, <1>6, <1>7 DEF PrefixInv, CommonAndChecked
<1> QED BY <1>1, <1>3, <1>8, ListStays DEF IInv, AddedRulesBlock

\* A check that reaches the end has compared every rule that was due.
LEMMA EndKeeps ==
  ASSUME IInv, EndCheck
  PROVE  IInv'
<1>1. /\ verdict = "running" /\ unread = {} /\ next > range.len /\ verdict' = "passed"
      /\ UNCHANGED <<text, range, unread, next, due>> /\ UNCHANGED addVars
  BY DEF EndCheck
<1>2. arrays' = arrays /\ range.len \in Nat /\ next \in Nat
  BY <1>1, HeapFacts DEF addVars, IInv, CheckerTypes
<1>3. CheckerTypes'
  BY <1>1, ListStays DEF IInv, CheckerTypes, addVars
<1>4. PICK n \in Nat : \E P \in [1..n -> Word] : CommonAndChecked(n, P)
  BY DEF IInv, PrefixInv
<1>5. PICK P \in [1..n -> Word] : CommonAndChecked(n, P)
  BY <1>4
<1>6. Common(n, P)'
  BY <1>1, <1>5, ListStays DEF CommonAndChecked, IInv
<1>7. PICK m \in 0..n : Checked(m, P)
  BY <1>1, <1>5 DEF CommonAndChecked
<1>8. Checked(m, P)'
  BY <1>1, <1>2, <1>7 DEF Checked
<1>9. PrefixInv'
  BY <1>1, <1>6, <1>8 DEF PrefixInv, CommonAndChecked
<1>10. AddedRulesBlock'
  <2>1. m <= range.len
    BY <1>1, <1>7 DEF Checked
  <2>2. \A i \in 1..m : i < next
    BY <1>1, <1>2, <2>1
  <2>3. \A i \in 1..m : P[i] \notin text \cup {""}
    BY <1>1, <1>7, <2>2 DEF Checked
  <2>4. due \subseteq {P[i] : i \in 1..m}
    BY <1>7 DEF Checked
  <2>5. due \cap (text \cup {""}) = {}
    BY <2>3, <2>4
  <2> QED BY <1>1, <2>5 DEF AddedRulesBlock
<1> QED BY <1>1, <1>3, <1>9, <1>10, ListStays DEF IInv

\* The invariant of the checker is inductive.
THEOREM CheckerInductive == RulesSpec => []IInv
<1>1. IInv /\ [RulesNext]_checkerVars => IInv'
  <2> SUFFICES ASSUME IInv, [RulesNext]_checkerVars PROVE IInv'
    OBVIOUS
  <2>1. CASE RulesNext
    <3>1. CASE \E a \in Adder : LoadArray(a) \/ LoadLen(a)
      BY <3>1, LoadKeeps
    <3>2. CASE \E a \in Adder : AppendRule(a)
      BY <3>2, AppendKeeps
    <3>3. CASE \E a \in Adder : StoreLen(a) \/ StoreArray(a) \/ StoreElement(a)
      BY <3>3, StoreKeeps
    <3>4. CASE BeginCheck
      BY <3>4, BeginKeeps
    <3>5. CASE RangeArray \/ RangeLen
      BY <3>5, RangeKeeps
    <3>6. CASE CheckKeyword
      BY <3>6, CompareKeeps
    <3>7. CASE EndCheck
      BY <3>7, EndKeeps
    <3> QED BY <2>1, <3>1, <3>2, <3>3, <3>4, <3>5, <3>6, <3>7 DEF RulesNext
  <2>2. CASE UNCHANGED checkerVars
    <3>1. UNCHANGED addVars /\ UNCHANGED <<text, verdict, range, unread, next, due>>
      BY <2>2 DEF checkerVars, checkVars
    <3>2. CheckerTypes' /\ AddedRulesBlock'
      BY <3>1, ListStays DEF IInv, CheckerTypes, addVars, AddedRulesBlock
    <3>3. PrefixInv'
      <4>1. UNCHANGED <<arrays, keywords, adder, todo, slice, alone>>
        BY <3>1 DEF addVars
      <4>2. Settled' = Settled /\ HasArray' = HasArray /\ HasLen' = HasLen
            /\ HasElement' = HasElement
        BY <4>1 DEF Settled, HasArray, HasLen, HasElement
      <4>3. LiveArrays' = LiveArrays /\ LiveLens' = LiveLens /\ Pending' = Pending
        BY <4>1, <4>2 DEF LiveArrays, LiveLens, Pending
      <4> QED BY <3>1, <4>1, <4>2, <4>3, ArraysSame, NothingNew DEF IInv
    <3> QED BY <3>1, <3>2, <3>3, ListStays DEF IInv
  <2> QED BY <2>1, <2>2
<1> QED BY <1>1, CheckerStarts, PTL DEF RulesSpec

\* However many AddRules race with each other and with the check, a text that
\* passes contains no default keyword and no rule that was added alone before
\* the check began.
THEOREM RulesBlock == RulesSpec => []AddedRulesBlock
<1>1. IInv => AddedRulesBlock
  BY DEF IInv
<1> QED BY <1>1, CheckerInductive, PTL

==============================================================================
