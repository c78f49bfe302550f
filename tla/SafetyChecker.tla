---------------------------- MODULE SafetyChecker ----------------------------
(***************************************************************************)
(* SafetyRuleChecker (internal/safety/checker.go): AddRule appends to the  *)
(* list of blocked keywords that CheckPrompt and CheckResponse range over, *)
(* and nothing orders the two.  A text is the set of the lower-case words  *)
(* it contains.                                                            *)
(***************************************************************************)
EXTENDS GoSlice, FiniteSets

CONSTANTS Adder,    \* the calls of AddRule
          RuleOf,   \* the rule each call adds, as it is spelt
          ToLower,  \* strings.ToLower on the rules
          Default   \* the keywords of loadDefaultRules, in order

Keyword == {ToLower[RuleOf[a]] : a \in Adder} \cup {Default[i] : i \in DOMAIN Default}

ASSUME RuleAssumption ==
  /\ \A a \in Adder : RuleOf[a] \in DOMAIN ToLower
  /\ Default \in Seq(Keyword)
  /\ Garbage \notin Keyword

VARIABLES
  arrays,    \* the arrays that rule lists live in
  keywords,  \* the header of BlockedKeywords
  adder,     \* each AddRule: new, load, store or returned
  todo,      \* what it still has to load, or to store
  slice,     \* the header it loads, then the one it stores
  alone,     \* the calls that no other AddRule has overlapped
  text,      \* what is checked
  verdict,   \* of the check: new, running, passed, blocked or crashed
  range,     \* the header the check ranges over
  unread,    \* what it still has to load of it
  next,      \* the loop's index
  due        \* the rules that had been added when the check began

checkVars == <<text, verdict, range, unread, next, due>>
addVars == <<arrays, keywords, adder, todo, slice, alone>>
checkerVars == <<addVars, checkVars>>

\* The words of memory that a header is read and written in, one by one.
HeaderPart == {"array", "len"}

Rule(a) == ToLower[RuleOf[a]]
Active == {a \in Adder : adder[a] \in {"load", "store"}}

-----------------------------------------------------------------------------
(* Deliberately wrong variants of definitions below, one per plausible bug.  *)
(* No specification uses them; they show what each property can detect.      *)
AppendRule_Prepend(a) ==                \* append([]string{rule}, list...)
  /\ adder[a] = "load" /\ todo[a] = {}
  /\ arrays' = Append(arrays, <<Rule(a)>> \o View(arrays, slice[a]))
  /\ slice' = [slice EXCEPT ![a] = Header(Len(arrays) + 1, @.len + 1)]
  /\ todo' = [todo EXCEPT ![a] = HeaderPart]
  /\ adder' = [adder EXCEPT ![a] = "store"]
  /\ UNCHANGED <<keywords, alone, checkVars>>

-----------------------------------------------------------------------------
\* strings.Contains(text, keyword): the empty keyword is in every text.
Matches(keyword) == keyword \in text \cup {""}

RulesInit == /\ arrays = <<Default>>
             /\ keywords = Header(1, Len(Default))
             /\ adder = [a \in Adder |-> "new"]
             /\ todo = [a \in Adder |-> HeaderPart]
             /\ slice = [a \in Adder |-> Header(1, 0)]
             /\ alone = Adder
             /\ text = {}
             /\ verdict = "new"
             /\ range = Header(1, 0)
             /\ unread = {}
             /\ next = 1
             /\ due = {}

\* AddRule loads the slice, array and length in any order (that ends the time
\* alone of all that are under way), ...
LoadPart(a, part, header) ==
  /\ adder[a] \in {"new", "load"} /\ part \in todo[a]
  /\ adder' = [adder EXCEPT ![a] = "load"]
  /\ todo' = [todo EXCEPT ![a] = @ \ {part}]
  /\ slice' = [slice EXCEPT ![a] = header]
  /\ alone' = IF Active \subseteq {a} THEN alone ELSE alone \ (Active \cup {a})
  /\ UNCHANGED <<arrays, keywords, checkVars>>
LoadArray(a) == LoadPart(a, "array", Header(keywords.array, slice[a].len))
LoadLen(a) == LoadPart(a, "len", Header(slice[a].array, keywords.len))

\* ... allocates an array if there is no room, the new place still unwritten, ...
AppendRule(a) ==
  /\ adder[a] = "load" /\ todo[a] = {}
  /\ arrays' = IF Room(arrays, slice[a]) THEN arrays
               ELSE Append(arrays, Copy(arrays, slice[a], Garbage))
  /\ slice' = [slice EXCEPT ![a] = AppendHeader(arrays, @)]
  /\ todo' = [todo EXCEPT ![a] = {"len", "element"} \cup
                                   IF Room(arrays, slice[a]) THEN {} ELSE {"array"}]
  /\ adder' = [adder EXCEPT ![a] = "store"]
  /\ UNCHANGED <<keywords, alone, checkVars>>

\* ... and stores, in any order, the length, the array if that is new, and the
\* element.
StorePart(a, part) ==
  /\ adder[a] = "store" /\ part \in todo[a]
  /\ todo' = [todo EXCEPT ![a] = @ \ {part}]
  /\ adder' = IF todo[a] = {part} THEN [adder EXCEPT ![a] = "returned"] ELSE adder
  /\ UNCHANGED <<slice, alone, checkVars>>

StoreLen(a) == /\ StorePart(a, "len")
               /\ keywords' = Header(keywords.array, slice[a].len)
               /\ UNCHANGED arrays
StoreArray(a) == /\ StorePart(a, "array")
                 /\ keywords' = Header(slice[a].array, keywords.len)
                 /\ UNCHANGED arrays
\* Two that race for one place may leave the text of neither.
Raced(a) == a \notin alone /\ \E b \in Adder \ {a} :
               adder[b] \in {"store", "returned"} /\ slice[b] = slice[a]
StoreElement(a) ==
  /\ StorePart(a, "element")
  /\ \E e \in {Rule(a)} \cup (IF Raced(a) THEN {Garbage} ELSE {}) :
       arrays' = [arrays EXCEPT ![slice[a].array][slice[a].len] = e]
  /\ UNCHANGED keywords

\* CheckPrompt or CheckResponse, at any moment: the range loop copies the slice
\* first, it too array and length in any order. Bound: one keyword in the text.
BeginCheck == /\ verdict = "new"
              /\ verdict' = "running"
              /\ text' \in {{k} : k \in Keyword \ {""}}
              /\ unread' = HeaderPart
              /\ next' = 1
              /\ due' = {Default[i] : i \in DOMAIN Default} \cup
                   {Rule(a) : a \in {b \in alone : adder[b] = "returned"}}
              /\ UNCHANGED <<range, addVars>>

RangePart(part, header) ==
  /\ verdict = "running" /\ part \in unread
  /\ unread' = unread \ {part}
  /\ range' = header
  /\ UNCHANGED <<text, verdict, next, due, addVars>>
RangeArray == RangePart("array", Header(keywords.array, range.len))
RangeLen == RangePart("len", Header(range.array, keywords.len))

\* One keyword. What was never written, or lies behind an array, is no string: to
\* compare with it may match, not match or end the process.
CheckKeyword ==
  /\ verdict = "running" /\ unread = {}
  /\ next <= range.len
  /\ LET k == Place(arrays, range, next) IN
       \/ Matches(k) /\ verdict' = "blocked"
       \/ k = Garbage /\ verdict' \in {"blocked", "crashed"}
       \/ ~Matches(k) /\ UNCHANGED verdict
  /\ next' = next + 1
  /\ UNCHANGED <<text, range, unread, due, addVars>>

EndCheck == /\ verdict = "running" /\ unread = {}
            /\ next > range.len
            /\ verdict' = "passed"
            /\ UNCHANGED <<text, range, unread, next, due, addVars>>

RulesNext == \/ \E a \in Adder : \/ LoadArray(a) \/ LoadLen(a) \/ AppendRule(a)
                                 \/ StoreLen(a) \/ StoreArray(a) \/ StoreElement(a)
             \/ BeginCheck \/ RangeArray \/ RangeLen \/ CheckKeyword \/ EndCheck

RulesSpec == RulesInit /\ [][RulesNext]_checkerVars

-----------------------------------------------------------------------------
\* What passes contains no default keyword, whatever races with the check, and
\* no rule whose AddRule returned before the check began without another AddRule
\* at the same time, in whatever case it was given (checker.go:27-35, :64-66).
\* Of two calls that overlap one rule may be lost.
AddedRulesBlock == verdict = "passed" => due \cap (text \cup {""}) = {}

==============================================================================
