--------------------------- MODULE StandaloneProofs ---------------------------
(***************************************************************************)
(* Two components that run alone.  The precedence of the configuration and *)
(* the default of the operator's gate, for every set of variables, texts   *)
(* and lines; the rounding of the quote tool, for all prices and scales.   *)
(***************************************************************************)
EXTENDS Config, MarketTools, TLAPS

T == "TRANSACTION_THRESHOLD_INR"

\* The types that the two theorems about the configuration need.
EnvInv == /\ env \in [Key -> Texts \cup {Absent}]
          /\ shell \in [Key -> Texts \cup {Absent}]
          /\ read \in Seq(Assignment)
          /\ status \in {"start", "reading", "loaded", "failed"}

\* The settings of a loaded configuration come from the environment.
LoadedInv ==
  status = "loaded" =>
    /\ settings.provider = ProviderOf(getEnvOr("LLM_PROVIDER", DefaultSettings.provider))
    /\ settings.workers = getEnvInt("MAX_WORKERS", DefaultSettings.workers)
    /\ settings.threshold = getEnvFloat(T, DefaultSettings.threshold)

\* The value of a line is its text or a comment, hence not Absent.
LEMMA LineValue ==
  ASSUME NEW a \in Assignment
  PROVE  ValueOf(a) \in {a.text, Comment} /\ ValueOf(a) \in Texts /\ a.text \in Texts
  BY DEF Assignment, ValueOf, Texts

\* The lines of ConfigNext are assignments.
LEMMA LineType ==
  ASSUME NEW k \in Key, NEW t \in Text[k], NEW c \in BOOLEAN
  PROVE  [key |-> k, text |-> t, comment |-> c] \in Assignment
<1>1. t \in Texts
  BY DEF Texts, Key
<1> QED BY <1>1 DEF Assignment

\* Every line of the file keeps the types.
LEMMA EnvInvariant == ConfigSpec => []EnvInv
<1>1. ConfigInit => EnvInv
  BY DEF ConfigInit, EnvInv
<1>2. EnvInv /\ [ConfigNext]_configVars => EnvInv'
  <2> SUFFICES ASSUME EnvInv, [ConfigNext]_configVars PROVE EnvInv'
    OBVIOUS
  <2>1. ASSUME NEW a \in Assignment, ExportLine(a) PROVE EnvInv'
    <3>1. read' \in Seq(Assignment)
      BY <2>1 DEF ExportLine, EnvInv
    <3>2. env' \in [Key -> Texts \cup {Absent}]
      <4>1. ValueOf(a) \in Texts
        BY LineValue
      <4>2. env' = [env EXCEPT ![a.key] = ValueOf(a)] \/ env' = env
        BY <2>1 DEF ExportLine
      <4> HIDE <2>1
      <4> QED BY <4>1, <4>2 DEF EnvInv
    <3> QED BY <2>1, <3>1, <3>2 DEF ExportLine, EnvInv
  <2>2. CASE Open \/ NoFile \/ OpenError \/ SkipLine \/ BadLine \/ EndOfFile
    BY <2>2 DEF Open, NoFile, OpenError, SkipLine, BadLine, EndOfFile, Build, LoadFails,
                Line, EnvInv
  <2>3. CASE UNCHANGED configVars
    BY <2>3 DEF configVars, EnvInv
  <2> QED BY <2>1, <2>2, <2>3, LineType DEF ConfigNext
<1> QED BY <1>1, <1>2, PTL DEF ConfigSpec

-----------------------------------------------------------------------------
\* What Given says, for a variable k that is s in the shell, after the lines r.
GivenBy(k, s, r) ==
  IF s # Absent THEN {s}
  ELSE IF \A i \in DOMAIN r : r[i].key # k THEN {Absent}
  ELSE UNION {{r[i].text} \cup IF r[i].text = "" /\ r[i].comment THEN {Comment} ELSE {} :
                i \in {i \in DOMAIN r : /\ r[i].key = k
                                        /\ \A j \in 1..(i - 1) : r[j].key # k}}

\* Where such a value is from: nowhere, or the first line for k.
FromLine(e, k, r, i) ==
  /\ r[i].key = k /\ \A j \in 1..(i - 1) : r[j].key # k
  /\ e = r[i].text \/ (e = Comment /\ r[i].text = "" /\ r[i].comment)
From(e, k, r) ==
  \/ e = Absent /\ \A i \in DOMAIN r : r[i].key # k
  \/ \E i \in DOMAIN r : FromLine(e, k, r, i)

\* The first part of Precedence.
EnvGiven == \A k \in Key : env[k] \in GivenBy(k, shell[k], read)

\* Given, of the variables of the module.
LEMMA GivenMeans == \A k : Given(k) = GivenBy(k, shell[k], read)
  BY DEF Given, GivenBy

\* The value of a line is one of those that Given names for it.
LEMMA LineGiven ==
  ASSUME NEW a
  PROVE  ValueOf(a) \in {a.text} \cup IF a.text = "" /\ a.comment THEN {Comment} ELSE {}
  BY DEF ValueOf

\* A variable that the first line for it gave a value is given none but that.
LEMMA FirstGiven ==
  ASSUME NEW k, NEW r, NEW i \in DOMAIN r, r[i].key = k,
         \A j \in 1..(i - 1) : r[j].key # k, ValueOf(r[i]) \in Texts
  PROVE  ValueOf(r[i]) \in GivenBy(k, Absent, r)
<1>1. GivenBy(k, Absent, r)
        = UNION {{r[m].text} \cup IF r[m].text = "" /\ r[m].comment THEN {Comment} ELSE {} :
                   m \in {m \in DOMAIN r : /\ r[m].key = k
                                           /\ \A j \in 1..(m - 1) : r[j].key # k}}
  BY DEF GivenBy
<1>2. ValueOf(r[i]) \in {r[i].text} \cup IF r[i].text = "" /\ r[i].comment
                                         THEN {Comment} ELSE {}
  BY LineGiven
<1> QED BY <1>1, <1>2

\* In both cases that Given tells apart, what an absent variable is given comes
\* from the first line for it.
LEMMA GivenFrom ==
  ASSUME NEW k, NEW r, NEW e \in GivenBy(k, Absent, r)
  PROVE  From(e, k, r)
<1>1. CASE \A i \in DOMAIN r : r[i].key # k
  BY <1>1 DEF GivenBy, From
<1>2. CASE ~ \A i \in DOMAIN r : r[i].key # k
  <2>1. e \in UNION {{r[m].text} \cup IF r[m].text = "" /\ r[m].comment THEN {Comment} ELSE {} :
                       m \in {m \in DOMAIN r : /\ r[m].key = k
                                               /\ \A j \in 1..(m - 1) : r[j].key # k}}
    BY <1>2 DEF GivenBy
  <2>2. PICK i \in DOMAIN r : /\ r[i].key = k /\ \A j \in 1..(i - 1) : r[j].key # k
                              /\ e \in {r[i].text} \cup IF r[i].text = "" /\ r[i].comment
                                                        THEN {Comment} ELSE {}
    BY <2>1
  <2>3. e = r[i].text \/ (e = Comment /\ r[i].text = "" /\ r[i].comment)
    <3> DEFINE b == r[i].text = "" /\ r[i].comment
    <3>1. e \in {r[i].text} \cup IF b THEN {Comment} ELSE {}
      BY <2>2
    <3> HIDE DEF b
    <3>2. e = r[i].text \/ (e = Comment /\ b)
      <4>1. CASE b
        BY <3>1, <4>1
      <4>2. CASE ~b
        BY <3>1, <4>2
      <4> QED BY <4>1, <4>2
    <3> QED BY <3>2 DEF b
  <2> QED BY <2>2, <2>3, Zenon DEF From, FromLine
<1> QED BY <1>1, <1>2

\* A line appended gives what was missing, and changes nothing that was given.
LEMMA AppendGiven ==
  ASSUME NEW k \in Key, NEW r \in Seq(Assignment), NEW a \in Assignment,
         NEW e \in GivenBy(k, Absent, r), Absent \notin Texts
  PROVE  LET s == Append(r, a)
         IN  /\ e # Absent \/ a.key # k => e \in GivenBy(k, Absent, s)
             /\ e = Absent /\ a.key = k => ValueOf(a) \in GivenBy(k, Absent, s)
<1> DEFINE s == Append(r, a)
<1>1. /\ Len(r) \in Nat /\ DOMAIN r = 1..Len(r) /\ DOMAIN s = 1..(Len(r) + 1)
      /\ s[Len(r) + 1] = a /\ \A i \in 1..Len(r) : s[i] = r[i]
  OBVIOUS
<1> HIDE DEF s
<1>2. CASE e = Absent /\ \A i \in DOMAIN r : r[i].key # k
  <2>1. CASE a.key = k
    <3>1. Len(r) + 1 \in DOMAIN s /\ s[Len(r) + 1].key = k
          /\ \A j \in 1..((Len(r) + 1) - 1) : s[j].key # k
      BY <1>1, <1>2, <2>1
    <3>2. ValueOf(s[Len(r) + 1]) \in Texts
      BY <1>1, LineValue
    <3>3. ValueOf(s[Len(r) + 1]) \in GivenBy(k, Absent, s)
      BY <3>1, <3>2, FirstGiven
    <3> QED BY <1>1, <1>2, <2>1, <3>3 DEF s
  <2>2. CASE a.key # k
    <3>1. \A i \in DOMAIN s : s[i].key # k
      BY <1>1, <1>2, <2>2
    <3> QED BY <1>2, <2>2, <3>1 DEF GivenBy, s
  <2> QED BY <2>1, <2>2
<1>3. ASSUME NEW i \in DOMAIN r, r[i].key = k, \A j \in 1..(i - 1) : r[j].key # k,
             e = r[i].text \/ (e = Comment /\ r[i].text = "" /\ r[i].comment)
      PROVE  e # Absent /\ e \in GivenBy(k, Absent, s)
  <2>1. i \in DOMAIN s /\ s[i] = r[i] /\ \A j \in 1..(i - 1) : s[j] = r[j]
    BY <1>1
  <2>2. GivenBy(k, Absent, s)
          = UNION {{s[m].text} \cup IF s[m].text = "" /\ s[m].comment THEN {Comment} ELSE {} :
                     m \in {m \in DOMAIN s : /\ s[m].key = k
                                             /\ \A j \in 1..(m - 1) : s[j].key # k}}
    BY <1>3, <2>1 DEF GivenBy
  <2>3. e \in {s[i].text} \cup IF s[i].text = "" /\ s[i].comment THEN {Comment} ELSE {}
    BY <1>3, <2>1
  <2>6. i \in {m \in DOMAIN s : s[m].key = k /\ \A j \in 1..(m - 1) : s[j].key # k}
    BY <1>3, <2>1
  <2>7. e \in GivenBy(k, Absent, s)
    BY <2>2, <2>3, <2>6
  <2>4. r[i] \in Assignment
    BY <1>1
  <2>5. r[i].text \in Texts /\ Comment \in Texts
    BY <2>4 DEF Assignment, Texts
  <2> QED BY <1>3, <2>5, <2>7
<1>4. From(e, k, r)
  BY GivenFrom
<1>5. ASSUME NEW i \in DOMAIN r, FromLine(e, k, r, i)
      PROVE  /\ e # Absent \/ a.key # k => e \in GivenBy(k, Absent, Append(r, a))
             /\ e = Absent /\ a.key = k => ValueOf(a) \in GivenBy(k, Absent, Append(r, a))
  BY <1>3, <1>5 DEF s, FromLine
<1> QED BY <1>2, <1>4, <1>5 DEF From

\* Every line of the file keeps the environment what it has to be.
LEMMA EnvGivenInvariant == ConfigSpec => []EnvGiven
<1>1. ConfigInit => EnvGiven
  BY DEF ConfigInit, EnvGiven, GivenBy
<1>2. EnvInv /\ EnvGiven /\ [ConfigNext]_configVars => EnvGiven'
  <2> SUFFICES ASSUME EnvInv, EnvGiven, [ConfigNext]_configVars, NEW k \in Key
               PROVE  env'[k] \in GivenBy(k, shell'[k], read')
    BY DEF EnvGiven, GivenBy
  <2>1. ASSUME NEW a \in Assignment, ExportLine(a)
        PROVE  env'[k] \in GivenBy(k, shell'[k], read')
    <3>1. read' = Append(read, a) /\ shell' = shell /\ read \in Seq(Assignment)
      BY <2>1 DEF ExportLine, EnvInv
    <3>2. env' = IF env[a.key] = Absent THEN [env EXCEPT ![a.key] = ValueOf(a)] ELSE env
      BY <2>1 DEF ExportLine, Free
    <3>3. env[k] \in GivenBy(k, shell[k], read)
      BY DEF EnvGiven
    <3>4. CASE shell[k] # Absent
      <4>1. env[k] = shell[k]
        BY <3>3, <3>4 DEF GivenBy
      <4>2. env'[k] = env[k]
        BY <3>2, <3>4, <4>1 DEF EnvInv
      <4> QED BY <3>1, <3>4, <4>1, <4>2 DEF GivenBy
    <3>5. CASE shell[k] = Absent
      <4>1. /\ env[k] # Absent \/ a.key # k => env[k] \in GivenBy(k, Absent, read')
            /\ env[k] = Absent /\ a.key = k => ValueOf(a) \in GivenBy(k, Absent, read')
        BY <3>1, <3>3, <3>5, AppendGiven, TextAssumption
      <4>2. env'[k] = IF env[k] = Absent /\ a.key = k THEN ValueOf(a) ELSE env[k]
        BY <3>2 DEF EnvInv
      <4> QED BY <3>1, <3>5, <4>1, <4>2
    <3> QED BY <3>4, <3>5
  <2>2. CASE UNCHANGED <<env, shell, read>>
    BY <2>2 DEF EnvGiven
  <2>3. CASE Open \/ NoFile \/ OpenError \/ SkipLine \/ BadLine \/ EndOfFile
    BY <2>2, <2>3 DEF Open, NoFile, OpenError, SkipLine, BadLine, EndOfFile, Build,
                      LoadFails, Line
  <2> QED BY <2>1, <2>2, <2>3, LineType DEF ConfigNext, configVars
<1> QED BY <1>1, <1>2, EnvInvariant, PTL DEF ConfigSpec

\* The settings are what the environment said at the end, which nothing changes then.
LEMMA LoadedInvariant == ConfigSpec => []LoadedInv
<1>1. ConfigInit => LoadedInv
  BY DEF ConfigInit, LoadedInv
<1>2. LoadedInv /\ [ConfigNext]_configVars => LoadedInv'
  <2> SUFFICES ASSUME LoadedInv, [ConfigNext]_configVars PROVE LoadedInv'
    OBVIOUS
  <2>1. CASE NoFile \/ EndOfFile
    <3>1. env' = env /\ settings' =
            [provider |-> ProviderOf(getEnvOr("LLM_PROVIDER", DefaultSettings.provider)),
             workers |-> getEnvInt("MAX_WORKERS", DefaultSettings.workers),
             threshold |-> getEnvFloat(T, DefaultSettings.threshold)]
      BY <2>1 DEF NoFile, EndOfFile, Build, T
    <3>2. /\ ProviderOf(getEnvOr("LLM_PROVIDER", DefaultSettings.provider))'
               = ProviderOf(getEnvOr("LLM_PROVIDER", DefaultSettings.provider))
          /\ getEnvInt("MAX_WORKERS", DefaultSettings.workers)'
               = getEnvInt("MAX_WORKERS", DefaultSettings.workers)
          /\ getEnvFloat(T, DefaultSettings.threshold)'
               = getEnvFloat(T, DefaultSettings.threshold)
      BY <3>1 DEF getEnvOr, getEnvInt, getEnvFloat, DefaultSettings, ProviderOf
    <3> QED BY <3>1, <3>2 DEF LoadedInv
  <2>2. CASE Open \/ OpenError \/ BadLine
    BY <2>2 DEF Open, OpenError, BadLine, LoadFails, LoadedInv
  <2>3. ASSUME NEW a, ExportLine(a) PROVE LoadedInv'
    BY <2>3 DEF ExportLine, Line, LoadedInv
  <2>4. CASE SkipLine
    BY <2>4 DEF SkipLine, Line, LoadedInv
  <2>5. CASE UNCHANGED configVars
    BY <2>5 DEF configVars, LoadedInv, getEnvOr, getEnvInt, getEnvFloat,
                DefaultSettings, ProviderOf
  <2> QED BY <2>1, <2>2, <2>3, <2>4, <2>5 DEF ConfigNext
<1> QED BY <1>1, <1>2, PTL DEF ConfigSpec

\* For all variables and files: the shell wins over the file, the first line over
\* the ones after it, and both over the defaults, down to the settings.
THEOREM PrecedenceHolds == ConfigSpec => []Precedence
<1>1. EnvInv /\ EnvGiven /\ LoadedInv => Precedence
  <2> SUFFICES ASSUME EnvInv, EnvGiven, LoadedInv PROVE Precedence
    OBVIOUS
  <2>1. \A k \in Key : env[k] \in Given(k)
    BY GivenMeans DEF EnvGiven
  <2>2. ASSUME status = "loaded"
        PROVE  /\ \E v \in Given("LLM_PROVIDER") :
                    settings.provider =
                      ProviderOf(IF v \in {Absent, ""} THEN DefaultSettings.provider ELSE v)
               /\ \E v \in Given("MAX_WORKERS") :
                    settings.workers =
                      IF v \in DOMAIN IntOf THEN IntOf[v] ELSE DefaultSettings.workers
               /\ \E v \in Given(T) :
                    settings.threshold =
                      IF v \in DOMAIN FloatOf THEN FloatOf[v] ELSE DefaultSettings.threshold
    <3>1. /\ env["LLM_PROVIDER"] \in Given("LLM_PROVIDER")
          /\ env["MAX_WORKERS"] \in Given("MAX_WORKERS")
          /\ env[T] \in Given(T)
      BY <2>1, KeyAssumption DEF T
    <3> QED BY <2>2, <3>1 DEF LoadedInv, getEnvOr, getEnvInt, getEnvFloat
  <2> QED BY <2>1, <2>2 DEF Precedence, T
<1> QED BY <1>1, EnvInvariant, EnvGivenInvariant, LoadedInvariant, PTL

\* For all texts and amounts: only a number that was written down opens the gate.
THEOREM GateAlwaysHolds == ConfigSpec => []GateHolds
<1>1. EnvInv /\ EnvGiven /\ LoadedInv => GateHolds
  <2> SUFFICES ASSUME EnvInv, EnvGiven, LoadedInv, status = "loaded",
                      NEW a \in Amount, a > DefaultSettings.threshold.val, ~Gated(a)
               PROVE  \E t \in {shell[T]} \cup {read[i].text :
                                  i \in {j \in DOMAIN read : read[j].key = T}} :
                        t \in DOMAIN FloatOf /\ (FloatOf[t].nan \/ a <= FloatOf[t].val)
    BY DEF GateHolds, T
  <2>1. T \in Key
    BY KeyAssumption DEF T
  <2>2. settings.threshold = getEnvFloat(T, DefaultSettings.threshold)
    BY DEF LoadedInv
  <2>3. a \in Int /\ DefaultSettings.threshold = [nan |-> FALSE, val |-> 500]
    BY TextAssumption DEF DefaultSettings
  <2>4. CASE env[T] \notin DOMAIN FloatOf
    BY <2>2, <2>3, <2>4 DEF getEnvFloat, Gated
  <2>5. CASE env[T] \in DOMAIN FloatOf
    <3>1. FloatOf[env[T]].nan \/ a <= FloatOf[env[T]].val
      <4>1. FloatOf[env[T]] \in Float
        BY <2>5, ParseAssumption
      <4>2. settings.threshold = FloatOf[env[T]]
        BY <2>2, <2>5 DEF getEnvFloat
      <4> QED BY <2>3, <4>1, <4>2 DEF Gated, Float
    <3>2. env[T] \in GivenBy(T, shell[T], read)
      BY <2>1 DEF EnvGiven
    <3>3. CASE shell[T] # Absent
      BY <2>5, <3>1, <3>2, <3>3 DEF GivenBy
    <3>4. CASE shell[T] = Absent
      <4>1. CASE env[T] = shell[T]
        BY <2>5, <3>1, <4>1
      <4>2. ASSUME NEW i \in DOMAIN read, read[i].key = T,
                   env[T] = read[i].text \/ env[T] = Comment
            PROVE  \E t \in {shell[T]} \cup {read[n].text :
                               n \in {j \in DOMAIN read : read[j].key = T}} :
                     t \in DOMAIN FloatOf /\ (FloatOf[t].nan \/ a <= FloatOf[t].val)
        <5>1. env[T] = read[i].text
          BY <2>5, <4>2, ParseAssumption
        <5> QED BY <2>5, <3>1, <4>2, <5>1
      <4>3. \/ env[T] = Absent
            \/ \E i \in DOMAIN read :
                 read[i].key = T /\ (env[T] = read[i].text \/ env[T] = Comment)
        <5>1. env[T] \in GivenBy(T, Absent, read)
          BY <3>2, <3>4
        <5>2. From(env[T], T, read)
          BY <5>1, GivenFrom
        <5> QED BY <5>2 DEF From, FromLine
      <4> QED BY <3>4, <4>1, <4>2, <4>3
    <3> QED BY <3>3, <3>4
  <2> QED BY <2>4, <2>5
<1> QED BY <1>1, EnvInvariant, EnvGivenInvariant, LoadedInvariant, PTL

-----------------------------------------------------------------------------
\* What \div does, by a positive divisor.
LEMMA Division ==
  ASSUME NEW a \in Int, NEW b \in Nat \ {0}
  PROVE  /\ a \div b \in Int
         /\ (a \div b) * b <= a
         /\ a < (a \div b) * b + b
  BY SMT

\* int() of a fraction is between it and zero, less than one from it.
LEMMA Truncation ==
  ASSUME NEW n \in Int, NEW d \in Nat \ {0}
  PROVE  /\ int(n, d) \in Int
         /\ n >= 0 => int(n, d) * d <= n /\ n < int(n, d) * d + d
         /\ n <= 0 => int(n, d) * d >= n /\ n > int(n, d) * d - d
<1>1. CASE n >= 0
  BY <1>1, Division DEF int
<1>2. CASE n < 0
  <2>1. (-n) \in Int /\ int(n, d) = -((-n) \div d)
    BY <1>2 DEF int
  <2>2. ((-n) \div d) * d <= -n /\ -n < ((-n) \div d) * d + d /\ (-n) \div d \in Int
    BY <2>1, Division
  <2>3. int(n, d) * d = -(((-n) \div d) * d)
    BY <2>1, <2>2
  <2>. QED BY <1>2, <2>1, <2>2, <2>3
<1>. QED BY <1>1, <1>2

\* roundTo is right for a rise; a fall comes out too small by more than nothing
\* and less than one and a half hundredths; the sign is kept.
LEMMA Rounding ==
  ASSUME NEW n \in Int, NEW d \in Nat \ {0}
  PROVE  /\ roundTo(n, d) \in Int
         /\ n >= 0 => /\ roundTo(n, d) >= 0
                      /\ -d < 2 * (roundTo(n, d) * d - 100 * n)
                      /\ 2 * (roundTo(n, d) * d - 100 * n) <= d
         /\ n < 0 => /\ roundTo(n, d) <= 0
                     /\ 0 < 2 * (roundTo(n, d) * d - 100 * n)
                     /\ 2 * (roundTo(n, d) * d - 100 * n) < 3 * d
<1> DEFINE m == 200 * n + d
           k == 2 * d
           r == roundTo(n, d)
<1>1. m \in Int /\ k \in Nat \ {0} /\ r = int(m, k)
  BY DEF roundTo
<1>2. /\ r \in Int
      /\ m >= 0 => r * k <= m /\ m < r * k + k
      /\ m <= 0 => r * k >= m /\ m > r * k - k
  <2> HIDE DEF m, k, r
  <2> QED BY <1>1, Truncation
<1>3. r * k = 2 * (r * d) /\ r * d \in Int
  BY <1>2
<1>4. r * d > -d => r >= 0
  <2>1. r <= -1 => r * d <= -d
    BY <1>2
  <2> QED BY <2>1, <1>2, <1>3
<1>5. r * d < d => r <= 0
  <2>1. r >= 1 => r * d >= d
    BY <1>2
  <2> QED BY <2>1, <1>2, <1>3
<1> HIDE DEF r
<1>6. CASE n >= 0
  BY <1>6, <1>2, <1>3, <1>4 DEF r
<1>7. CASE n < 0
  BY <1>7, <1>2, <1>3, <1>5 DEF r
<1> QED BY <1>6, <1>7

-----------------------------------------------------------------------------
\* A quote is none, or what Change and Percent make of two prices.
QuoteInv ==
  \/ quote = NoQuote
  \/ \E p, c \in Price : quote = [price |-> p, previous |-> c,
                                  change |-> Change(p, c), percent |-> Percent(p, c)]

\* Only ReceiveQuote makes a quote.
LEMMA QuoteInvariant == ToolSpec => []QuoteInv
<1>1. ToolInit => QuoteInv
  BY DEF ToolInit, QuoteInv
<1>2. QuoteInv /\ [ToolNext]_toolVars => QuoteInv'
  BY DEF QuoteInv, ToolNext, toolVars, Execute, RequestFails, ReceiveQuote,
         ReceiveOther, CancelTool
<1> QED BY <1>1, <1>2, PTL DEF ToolSpec

\* For all prices and every scale: a reported rise is the nearest hundredth, a
\* reported fall is off by less than one and a half.
THEOREM Rounded == ToolSpec => []ChangeRounded
<1>1. QuoteInv => ChangeRounded
  <2> SUFFICES ASSUME QuoteInv PROVE ChangeRounded
    OBVIOUS
  <2>1. CASE quote = NoQuote
    BY <2>1, PriceAssumption DEF NoQuote, ChangeRounded
  <2>2. ASSUME NEW p \in Price, NEW c \in Price, quote.price = p,
               quote.previous = c, quote.change = Change(p, c)
        PROVE  ChangeRounded
    <3>1. p - c \in Int /\ (p >= c <=> p - c >= 0)
      BY PriceAssumption
    <3>2. Change(p, c) = roundTo(p - c, Scale)
      BY DEF Change
    <3>3. IF p >= c THEN /\ -Scale < 2 * (Change(p, c) * Scale - 100 * (p - c))
                         /\ 2 * (Change(p, c) * Scale - 100 * (p - c)) <= Scale
                    ELSE /\ -Scale <= 2 * (Change(p, c) * Scale - 100 * (p - c))
                         /\ 2 * (Change(p, c) * Scale - 100 * (p - c)) < 3 * Scale
      <4> DEFINE n == p - c
      <4>1. Scale \in Nat \ {0}
        BY PriceAssumption
      <4>2. n \in Int /\ (p >= c <=> n >= 0) /\ (~ p >= c <=> n < 0)
        BY PriceAssumption
      <4> HIDE DEF n
      <4>3. /\ n >= 0 => /\ -Scale < 2 * (roundTo(n, Scale) * Scale - 100 * n)
                         /\ 2 * (roundTo(n, Scale) * Scale - 100 * n) <= Scale
            /\ n < 0 => /\ 0 < 2 * (roundTo(n, Scale) * Scale - 100 * n)
                        /\ 2 * (roundTo(n, Scale) * Scale - 100 * n) < 3 * Scale
        BY <4>1, <4>2, Rounding, Zenon
      <4>4. \A e \in Int : 0 < e => -Scale <= e
        BY <4>1
      <4>5. 2 * (roundTo(n, Scale) * Scale - 100 * n) \in Int
        <5> DEFINE x == roundTo(n, Scale)
        <5>1. x \in Int
          BY <4>1, <4>2, Rounding
        <5> HIDE DEF x
        <5>2. 2 * (x * Scale - 100 * n) \in Int
          BY <4>1, <4>2, <5>1
        <5> QED BY <5>2 DEF x
      <4> QED BY <3>2, <4>2, <4>3, <4>4, <4>5, Zenon DEF n
    <3> QED BY <2>2, <3>3, Zenon DEF ChangeRounded
  <2> QED BY <2>1, <2>2 DEF QuoteInv
<1> QED BY <1>1, QuoteInvariant, PTL

\* For all prices, the previous close of zero included.
THEOREM Direction == ToolSpec => []DirectionKept
<1>1. QuoteInv => DirectionKept
  <2> SUFFICES ASSUME QuoteInv PROVE DirectionKept
    OBVIOUS
  <2>1. CASE quote = NoQuote
    BY <2>1 DEF NoQuote, DirectionKept
  <2>2. ASSUME NEW p \in Price, NEW c \in Price, quote.price = p, quote.previous = c,
               quote.change = Change(p, c), quote.percent = Percent(p, c)
        PROVE  DirectionKept
    <3>1. /\ p - c \in Int /\ (p >= c <=> p - c >= 0)
          /\ 100 * (p - c) \in Int /\ (p >= c <=> 100 * (p - c) >= 0)
      BY PriceAssumption
    <3>2. IF p >= c THEN Change(p, c) >= 0 ELSE Change(p, c) <= 0
      BY <3>1, Rounding, PriceAssumption DEF Change
    <3>3. IF p >= c THEN Percent(p, c) >= 0 ELSE Percent(p, c) <= 0
      <4>1. CASE c = 0
        BY <4>1 DEF Percent
      <4>2. CASE c # 0
        <5>1. c \in Nat \ {0} /\ Percent(p, c) = roundTo(100 * (p - c), c)
          BY <4>2, PriceAssumption DEF Percent
        <5> DEFINE n == 100 * (p - c)
        <5>2. n \in Int /\ (p >= c <=> n >= 0) /\ (~ p >= c <=> n < 0)
          BY PriceAssumption
        <5> HIDE DEF n
        <5>3. (n >= 0 => roundTo(n, c) >= 0) /\ (n < 0 => roundTo(n, c) <= 0)
          BY <5>1, <5>2, Rounding, Zenon
        <5> QED BY <5>1, <5>2, <5>3, Zenon DEF n
      <4> QED BY <4>1, <4>2
    <3> QED BY <2>2, <3>2, <3>3 DEF DirectionKept
  <2> QED BY <2>1, <2>2 DEF QuoteInv
<1> QED BY <1>1, QuoteInvariant, PTL

=============================================================================
