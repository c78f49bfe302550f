------------------------------- MODULE Config --------------------------------
(***************************************************************************)
(* config.Load (internal/config/config.go) as main calls it at startup:    *)
(* the lines of the .env file are exported to the environment one by one,  *)
(* then the settings are read from the environment and put to use.         *)
(***************************************************************************)
EXTENDS Integers, Sequences

CONSTANTS Text,      \* what a variable may be set to, by variable name
          IntOf,     \* what strconv.Atoi accepts, and its value
          FloatOf,   \* what strconv.ParseFloat accepts, and its value
          Comment,   \* the text of an inline comment
          Absent,    \* the value of a variable that is not set
          Amount,    \* the amounts of the transactions to come
          MaxLines   \* bound: lines of the file

Key == DOMAIN Text
Texts == (UNION {Text[k] : k \in Key}) \cup {"", Comment}
Float == [nan : BOOLEAN, val : Int]

ASSUME KeyAssumption ==
  {"LLM_PROVIDER", "MAX_WORKERS", "TRANSACTION_THRESHOLD_INR"} \subseteq Key
ASSUME ParseAssumption ==
  /\ IntOf \in [DOMAIN IntOf -> Int] /\ FloatOf \in [DOMAIN FloatOf -> Float]
  /\ {"", Comment} \cap (DOMAIN IntOf \cup DOMAIN FloatOf) = {}
ASSUME TextAssumption ==
  Absent \notin Texts /\ Amount \subseteq Int /\ MaxLines \in Nat

VARIABLES
  env,       \* the environment of the process
  shell,     \* what it was at the start
  read,      \* the assignments read from the file so far
  left,      \* bound: how many lines may still come
  status,    \* start, reading, loaded or failed
  settings   \* what main does with the Config

configVars == <<env, shell, read, left, status, settings>>

\* A line KEY=VALUE, with an inline comment or without.
Assignment == [key : Key, text : Texts, comment : BOOLEAN]

\* What main gets if nothing is configured.
DefaultSettings ==
  [provider |-> "gemini", workers |-> 4, threshold |-> [nan |-> FALSE, val |-> 500]]

-----------------------------------------------------------------------------
(* Deliberately wrong variants of definitions below, one per plausible bug.  *)
(* No specification uses them; they show what each property can detect.      *)
Free_Always(k) == TRUE                  \* the file overwrites the environment
\* the error of ParseFloat is ignored: with ErrRange it returns +Inf
getEnvFloat_NoErr(k, fallback) ==
  CASE env[k] \in {Absent, ""} -> fallback
    [] env[k] \in DOMAIN FloatOf -> FloatOf[env[k]]
    [] OTHER -> [nan |-> FALSE, val |-> 1000000000]

-----------------------------------------------------------------------------
\* os.LookupEnv: a variable that is set to nothing does exist.
Free(k) == env[k] = Absent

\* An inline comment is cut off at " #", after the blanks around the value:
\* where nothing stands before it, the comment itself is the value.
ValueOf(a) == IF a.comment /\ a.text = "" THEN Comment ELSE a.text

\* The fallbacks: an empty variable counts as unset, a typo as well.
getEnvOr(k, fallback) == IF env[k] \in {Absent, ""} THEN fallback ELSE env[k]
getEnvInt(k, fallback) ==
  IF env[k] \in DOMAIN IntOf THEN IntOf[env[k]] ELSE fallback
getEnvFloat(k, fallback) ==
  IF env[k] \in DOMAIN FloatOf THEN FloatOf[env[k]] ELSE fallback

\* The switch of main: every unknown provider is OpenAI.
ProviderOf(name) == IF name \in {"anthropic", "gemini"} THEN name ELSE "openai"

ConfigInit == /\ shell \in [Key -> Texts \cup {Absent}]
              /\ \A k \in Key : shell[k] \in Text[k] \cup {Absent}
              /\ env = shell
              /\ read = <<>>
              /\ left = MaxLines
              /\ status = "start"
              /\ settings = DefaultSettings

\* The fields of Config that something reads, after a file or without one.
Build == /\ status' = "loaded"
         /\ settings' =
              [provider |-> ProviderOf(getEnvOr("LLM_PROVIDER", DefaultSettings.provider)),
               workers |-> getEnvInt("MAX_WORKERS", DefaultSettings.workers),
               threshold |-> getEnvFloat("TRANSACTION_THRESHOLD_INR",
                                         DefaultSettings.threshold)]
         /\ UNCHANGED <<env, shell, read, left>>

\* Load returns an error, and main ends. What was exported stays exported.
LoadFails == status' = "failed" /\ UNCHANGED <<env, shell, read, left, settings>>

Open == /\ status = "start"
        /\ status' = "reading"
        /\ UNCHANGED <<env, shell, read, left, settings>>
NoFile == status = "start" /\ Build
OpenError == status = "start" /\ LoadFails

Line == status = "reading" /\ left > 0 /\ left' = left - 1

\* A blank line or a comment.
SkipLine == Line /\ UNCHANGED <<env, shell, read, status, settings>>

ExportLine(a) ==
  /\ Line
  /\ env' = IF Free(a.key) THEN [env EXCEPT ![a.key] = ValueOf(a)] ELSE env
  /\ read' = Append(read, a)
  /\ UNCHANGED <<shell, status, settings>>

\* No "=", an empty key (os.Setenv refuses it), or a line over 64 KB.
BadLine == status = "reading" /\ left > 0 /\ LoadFails

EndOfFile == status = "reading" /\ Build

ConfigNext ==
  \/ Open \/ NoFile \/ OpenError \/ SkipLine \/ BadLine \/ EndOfFile
  \/ \E k \in Key : \E t \in Text[k], c \in BOOLEAN :
       ExportLine([key |-> k, text |-> t, comment |-> c])

ConfigSpec == ConfigInit /\ [][ConfigNext]_configVars

-----------------------------------------------------------------------------
\* RequestApproval asks the operator for this amount (guard.go:32-35).
Gated(a) == ~settings.threshold.nan /\ a > settings.threshold.val

\* What k is given: by the shell if it has the variable, be it empty, else by
\* the first of its lines that was read; Absent if by neither.  A line with a
\* comment and no value is left open here: see CommentsStripped.
Given(k) ==
  IF shell[k] # Absent THEN {shell[k]}
  ELSE IF \A i \in DOMAIN read : read[i].key # k THEN {Absent}
  ELSE UNION {{read[i].text} \cup IF read[i].text = "" /\ read[i].comment THEN {Comment} ELSE {} :
                i \in {i \in DOMAIN read : /\ read[i].key = k
                                           /\ \A j \in 1..(i - 1) : read[j].key # k}}

\* The shell wins over the file and the file over the code's default: for the
\* environment the process is left with, after a success, a failure or
\* half-way, and for the settings that main works with (config.go:48-49, :137,
\* README.md:216, :540).  An empty value is the shell's too, and a value that
\* cannot be used yields to the default, not to the next in line.
Precedence ==
  /\ \A k \in Key : env[k] \in Given(k)
  /\ status = "loaded" =>
       /\ \E v \in Given("LLM_PROVIDER") :
            settings.provider =
              ProviderOf(IF v \in {Absent, ""} THEN DefaultSettings.provider ELSE v)
       /\ \E v \in Given("MAX_WORKERS") :
            settings.workers =
              IF v \in DOMAIN IntOf THEN IntOf[v] ELSE DefaultSettings.workers
       /\ \E v \in Given("TRANSACTION_THRESHOLD_INR") :
            settings.threshold =
              IF v \in DOMAIN FloatOf THEN FloatOf[v] ELSE DefaultSettings.threshold

\* "Strip inline comments (e.g. VALUE  # comment)" (config.go:132): where no line
\* has more than a comment for the provider, main gets the default provider.
CommentsStripped ==
  /\ status = "loaded"
  /\ shell.LLM_PROVIDER = Absent
  /\ \A i \in DOMAIN read : read[i].key = "LLM_PROVIDER" => read[i].text = ""
  => settings.provider = DefaultSettings.provider

\* No empty value, typo, number out of range or comment opens the gate of the
\* operator: an amount above 500 passes unasked only if the shell or the file
\* says NaN or names a threshold that covers it (config.go:166-176).
GateHolds ==
  status = "loaded" =>
    \A a \in Amount : a > DefaultSettings.threshold.val /\ ~Gated(a) =>
      \E t \in {shell.TRANSACTION_THRESHOLD_INR}
                 \cup {read[i].text : i \in {j \in DOMAIN read :
                         read[j].key = "TRANSACTION_THRESHOLD_INR"}} :
        t \in DOMAIN FloatOf /\ (FloatOf[t].nan \/ a <= FloatOf[t].val)

==============================================================================
