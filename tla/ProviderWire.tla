---------------------------- MODULE ProviderWire -----------------------------
(***************************************************************************)
(* The three LLM back ends (internal/llm): how the conversation an agent   *)
(* keeps becomes a request to OpenAI, Anthropic or Gemini, and how the     *)
(* reply becomes tool calls or a final answer.  Texts are opaque; what     *)
(* counts is who says what in answer to which call.                        *)
(***************************************************************************)
EXTENDS Naturals, Sequences, SequencesExt

CONSTANTS Name,       \* the function names an LLM may ask for
          MaxBlocks,  \* bound: text and call blocks in one reply
          MaxTurns    \* bound: requests of one conversation

ASSUME BlocksAssumption == MaxBlocks \in Nat /\ MaxTurns \in Nat

VARIABLES
  provider,  \* the back end in use
  messages,  \* []llm.Message of the agent
  request,   \* the conversation as last sent, a sequence of turns
  reply,     \* what the last CompleteWithTools came to
  stop,      \* why the LLM said it stopped
  asked,     \* history: the call blocks of the replies, in order
  turns      \* requests so far

vars == <<provider, messages, request, reply, stop, asked, turns>>

Provider == {"openai", "anthropic", "gemini"}

\* An ID is a pair, so that Gemini's, which is a function name, differs from
\* the fresh ones of the other two.
NoID == <<"", 0>>
Args == {"object", "empty", "malformed"}
Part(kind, id, name, args) == [kind |-> kind, id |-> id, name |-> name, args |-> args]
TextPart == Part("text", NoID, "", "")
IsCall(part) == part.kind = "call"
CallsOf(parts) ==
  FoldLeft(LAMBDA calls, part : IF IsCall(part) THEN Append(calls, part) ELSE calls,
           <<>>, parts)
Turn(role, parts) == [role |-> role, parts |-> parts]

ToolCall(id, name, params) == [id |-> id, name |-> name, params |-> params]
Message(role, calls, id, name) ==
  [role |-> role, calls |-> calls, id |-> id, name |-> name]

\* One turn or message after the other, each converted.
Map(Op(_), s) == [i \in DOMAIN s |-> Op(s[i])]

-----------------------------------------------------------------------------
(* Deliberately wrong variants of definitions below, one per plausible bug.  *)
(* No specification uses them; they show what each property can detect.      *)
AddResult_NoGrouping(out, part) == Append(out, Turn("user", <<part>>))
Parsed_Repaired(args) == IF args = "malformed" THEN "empty" ELSE args
GeminiFinal_NoParts(r) == r.blocks = <<>>
GeminiFinal_TextWins(r) == \E i \in DOMAIN r.blocks : r.blocks[i] = TextPart

-----------------------------------------------------------------------------
\* "content" is null beside tool_calls. Params that are nil become "null".
OAIMessage(m) ==
  CASE m.role = "user" -> Turn("user", <<TextPart>>)
    [] m.role = "assistant" /\ m.calls = <<>> -> Turn("assistant", <<TextPart>>)
    [] m.role = "assistant" /\ m.calls # <<>> ->
         Turn("assistant", Map(LAMBDA c : Part("call", c.id, c.name, c.params), m.calls))
    [] OTHER -> Turn("tool", <<Part("result", m.id, m.name, "")>>)

toOAIMessages(msgs) == <<Turn("system", <<TextPart>>)>> \o Map(OAIMessage, msgs)

\* Consecutive tool results make up one turn of the user.
AddResult(out, part) ==
  IF out # <<>> /\ Last(out).parts # <<>> /\ Last(out).parts[1].kind = "result"
  THEN Append(Front(out), Turn("user", Append(Last(out).parts, part)))
  ELSE Append(out, Turn("user", <<part>>))

\* omitempty drops an input that is nil or has no members.
AntMessage(out, m) ==
  CASE m.role = "user" -> Append(out, Turn("user", <<TextPart>>))
    [] m.role = "assistant" /\ m.calls = <<>> ->
         Append(out, Turn("assistant", <<TextPart>>))
    [] m.role = "assistant" /\ m.calls # <<>> ->
         Append(out, Turn("assistant",
           Map(LAMBDA c : Part("call", c.id, c.name,
                            IF c.params \in {"nil", "empty"} THEN "omitted" ELSE c.params),
               m.calls)))
    [] OTHER -> AddResult(out, Part("result", m.id, "", ""))

toAntMessages(msgs) == FoldLeft(AntMessage, <<>>, msgs)

\* No IDs: a result is matched by the function's name.
GeminiMessage(out, m) ==
  CASE m.role = "user" -> Append(out, Turn("user", <<TextPart>>))
    [] m.role = "assistant" ->
         Append(out, Turn("model",
           Map(LAMBDA c : Part("call", NoID, c.name, c.params), m.calls)))
    [] OTHER -> AddResult(out, Part("result", NoID, m.name, ""))

toGeminiContents(msgs) == FoldLeft(GeminiMessage, <<>>, msgs)

Wire(p, msgs) == CASE p = "openai" -> toOAIMessages(msgs)
                   [] p = "anthropic" -> toAntMessages(msgs)
                   [] OTHER -> toGeminiContents(msgs)

-----------------------------------------------------------------------------
\* The Unmarshal error of the arguments is dropped: the parameters stay nil.
Parsed(args) == IF args = "malformed" THEN "nil" ELSE args

fromOAIResponse(r) ==
  IF r.stop = "tools"
  THEN [terminal |-> FALSE,
        calls |-> Map(LAMBDA b : ToolCall(b.id, b.name, Parsed(b.args)), CallsOf(r.blocks))]
  ELSE [terminal |-> TRUE, calls |-> <<>>]

fromAntResponse(r) ==
  IF r.stop = "tools"
  THEN [terminal |-> FALSE,
        calls |-> Map(LAMBDA b : ToolCall(b.id, b.name, b.args), CallsOf(r.blocks))]
  ELSE [terminal |-> TRUE, calls |-> <<>>]

\* Calls are recognised by their parts, and named by their function.
GeminiFinal(r) == CallsOf(r.blocks) = <<>>

fromGeminiResponse(r) ==
  [terminal |-> GeminiFinal(r),
   calls |-> Map(LAMBDA b : ToolCall(<<b.name, 0>>, b.name, b.args), CallsOf(r.blocks))]

Response(p, r) == CASE p = "openai" -> fromOAIResponse(r)
                    [] p = "anthropic" -> fromAntResponse(r)
                    [] OTHER -> fromGeminiResponse(r)

\* What a service sends: it stops for calls only when there are some, and
\* otherwise because it is done or because it ran out of tokens ("length",
\* "max_tokens", "MAX_TOKENS"), possibly inside a call. Gemini has no stop
\* reason for calls. Only OpenAI sends arguments as a text that may not parse.
CallBlocks(p, n) ==
  {Part("call", IF p = "gemini" THEN NoID ELSE <<"call", n>>, f, a) :
     f \in Name, a \in IF p = "openai" THEN Args ELSE Args \ {"malformed"}}
Numbered(p, n, s) == [i \in DOMAIN s |->
                        IF IsCall(s[i]) /\ p # "gemini"
                        THEN [s[i] EXCEPT !.id = <<"call", n + i>>] ELSE s[i]]
Blocks(p, n) ==
  {Numbered(p, n, s) : s \in BoundedSeq(CallBlocks(p, n) \cup {TextPart}, MaxBlocks)}

ApiReply(p, n) ==
  {r \in [stop : {"tools", "end", "cut"}, blocks : Blocks(p, n)] :
     LET hasCall == \E i \in DOMAIN r.blocks : IsCall(r.blocks[i])
     IN  /\ r.stop = "tools" => hasCall /\ p # "gemini"
         /\ r.stop = "end" => ~hasCall \/ p = "gemini"}

-----------------------------------------------------------------------------
Init == /\ provider \in Provider
        /\ messages = <<Message("user", <<>>, NoID, "")>>
        /\ request = <<>>
        /\ reply = "none"
        /\ stop = "none"
        /\ asked = <<>>
        /\ turns = 0

\* CompleteWithTools up to client.Do.
Ask == /\ reply \in {"none", "calls"}
       /\ turns < MaxTurns
       /\ request' = Wire(provider, messages)
       /\ reply' = "awaited"
       /\ turns' = turns + 1
       /\ UNCHANGED <<provider, messages, stop, asked>>

\* The service answers. The agent appends the calls and one result for each.
Receive ==
  /\ reply = "awaited"
  /\ \E r \in ApiReply(provider, turns * (MaxBlocks + 1)) :
       LET resp == Response(provider, r)
           results == Map(LAMBDA c : Message("tool", <<>>, c.id, c.name), resp.calls)
       IN  /\ stop' = r.stop
           /\ IF resp.terminal
              THEN reply' = "final" /\ UNCHANGED messages
              ELSE /\ reply' = "calls"
                   /\ messages' = messages
                        \o <<Message("assistant", resp.calls, NoID, "")>> \o results
           /\ asked' = IF r.stop = "cut" /\ resp.terminal THEN asked
                       ELSE asked \o CallsOf(r.blocks)
  /\ UNCHANGED <<provider, request, turns>>

\* No key, no connection, a body that is not JSON, an error object, or a
\* reply with no choices or candidates.
Fail == /\ reply = "awaited"
        /\ reply' = "error"
        /\ UNCHANGED <<provider, messages, request, stop, asked, turns>>

Next == Ask \/ Receive \/ Fail

Spec == Init /\ [][Next]_vars

-----------------------------------------------------------------------------
\* The variables keep their types.
TypeOK ==
  /\ provider \in Provider
  /\ \A i \in DOMAIN messages : messages[i].role \in {"user", "assistant", "tool"}
  /\ \A i \in DOMAIN request : /\ request[i].role \in {"system", "user", "assistant",
                                                       "model", "tool"}
                               /\ request[i].parts # <<>>
  /\ reply \in {"none", "awaited", "calls", "final", "error"}
  /\ stop \in {"none", "tools", "end", "cut"}
  /\ turns \in 0..MaxTurns

Requested(turn) == CallsOf(turn.parts)
Answers(part, call) == part.kind = "result" /\ (IF provider = "gemini"
                                                THEN part.name = call.name
                                                ELSE part.id = call.id)

\* The rules of the three APIs for results: OpenAI wants a "tool" message for
\* every call, right behind it; the others want them all, in the order of the
\* calls, in the one user turn that follows, and the roles to alternate
\* (anthropic.go:180, gemini.go:178-184).
WireWellFormed ==
  \A i \in DOMAIN request :
    LET calls == Requested(request[i]) IN
    IF provider = "openai"
    THEN \A k \in DOMAIN calls :
           /\ i + k \in DOMAIN request /\ request[i + k].role = "tool"
           /\ Answers(request[i + k].parts[1], calls[k])
    ELSE /\ request[i].role # "user" <=> i % 2 = 0
         /\ calls # <<>> =>
              /\ i + 1 \in DOMAIN request
              /\ Len(request[i + 1].parts) = Len(calls)
              /\ \A k \in DOMAIN calls : Answers(request[i + 1].parts[k], calls[k])

\* An LLM is shown the calls it made itself: all of them, once, in order, under
\* their IDs, with the arguments it gave, or with none where it gave none that
\* can be used.
CallsEchoed ==
  LET shown == FlattenSeq(Map(Requested, request)) IN
  /\ reply = "awaited" => Len(shown) = Len(asked)
  /\ Len(shown) <= Len(asked)
  /\ \A i \in DOMAIN shown :
       /\ shown[i].id = asked[i].id /\ shown[i].name = asked[i].name
       /\ \/ shown[i].args = asked[i].args
          \/ asked[i].args = "malformed" /\ shown[i].args = "nil"
          \/ asked[i].args = "empty" /\ shown[i].args = "omitted"

\* Every call of a reply is run, whatever text comes with it, unless the reply
\* was cut short and taken for the final answer.
CallsHeeded ==
  reply \in {"calls", "final"} =>
    Len(FlattenSeq(Map(LAMBDA m : m.calls, messages))) = Len(asked)

\* What provider.go:54 says of a response, "IsTerminal: true when the LLM has
\* finished reasoning", and openai.go:229 and anthropic.go:227 of the stop
\* reason. Checked where it fails: any other stop reason ends the loop too.
TerminalMeansFinished == reply = "final" => stop = "end"

==============================================================================
