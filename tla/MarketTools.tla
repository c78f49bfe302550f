----------------------------- MODULE MarketTools -----------------------------
(***************************************************************************)
(* Execute of the three read-only tools (internal/tools/stock.go, news.go, *)
(* upi.go).  Prices are exact multiples of 1/Scale rupee: the error of     *)
(* binary fractions is left out, the rounding of roundTo is not.           *)
(***************************************************************************)
EXTENDS Integers

CONSTANTS Price,   \* the prices Yahoo may report, 0 for a missing field
          Scale    \* parts of a rupee they are given in

ASSUME PriceAssumption == Price \subseteq Nat /\ Scale \in Nat \ {0}

VARIABLES
  toolCtxDone,  \* ctx.Done() is closed
  tool,         \* the tool that is called
  progress,     \* ready, waiting, done or failed
  quote         \* what FetchStockQuote says of the change, in hundredths

toolVars == <<toolCtxDone, tool, progress, quote>>

ReadOnlyTool == {"FetchStockQuote", "FetchMarketNews", "FetchUPIBalance"}
NoQuote == [price |-> 0, previous |-> 0, change |-> 0, percent |-> 0]

\* int(): a conversion from float64 truncates towards zero.
int(n, d) == IF n >= 0 THEN n \div d ELSE -((-n) \div d)

-----------------------------------------------------------------------------
(* Deliberately wrong variants of definitions below, one per plausible bug.  *)
(* No specification uses them; they show what each property can detect.      *)
roundTo_Truncate(n, d) == int(100 * n, d)         \* the 0.5 is forgotten
\* x / 0 is an infinity or NaN, which int() makes the least int64 of amd64
Percent_Unguarded(price, previous) ==
  IF previous = 0 THEN -92233720
  ELSE int(20000 * (price - previous) + previous, 2 * previous)

-----------------------------------------------------------------------------
\* roundTo(n / d, 2), in hundredths: int(n / d * 100 + 0.5).
roundTo(n, d) == int(200 * n + d, 2 * d)

Change(price, previous) == roundTo(price - previous, Scale)
Percent(price, previous) ==
  IF previous = 0 THEN 0 ELSE roundTo(100 * (price - previous), previous)

ToolInit == /\ toolCtxDone = FALSE
            /\ tool \in ReadOnlyTool
            /\ progress = "ready"
            /\ quote = NoQuote

\* The one parameter of the tool is missing, empty or there.
Execute == /\ progress = "ready"
           /\ progress' \in {"waiting", "failed"}
           /\ UNCHANGED <<toolCtxDone, tool, quote>>

\* The request fails, at the latest on its timeout, or the reply is no JSON.
RequestFails == /\ progress = "waiting"
                /\ tool # "FetchUPIBalance" \/ toolCtxDone
                /\ progress' = "failed"
                /\ UNCHANGED <<toolCtxDone, tool, quote>>

\* A quote, or a reply with an error or with no result.
ReceiveQuote == /\ progress = "waiting" /\ tool = "FetchStockQuote"
                /\ \/ /\ progress' = "done"
                      /\ \E p, c \in Price :
                           quote' = [price |-> p, previous |-> c,
                                     change |-> Change(p, c), percent |-> Percent(p, c)]
                   \/ progress' = "failed" /\ UNCHANGED quote
                /\ UNCHANGED <<toolCtxDone, tool>>

\* Any JSON object is a list of news, that of an error an empty one; the balance
\* is a constant after a delay.
ReceiveOther == /\ progress = "waiting" /\ tool # "FetchStockQuote"
                /\ progress' = "done"
                /\ UNCHANGED <<toolCtxDone, tool, quote>>

CancelTool == /\ ~toolCtxDone
              /\ toolCtxDone' = TRUE
              /\ UNCHANGED <<tool, progress, quote>>

ToolNext == Execute \/ RequestFails \/ ReceiveQuote \/ ReceiveOther \/ CancelTool

ToolSpec == ToolInit /\ [][ToolNext]_toolVars

-----------------------------------------------------------------------------
\* The reported change of a rise is the nearest hundredth; that of a fall, which
\* roundTo truncates, is off by less than one and a half: no more than half a
\* hundredth below the true value, as rounding would have it too, but up to one
\* and a half above, an exact fall included (stock.go:138).
ChangeRounded ==
  progress = "done" =>
    LET error == 2 * (quote.change * Scale - 100 * (quote.price - quote.previous)) IN
      IF quote.price >= quote.previous THEN -Scale < error /\ error <= Scale
                                       ELSE -Scale <= error /\ error < 3 * Scale

\* Change and percentage never point in different directions, nor away from
\* where the price went, also with no previous close (stock.go:77-80).
DirectionKept ==
  IF quote.price >= quote.previous THEN quote.change >= 0 /\ quote.percent >= 0
                                   ELSE quote.change <= 0 /\ quote.percent <= 0

==============================================================================
