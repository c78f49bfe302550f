--------------------------- MODULE MCProviderWire ----------------------------
(* Two functions, two blocks in a reply (two calls, perhaps of the same      *)
(* function, or a text and a call) and three requests.                       *)
EXTENDS ProviderWire

MCName == {"FetchStockQuote", "FetchMarketNews"}

==============================================================================
