----------------------------- MODULE MCWebServer -----------------------------
(***************************************************************************)
(* Instances of WebServer for TLC.                                         *)
(***************************************************************************)
EXTENDS WebServer

Get(url, auth) ==
  [protocol |-> TRUE, get |-> TRUE, url |-> url, auth |-> auth,
   long |-> FALSE, reads |-> TRUE]

\* A request for each way the handling can go, but for a wrong protocol or
\* method, which are answered like an incomplete request, by a fixed text;
\* browsers that do not read ask for the page and for the statistics.
AllRequests ==
  {Get("file", "none"), Get("noindex", "none"), Get("index", "wrong"),
   Get("statistics", "right"),
   [Get("index", "none") EXCEPT !.reads = FALSE],
   [Get("statistics", "right") EXCEPT !.reads = FALSE],
   [Get("index", "none") EXCEPT !.long = TRUE]}
=============================================================================
