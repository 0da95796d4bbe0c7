-------------------------- MODULE WebServerProofs --------------------------
(***************************************************************************)
(* Theorems about WebServer, for any connections, requests, backlog and    *)
(* number of insertions.                                                   *)
(***************************************************************************)
EXTENDS WebServer, TLAPS

\* A connection is being answered
Serving == wpc \in {"answer", "select", "rows"}

\* The connection being answered is open and has no event left in this round
\* (it is closed at the end, and a closed connection has no event).
ServingOpen ==
  Serving => /\ serving \in Conns
             /\ conn[serving] = "open"
             /\ serving \notin batch

\* What is about to be sent may be sent.
ResponseAllowed ==
  Serving /\ response \in {"page", "settings", "statistics", "not_found"} =>
    \/ request[serving].url \in {"index", "noindex"}
    \/ request[serving].auth = "right"

\* The inductive invariant
IInv ==
  /\ TypeOK
  /\ LoopNeverBlocks
  /\ ServingOpen
  /\ ResponseAllowed
  /\ PagesProtected

USE ListenerAssumption, BacklogAssumption, InsertsAssumption,
    RequestsAssumption

-----------------------------------------------------------------------------
(* What http_utils.c answers *)

\* response_url chooses one of the responses, and a page other than the index
\* only when the credentials are right.
LEMMA ResponseUrl ==
  ASSUME NEW url \in Urls, NEW auth \in {"none", "right", "wrong"}
  PROVE  /\ response_url(url, auth) \in Responses
         /\ response_url(url, auth)
              \in {"page", "settings", "statistics", "not_found"} =>
              url \in {"index", "noindex"} \/ auth = "right"
  BY DEF response_url, Urls, Responses

\* parse_http inherits both from response_url.
LEMMA ParseHttp ==
  ASSUME NEW r \in Request, NEW complete \in BOOLEAN
  PROVE  /\ parse_http(r, complete) \in Responses
         /\ parse_http(r, complete)
              \in {"page", "settings", "statistics", "not_found"} =>
              r.url \in {"index", "noindex"} \/ r.auth = "right"
<1>1. r.url \in Urls /\ r.auth \in {"none", "right", "wrong"}
      BY DEF Request
<1>2. /\ response_url(r.url, r.auth) \in Responses
      /\ response_url(r.url, r.auth)
           \in {"page", "settings", "statistics", "not_found"} =>
           r.url \in {"index", "noindex"} \/ r.auth = "right"
      BY <1>1, ResponseUrl
<1>3. QED BY <1>2 DEF parse_http, Responses

-----------------------------------------------------------------------------
(* Init and the steps *)

\* The initial states satisfy the invariant.
LEMMA InitInv == Init => IInv
<1>1. SUFFICES ASSUME Init PROVE IInv
      OBVIOUS
<1>2. TypeOK
      BY <1>1 DEF Init, TypeOK, Responses
<1>3. LoopNeverBlocks
      BY <1>1 DEF Init, LoopNeverBlocks
<1>4. ServingOpen /\ ResponseAllowed
      BY <1>1 DEF Init, ServingOpen, ResponseAllowed, Serving
<1>5. PagesProtected
      BY <1>1 DEF Init, PagesProtected
<1>6. QED BY <1>2, <1>3, <1>4, <1>5 DEF IInv

\* A browser's step keeps the invariant: it opens, feeds or leaves a
\* connection, and every event it raises is about an open one.
LEMMA BrowserStep ==
  ASSUME IInv, NEW c \in Conns, Connect(c) \/ Send(c) \/ Leave(c)
  PROVE  IInv'
<1> USE DEF IInv
<1>1. CASE Connect(c)
  <2>1. TypeOK'
        BY <1>1 DEF Connect, TypeOK, http, database
  <2>2. LoopNeverBlocks'
        BY <1>1 DEF Connect, LoopNeverBlocks, TypeOK, Readable
  <2>3. ServingOpen' /\ ResponseAllowed' /\ PagesProtected'
        BY <1>1 DEF Connect, ServingOpen, ResponseAllowed, PagesProtected,
                    Serving, TypeOK, http
  <2>4. QED BY <2>1, <2>2, <2>3
<1>2. CASE Send(c)
  <2>1. TypeOK'
        BY <1>2 DEF Send, Raise, TypeOK, http, database
  <2>2. LoopNeverBlocks'
        BY <1>2 DEF Send, Raise, LoopNeverBlocks, TypeOK, Readable
  <2>3. ServingOpen' /\ ResponseAllowed' /\ PagesProtected'
        BY <1>2 DEF Send, ServingOpen, ResponseAllowed, PagesProtected,
                    Serving, TypeOK, http
  <2>4. QED BY <2>1, <2>2, <2>3
<1>3. CASE Leave(c)
  <2>1. TypeOK'
        BY <1>3 DEF Leave, Raise, TypeOK, http, database
  <2>2. LoopNeverBlocks'
        BY <1>3 DEF Leave, Raise, LoopNeverBlocks, TypeOK, Readable
  <2>3. ServingOpen' /\ ResponseAllowed' /\ PagesProtected'
        BY <1>3 DEF Leave, ServingOpen, ResponseAllowed, PagesProtected,
                    Serving, TypeOK, http
  <2>4. QED BY <2>1, <2>2, <2>3
<1>4. QED BY <1>1, <1>2, <1>3

\* The epoll loop: taking the pending events, and accepting one connection
\* per event of the listening socket.
LEMMA LoopStep ==
  ASSUME IInv, EpollWait \/ Accept
  PROVE  IInv'
<1> USE DEF IInv
<1>1. CASE EpollWait
  <2>1. TypeOK'
        BY <1>1 DEF EpollWait, TypeOK, sockets, http, database
  <2>2. LoopNeverBlocks'
        BY <1>1 DEF EpollWait, LoopNeverBlocks, Readable, sockets
  <2>3. ServingOpen' /\ ResponseAllowed' /\ PagesProtected'
        BY <1>1 DEF EpollWait, ServingOpen, ResponseAllowed, PagesProtected,
                    Serving, sockets, http
  <2>4. QED BY <2>1, <2>2, <2>3
<1>2. CASE Accept
  <2>1. /\ Head(backlog) \in Conns
        /\ Tail(backlog) \in Seq(Conns)
        /\ Len(Tail(backlog)) = Len(backlog) - 1
        /\ Len(backlog) \in Nat
        BY <1>2 DEF Accept, TypeOK
  <2>2. TypeOK'
        BY <1>2, <2>1 DEF Accept, Handled, TypeOK, http, database
  <2>3. LoopNeverBlocks'
        BY <1>2, <2>1 DEF Accept, Handled, LoopNeverBlocks, TypeOK, Readable
  <2>4. ServingOpen' /\ ResponseAllowed' /\ PagesProtected'
        BY <1>2 DEF Accept, Handled, ServingOpen, ResponseAllowed,
                    PagesProtected, Serving, http
  <2>5. QED BY <2>2, <2>3, <2>4
<1>3. QED BY <1>1, <1>2

\* handle_request up to the answer.
LEMMA ReadStep ==
  ASSUME IInv, NEW c \in Conns, ReadFails(c) \/ ReadEnd(c) \/ Read(c)
  PROVE  IInv'
<1> USE DEF IInv
<1>1. CASE ReadFails(c)
  <2>1. TypeOK'
        BY <1>1 DEF ReadFails, Handled, TypeOK, sockets, http, database
  <2>2. LoopNeverBlocks'
        BY <1>1 DEF ReadFails, Handled, LoopNeverBlocks, Readable, sockets
  <2>3. ServingOpen' /\ ResponseAllowed' /\ PagesProtected'
        BY <1>1 DEF ReadFails, Handled, ServingOpen, ResponseAllowed,
                    PagesProtected, Serving, sockets, http
  <2>4. QED BY <2>1, <2>2, <2>3
<1>2. CASE ReadEnd(c)
  <2>1. TypeOK'
        BY <1>2 DEF ReadEnd, Close, Handled, TypeOK, http, database
  <2>2. LoopNeverBlocks'
        BY <1>2 DEF ReadEnd, Close, Handled, LoopNeverBlocks, TypeOK,
                    Readable
  <2>3. ServingOpen' /\ ResponseAllowed' /\ PagesProtected'
        BY <1>2 DEF ReadEnd, Handled, ServingOpen, ResponseAllowed,
                    PagesProtected, Serving, http
  <2>4. QED BY <2>1, <2>2, <2>3
<1>3. CASE Read(c) /\ request[c].long /\ arrived[c] = 2
  <2>1. /\ crash' = "read_assert"
        /\ UNCHANGED <<wpc, events, sockets, http, database>>
        BY <1>3 DEF Read, Abort
  <2>2. TypeOK'
        BY <2>1 DEF TypeOK, events, sockets, http, database
  <2>3. LoopNeverBlocks'
        BY <2>1 DEF LoopNeverBlocks, Readable, events, sockets
  <2>4. ServingOpen' /\ ResponseAllowed' /\ PagesProtected'
        BY <2>1 DEF ServingOpen, ResponseAllowed, PagesProtected, Serving,
                    events, sockets, http
  <2>5. QED BY <2>2, <2>3, <2>4
<1>4. CASE Read(c) /\ ~(request[c].long /\ arrived[c] = 2)
  <2>1. request[c] \in Request
        BY DEF TypeOK
  <2>2. /\ response' \in Responses
        /\ response' \in {"page", "settings", "statistics", "not_found"} =>
             \/ request[c].url \in {"index", "noindex"}
             \/ request[c].auth = "right"
        BY <1>4, <2>1, ParseHttp DEF Read
  <2>3. TypeOK'
        BY <1>4, <2>2 DEF Read, TypeOK, sockets, database
  <2>4. LoopNeverBlocks'
        BY <1>4 DEF Read, LoopNeverBlocks, Readable, sockets
  <2>5. ServingOpen'
        BY <1>4 DEF Read, ServingOpen, Serving, LoopNeverBlocks, TypeOK,
                    sockets
  <2>6. ResponseAllowed' /\ PagesProtected'
        BY <1>4, <2>2 DEF Read, ResponseAllowed, PagesProtected, Serving,
                          sockets
  <2>7. QED BY <2>3, <2>4, <2>5, <2>6
<1>5. QED BY <1>1, <1>2, <1>3, <1>4

\* The answer: the SELECT, a send that fails, and the end of the request.
LEMMA AnswerStep ==
  ASSUME IInv, Select \/ SendFails \/ Answer
  PROVE  IInv'
<1> USE DEF IInv
<1>1. CASE Select \/ SendFails
  <2>1. /\ crash' \in {"no", "send_assert", "select_assert", crash}
        /\ wpc' \in {wpc, "rows"}
        /\ Serving /\ Serving'
        /\ UNCHANGED <<events, sockets, http, database>>
        BY <1>1 DEF Select, SendFails, Abort, Serving
  <2>2. TypeOK'
        BY <2>1 DEF TypeOK, events, sockets, http, database
  <2>3. LoopNeverBlocks'
        BY <2>1 DEF LoopNeverBlocks, Readable, events, sockets
  <2>4. ServingOpen' /\ ResponseAllowed' /\ PagesProtected'
        BY <2>1 DEF ServingOpen, ResponseAllowed, PagesProtected,
                    events, sockets, http
  <2>5. QED BY <2>2, <2>3, <2>4
<1>2. CASE Answer
  <2>1. Serving /\ ~Serving'
        BY <1>2 DEF Answer, Serving
  <2>2. serving \in Conns /\ serving \notin batch
        BY <2>1 DEF ServingOpen
  <2>3. TypeOK'
        BY <1>2, <2>2 DEF Answer, Close, TypeOK, database
  <2>4. LoopNeverBlocks'
        BY <1>2, <2>2 DEF Answer, Close, LoopNeverBlocks, TypeOK, Readable
  <2>5. ServingOpen' /\ ResponseAllowed'
        BY <2>1 DEF ServingOpen, ResponseAllowed
  <2>6. PagesProtected'
        BY <1>2, <2>1, <2>2 DEF Answer, PagesProtected, ResponseAllowed,
                                TypeOK
  <2>7. QED BY <2>3, <2>4, <2>5, <2>6
<1>3. QED BY <1>1, <1>2

\* The capturing process touches nothing but the database's lock, and Kill
\* nothing but crash.
LEMMA OtherStep ==
  ASSUME IInv,
         \/ InsertBegins \/ InsertBusy \/ InsertCommits \/ InsertEnds
         \/ Kill
         \/ UNCHANGED vars
  PROVE  IInv'
<1>1. /\ UNCHANGED <<wpc, events, sockets, http>>
      /\ writer' \in {"idle", "reserved", "exclusive"}
      /\ inserts' \in 0 .. MaxInserts
      /\ crash' \in {crash, "killed"}
      BY DEF IInv, TypeOK, InsertBegins, InsertBusy, InsertCommits,
             InsertEnds, Kill, vars, database
<1>2. TypeOK'
      BY <1>1 DEF IInv, TypeOK, events, sockets, http
<1>3. LoopNeverBlocks'
      BY <1>1 DEF IInv, LoopNeverBlocks, Readable, events, sockets
<1>4. ServingOpen' /\ ResponseAllowed' /\ PagesProtected'
      BY <1>1 DEF IInv, ServingOpen, ResponseAllowed, PagesProtected,
                  Serving, events, sockets, http
<1>5. QED BY <1>2, <1>3, <1>4 DEF IInv

\* The invariant holds of every reachable state.
LEMMA Inductive == Spec => []IInv
<1>1. ASSUME IInv, [Next]_vars PROVE IInv'
  <2>1. CASE WebStep
        BY <1>1, <2>1, LoopStep, ReadStep, AnswerStep DEF WebStep
  <2>2. CASE \E c \in Conns : Connect(c) \/ Send(c) \/ Leave(c)
        BY <1>1, <2>2, BrowserStep
  <2>3. CASE \/ InsertBegins \/ InsertBusy \/ InsertCommits \/ InsertEnds
             \/ Kill
             \/ UNCHANGED vars
        BY <1>1, <2>3, OtherStep
  <2>4. QED BY <1>1, <2>1, <2>2, <2>3 DEF Next
<1>2. QED BY <1>1, InitInv, PTL DEF Spec

-----------------------------------------------------------------------------
(* Theorems *)

\* The variables of the web process keep their types.
THEOREM WebTypeCorrect == Spec => []TypeOK
BY Inductive, PTL DEF IInv

\* However many connections come, send, close and are reset while events are
\* being handled, the loop of webserver_process.c never reads where nothing
\* waits, which would block its only thread, nor accepts where nobody does.
THEOREM TheLoopNeverBlocks == Spec => []LoopNeverBlocks
BY Inductive, PTL DEF IInv

\* Whatever is requested and however the request is cut, http_utils.c sends a
\* page other than the index only for the right credentials.
THEOREM PagesAreProtected == Spec => []PagesProtected
BY Inductive, PTL DEF IInv
=============================================================================
