------------------------------ MODULE WebServer ------------------------------
(***************************************************************************)
(* The web administration process of openDMD: its edge-triggered epoll     *)
(* loop (src/webserver/webserver_process.c, src/webserver/socket_utils.c), *)
(* the handling of a request (src/webserver/http_utils.c), and the         *)
(* database file, which the statistics page reads while the capturing      *)
(* process inserts motions into it (src/sqlite_utils.c).                   *)
(*                                                                         *)
(* The process has one thread.  It takes all pending events at once (fewer *)
(* than MAX_EPOLL_EVENT) and handles them one by one.  A connection's fd   *)
(* is the connection itself, used once.  A request arrives in two          *)
(* segments, the second with the empty line that ends it.  The sockets are *)
(* blocking: an answer that the socket's buffer does not hold is sent only *)
(* as far as the browser takes it.  The kernel's sockets and the browsers  *)
(* are external.                                                           *)
(***************************************************************************)
EXTENDS Integers, Sequences

CONSTANTS
  Conns,            \* connections browsers may open
  LISTENER,         \* the listening socket in the set of events
  Requests,         \* the requests browsers may send
  LISTEN_BACKLOG,
  MaxInserts        \* bound on the insertions of the capturing process

ASSUME ListenerAssumption == LISTENER \notin Conns
ASSUME BacklogAssumption == LISTEN_BACKLOG \in Nat
ASSUME InsertsAssumption == MaxInserts \in Nat

\* "noindex" is the index (or favicon.ico) where there is no such file
Urls == {"index", "noindex", "file", "missing", "statistics", "settings"}

\* protocol is HTTP/1.0 or HTTP/1.1; get is the method; long fills the
\* buffer; reads: the browser takes an answer of any length
Request ==
  [protocol: BOOLEAN, get: BOOLEAN, url: Urls,
   auth: {"none", "right", "wrong"}, long: BOOLEAN, reads: BOOLEAN]

ASSUME RequestsAssumption == Requests \subseteq Request

Responses ==
  {"bad_request", "not_implemented", "unauthorized", "not_found", "page",
   "settings", "statistics"}

VARIABLES
  wpc,              \* control point of the web process
  backlog,          \* connections waiting for accept
  ready,            \* edge-triggered events epoll_wait has not returned yet
  batch,            \* events of this round still to be handled
  conn,             \* connection -> its state at the server
  request,          \* connection -> the request its browser sends
  arrived,          \* connection -> segments received by the kernel
  peer,             \* connection -> what the browser did to it
  serving,          \* connection being answered, or LISTENER
  response,         \* what it will be answered, or "none"
  answers,          \* connection -> the answer sent, or "none"
  writer,           \* lock of the capturing process on the database
  inserts,          \* insertions begun
  crash             \* "no", the assertion that failed, or "killed"

sockets == <<backlog, conn, request, arrived, peer>>
events == <<ready, batch>>
http == <<serving, response, answers>>
database == <<writer, inserts>>
vars == <<wpc, events, sockets, http, database, crash>>

TypeOK ==
  /\ wpc \in {"wait", "handle", "answer", "select", "rows"}
  /\ backlog \in Seq(Conns)
  /\ ready \subseteq Conns \cup {LISTENER}
  /\ batch \subseteq Conns \cup {LISTENER}
  /\ conn \in [Conns -> {"none", "backlog", "open", "closed"}]
  /\ request \in [Conns -> Request]
  /\ arrived \in [Conns -> 0 .. 2]
  /\ peer \in [Conns -> {"here", "shut", "reset"}]
  /\ serving \in Conns \cup {LISTENER}
  /\ response \in Responses \cup {"none"}
  /\ answers \in [Conns -> Responses \cup {"none"}]
  /\ writer \in {"idle", "reserved", "exclusive"}
  /\ inserts \in 0 .. MaxInserts
  /\ crash \in {"no", "read_assert", "send_assert", "select_assert", "killed"}

Init ==
  /\ wpc = "wait"
  /\ backlog = <<>>
  /\ ready = {}
  /\ batch = {}
  /\ conn = [c \in Conns |-> "none"]
  /\ request \in [Conns -> Requests]
  /\ arrived = [c \in Conns |-> 0]
  /\ peer = [c \in Conns |-> "here"]
  /\ serving = LISTENER
  /\ response = "none"
  /\ answers = [c \in Conns |-> "none"]
  /\ writer = "idle"
  /\ inserts = 0
  /\ crash = "no"

-----------------------------------------------------------------------------
(* Browsers and the kernel *)

\* The web process runs: what happens once it ended is of no interest.
Runs == crash = "no"

\* read() on the connection would not block.
Readable(c) == arrived[c] > 0 \/ peer[c] # "here"

\* Something happened to connection c: an event if it is in the epoll set.
Raise(c) == ready' = IF conn[c] = "open" THEN ready \cup {c} ELSE ready

Connect(c) ==
  /\ Runs /\ conn[c] = "none"
  /\ Len(backlog) < LISTEN_BACKLOG
  /\ conn' = [conn EXCEPT ![c] = "backlog"]
  /\ backlog' = Append(backlog, c)
  /\ ready' = ready \cup {LISTENER}
  /\ UNCHANGED <<wpc, batch, request, arrived, peer, http, database,
                 crash>>

Send(c) ==
  /\ Runs /\ conn[c] \in {"backlog", "open"} /\ peer[c] = "here"
  /\ arrived[c] < 2
  /\ arrived' = [arrived EXCEPT ![c] = @ + 1]
  /\ Raise(c)
  /\ UNCHANGED <<wpc, batch, backlog, conn, request, peer, http, database,
                 crash>>

\* The browser closes its end, or resets the connection.
Leave(c) ==
  /\ Runs /\ conn[c] \in {"backlog", "open"} /\ peer[c] = "here"
  /\ \E how \in {"shut", "reset"} : peer' = [peer EXCEPT ![c] = how]
  /\ Raise(c)
  /\ UNCHANGED <<wpc, batch, backlog, conn, request, arrived, http,
                 database, crash>>

-----------------------------------------------------------------------------
(* The epoll loop *)

\* An assertion fails: abort().
Abort(reason) ==
  /\ crash' = reason
  /\ UNCHANGED <<wpc, events, sockets, http, database>>

EpollWait ==
  /\ Runs /\ wpc = "wait"
  /\ ready # {}
  /\ batch' = ready
  /\ ready' = {}
  /\ wpc' = "handle"
  /\ UNCHANGED <<sockets, http, database, crash>>

\* Event e is done with; without another one the loop waits again.
Handled(e) ==
  /\ batch' = batch \ {e}
  /\ wpc' = IF batch \subseteq {e} THEN "wait" ELSE "handle"

\* Mutant of Accept: an edge that came before EPOLL_CTL_ADD is missed.
AcceptUnready ==
  /\ Runs /\ wpc = "handle"
  /\ LISTENER \in batch
  /\ backlog # <<>>
  /\ conn' = [conn EXCEPT ![Head(backlog)] = "open"]
  /\ backlog' = Tail(backlog)
  /\ Handled(LISTENER)
  /\ UNCHANGED <<ready, request, arrived, peer, http, database, crash>>

\* One accept() per event of the listening socket, which has a connection to
\* return (LoopNeverBlocks).  A connection with something to read when it is
\* added to the epoll set is an event at once.
Accept ==
  /\ Runs /\ wpc = "handle"
  /\ LISTENER \in batch
  /\ backlog # <<>>
  /\ LET c == Head(backlog) IN
       /\ conn' = [conn EXCEPT ![c] = "open"]
       /\ ready' = IF Readable(c) THEN ready \cup {c} ELSE ready
  /\ backlog' = Tail(backlog)
  /\ Handled(LISTENER)
  /\ UNCHANGED <<request, arrived, peer, http, database, crash>>

\* Mutant of Close: the closed connection stays in the epoll set.
CloseKeepingEvents(c) ==
  /\ conn' = [conn EXCEPT ![c] = "closed"]
  /\ UNCHANGED ready

\* close(): the connection leaves the epoll set with its pending event.
Close(c) ==
  /\ conn' = [conn EXCEPT ![c] = "closed"]
  /\ ready' = ready \ {c}

-----------------------------------------------------------------------------
(* http_utils.c *)

\* Mutant of response_url: a request without credentials is let through.
response_url_open(url, auth) ==
  IF auth = "wrong" THEN "unauthorized"
  ELSE IF url \in {"index", "file"} THEN "page"
  ELSE IF url \in {"noindex", "missing"} THEN "not_found" ELSE url

\* Mutant of response_url: open() is not checked for failure.
response_url_unchecked(url, auth) ==
  IF auth = "wrong" \/ (auth = "none" /\ url \notin {"index", "noindex"})
  THEN "unauthorized"
  ELSE IF url \in {"index", "file"} THEN "page" ELSE url

\* Credentials that are sent must be right whatever the page; without any
\* only the index (and favicon.ico) is served.  A file that cannot be opened
\* is answered "not_found" (forbidden and not valid included).
response_url(url, auth) ==
  IF auth = "wrong" \/ (auth = "none" /\ url \notin {"index", "noindex"})
  THEN "unauthorized"
  ELSE IF url \in {"index", "file"} THEN "page"
  ELSE IF url \in {"noindex", "missing"} THEN "not_found" ELSE url

\* complete: the empty line is in what was read
parse_http(r, complete) ==
  IF ~complete \/ ~r.protocol THEN "bad_request"
  ELSE IF ~r.get THEN "not_implemented"
  ELSE response_url(r.url, r.auth)

\* handle_request: read() fails on a connection that was reset (what had
\* arrived before may still be read).  errno is assigned, not compared, so that
\* every failure counts as EAGAIN and the connection is left as it is.
ReadFails(c) ==
  /\ Runs /\ wpc = "handle" /\ c \in batch
  /\ peer[c] = "reset"
  /\ Handled(c)
  /\ UNCHANGED <<ready, sockets, http, database, crash>>

\* handle_request: the end of the stream
ReadEnd(c) ==
  /\ Runs /\ wpc = "handle" /\ c \in batch
  /\ peer[c] = "shut" /\ arrived[c] = 0
  /\ Close(c)
  /\ Handled(c)
  /\ UNCHANGED <<backlog, request, arrived, peer, http, database,
                 crash>>

\* handle_request: what has arrived is read once and parsed; a request that
\* fills the buffer is given up by an assertion.
Read(c) ==
  /\ Runs /\ wpc = "handle" /\ c \in batch
  /\ arrived[c] > 0
  /\ IF request[c].long /\ arrived[c] = 2
     THEN Abort("read_assert")
     ELSE /\ serving' = c
          /\ batch' = batch \ {c}
          /\ response' = parse_http(request[c], arrived[c] = 2)
          /\ wpc' = IF response' = "statistics" THEN "select" ELSE "answer"
          /\ UNCHANGED <<ready, sockets, answers, database, crash>>

\* The statistics page runs a SELECT, which is busy while the capturing
\* process commits: asserted not to happen.  Else it locks out commits until
\* the last row has been sent.
Select ==
  /\ Runs /\ wpc = "select"
  /\ IF writer = "exclusive"
     THEN Abort("select_assert")
     ELSE /\ wpc' = "rows"
          /\ UNCHANGED <<events, sockets, http, database, crash>>

\* Every send() is asserted to be complete; it is not when the browser left.
SendFails ==
  /\ Runs /\ wpc \in {"answer", "select", "rows"}
  /\ peer[serving] # "here"
  /\ Abort("send_assert")

\* The socket's buffer holds the fixed texts; a file and the rows of the
\* table may be longer.
Fits(answer) == answer \notin {"page", "statistics"}

\* send() blocks the only thread: the answer does not fit, and the browser
\* stays without reading it.  Nothing but the browser's leaving ends this
\* (SendFails).
SendBlocks ==
  /\ Runs /\ wpc \in {"answer", "rows"}
  /\ ~Fits(response) /\ ~request[serving].reads
  /\ peer[serving] = "here"

\* The answer is sent, as far as it fits or the browser reads, and the
\* connection closed.
Answer ==
  /\ Runs /\ wpc \in {"answer", "rows"}
  /\ peer[serving] # "reset"
  /\ Fits(response) \/ request[serving].reads
  /\ answers' = [answers EXCEPT ![serving] = response]
  /\ Close(serving)
  /\ serving' = LISTENER
  /\ response' = "none"
  /\ wpc' = IF batch = {} THEN "wait" ELSE "handle"
  /\ UNCHANGED <<batch, backlog, request, arrived, peer, database, crash>>

WebStep ==
  \/ EpollWait \/ Accept
  \/ \E c \in Conns : ReadFails(c) \/ ReadEnd(c) \/ Read(c)
  \/ Select \/ SendFails \/ Answer

-----------------------------------------------------------------------------
(* The capturing process, as long as there is a web process to see it:     *)
(* insert_item's transaction, and the end of main                          *)

InsertBegins ==
  /\ Runs /\ writer = "idle" /\ inserts < MaxInserts
  /\ inserts' = inserts + 1
  /\ writer' = "reserved"
  /\ UNCHANGED <<wpc, events, sockets, http, crash>>

\* SQLITE_BUSY while a SELECT is under way: the insertion is rolled back.
InsertBusy ==
  /\ Runs /\ writer = "reserved"
  /\ wpc = "rows"
  /\ writer' = "idle"
  /\ UNCHANGED <<wpc, events, sockets, http, inserts, crash>>

InsertCommits ==
  /\ Runs /\ writer = "reserved"
  /\ wpc # "rows"
  /\ writer' = "exclusive"
  /\ UNCHANGED <<wpc, events, sockets, http, inserts, crash>>

InsertEnds ==
  /\ Runs /\ writer = "exclusive"
  /\ writer' = "idle"
  /\ UNCHANGED <<wpc, events, sockets, http, inserts, crash>>

\* main kills the web process when it ends.
Kill ==
  /\ Runs
  /\ crash' = "killed"
  /\ UNCHANGED <<wpc, events, sockets, http, database>>

Next ==
  \/ WebStep
  \/ \E c \in Conns : Connect(c) \/ Send(c) \/ Leave(c)
  \/ InsertBegins \/ InsertBusy \/ InsertCommits \/ InsertEnds
  \/ Kill

Spec == Init /\ [][Next]_vars

\* The web process is scheduled; browsers may do nothing.
FairSpec == Spec /\ WF_vars(WebStep)

-----------------------------------------------------------------------------
(* Properties *)

\* The process has one thread and its connections are blocking sockets: it
\* must never read where nothing waits, nor accept (which would fail and add
\* -1 to the epoll set) where nobody does.  Every event that is
\* pending or being handled is for a connection still open with something to
\* read, and every event of the listening socket has its own connection in
\* the backlog.
LoopNeverBlocks ==
  /\ \A c \in (ready \cup batch) \ {LISTENER} :
       conn[c] = "open" /\ Readable(c)
  /\ LISTENER \in ready \cup batch => Len(backlog) >= 1
  /\ LISTENER \in ready \cap batch => Len(backlog) >= 2

\* A page other than the index is sent only to a browser with the right
\* credentials, whatever part of its request had arrived when it was read.
PagesProtected ==
  \A c \in Conns :
    answers[c] \in {"page", "settings", "statistics", "not_found"} =>
      request[c].url \in {"index", "noindex"} \/ request[c].auth = "right"

\* An accepted connection that sent something, or was shut by its browser,
\* is closed in the end: no event is lost, although events are
\* edge-triggered, may come before accept() or while others are handled, and
\* a connection is read only once.  Exceptions: the process ended (a failed
\* assertion, or killed), a connection that was reset is never closed, and
\* one browser that stays without reading a long answer blocks the process
\* in send(), for all of them.
AcceptedAreServed ==
  \A c \in Conns :
    conn[c] = "open" /\ Readable(c)
      ~> \/ conn[c] = "closed" \/ peer[c] = "reset"
         \/ SendBlocks \/ crash # "no"
=============================================================================
