----------------------------- MODULE RtpServer -----------------------------
(***************************************************************************)
(* The cluster server (src/server/rtp_server.c): a session and a directory *)
(* per client, one thread that waits for the sessions, takes what oRTP has *)
(* for each of them and appends it to a file of the client, and starts a   *)
(* new file after a pause.  oRTP hands over fragments as the module        *)
(* OrderedChannel says; here a fragment is its number and its sender.      *)
(* oRTP's scheduler is a second thread: a session for which nothing is due *)
(* yet is out of r_sessions, the mask select looks at, until the scheduler *)
(* puts it back.  A name is the local time, which may repeat (LocalClock). *)
(***************************************************************************)
EXTENDS Integers, Sequences, LocalClock

CONSTANTS
    ClientScale,        \* client_scale, the same on clients and server
    ServerPortBase,     \* server_port_base, the same on both sides
    LastDuration,       \* last_duration, in seconds
    MaxTime,            \* bound on the clock
    MaxFragments        \* bound on the fragments of a client

Clients == 1..ClientScale       \* local_sequence_number of the clients
Items == 0..ClientScale - 1     \* indices of client_items

ASSUME ScaleAssumption == ClientScale \in Nat \ {0}
ASSUME DurationAssumption == LastDuration \in Nat \ {0}
ASSUME PortAssumption == ServerPortBase \in Nat
ASSUME BoundAssumption == MaxTime \in Nat /\ MaxFragments \in Nat

VARIABLES
    pc,             \* where the only thread of the server is
    item,           \* i of the loops
    set,            \* the sessions session_set_select() returned
    bound,          \* items whose session has been created
    server_running,
    scheduler,      \* oRTP's scheduler: "live" or "freed"
    r_sessions,     \* its mask of the sessions select may return
    waiting,        \* sessions it is asked to put there (rcv.wp.wakeup)
    lasttime,       \* client_items[i].lasttime
    filename,       \* client_items[i].filename: the local time it is made of
    named,          \* history: the second that was
    entry,          \* the local lasttime of deal_with_client()
    now,            \* its local now, and
    packet,         \*   the fragment in its buffer
    havemore,
    clock,          \* the time of day, in seconds
    taken,          \* taken[c]: fragments of client c taken so far
    files           \* the fragments in each file, with the second of each
                    \* and, as history, of the name it was written under

vars == <<pc, item, set, bound, server_running, scheduler, r_sessions, waiting,
          lasttime, filename, named, entry, now, packet, havemore, clock, taken,
          files>>

NoPacket == [from |-> 0, n |-> 0]
NoName == -1

\* Mutant of SessionPort: the items count from 0.
SessionPortFromBase(i) == ServerPortBase + 2 * i

\* The RTP ports: of item i on the server, of client c as main.c computes it
SessionPort(i) == ServerPortBase + 2 * (i + 1)
ClientPort(c) == ServerPortBase + 2 * c

\* RTCP uses the port after it
PortsOf(i) == {SessionPort(i), SessionPort(i) + 1}

Init ==
    /\ pc = "init" /\ item = 0 /\ set = {} /\ bound = {}
    /\ server_running = TRUE
    /\ scheduler = "live" /\ r_sessions = {} /\ waiting = {}
    /\ lasttime = [i \in Items |-> 0]
    /\ filename = [i \in Items |-> NoName]
    /\ named = [i \in Items |-> NoName]
    /\ entry = 0 /\ now = 0 /\ packet = NoPacket /\ havemore = FALSE
    /\ clock = LastDuration + 1
    /\ taken = [c \in Clients |-> 0]
    /\ files = [f \in {} |-> <<>>]

----------------------------------------------------------------------------
local == <<entry, now, packet, havemore>>
disk == <<clock, taken, files>>
masks == <<r_sessions, waiting>>
client_items == <<lasttime, filename, named>>

\* A turn of rtp_server_init()'s loop: a session on its port, which select may
\* return until it is first received from, and its directory; if that fails,
\* main goes to its end without rtp_server_clean()
InitItem(fails) ==
    /\ pc = "init"
    /\ item' = IF item + 1 \in Items /\ ~fails THEN item + 1 ELSE 0
    /\ bound' = bound \cup {item}
    /\ r_sessions' = r_sessions \cup {item}
    /\ pc' = IF fails THEN "failed"
             ELSE IF item + 1 \in Items THEN "init" ELSE "loop"
    /\ UNCHANGED <<set, server_running, scheduler, waiting>>
    /\ UNCHANGED client_items /\ UNCHANGED local /\ UNCHANGED disk

\* Mutant of Loop: server_running is not looked at.
LoopForEver ==
    /\ pc = "loop"
    /\ set' = Items /\ pc' = "select"
    /\ UNCHANGED <<item, bound, server_running, scheduler>>
    /\ UNCHANGED masks /\ UNCHANGED client_items
    /\ UNCHANGED local /\ UNCHANGED disk

\* while (server_running): select is asked about every session
Loop ==
    /\ pc = "loop" /\ server_running
    /\ set' = Items /\ pc' = "select"
    /\ UNCHANGED <<item, bound, server_running, scheduler>>
    /\ UNCHANGED masks /\ UNCHANGED client_items
    /\ UNCHANGED local /\ UNCHANGED disk

\* session_set_select(), under the scheduler's lock: it takes the sessions
\* asked for from the mask, and while there is none waits for the scheduler's
\* next turn; a signal does not end this wait
Select ==
    /\ pc = "select"
    /\ r_sessions \cap set # {}
    /\ set' = r_sessions \cap set
    /\ r_sessions' = r_sessions \ set
    /\ item' = 0 /\ pc' = "item"
    /\ UNCHANGED <<bound, server_running, scheduler, waiting>>
    /\ UNCHANGED client_items /\ UNCHANGED local /\ UNCHANGED disk

\* rtp_session_process() in the scheduler's thread: what session j waits for
\* is due
Process(j) ==
    /\ scheduler = "live" /\ pc \notin {"failed", "crashed"}
    /\ j \in waiting
    /\ waiting' = waiting \ {j}
    /\ r_sessions' = r_sessions \cup {j}
    /\ UNCHANGED <<pc, item, set, bound, server_running, scheduler>>
    /\ UNCHANGED client_items /\ UNCHANGED local /\ UNCHANGED disk

Leave ==
    /\ pc = "loop" /\ ~server_running
    /\ item' = 0 /\ pc' = "clean"
    /\ UNCHANGED <<set, bound, server_running, scheduler>>
    /\ UNCHANGED masks /\ UNCHANGED client_items
    /\ UNCHANGED local /\ UNCHANGED disk

\* The for loop over the items: deal_with_client() begins with its lasttime
NextItem == IF item + 1 \in Items THEN item + 1 ELSE 0
AfterItem == IF item + 1 \in Items THEN "item" ELSE "loop"

Item ==
    /\ pc = "item"
    /\ IF item \in set
       THEN /\ entry' = lasttime[item] /\ havemore' = TRUE
            /\ pc' = "receive" /\ UNCHANGED <<item, now, packet>>
       ELSE /\ pc' = AfterItem /\ item' = NextItem /\ UNCHANGED local
    /\ UNCHANGED <<set, bound, server_running, scheduler>>
    /\ UNCHANGED masks /\ UNCHANGED client_items /\ UNCHANGED disk

\* The end of rtp_session_recvm_with_ts(): later, the next packet is not due,
\* the session leaves the mask and waits; else it is put there.  This and the
\* scheduler's thread change the mask under the locks of two sessions: when
\* they do it at the same time, one of the changes is lost.
Mark(later) ==
    LET mine == IF later THEN r_sessions \ {item} ELSE r_sessions \cup {item}
        waits == IF later THEN waiting \cup {item} ELSE waiting
    IN \/ r_sessions' = mine /\ waiting' = waits
       \/ \E j \in waiting \ {item} :
              /\ r_sessions' \in {mine, r_sessions \cup {j}}
              /\ waiting' = waits \ {j}

\* Mutant of AfterReceive: no new file is begun.
AfterReceiveWrites == "write"

\* now - lasttime > last_duration
AfterReceive == IF clock - entry > LastDuration THEN "name" ELSE "write"

\* rtp_session_recv_with_ts(): nothing, or a fragment some client sent to the
\* port of the session, and whether more is waiting; then time()
Receive(c, more) ==
    /\ pc = "receive" /\ havemore
    /\ \E later \in BOOLEAN : Mark(later)
    /\ ClientPort(c) = SessionPort(item)
    /\ taken[c] < MaxFragments
    /\ taken' = [taken EXCEPT ![c] = @ + 1]
    /\ packet' = [from |-> c, n |-> taken[c] + 1]
    /\ havemore' = more
    /\ now' = clock
    /\ pc' = AfterReceive
    /\ UNCHANGED <<item, set, bound, server_running, scheduler, entry, clock,
                   files>> /\ UNCHANGED client_items

ReceiveNothing ==
    /\ pc = "receive" /\ havemore
    /\ \E later \in BOOLEAN : Mark(later)
    /\ havemore' = FALSE
    /\ UNCHANGED <<pc, item, set, bound, server_running, scheduler, entry, now,
                   packet>> /\ UNCHANGED client_items /\ UNCHANGED disk

\* Mutant of NewName: a part of the time that repeats.
NewNameRepeats == LocalTime(clock) % 4

\* server_get_filepath() asks for the time again
NewName == LocalTime(clock)

Name ==
    /\ pc = "name"
    /\ filename' = [filename EXCEPT ![item] = NewName]
    /\ named' = [named EXCEPT ![item] = clock]
    /\ pc' = "write"
    /\ UNCHANGED <<item, set, bound, server_running, scheduler, lasttime>>
    /\ UNCHANGED masks /\ UNCHANGED local /\ UNCHANGED disk

\* Mutant of LastTime: the time of the write.
LastTimeOfWrite == clock

LastTime == now

\* The file is opened for appending, written and closed
Write ==
    /\ pc = "write"
    /\ lasttime' = [lasttime EXCEPT ![item] = LastTime]
    /\ LET f == <<item, filename[item]>>
           old == IF f \in DOMAIN files THEN files[f] ELSE <<>>
       IN files' = [g \in DOMAIN files \cup {f} |->
                       IF g = f
                       THEN Append(old, [from |-> packet.from, n |-> packet.n,
                                         at |-> now, named |-> named[item]])
                       ELSE files[g]]
    /\ packet' = NoPacket /\ now' = 0
    /\ pc' = "receive"
    /\ UNCHANGED <<item, set, bound, server_running, scheduler, filename, named,
                   entry, havemore, clock, taken>> /\ UNCHANGED masks

\* The name cannot be made, or the file not be opened or written: assertions
Abort ==
    /\ pc \in {"name", "write"}
    /\ pc' = "crashed"
    /\ UNCHANGED <<item, set, bound, server_running, scheduler>>
    /\ UNCHANGED masks /\ UNCHANGED client_items
    /\ UNCHANGED local /\ UNCHANGED disk

DealtWith ==
    /\ pc = "receive" /\ ~havemore
    /\ item' = NextItem /\ pc' = AfterItem
    /\ entry' = 0
    /\ UNCHANGED <<set, bound, server_running, scheduler, now, packet, havemore>>
    /\ UNCHANGED masks /\ UNCHANGED client_items /\ UNCHANGED disk

\* A turn of rtp_server_clean()'s loop: the first ortp_exit() ends the
\* scheduler's thread and frees the scheduler, from which
\* rtp_session_destroy() then removes the session: it locks and reads freed
\* memory, which may go well, end the process or never return
Clean(outcome) ==
    /\ pc = "clean"
    /\ scheduler' = "freed"
    /\ bound' = bound \ {item}
    /\ item' = NextItem
    /\ pc' = IF outcome # "goes_on" THEN outcome
             ELSE IF item + 1 \in Items THEN "clean" ELSE "done"
    /\ UNCHANGED <<set, server_running>>
    /\ UNCHANGED masks /\ UNCHANGED client_items
    /\ UNCHANGED local /\ UNCHANGED disk

Sigint ==
    /\ pc \notin {"failed", "crashed", "done"} /\ server_running
    /\ server_running' = FALSE
    /\ UNCHANGED <<pc, item, set, bound, scheduler>>
    /\ UNCHANGED masks /\ UNCHANGED client_items
    /\ UNCHANGED local /\ UNCHANGED disk

\* A second passes while the server runs; naming a file takes less than
\* LastDuration
Tick ==
    /\ clock < MaxTime /\ pc \notin {"failed", "crashed", "hung", "done"}
    /\ pc \in {"name", "write"} => clock < now + LastDuration
    /\ clock' = clock + 1
    /\ UNCHANGED <<pc, item, set, bound, server_running, scheduler, taken,
                   files>>
    /\ UNCHANGED masks /\ UNCHANGED client_items /\ UNCHANGED local

ServerStep ==
    \/ \E fails \in BOOLEAN : InitItem(fails)
    \/ Loop \/ Select \/ Leave \/ Item \/ ReceiveNothing \/ Name \/ Write
    \/ Abort \/ DealtWith
    \/ \E c \in Clients, more \in BOOLEAN : Receive(c, more)
    \/ \E outcome \in {"goes_on", "crashed", "hung"} : Clean(outcome)

SchedulerStep == \E j \in Items : Process(j)

Next == ServerStep \/ SchedulerStep \/ Sigint \/ Tick

\* The two threads run
Spec ==
    /\ Init /\ [][Next]_vars
    /\ WF_vars(ServerStep) /\ WF_vars(SchedulerStep)

----------------------------------------------------------------------------
PcLabels == {"init", "failed", "loop", "select", "item", "receive", "name",
             "write", "clean", "crashed", "hung", "done"}

\* The variables have their types, and a fragment is written to a named file.
TypeOK ==
    /\ pc \in PcLabels /\ item \in Items /\ set \subseteq Items
    /\ bound \subseteq Items
    /\ server_running \in BOOLEAN /\ scheduler \in {"live", "freed"}
    /\ r_sessions \subseteq Items /\ waiting \subseteq Items
    /\ lasttime \in [Items -> Nat]
    /\ filename \in [Items -> Nat \cup {NoName}]
    /\ named \in [Items -> Nat \cup {NoName}]
    /\ taken \in [Clients -> 0..MaxFragments]
    /\ \A f \in DOMAIN files : f \in Items \X Nat

\* A client's file holds nothing of another client: the ports of client and
\* server agree, and no RTCP port is another session's RTP port.
StreamsSeparated ==
    /\ \A f \in DOMAIN files : \A k \in DOMAIN files[f] :
           files[f][k].from = f[1] + 1
    /\ \A i, j \in bound : i # j => PortsOf(i) \cap PortsOf(j) = {}

\* After a pause of more than last_duration seconds a new file is begun, even
\* though lasttime is read once before a series of fragments and is stale
\* for all but the first: within a file no pause is longer, unless local time
\* was put back and the new name is an old one.
PauseStartsFile ==
    \A f \in DOMAIN files : \A k \in DOMAIN files[f] :
        k > 1 =>
            \/ files[f][k].at - files[f][k - 1].at <= LastDuration
            \/ PutBack(files[f][k - 1].named, files[f][k].named)

\* The files of a client, in the order of their names, hold its fragments in
\* the order in which they came: none is written to an older file, although
\* names are made with the resolution of a second and files are reopened.
\* Files whose names were made before and after local time was put back have
\* no such order; within a file there always is one.
FilesInOrder ==
    \A f, g \in DOMAIN files :
        f[1] = g[1] =>
            \A k \in DOMAIN files[f], l \in DOMAIN files[g] :
                \/ f = g /\ k < l
                \/ /\ f[2] < g[2]
                   /\ ~PutBack(files[g][l].named, files[f][k].named)
                => files[f][k].n < files[g][l].n

\* Ctrl-C brings the server to its end, although it may come while the thread
\* waits in select, which only the scheduler ends, and although a change of
\* the mask may be lost: it stops, or comes to rtp_server_clean(), which frees
\* the scheduler and after which nothing is certain.
SigintStops ==
    ~server_running ~> pc \in {"failed", "crashed"} \/ scheduler = "freed"
=============================================================================
