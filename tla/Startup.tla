------------------------------ MODULE Startup ------------------------------
(***************************************************************************)
(* From main() to the working program: the command line (src/main.c), the  *)
(* configuration file (src/parser.c, src/config.c), the database           *)
(* (src/sqlite_utils.c) and daemonize(), with the processes it forks and   *)
(* the file descriptors each of them has.                                  *)
(* A text is a model value; only the conversions that decide something are *)
(* modelled: atoi(), the range checks, and the last character of a line.   *)
(***************************************************************************)
EXTENDS Integers, Sequences, FiniteSets, FiniteSetsExt

CONSTANTS
    Commands,       \* command lines: sequences of options
    Files,          \* configuration files: sequences of lines
    Builds,         \* default of daemon_mode: {"on"} without -DDEBUG
    MaxFd,          \* bound on the descriptors of a process
    MaxRows         \* bound on the rows that are stored

NumberKeys == {"local_sequence_number", "client_scale", "server_port_base"}
WordKeys == {"daemon_mode", "cluster_mode", "working_mode"}
PathKeys == {"pid_file", "database_repo"}
PortNumbers == 0..65535
Keys == NumberKeys \cup WordKeys \cup PathKeys

\* A line has a kind: "comment", "blank", "bad" (no separator, or a second
\* one) or "item"; an item has a key, a value (for a number what atoi() makes
\* of it) and whether '\n' ends it
ASSUME FilesAssumption ==
    \A f \in Files :
        /\ Len(f) \in Nat /\ DOMAIN f = 1..Len(f)
        /\ \A i \in DOMAIN f :
             /\ f[i].kind \in {"comment", "blank", "bad", "item"}
             /\ f[i].kind = "item" =>
                  /\ f[i].key \in Keys \cup {"unknown"}
                  /\ f[i].key \in NumberKeys => f[i].value \in Int
                  /\ f[i].key = "database_repo" => f[i].value = "path"
                  /\ f[i].newline \in BOOLEAN

ASSUME CommandsAssumption ==
    \A a \in Commands : Len(a) \in Nat /\ DOMAIN a = 1..Len(a)
ASSUME BuildsAssumption == Builds \subseteq {"on", "off"}
ASSUME FdAssumption == MaxFd \in Nat /\ MaxFd > 5
ASSUME RowsAssumption == MaxRows \in Nat \ {0}

Original == 1       \* the process that was started
Child == 2          \* its child, and
Grandchild == 3     \*   the child of that
Pids == {Original, Child, Grandchild}
Descriptors == 0..MaxFd
Repositories == {"default", "path", "shortened"}

VARIABLES
    argv, opt,      \* the command line, and optind
    show, clean,    \* show_statistics and clean_statistics
    build,          \* the default of daemon_mode
    file, line,     \* the configuration file, and the line fgets() is at
    items,          \* conf->items, from the item parse_config() is at
    settings,       \* struct global_context, for the keys of Keys
    server_base,    \* global.server.server_port_base
    pc,             \* pc[p]: where process p is
    fds,            \* fds[p]: the open descriptors of p and what they refer to
    opendmd_db,     \* the descriptor in the open database connection
    leader,         \* the processes that lead a session of their own
    pidfile,        \* the pid in the pid file, 0 if it was not written
    database,       \* database[r]: rows in the database of repository r
    lost            \* rows that went elsewhere

config == <<argv, opt, show, clean, build, file, line, items, settings,
            server_base>>
world == <<leader, pidfile, database, lost>>
vars == <<config, pc, fds, opendmd_db, world>>

\* init_default_global(): the server's copy of the port base is not set
Defaults(daemon) ==
    [k \in Keys |->
        CASE k = "local_sequence_number" -> 1
          [] k = "client_scale" -> 5
          [] k = "server_port_base" -> 5000
          [] k = "daemon_mode" -> daemon
          [] k = "cluster_mode" -> "singleton"
          [] k = "working_mode" -> "video"
          [] OTHER -> "default"]

Init ==
    /\ argv \in Commands /\ opt = 1 /\ show = FALSE /\ clean = FALSE
    /\ build \in Builds
    /\ file \in Files /\ line = 1 /\ items = <<>>
    /\ settings = Defaults(build) /\ server_base = 0
    /\ pc = [p \in Pids |-> IF p = Original THEN "cmdline" ELSE "none"]
    /\ fds = [p \in Pids |-> IF p = Original THEN [d \in 0..2 |-> "terminal"]
                            ELSE [d \in {} |-> ""]]
    /\ opendmd_db = -1
    /\ leader = {} /\ pidfile = 0
    /\ database = [r \in Repositories |-> 1] /\ lost = 0

----------------------------------------------------------------------------
Goto(p, label) == pc' = [pc EXCEPT ![p] = label]

\* A descriptor is the lowest one that is free
Lowest(table) == Min(Descriptors \ DOMAIN table)
Opened(table, what) ==
    [d \in DOMAIN table \cup {Lowest(table)} |->
        IF d = Lowest(table) THEN what ELSE table[d]]

----------------------------------------------------------------------------
(* parse_cmdline() and manage_cmdline() *)

\* The switch has no case for what getopt_long() returns for -w, and like an
\* unknown option it ends the program
Option ==
    /\ pc[Original] = "cmdline" /\ opt <= Len(argv)
    /\ opt' = opt + 1
    /\ show' = (show \/ argv[opt] = "-s")
    /\ clean' = (clean \/ argv[opt] = "-c")
    /\ settings' = CASE argv[opt] = "-d" -> [settings EXCEPT !["daemon_mode"] = "on"]
                     [] argv[opt] = "-p" -> [settings EXCEPT !["pid_file"] = "option"]
                     [] OTHER -> settings
    /\ IF argv[opt] \in {"-s", "-c", "-d", "-p", "-f"}
       THEN UNCHANGED pc ELSE Goto(Original, "exited")
    /\ UNCHANGED <<argv, build, file, line, items, server_base, fds, opendmd_db>>
    /\ UNCHANGED world

\* -s and -c open the database of the default repository (the configuration
\* file has not been read by then), dump or clean it, and close it.  Whether
\* the table was cleaned is not looked at.
EndOfOptions(fails) ==
    /\ pc[Original] = "cmdline" /\ opt > Len(argv)
    /\ Goto(Original, CASE ~show /\ ~clean -> "parse"
                        [] show # clean /\ fails -> "aborted"
                        [] OTHER -> "exited")
    /\ \/ UNCHANGED database
       \/ /\ clean /\ ~show /\ ~fails
          /\ database' = [database EXCEPT ![settings["database_repo"]] = 0]
    /\ UNCHANGED <<config, fds, opendmd_db, leader, pidfile, lost>>

----------------------------------------------------------------------------
(* parse_config_file() and parse_config() *)

NoFile ==
    /\ pc[Original] = "parse" /\ line = 1
    /\ Goto(Original, "aborted")
    /\ UNCHANGED <<config, fds, opendmd_db>> /\ UNCHANGED world

\* The text of a number without its last digit, the sign staying
WithoutLastDigit(n) == IF n < 0 THEN -((-n) \div 10) ELSE n \div 10

\* The last character before the '\0' is removed, whether it is '\n' or not
ValueOf(l) ==
    IF l.newline THEN l.value
    ELSE IF l.key \in NumberKeys THEN WithoutLastDigit(l.value)
    ELSE "shortened"

\* Mutant of NextLine: a comment is not followed by another fgets().
NextLineRepeats == IF file[line].kind = "comment" THEN line ELSE line + 1

\* Mutant of NextLine: a comment is followed by one fgets() too many.
NextLineSkips == IF file[line].kind = "comment" THEN line + 2 ELSE line + 1

NextLine == line + 1

ReadLine ==
    /\ pc[Original] = "parse" /\ line <= Len(file)
    /\ line' = NextLine
    /\ items' = IF file[line].kind = "item"
                THEN Append(items, [key |-> file[line].key,
                                    value |-> ValueOf(file[line])])
                ELSE items
    /\ IF file[line].kind = "bad" THEN Goto(Original, "aborted")
       ELSE UNCHANGED pc
    /\ UNCHANGED <<argv, opt, show, clean, build, file, settings, server_base,
                   fds, opendmd_db>> /\ UNCHANGED world

\* dump_config() follows the next pointer of the heading node, which nobody
\* has set if no item was added
EndOfFile(headnext) ==
    /\ pc[Original] = "parse" /\ line > Len(file)
    /\ Goto(Original, IF items = <<>> /\ headnext = "garbage" THEN "aborted"
                      ELSE "apply")
    /\ UNCHANGED <<config, fds, opendmd_db>> /\ UNCHANGED world

\* Mutant of Valid: numbers are not checked.
ValidAnyNumber(key, value) ==
    \/ key \in NumberKeys
    \/ key = "daemon_mode" /\ value \in {"on", "off"}
    \/ key = "cluster_mode" /\ value \in {"singleton", "client", "server"}
    \/ key = "working_mode" /\ value \in {"picture", "video", "webserver", "all"}
    \/ key \in PathKeys

\* What the branch of a key in parse_config() accepts; an unknown key has none
Valid(key, value) ==
    \/ key \in {"local_sequence_number", "client_scale"} /\ value > 0
    \/ key = "server_port_base" /\ value \in PortNumbers
    \/ key = "daemon_mode" /\ value \in {"on", "off"}
    \/ key = "cluster_mode" /\ value \in {"singleton", "client", "server"}
    \/ key = "working_mode" /\ value \in {"picture", "video", "webserver", "all"}
    \/ key \in PathKeys

ApplyItem ==
    /\ pc[Original] = "apply" /\ items # <<>>
    /\ LET item == Head(items) IN
         IF Valid(item.key, item.value)
         THEN /\ settings' = [settings EXCEPT ![item.key] = item.value]
              /\ server_base' = IF item.key = "server_port_base"
                                THEN item.value ELSE server_base
              /\ items' = Tail(items)
              /\ UNCHANGED pc
         ELSE Goto(Original, "aborted") /\ UNCHANGED <<settings, server_base, items>>
    /\ UNCHANGED <<argv, opt, show, clean, build, file, line, fds, opendmd_db>>
    /\ UNCHANGED world

\* Mutant of check_config_integrity: the scale is off by one.
check_config_integrity_wide ==
    settings["cluster_mode"] = "client" =>
        settings["local_sequence_number"] \in 1..settings["client_scale"] + 1

check_config_integrity ==
    settings["cluster_mode"] = "client" =>
        settings["local_sequence_number"] \in 1..settings["client_scale"]

\* The end of parse_config(); the image buffers are allocated
EndOfConfig ==
    /\ pc[Original] = "apply" /\ items = <<>>
    /\ Goto(Original, IF check_config_integrity THEN "database" ELSE "aborted")
    /\ UNCHANGED <<config, fds, opendmd_db>> /\ UNCHANGED world

----------------------------------------------------------------------------
(* init_database() and daemonize() *)

InitDatabase(fails) ==
    /\ pc[Original] = "database"
    /\ Goto(Original, IF fails THEN "aborted"
                      ELSE IF settings["daemon_mode"] = "on" THEN "fork" ELSE "start")
    /\ IF fails THEN UNCHANGED <<fds, opendmd_db>>
       ELSE /\ fds' = [fds EXCEPT ![Original] = Opened(@, "database")]
            /\ opendmd_db' = Lowest(fds[Original])
    /\ UNCHANGED <<config, world>>

\* Either fork() of daemonize(): the child inherits the descriptors, the
\* parent exits when it gets to run again
Fork(p, child, next, fails) ==
    /\ pc' = [pc EXCEPT ![p] = IF fails THEN "exited" ELSE "parent",
                        ![child] = IF fails THEN @ ELSE next]
    /\ fds' = IF fails THEN fds ELSE [fds EXCEPT ![child] = fds[p]]
    /\ UNCHANGED <<config, opendmd_db, world>>

FirstFork(fails) == pc[Original] = "fork" /\ Fork(Original, Child, "setsid", fails)
SecondFork(fails) == pc[Child] = "fork" /\ Fork(Child, Grandchild, "close", fails)

ParentExits(p) ==
    /\ pc[p] = "parent" /\ Goto(p, "exited")
    /\ UNCHANGED <<config, fds, opendmd_db, world>>

\* setsid(), and SIGHUP is ignored
Setsid ==
    /\ pc[Child] = "setsid" /\ Goto(Child, "fork")
    /\ leader' = leader \cup {Child}
    /\ UNCHANGED <<config, fds, opendmd_db, pidfile, database, lost>>

\* chdir("/"), every descriptor is closed, and /dev/null is attached
CloseAll(fails) ==
    /\ pc[Grandchild] = "close"
    /\ Goto(Grandchild, IF fails THEN "exited" ELSE "pidfile")
    /\ fds' = IF fails THEN fds
              ELSE [fds EXCEPT ![Grandchild] = [d \in 0..2 |-> "null"]]
    /\ UNCHANGED <<config, opendmd_db, world>>

\* Mutant of PidWritten: global.pid as init_default_global() set it.
PidOfParent == Original

PidWritten == Grandchild

WritePid(fails) ==
    /\ pc[Grandchild] = "pidfile"
    /\ Goto(Grandchild, IF fails THEN "exited" ELSE "start")
    /\ pidfile' = IF fails THEN pidfile ELSE PidWritten
    /\ UNCHANGED <<config, fds, opendmd_db, leader, database, lost>>

----------------------------------------------------------------------------
(* The rest of main() *)

\* The threads, the sockets of a cluster client and the camera of a client;
\* the sockets of a server
Start(p, fails) ==
    /\ pc[p] = "start"
    /\ LET server == settings["cluster_mode"] = "server"
           table == IF settings["cluster_mode"] = "client"
                    THEN Opened(Opened(fds[p], "socket"), "socket") ELSE fds[p]
       IN CASE server ->
                 /\ Goto(p, IF fails THEN "exited" ELSE "serve")
                 /\ fds' = [fds EXCEPT ![p] = Opened(@, "socket")]
            [] ~server /\ (fails \/ settings["working_mode"] = "webserver") ->
                 Goto(p, "aborted") /\ UNCHANGED fds
            [] OTHER ->
                 /\ Goto(p, "capture")
                 /\ fds' = [fds EXCEPT ![p] = Opened(table, "camera")]
    /\ UNCHANGED <<config, opendmd_db, world>>

\* insert_item() when a motion has ended: SQLite writes to its descriptor
StoreRow(p) ==
    /\ pc[p] = "capture"
    /\ database[settings["database_repo"]] + lost < MaxRows
    /\ IF /\ opendmd_db \in DOMAIN fds[p]
          /\ fds[p][opendmd_db] = "database"
       THEN /\ database' = [database EXCEPT ![settings["database_repo"]] = @ + 1]
            /\ UNCHANGED lost
       ELSE lost' = lost + 1 /\ UNCHANGED database
    /\ UNCHANGED <<config, pc, fds, opendmd_db, leader, pidfile>>

Step ==
    \/ Option \/ NoFile \/ ReadLine
    \/ \E headnext \in {"null", "garbage"} : EndOfFile(headnext)
    \/ ApplyItem \/ EndOfConfig \/ Setsid
    \/ \E p \in Pids : ParentExits(p)
    \/ \E fails \in BOOLEAN :
         \/ EndOfOptions(fails) \/ InitDatabase(fails) \/ FirstFork(fails) \/ SecondFork(fails)
         \/ CloseAll(fails) \/ WritePid(fails)
         \/ \E p \in Pids : Start(p, fails)

Next == Step \/ \E p \in Pids : StoreRow(p)

\* Every process that can run does
Spec == Init /\ [][Next]_vars /\ WF_vars(Step)

----------------------------------------------------------------------------
Ended == {"none", "exited", "aborted"}
Working == {"start", "capture", "serve"}
Labels == {"cmdline", "parse", "apply", "database", "fork", "parent", "setsid",
           "close", "pidfile"} \cup Ended \cup Working

\* The variables have their types: no setting is out of its range, a process
\* table holds what was opened.
TypeOK ==
    /\ pc \in [Pids -> Labels]
    /\ settings["local_sequence_number"] \in Nat \ {0}
    /\ settings["client_scale"] \in Nat \ {0}
    /\ settings["server_port_base"] \in PortNumbers
    /\ settings["daemon_mode"] \in {"on", "off"}
    /\ settings["cluster_mode"] \in {"singleton", "client", "server"}
    /\ settings["working_mode"] \in {"picture", "video", "webserver", "all"}
    /\ server_base \in {0, settings["server_port_base"]}
    /\ \A p \in Pids : DOMAIN fds[p] \subseteq Descriptors
    /\ leader \subseteq Pids /\ pidfile \in Pids \cup {0}
    /\ database \in [Repositories -> 0..MaxRows] /\ lost \in 0..MaxRows

\* The value the user gave: the last one in the file, else the option, else
\* the default
Given(k) ==
    LET at == {i \in DOMAIN file : file[i].kind = "item" /\ file[i].key = k}
        option(o) == \E i \in DOMAIN argv : argv[i] = o
    IN CASE at # {} -> file[Max(at)].value
         [] at = {} /\ k = "daemon_mode" /\ option("-d") -> "on"
         [] at = {} /\ k = "pid_file" /\ option("-p") -> "option"
         [] OTHER -> Defaults(build)[k]

Terminated == \A i \in DOMAIN file : file[i].kind = "item" => file[i].newline

\* A program that works has read every line of a well formed file: each of
\* its settings is the last value given, and no line was skipped, misread or
\* overruled by an earlier one.  The file overrules the command line.
SettingsAreGiven ==
    (\E p \in Pids : pc[p] \in Working) /\ Terminated =>
        /\ \A k \in Keys : settings[k] = Given(k)
        /\ \A i \in DOMAIN file : file[i].kind # "bad"

\* The port a cluster client sends to, and those the server reads with the
\* same file, as they are put in a datagram
Port(n) == n % 65536
ServedPorts ==
    {Port(server_base + 2 * (i + 1)) : i \in 0..settings["client_scale"] - 1}
ClientPort ==
    Port(settings["server_port_base"] + 2 * settings["local_sequence_number"])

\* A cluster client that works sends to a port which a server with the same
\* file serves, in whatever order the file gives number, scale and base, if
\* it gives the base: the defaults of client and server differ.
PortIsServed ==
    \A p \in Pids :
        /\ pc[p] = "capture" /\ settings["cluster_mode"] = "client"
        /\ \E i \in DOMAIN file :
               file[i].kind = "item" /\ file[i].key = "server_port_base"
        => ClientPort \in ServedPorts

\* One process works, if any does.  A daemon is not the leader of its session
\* (it cannot get a terminal again), has /dev/null where its ancestors had the
\* terminal, and the pid file names it.
WorkerDetached ==
    \A p \in Pids :
        pc[p] \in Working =>
            /\ \A q \in Pids \ {p} : pc[q] \in Ended \cup {"parent"}
            /\ settings["daemon_mode"] = "on" =>
                 /\ p \notin leader /\ leader # {}
                 /\ pidfile = p
                 /\ \A d \in 0..2 : d \in DOMAIN fds[p] /\ fds[p][d] = "null"

\* The start comes to an end: of all processes one works, or none is left.
StartEnds ==
    <>[](\A p \in Pids : pc[p] \in Ended \cup {"capture", "serve"})

\* A motion that has ended gets its row in the database, daemon or not.
RowsStored == lost = 0
=============================================================================
