--------------------------- MODULE StartupProofs ---------------------------
(***************************************************************************)
(* Theorems about the start of the program: for every command line, every  *)
(* configuration file and every way its system calls fail.                 *)
(***************************************************************************)
EXTENDS Startup, TLAPS

----------------------------------------------------------------------------
(* The inductive invariant *)

\* What may be open: no table has a gap, so a new descriptor is the next.
FdInv ==
    \A p \in Pids :
        \E n \in 0..MaxFd + 1 :
            /\ DOMAIN fds[p] = 0..n - 1
            /\ pc[p] \in {"cmdline", "parse", "apply", "database"} => n = 3
            /\ pc[p] \in {"fork", "setsid", "close", "pidfile", "start"} =>
                  n \in 3..4

NoTerminal(p) == \A d \in 0..2 : d \in DOMAIN fds[p] /\ fds[p][d] = "null"

\* Where the three processes may be, and what was done before.
ProcessInv ==
    /\ pc[Original] \in {"cmdline", "parse", "apply", "database", "fork", "parent",
                         "exited", "aborted"} \cup Working
    /\ pc[Child] \in {"none", "setsid", "fork", "parent", "exited"}
    /\ pc[Grandchild] \in {"none", "close", "pidfile", "exited", "aborted"}
                            \cup Working
    /\ pc[Child] # "none" => /\ pc[Original] \in {"parent", "exited"}
                             /\ settings["daemon_mode"] = "on"
    /\ pc[Grandchild] # "none" => pc[Child] \in {"parent", "exited"}
    /\ pc[Child] = "fork" \/ pc[Grandchild] # "none" => leader = {Child}
    /\ leader \subseteq {Child}
    /\ pc[Original] = "fork" => settings["daemon_mode"] = "on"
    /\ pc[Original] \in Working => settings["daemon_mode"] = "off"
    /\ pc[Grandchild] \in Working \cup {"pidfile"} => NoTerminal(Grandchild)
    /\ pc[Grandchild] \in Working => pidfile = Grandchild

\* What has been read, and what is in the list of items
ItemOf(l) == [key |-> l.key, value |-> ValueOf(l)]
Items == {ItemOf(file[i]) : i \in {j \in DOMAIN file : file[j].kind = "item"}}

SettingsType ==
    /\ DOMAIN settings = Keys
    /\ settings["local_sequence_number"] \in Nat \ {0}
    /\ settings["client_scale"] \in Nat \ {0}
    /\ settings["server_port_base"] \in PortNumbers
    /\ settings["daemon_mode"] \in {"on", "off"}
    /\ settings["cluster_mode"] \in {"singleton", "client", "server"}
    /\ settings["working_mode"] \in {"picture", "video", "webserver", "all"}
    /\ settings["database_repo"] \in Repositories
    /\ server_base \in {0, settings["server_port_base"]}

TypeInv ==
    /\ argv \in Commands /\ build \in Builds /\ file \in Files
    /\ opt \in 1..Len(argv) + 1 /\ line \in 1..Len(file) + 1
    /\ items \in Seq(Items)
    /\ SettingsType
    /\ pc \in [Pids -> Labels]
    /\ DOMAIN fds = Pids
    /\ leader \subseteq Pids /\ pidfile \in Pids \cup {0}
    /\ database \in [Repositories -> 0..MaxRows] /\ lost \in 0..MaxRows

\* What the first n options make of setting k
OptionValue(k, n) ==
    CASE k = "daemon_mode" /\ (\E i \in 1..n : argv[i] = "-d") -> "on"
      [] k = "pid_file" /\ (\E i \in 1..n : argv[i] = "-p") -> "option"
      [] OTHER -> Defaults(build)[k]

\* Line i gives setting k; it is the last of the first n lines that does
GivenAt(k, i) == file[i].kind = "item" /\ file[i].key = k
NoLine(n, k) == \A i \in 1..n : ~GivenAt(k, i)
LastLine(n, k, i) ==
    i \in 1..n /\ GivenAt(k, i) /\ \A l \in i + 1..n : ~GivenAt(k, l)

\* The last item for k in the list q has value v
NoneIn(q, k) == \A j \in 1..Len(q) : q[j].key # k
LastIn(q, k, v) ==
    \E j \in 1..Len(q) : /\ q[j].key = k /\ q[j].value = v
                         /\ \A l \in j + 1..Len(q) : q[l].key # k

\* The command line and the file together give k the value v
ReadValue(k, v) ==
    \/ NoLine(Len(file), k) /\ v = OptionValue(k, Len(argv))
    \/ \E i \in 1..Len(file) : LastLine(Len(file), k, i) /\ v = ValueOf(file[i])

OptionsInv ==
    /\ line = 1 /\ items = <<>>
    /\ \A k \in Keys : settings[k] = OptionValue(k, opt - 1)

ParseInv ==
    /\ \A k \in Keys : settings[k] = OptionValue(k, Len(argv))
    /\ \A i \in 1..line - 1 : file[i].kind # "bad"
    /\ \A k \in Keys :
         \/ NoLine(line - 1, k) /\ NoneIn(items, k)
         \/ \E i \in 1..line - 1 : /\ LastLine(line - 1, k, i)
                                   /\ LastIn(items, k, ValueOf(file[i]))

PortInv(q) ==
    \/ NoLine(Len(file), "server_port_base")
    \/ ~NoneIn(q, "server_port_base")
    \/ server_base = settings["server_port_base"]

ApplyInv ==
    /\ \A i \in 1..Len(file) : file[i].kind # "bad"
    /\ \A k \in Keys :
         \E v : /\ ReadValue(k, v)
               /\ \/ NoneIn(items, k) /\ settings[k] = v
                  \/ LastIn(items, k, v)
    /\ PortInv(items)

Past == {"database", "fork", "parent", "setsid", "close", "pidfile"} \cup Working

ReadyInv ==
    /\ \A i \in 1..Len(file) : file[i].kind # "bad"
    /\ \A k \in Keys : ReadValue(k, settings[k])
    /\ PortInv(<<>>)
    /\ check_config_integrity

ConfigInv ==
    /\ pc[Original] = "cmdline" => OptionsInv
    /\ pc[Original] = "parse" => ParseInv
    /\ pc[Original] = "apply" => ApplyInv
    /\ (\E p \in Pids : pc[p] \in Past) => ReadyInv

StartInv == TypeInv /\ FdInv /\ ProcessInv /\ ConfigInv

----------------------------------------------------------------------------
(* Descriptors *)

\* In a table without a gap the next descriptor is the number of open ones.
LEMMA NextDescriptor ==
  ASSUME NEW table, NEW n \in 0..MaxFd, DOMAIN table = 0..n - 1, NEW what
  PROVE  /\ Lowest(table) = n
         /\ DOMAIN Opened(table, what) = 0..(n + 1) - 1
         /\ \A d \in 0..n - 1 : Opened(table, what)[d] = table[d]
  <1> DEFINE S == Descriptors \ DOMAIN table
  <1>1. n \in S /\ \A y \in S : y \in Int /\ n <= y
    BY FdAssumption DEF Descriptors
  <1>2. Min(S) \in S /\ \A y \in S : Min(S) <= y
    <2> HIDE DEF S
    <2> QED
      BY <1>1, Zenon DEF Min
  <1>3. Lowest(table) = Min(S)
    BY Zenon DEF Lowest
  <1> DEFINE m == Min(S)
  <1>4. m \in S /\ m <= n
    BY <1>1, <1>2
  <1> HIDE DEF m, S
  <1>5. m = n
    BY <1>1, <1>4
  <1>6. Lowest(table) = n
    BY <1>3, <1>5 DEF m
  <1>7. DOMAIN Opened(table, what) = (0..n - 1) \cup {n}
    BY <1>6 DEF Opened
  <1>8. (0..n - 1) \cup {n} = 0..(n + 1) - 1
    OBVIOUS
  <1>9. \A d \in 0..n - 1 : Opened(table, what)[d] = table[d]
    BY <1>6 DEF Opened
  <1> QED
    BY <1>6, <1>7, <1>8, <1>9

----------------------------------------------------------------------------
(* The start *)

\* The invariant holds when the program is started.
LEMMA StartInit == Init => StartInv
  <1> SUFFICES ASSUME Init PROVE StartInv
    OBVIOUS
  <1>1. /\ argv \in Commands /\ build \in Builds /\ file \in Files
        /\ opt = 1 /\ line = 1 /\ items = <<>>
        /\ Len(argv) \in Nat /\ Len(file) \in Nat
    BY FilesAssumption, CommandsAssumption DEF Init
  <1>2. SettingsType
    <2>1. build \in {"on", "off"}
      BY <1>1, BuildsAssumption
    <2>2. settings = Defaults(build) /\ server_base = 0
      BY DEF Init
    <2>3. /\ DOMAIN settings = Keys
          /\ settings["local_sequence_number"] = 1
          /\ settings["client_scale"] = 5
          /\ settings["server_port_base"] = 5000
          /\ settings["daemon_mode"] = build
          /\ settings["cluster_mode"] = "singleton"
          /\ settings["working_mode"] = "video"
          /\ settings["database_repo"] = "default"
      BY <2>2 DEF Defaults, Keys, NumberKeys, WordKeys, PathKeys
    <2> QED
      BY <2>1, <2>2, <2>3 DEF SettingsType, PortNumbers, Repositories
  <1>3. pc \in [Pids -> Labels] /\ pc[Original] = "cmdline"
        /\ pc[Child] = "none" /\ pc[Grandchild] = "none"
    BY DEF Init, Pids, Labels, Ended, Working, Original, Child, Grandchild
  <1>4. TypeInv
    <2>1. opt \in 1..Len(argv) + 1 /\ line \in 1..Len(file) + 1
      BY <1>1
    <2>2. items \in Seq(Items)
      BY <1>1
    <2>3. DOMAIN fds = Pids /\ leader \subseteq Pids /\ pidfile \in Pids \cup {0}
      BY DEF Init
    <2>4. database \in [Repositories -> 0..MaxRows] /\ lost \in 0..MaxRows
      BY RowsAssumption DEF Init
    <2> QED
      BY <1>1, <1>2, <1>3, <2>1, <2>2, <2>3, <2>4 DEF TypeInv
  <1>5. FdInv
    <2> SUFFICES ASSUME NEW p \in Pids
                 PROVE  \E n \in 0..MaxFd + 1 :
                          /\ DOMAIN fds[p] = 0..n - 1
                          /\ pc[p] \in {"cmdline", "parse", "apply", "database"}
                               => n = 3
                          /\ pc[p] \in {"fork", "setsid", "close", "pidfile", "start"}
                               => n \in 3..4
      BY DEF FdInv
    <2>1. CASE p = Original
      <3>1. DOMAIN fds[p] = 0..3 - 1 /\ 3 \in 0..MaxFd + 1
        BY <2>1, FdAssumption DEF Init
      <3> QED
        BY <1>3, <2>1, <3>1
    <2>2. CASE p # Original
      <3>1. DOMAIN fds[p] = 0..0 - 1 /\ 0 \in 0..MaxFd + 1
        BY <2>2, FdAssumption DEF Init
      <3>2. pc[p] = "none"
        BY <1>3, <2>2 DEF Pids
      <3> QED
        BY <3>1, <3>2
    <2> QED
      BY <2>1, <2>2
  <1>6. ProcessInv
    BY <1>3 DEF Init, ProcessInv, Working
  <1>7. ConfigInv
    <2>1. \A k \in Keys : settings[k] = OptionValue(k, opt - 1)
      <3> SUFFICES ASSUME NEW k \in Keys PROVE settings[k] = OptionValue(k, opt - 1)
        OBVIOUS
      <3>1. 1..opt - 1 = {}
        BY <1>1
      <3>2. settings[k] = Defaults(build)[k]
        BY DEF Init
      <3> QED
        BY <3>1, <3>2 DEF OptionValue
    <2>2. OptionsInv
      BY <1>1, <2>1 DEF OptionsInv
    <2>3. \A p \in Pids : pc[p] \notin Past
      BY <1>3 DEF Pids, Past, Working
    <2> QED
      BY <1>3, <2>2, <2>3 DEF ConfigInv
  <1> QED
    BY <1>4, <1>5, <1>6, <1>7 DEF StartInv

----------------------------------------------------------------------------
(* The processes *)

\* The three processes are different ones.
LEMMA ThreePids ==
  /\ Pids = {Original, Child, Grandchild}
  /\ Original # Child /\ Original # Grandchild /\ Child # Grandchild
  BY DEF Pids, Original, Child, Grandchild

\* A process that goes to a label leaves the others where they are.
LEMMA GotoFacts ==
  ASSUME TypeInv, NEW p \in Pids, NEW label \in Labels, Goto(p, label)
  PROVE  /\ pc' \in [Pids -> Labels] /\ pc'[p] = label
         /\ \A q \in Pids : q # p => pc'[q] = pc[q]
  BY DEF TypeInv, Goto

\* Before the configuration has been read there is one process.
LEMMA Alone ==
  ASSUME TypeInv, ProcessInv,
         pc[Original] \in {"cmdline", "parse", "apply", "database"}
  PROVE  /\ pc[Child] = "none" /\ pc[Grandchild] = "none"
         /\ \A p \in Pids \ {Original} : pc[p] = "none"
  BY ThreePids DEF ProcessInv

\* While there is one process and it has not got to daemonize(), the
\* invariant of the processes holds whatever happens to the settings.
LEMMA ProcessAlone ==
  ASSUME TypeInv, ProcessInv,
         pc[Original] \in {"cmdline", "parse", "apply", "database"},
         NEW label \in {"cmdline", "parse", "apply", "database", "fork",
                        "exited", "aborted", "start"},
         label = "fork" => settings'["daemon_mode"] = "on",
         label = "start" => settings'["daemon_mode"] = "off",
         pc' = [pc EXCEPT ![Original] = label], leader' = leader
  PROVE  ProcessInv'
  <1>1. pc'[Original] = label /\ pc'[Child] = "none" /\ pc'[Grandchild] = "none"
    BY Alone, ThreePids DEF TypeInv
  <1>2. leader \subseteq {Child}
    BY DEF ProcessInv
  <1>3. label \in {"cmdline", "parse", "apply", "database", "fork", "parent",
                   "exited", "aborted"} \cup Working
    BY DEF Working
  <1>4. "none" \notin Working /\ "none" # "fork"
    BY DEF Working
  <1>5. label \in Working => settings'["daemon_mode"] = "off"
    BY DEF Working
  <1> QED
    BY <1>1, <1>2, <1>3, <1>4, <1>5 DEF ProcessInv

\* The steps before daemonize() keep the invariant of the processes.
LEMMA ProcessReading ==
  ASSUME TypeInv, ProcessInv, SettingsType',
         \/ Option \/ NoFile \/ ReadLine
         \/ \E headnext \in {"null", "garbage"} : EndOfFile(headnext)
         \/ ApplyItem \/ EndOfConfig
         \/ \E fails \in BOOLEAN : EndOfOptions(fails) \/ InitDatabase(fails)
  PROVE  ProcessInv'
  <1>0. /\ settings'["daemon_mode"] \in {"on", "off"}
        /\ pc = [pc EXCEPT ![Original] = pc[Original]]
    <2>1. settings'["daemon_mode"] \in {"on", "off"}
      BY Zenon DEF SettingsType
    <2>2. pc \in [Pids -> Labels]
      BY DEF TypeInv
    <2> QED
      BY <2>1, <2>2
  <1>1. CASE Option
    BY <1>0, <1>1, ProcessAlone DEF Option, Goto, world
  <1>2. CASE NoFile
    BY <1>0, <1>2, ProcessAlone DEF NoFile, Goto, world
  <1>3. CASE ReadLine
    BY <1>0, <1>3, ProcessAlone DEF ReadLine, Goto, world
  <1>4. CASE \E headnext \in {"null", "garbage"} : EndOfFile(headnext)
    BY <1>0, <1>4, ProcessAlone DEF EndOfFile, Goto, world
  <1>5. CASE ApplyItem
    BY <1>0, <1>5, ProcessAlone DEF ApplyItem, Goto, world
  <1>6. CASE EndOfConfig
    BY <1>0, <1>6, ProcessAlone DEF EndOfConfig, Goto, world
  <1>7. CASE \E fails \in BOOLEAN : EndOfOptions(fails)
    BY <1>0, <1>7, ProcessAlone DEF EndOfOptions, Goto
  <1>8. CASE \E fails \in BOOLEAN : InitDatabase(fails)
    <2>1. settings' = settings
      BY <1>8 DEF InitDatabase, config
    <2> QED
      BY <1>0, <1>8, <2>1, ProcessAlone DEF InitDatabase, Goto, world
  <1> QED
    BY <1>1, <1>2, <1>3, <1>4, <1>5, <1>6, <1>7, <1>8

\* The tables of the open descriptors change by appending.
LEMMA KeepsNull ==
  ASSUME NEW table, NEW n \in 3..MaxFd, DOMAIN table = 0..n - 1, NEW what,
         \A d \in 0..2 : d \in DOMAIN table /\ table[d] = "null"
  PROVE  \A d \in 0..2 : /\ d \in DOMAIN Opened(table, what)
                         /\ Opened(table, what)[d] = "null"
  <1>1. n \in 0..MaxFd /\ 0..2 \subseteq 0..n - 1 /\ 0..n - 1 \subseteq 0..(n + 1) - 1
    BY FdAssumption
  <1>2. /\ DOMAIN Opened(table, what) = 0..(n + 1) - 1
        /\ \A d \in 0..n - 1 : Opened(table, what)[d] = table[d]
    BY <1>1, NextDescriptor
  <1> QED
    BY <1>1, <1>2

\* daemonize() and what comes after it keep the invariant of the processes.
LEMMA ProcessForking ==
  ASSUME TypeInv, FdInv, ProcessInv,
         \/ Setsid
         \/ \E p \in Pids : ParentExits(p) \/ StoreRow(p)
         \/ \E fails \in BOOLEAN :
              \/ FirstFork(fails) \/ SecondFork(fails)
              \/ CloseAll(fails) \/ WritePid(fails)
              \/ \E p \in Pids : Start(p, fails)
  PROVE  ProcessInv'
  <1>0. pc \in [Pids -> Labels] /\ DOMAIN fds = Pids
    BY DEF TypeInv
  <1>1. CASE Setsid
    BY <1>0, <1>1, ThreePids
    DEF Setsid, Goto, config, ProcessInv, Working, NoTerminal
  <1>2. ASSUME NEW p \in Pids, ParentExits(p) PROVE ProcessInv'
    BY <1>0, <1>2, ThreePids
    DEF ParentExits, Goto, config, world, ProcessInv, Working, NoTerminal
  <1>3. ASSUME NEW p \in Pids, StoreRow(p) PROVE ProcessInv'
    BY <1>0, <1>3, ThreePids
    DEF StoreRow, config, ProcessInv, Working, NoTerminal
  <1>4. ASSUME NEW fails \in BOOLEAN, FirstFork(fails) PROVE ProcessInv'
    BY <1>0, <1>4, ThreePids
    DEF FirstFork, Fork, config, world, ProcessInv, Working, NoTerminal
  <1>5. ASSUME NEW fails \in BOOLEAN, SecondFork(fails) PROVE ProcessInv'
    BY <1>0, <1>5, ThreePids
    DEF SecondFork, Fork, config, world, ProcessInv, Working, NoTerminal
  <1>6. ASSUME NEW fails \in BOOLEAN, CloseAll(fails) PROVE ProcessInv'
    BY <1>0, <1>6, ThreePids
    DEF CloseAll, Goto, config, world, ProcessInv, Working, NoTerminal
  <1>7. ASSUME NEW fails \in BOOLEAN, WritePid(fails) PROVE ProcessInv'
    BY <1>0, <1>7, ThreePids
    DEF WritePid, PidWritten, Goto, config, ProcessInv, Working, NoTerminal
  <1>8. ASSUME NEW fails \in BOOLEAN, NEW p \in Pids, Start(p, fails)
        PROVE  ProcessInv'
    <2>1. /\ pc[p] = "start" /\ leader' = leader /\ pidfile' = pidfile
          /\ settings' = settings
      BY <1>8 DEF Start, config, world
    <2>2. PICK label \in {"exited", "aborted", "serve", "capture"} :
            pc' = [pc EXCEPT ![p] = label]
      BY <1>8 DEF Start, Goto
    <2>3. p \in {Original, Grandchild}
      BY <2>1, ThreePids DEF ProcessInv
    <2>4. NoTerminal(Grandchild) => NoTerminal(Grandchild)'
      <3> SUFFICES ASSUME NoTerminal(Grandchild) PROVE NoTerminal(Grandchild)'
        OBVIOUS
      <3>1. CASE fds'[Grandchild] = fds[Grandchild]
        BY <3>1 DEF NoTerminal
      <3>2. CASE p # Grandchild
        <4>1. fds'[Grandchild] = fds[Grandchild]
          BY <1>0, <1>8, <3>2, ThreePids DEF Start
        <4> QED
          BY <3>1, <4>1
      <3>3. CASE p = Grandchild
        <4> DEFINE t == fds[p]
                   t1 == Opened(t, "socket")
                   t2 == Opened(t1, "socket")
                   Null(x) == \A d \in 0..2 : d \in DOMAIN x /\ x[d] = "null"
        <4>1. PICK n \in 3..4 : DOMAIN t = 0..n - 1
          BY <2>1 DEF FdInv
        <4>2. n \in 0..MaxFd /\ n + 1 \in 0..MaxFd /\ n + 2 \in 0..MaxFd
              /\ n \in 3..MaxFd /\ n + 1 \in 3..MaxFd /\ n + 2 \in 3..MaxFd
          BY FdAssumption
        <4>3. Null(t)
          BY <3>3 DEF NoTerminal
        <4>4. \/ fds'[p] = t \/ fds'[p] = Opened(t, "socket")
              \/ fds'[p] = Opened(t, "camera") \/ fds'[p] = Opened(t2, "camera")
          BY <1>0, <1>8 DEF Start
        <4> HIDE DEF t
        <4>5. /\ Null(t1) /\ Null(Opened(t, "camera"))
              /\ DOMAIN t1 = 0..(n + 1) - 1
          BY <4>1, <4>2, <4>3, KeepsNull, NextDescriptor
        <4> HIDE DEF t1
        <4>6. Null(t2) /\ DOMAIN t2 = 0..((n + 1) + 1) - 1
          BY <4>2, <4>5, KeepsNull, NextDescriptor
        <4> HIDE DEF t2
        <4>7. DOMAIN t2 = 0..(n + 2) - 1
          BY <4>6
        <4>8. Null(Opened(t2, "camera"))
          BY <4>2, <4>6, <4>7, KeepsNull
        <4>9. Null(fds'[p])
          BY <4>3, <4>4, <4>5, <4>8 DEF t1
        <4> QED
          BY <3>3, <4>9 DEF NoTerminal
      <3> QED
        BY <3>2, <3>3
    <2>5. CASE p = Original
      BY <1>0, <2>1, <2>2, <2>4, <2>5, ThreePids DEF ProcessInv, Working
    <2>6. CASE p = Grandchild
      BY <1>0, <2>1, <2>2, <2>4, <2>6, ThreePids DEF ProcessInv, Working
    <2> QED
      BY <2>3, <2>5, <2>6
  <1> QED
    BY <1>1, <1>2, <1>3, <1>4, <1>5, <1>6, <1>7, <1>8

----------------------------------------------------------------------------
(* The descriptors *)

FdFacts(table, label) ==
    \E n \in 0..MaxFd + 1 :
        /\ DOMAIN table = 0..n - 1
        /\ label \in {"cmdline", "parse", "apply", "database"} => n = 3
        /\ label \in {"fork", "setsid", "close", "pidfile", "start"} => n \in 3..4

\* Every step keeps the tables without gaps.
LEMMA FdStep ==
  ASSUME TypeInv, FdInv, [Next]_vars
  PROVE  FdInv'
  <1>0. pc \in [Pids -> Labels] /\ DOMAIN fds = Pids
    BY DEF TypeInv
  <1>1. \A p \in Pids : FdFacts(fds[p], pc[p])
    BY DEF FdInv, FdFacts
  <1>2. SUFFICES ASSUME NEW p \in Pids PROVE FdFacts(fds'[p], pc'[p])
    BY DEF FdInv, FdFacts
  <1>3. CASE fds'[p] = fds[p] /\ pc'[p] = pc[p]
    BY <1>1, <1>3
  <1>4. ASSUME fds'[p] = fds[p],
               \/ pc'[p] \in {"exited", "aborted", "parent", "capture", "serve"}
               \/ /\ pc[p] \in {"cmdline", "parse", "apply"}
                  /\ pc'[p] \in {"cmdline", "parse", "apply", "database"}
               \/ /\ pc[p] \in {"fork", "setsid", "close", "pidfile"}
                  /\ pc'[p] \in {"fork", "setsid", "close", "pidfile", "start"}
        PROVE  FdFacts(fds'[p], pc'[p])
    BY <1>1, <1>4 DEF FdFacts
  <1>5. CASE UNCHANGED vars
    BY <1>3, <1>5 DEF vars
  <1>6. CASE Option \/ NoFile \/ ReadLine \/ ApplyItem \/ EndOfConfig
    BY <1>0, <1>3, <1>4, <1>6
    DEF Option, NoFile, ReadLine, ApplyItem, EndOfConfig, Goto
  <1>7. CASE \E headnext \in {"null", "garbage"} : EndOfFile(headnext)
    BY <1>0, <1>3, <1>4, <1>7 DEF EndOfFile, Goto
  <1>8. CASE Setsid \/ \E q \in Pids : ParentExits(q) \/ StoreRow(q)
    BY <1>0, <1>3, <1>4, <1>8 DEF Setsid, ParentExits, StoreRow, Goto
  <1>9. ASSUME NEW fails \in BOOLEAN, EndOfOptions(fails)
        PROVE  FdFacts(fds'[p], pc'[p])
    BY <1>0, <1>3, <1>4, <1>9 DEF EndOfOptions, Goto
  <1>10. ASSUME NEW fails \in BOOLEAN, WritePid(fails)
         PROVE  FdFacts(fds'[p], pc'[p])
    BY <1>0, <1>3, <1>4, <1>10 DEF WritePid, Goto
  <1>11. ASSUME NEW fails \in BOOLEAN, CloseAll(fails)
         PROVE  FdFacts(fds'[p], pc'[p])
    <2>1. CASE p = Grandchild /\ ~fails
      <3>1. DOMAIN fds'[p] = 0..3 - 1 /\ pc'[p] = "pidfile" /\ 3 \in 0..MaxFd + 1
        BY <1>0, <1>11, <2>1, FdAssumption DEF CloseAll, Goto
      <3> QED
        BY <3>1 DEF FdFacts
    <2>2. CASE ~(p = Grandchild /\ ~fails)
      BY <1>0, <1>3, <1>4, <1>11, <2>2 DEF CloseAll, Goto
    <2> QED
      BY <2>1, <2>2
  <1>12. ASSUME NEW fails \in BOOLEAN, InitDatabase(fails)
         PROVE  FdFacts(fds'[p], pc'[p])
    <2>1. CASE p = Original /\ ~fails
      <3>1. /\ fds'[p] = Opened(fds[p], "database") /\ pc[p] = "database"
            /\ pc'[p] \in {"fork", "start"}
        BY <1>0, <1>12, <2>1 DEF InitDatabase, Goto
      <3>2. DOMAIN fds[p] = 0..3 - 1
        BY <1>1, <3>1 DEF FdFacts
      <3>3. 3 \in 0..MaxFd
        BY FdAssumption
      <3>4. DOMAIN Opened(fds[p], "database") = 0..(3 + 1) - 1
        BY <3>2, <3>3, NextDescriptor
      <3>5. 4 \in 0..MaxFd + 1 /\ 4 \in 3..4 /\ DOMAIN fds'[p] = 0..4 - 1
        BY <3>1, <3>4, FdAssumption
      <3>6. pc'[p] \notin {"cmdline", "parse", "apply", "database"}
        BY <3>1
      <3> QED
        BY <3>5, <3>6, Zenon DEF FdFacts
    <2>2. CASE ~(p = Original /\ ~fails)
      BY <1>0, <1>3, <1>4, <1>12, <2>2 DEF InitDatabase, Goto
    <2> QED
      BY <2>1, <2>2
  <1>13. ASSUME NEW q \in Pids, NEW child \in Pids \ {q},
                NEW next \in {"setsid", "close"}, NEW fails \in BOOLEAN,
                pc[q] = "fork", Fork(q, child, next, fails)
         PROVE  FdFacts(fds'[p], pc'[p])
    <2>1. CASE p = child /\ ~fails
      <3>1. fds'[p] = fds[q] /\ pc'[p] = next
        BY <1>0, <1>13, <2>1 DEF Fork
      <3> QED
        BY <1>1, <1>13, <3>1 DEF FdFacts
    <2>2. CASE p = q
      BY <1>0, <1>4, <1>13, <2>2 DEF Fork
    <2>3. CASE p # q /\ ~(p = child /\ ~fails)
      BY <1>0, <1>3, <1>13, <2>3 DEF Fork
    <2> QED
      BY <1>13, <2>1, <2>2, <2>3
  <1>14. ASSUME NEW fails \in BOOLEAN, FirstFork(fails) \/ SecondFork(fails)
         PROVE  FdFacts(fds'[p], pc'[p])
    BY <1>13, <1>14, ThreePids DEF FirstFork, SecondFork
  <1>15. ASSUME NEW fails \in BOOLEAN, NEW q \in Pids, Start(q, fails)
         PROVE  FdFacts(fds'[p], pc'[p])
    <2>1. pc[q] = "start"
      BY <1>15 DEF Start
    <2>2. PICK label \in {"exited", "aborted", "serve", "capture"} :
            pc' = [pc EXCEPT ![q] = label]
      BY <1>15 DEF Start, Goto
    <2>3. CASE p # q
      <3>1. fds'[p] = fds[p] /\ pc'[p] = pc[p]
        BY <1>0, <1>15, <2>2, <2>3 DEF Start
      <3> QED
        BY <1>3, <3>1
    <2>4. CASE p = q
      <3> DEFINE t == fds[p]
                 t1 == Opened(t, "socket")
                 t2 == Opened(t1, "socket")
                 Flat(x) == \E n \in 0..MaxFd + 1 : DOMAIN x = 0..n - 1
      <3>1. PICK n \in 3..4 : DOMAIN t = 0..n - 1
        BY <1>1, <2>1, <2>4 DEF FdFacts
      <3>2. n \in 0..MaxFd /\ n + 1 \in 0..MaxFd /\ n + 2 \in 0..MaxFd
            /\ n + 3 \in 0..MaxFd + 1 /\ n + 1 \in 0..MaxFd + 1 /\ n \in 0..MaxFd + 1
        BY FdAssumption
      <3>3. \/ fds'[p] = t \/ fds'[p] = Opened(t, "socket")
            \/ fds'[p] = Opened(t, "camera") \/ fds'[p] = Opened(t2, "camera")
        BY <1>0, <1>15, <2>4 DEF Start
      <3> HIDE DEF t
      <3>4. DOMAIN t1 = 0..(n + 1) - 1 /\ DOMAIN Opened(t, "camera") = 0..(n + 1) - 1
        BY <3>1, <3>2, NextDescriptor
      <3> HIDE DEF t1
      <3>5. DOMAIN t2 = 0..((n + 1) + 1) - 1
        BY <3>2, <3>4, NextDescriptor
      <3> HIDE DEF t2
      <3>6. DOMAIN t2 = 0..(n + 2) - 1
        BY <3>5
      <3>7. DOMAIN Opened(t2, "camera") = 0..((n + 2) + 1) - 1
        BY <3>2, <3>6, NextDescriptor
      <3>8. DOMAIN Opened(t2, "camera") = 0..(n + 3) - 1
        BY <3>7
      <3>9. Flat(t) /\ Flat(t1) /\ Flat(Opened(t, "camera"))
        BY <3>1, <3>2, <3>4
      <3>10. Flat(Opened(t2, "camera"))
        BY <3>2, <3>8
      <3>11. Flat(fds'[p])
        BY <3>3, <3>9, <3>10 DEF t1
      <3>12. pc'[p] \in {"exited", "aborted", "serve", "capture"}
        BY <1>0, <2>2, <2>4
      <3> QED
        BY <3>11, <3>12 DEF FdFacts
    <2> QED
      BY <2>3, <2>4
  <1> QED
    BY <1>5, <1>6, <1>7, <1>8, <1>9, <1>10, <1>11, <1>12, <1>14, <1>15
    DEF Next, Step

----------------------------------------------------------------------------
(* The types *)

\* The keys of the model.
LEMMA KnownKeys ==
  {"local_sequence_number", "client_scale", "server_port_base", "daemon_mode",
   "cluster_mode", "working_mode", "pid_file", "database_repo"} \subseteq Keys
  BY DEF Keys, NumberKeys, WordKeys, PathKeys

\* An item has a known kind of value for its key.
LEMMA ItemTypes ==
  ASSUME TypeInv, NEW it \in Items
  PROVE  /\ it.key \in Keys \cup {"unknown"}
         /\ it.key \in NumberKeys => it.value \in Int
         /\ it.key = "database_repo" => it.value \in Repositories
  <1>1. PICK i \in DOMAIN file : file[i].kind = "item" /\ it = ItemOf(file[i])
    BY DEF Items
  <1>2. /\ file[i].key \in Keys \cup {"unknown"}
        /\ file[i].key \in NumberKeys => file[i].value \in Int
        /\ file[i].key = "database_repo" => file[i].value = "path"
    BY <1>1, FilesAssumption DEF TypeInv
  <1>3. it.key = file[i].key /\ it.value = ValueOf(file[i])
    BY <1>1 DEF ItemOf
  <1>4. file[i].key \in NumberKeys => ValueOf(file[i]) \in Int
    <2>1. file[i].key \in NumberKeys =>
            WithoutLastDigit(file[i].value) \in Int
      <3>1. \A n \in Int : WithoutLastDigit(n) \in Int
        BY DEF WithoutLastDigit
      <3> QED
        BY <1>2, <3>1
    <2> QED
      BY <1>2, <2>1 DEF ValueOf
  <1>5. file[i].key = "database_repo" => ValueOf(file[i]) \in Repositories
    BY <1>2 DEF ValueOf, Repositories, NumberKeys
  <1> QED
    BY <1>2, <1>3, <1>4, <1>5

\* What the checks of parse_config() accept.
LEMMA ValidMeans ==
  ASSUME NEW key, NEW value, Valid(key, value),
         key \in NumberKeys => value \in Int
  PROVE  /\ key \in Keys
         /\ key \in {"local_sequence_number", "client_scale"} => value \in Nat \ {0}
         /\ key = "server_port_base" => value \in PortNumbers
         /\ key = "daemon_mode" => value \in {"on", "off"}
         /\ key = "cluster_mode" => value \in {"singleton", "client", "server"}
         /\ key = "working_mode" => value \in {"picture", "video", "webserver", "all"}
  <1>1. key \in Keys
    BY DEF Valid, Keys, NumberKeys, WordKeys
  <1>2. key \in {"local_sequence_number", "client_scale"} => value \in Nat \ {0}
    BY DEF Valid, NumberKeys, PathKeys
  <1>3. key = "server_port_base" => value \in PortNumbers
    BY DEF Valid, PathKeys
  <1>4. /\ key = "daemon_mode" => value \in {"on", "off"}
        /\ key = "cluster_mode" => value \in {"singleton", "client", "server"}
        /\ key = "working_mode" => value \in {"picture", "video", "webserver", "all"}
    BY DEF Valid, PathKeys
  <1> QED
    BY <1>1, <1>2, <1>3, <1>4

\* A setting that is accepted is in its range.
LEMMA SettingType ==
  ASSUME TypeInv, NEW it \in Items, Valid(it.key, it.value),
         settings' = [settings EXCEPT ![it.key] = it.value],
         server_base' = IF it.key = "server_port_base" THEN it.value ELSE server_base
  PROVE  SettingsType' /\ it.key \in Keys
  <1>1. /\ it.key \in Keys \cup {"unknown"}
        /\ it.key \in NumberKeys => it.value \in Int
        /\ it.key = "database_repo" => it.value \in Repositories
    BY ItemTypes
  <1>2. SettingsType
    BY DEF TypeInv
  <1>3. it.key \in Keys
    BY <1>1, ValidMeans
  <1>4. /\ it.key \in {"local_sequence_number", "client_scale"} => it.value \in Nat \ {0}
        /\ it.key = "server_port_base" => it.value \in PortNumbers
        /\ it.key = "daemon_mode" => it.value \in {"on", "off"}
        /\ it.key = "cluster_mode" => it.value \in {"singleton", "client", "server"}
        /\ it.key = "working_mode" =>
             it.value \in {"picture", "video", "webserver", "all"}
    BY <1>1, ValidMeans
  <1>5. /\ DOMAIN settings' = Keys
        /\ \A k \in Keys : settings'[k] = IF k = it.key THEN it.value ELSE settings[k]
    BY <1>2, <1>3 DEF SettingsType
  <1>6. {"local_sequence_number", "client_scale", "server_port_base", "daemon_mode",
         "cluster_mode", "working_mode", "database_repo"} \subseteq Keys
    BY KnownKeys
  <1>7. /\ settings'["local_sequence_number"] \in Nat \ {0}
        /\ settings'["client_scale"] \in Nat \ {0}
        /\ settings'["server_port_base"] \in PortNumbers
    BY <1>2, <1>4, <1>5, <1>6 DEF SettingsType
  <1>8. /\ settings'["daemon_mode"] \in {"on", "off"}
        /\ settings'["cluster_mode"] \in {"singleton", "client", "server"}
        /\ settings'["working_mode"] \in {"picture", "video", "webserver", "all"}
        /\ settings'["database_repo"] \in Repositories
    BY <1>1, <1>2, <1>4, <1>5, <1>6 DEF SettingsType
  <1>9. server_base' \in {0, settings'["server_port_base"]}
    BY <1>2, <1>5, <1>6 DEF SettingsType
  <1> QED
    BY <1>3, <1>5, <1>7, <1>8, <1>9 DEF SettingsType

ConfigType ==
    /\ argv \in Commands /\ build \in Builds /\ file \in Files
    /\ opt \in 1..Len(argv) + 1 /\ line \in 1..Len(file) + 1
    /\ items \in Seq(Items)
    /\ SettingsType

\* Steps that leave the configuration alone keep its types.
LEMMA ConfigTypeFrame ==
  ASSUME ConfigType, UNCHANGED config
  PROVE  ConfigType'
  <1>1. /\ argv' = argv /\ build' = build /\ file' = file /\ opt' = opt
        /\ line' = line /\ items' = items /\ settings' = settings
        /\ server_base' = server_base
    BY DEF config
  <1>2. Items' = Items
    BY <1>1 DEF Items
  <1>3. SettingsType'
    BY <1>1 DEF ConfigType, SettingsType
  <1> QED
    BY <1>1, <1>2, <1>3 DEF ConfigType

\* Every step keeps the types of the configuration.
LEMMA ConfigTypeStep ==
  ASSUME TypeInv, [Next]_vars
  PROVE  ConfigType'
  <1>0. ConfigType
    BY DEF TypeInv, ConfigType
  <1>1. CASE UNCHANGED config
    BY <1>0, <1>1, ConfigTypeFrame
  <1>2. Len(argv) \in Nat /\ Len(file) \in Nat
    BY <1>0, FilesAssumption, CommandsAssumption DEF ConfigType
  <1>3. CASE Option
    <2>1. /\ argv' = argv /\ build' = build /\ file' = file /\ line' = line
          /\ items' = items /\ server_base' = server_base /\ opt' = opt + 1
          /\ opt <= Len(argv)
      BY <1>3 DEF Option
    <2>2. Items' = Items
      BY <2>1 DEF Items
    <2>3. opt' \in 1..Len(argv) + 1
      BY <1>0, <1>2, <2>1 DEF ConfigType
    <2>4. SettingsType'
      <3>1. SettingsType
        BY <1>0 DEF ConfigType
      <3>2. \/ settings' = settings
            \/ settings' = [settings EXCEPT !["daemon_mode"] = "on"]
            \/ settings' = [settings EXCEPT !["pid_file"] = "option"]
        BY <1>3 DEF Option
      <3>3. CASE settings' = settings
        BY <2>1, <3>1, <3>3 DEF SettingsType
      <3>4. CASE settings' = [settings EXCEPT !["daemon_mode"] = "on"]
        BY <2>1, <3>1, <3>4, KnownKeys DEF SettingsType
      <3>5. CASE settings' = [settings EXCEPT !["pid_file"] = "option"]
        BY <2>1, <3>1, <3>5, KnownKeys DEF SettingsType
      <3> QED
        BY <3>2, <3>3, <3>4, <3>5
    <2> QED
      BY <1>0, <2>1, <2>2, <2>3, <2>4 DEF ConfigType
  <1>4. CASE ReadLine
    <2>1. /\ argv' = argv /\ build' = build /\ file' = file /\ opt' = opt
          /\ settings' = settings /\ server_base' = server_base
          /\ line <= Len(file) /\ line' = line + 1
      BY <1>4 DEF ReadLine, NextLine
    <2>2. Items' = Items
      BY <2>1 DEF Items
    <2>3. line' \in 1..Len(file) + 1 /\ line \in 1..Len(file)
      BY <1>0, <1>2, <2>1 DEF ConfigType
    <2>4. SettingsType'
      BY <1>0, <2>1 DEF ConfigType, SettingsType
    <2>5. items' \in Seq(Items)
      <3>1. CASE file[line].kind = "item"
        <4>1. items' = Append(items, ItemOf(file[line]))
          BY <1>4, <3>1 DEF ReadLine, ItemOf
        <4>2. line \in DOMAIN file
          BY <1>0, <2>3, FilesAssumption DEF ConfigType
        <4>3. ItemOf(file[line]) \in Items
          BY <3>1, <4>2 DEF Items
        <4> QED
          BY <1>0, <4>1, <4>3 DEF ConfigType
      <3>2. CASE file[line].kind # "item"
        BY <1>0, <1>4, <3>2 DEF ReadLine, ConfigType
      <3> QED
        BY <3>1, <3>2
    <2> QED
      BY <1>0, <2>1, <2>2, <2>3, <2>4, <2>5 DEF ConfigType
  <1>5. CASE ApplyItem
    <2>1. /\ argv' = argv /\ build' = build /\ file' = file /\ opt' = opt
          /\ line' = line
      BY <1>5 DEF ApplyItem
    <2>2. Items' = Items
      BY <2>1 DEF Items
    <2>3. items \in Seq(Items) /\ items # <<>>
      BY <1>0, <1>5 DEF ConfigType, ApplyItem
    <2>4. Head(items) \in Items /\ Tail(items) \in Seq(Items)
      BY <2>3
    <2>5. CASE Valid(Head(items).key, Head(items).value)
      <3> DEFINE it == Head(items)
      <3>1. /\ settings' = [settings EXCEPT ![it.key] = it.value]
            /\ server_base' = IF it.key = "server_port_base"
                              THEN it.value ELSE server_base
            /\ items' = Tail(items)
        BY <1>5, <2>5 DEF ApplyItem
      <3> HIDE DEF it
      <3>2. SettingsType'
        BY <2>4, <2>5, <3>1, SettingType DEF it
      <3> QED
        BY <1>0, <2>1, <2>2, <2>4, <3>1, <3>2 DEF ConfigType
    <2>6. CASE ~Valid(Head(items).key, Head(items).value)
      <3>1. settings' = settings /\ server_base' = server_base /\ items' = items
        BY <1>5, <2>6 DEF ApplyItem
      <3>2. SettingsType'
        BY <1>0, <3>1 DEF ConfigType, SettingsType
      <3> QED
        BY <1>0, <2>1, <2>2, <3>1, <3>2 DEF ConfigType
    <2> QED
      BY <2>5, <2>6
  <1>6. CASE NoFile \/ EndOfConfig \/ Setsid
             \/ (\E headnext \in {"null", "garbage"} : EndOfFile(headnext))
             \/ \E p \in Pids : ParentExits(p) \/ StoreRow(p)
    BY <1>1, <1>6 DEF NoFile, EndOfConfig, Setsid, EndOfFile, ParentExits, StoreRow
  <1>7. CASE \E fails \in BOOLEAN :
               \/ EndOfOptions(fails) \/ InitDatabase(fails) \/ FirstFork(fails)
               \/ SecondFork(fails) \/ CloseAll(fails) \/ WritePid(fails)
               \/ \E p \in Pids : Start(p, fails)
    BY <1>1, <1>7 DEF EndOfOptions, InitDatabase, FirstFork, SecondFork, Fork,
                      CloseAll, WritePid, Start
  <1>8. CASE UNCHANGED vars
    BY <1>1, <1>8 DEF vars
  <1> QED
    BY <1>3, <1>4, <1>5, <1>6, <1>7, <1>8 DEF Next, Step

\* Every step keeps the types.
LEMMA TypeStep ==
  ASSUME TypeInv, ProcessInv, [Next]_vars
  PROVE  TypeInv'
  <1>0. /\ pc \in [Pids -> Labels] /\ DOMAIN fds = Pids /\ leader \subseteq Pids
        /\ pidfile \in Pids \cup {0} /\ SettingsType
    BY DEF TypeInv
  <1>1. database \in [Repositories -> 0..MaxRows] /\ lost \in 0..MaxRows
    BY DEF TypeInv
  <1>2. SUFFICES /\ pc' \in [Pids -> Labels] /\ DOMAIN fds' = Pids
                 /\ leader' \subseteq Pids /\ pidfile' \in Pids \cup {0}
                 /\ database' \in [Repositories -> 0..MaxRows]
                 /\ lost' \in 0..MaxRows
    BY ConfigTypeStep DEF ConfigType, TypeInv
  <1>3. ASSUME NEW p \in Pids, NEW label \in Labels, Goto(p, label)
        PROVE  pc' \in [Pids -> Labels]
    BY <1>3, GotoFacts
  <1>4. {"cmdline", "parse", "apply", "database", "fork", "parent", "setsid", "close",
         "pidfile", "none", "exited", "aborted", "start", "capture", "serve"} = Labels
    BY DEF Labels, Ended, Working
  <1>5. CASE UNCHANGED vars
    BY <1>0, <1>1, <1>5 DEF vars, world
  <1>6. CASE Option \/ NoFile \/ ReadLine \/ ApplyItem \/ EndOfConfig
             \/ \E headnext \in {"null", "garbage"} : EndOfFile(headnext)
    <2>1. UNCHANGED <<fds, leader, pidfile, database, lost>>
      BY <1>6 DEF Option, NoFile, ReadLine, ApplyItem, EndOfConfig, EndOfFile, world
    <2>2. \/ pc' = pc
          \/ \E label \in {"exited", "aborted", "apply", "database"} :
               Goto(Original, label)
      BY <1>6, Zenon DEF Option, NoFile, ReadLine, ApplyItem, EndOfConfig, EndOfFile
    <2>3. pc' \in [Pids -> Labels]
      BY <1>0, <1>3, <1>4, <2>2, ThreePids
    <2> QED
      BY <1>0, <1>1, <2>1, <2>3
  <1>7. ASSUME NEW fails \in BOOLEAN, EndOfOptions(fails)
        PROVE  /\ pc' \in [Pids -> Labels] /\ DOMAIN fds' = Pids
               /\ leader' \subseteq Pids /\ pidfile' \in Pids \cup {0}
               /\ database' \in [Repositories -> 0..MaxRows]
               /\ lost' \in 0..MaxRows
    <2>1. UNCHANGED <<fds, leader, pidfile, lost>>
      BY <1>7 DEF EndOfOptions
    <2>2. \E label \in {"parse", "aborted", "exited"} : Goto(Original, label)
      BY <1>7 DEF EndOfOptions
    <2>3. pc' \in [Pids -> Labels]
      BY <1>3, <1>4, <2>2, ThreePids
    <2>4. database' \in [Repositories -> 0..MaxRows]
      <3>1. \/ database' = database
            \/ database' = [database EXCEPT ![settings["database_repo"]] = 0]
        BY <1>7, Zenon DEF EndOfOptions
      <3>2. 0 \in 0..MaxRows
        BY RowsAssumption
      <3> QED
        BY <1>1, <3>1, <3>2
    <2> QED
      BY <1>0, <1>1, <2>1, <2>3, <2>4
  <1>8. ASSUME NEW p \in Pids, StoreRow(p)
        PROVE  /\ pc' \in [Pids -> Labels] /\ DOMAIN fds' = Pids
               /\ leader' \subseteq Pids /\ pidfile' \in Pids \cup {0}
               /\ database' \in [Repositories -> 0..MaxRows]
               /\ lost' \in 0..MaxRows
    <2> DEFINE r == settings["database_repo"]
    <2>1. UNCHANGED <<pc, fds, leader, pidfile>>
      BY <1>8 DEF StoreRow
    <2>2. r \in Repositories
      BY <1>0 DEF SettingsType
    <2>3. /\ database[r] + lost < MaxRows
          /\ \/ database' = [database EXCEPT ![r] = @ + 1] /\ lost' = lost
             \/ lost' = lost + 1 /\ database' = database
      BY <1>8 DEF StoreRow
    <2> HIDE DEF r
    <2>4. database[r] \in 0..MaxRows /\ MaxRows \in Nat
      BY <1>1, <2>2, RowsAssumption
    <2>5. database[r] + 1 \in 0..MaxRows /\ lost + 1 \in 0..MaxRows
      BY <1>1, <2>3, <2>4
    <2>6. database' \in [Repositories -> 0..MaxRows] /\ lost' \in 0..MaxRows
      BY <1>1, <2>3, <2>5
    <2> QED
      BY <1>0, <2>1, <2>6
  <1>9. CASE Setsid \/ \E p \in Pids : ParentExits(p)
    <2>1. /\ UNCHANGED <<fds, pidfile, database, lost>>
          /\ leader' \subseteq leader \cup {Child}
      BY <1>9 DEF Setsid, ParentExits, world
    <2>2. \E p \in Pids : \E label \in {"fork", "exited"} : Goto(p, label)
      BY <1>9, ThreePids DEF Setsid, ParentExits
    <2>3. pc' \in [Pids -> Labels]
      BY <1>3, <1>4, <2>2
    <2> QED
      BY <1>0, <1>1, <2>1, <2>3, ThreePids
  <1>10. ASSUME NEW fails \in BOOLEAN,
                \/ InitDatabase(fails) \/ CloseAll(fails) \/ WritePid(fails)
                \/ \E p \in Pids : Start(p, fails)
         PROVE  /\ pc' \in [Pids -> Labels] /\ DOMAIN fds' = Pids
                /\ leader' \subseteq Pids /\ pidfile' \in Pids \cup {0}
                /\ database' \in [Repositories -> 0..MaxRows]
                /\ lost' \in 0..MaxRows
    <2>1. UNCHANGED <<leader, database, lost>>
      BY <1>10 DEF InitDatabase, CloseAll, WritePid, Start, world
    <2>2. pidfile' \in {pidfile, Grandchild}
      BY <1>10 DEF InitDatabase, CloseAll, WritePid, PidWritten, Start, world
    <2>3. DOMAIN fds' = Pids
      BY <1>0, <1>10 DEF InitDatabase, CloseAll, WritePid, Start
    <2>4. \E p \in Pids : \E label \in {"aborted", "fork", "start", "exited", "pidfile",
                                        "serve", "capture"} : Goto(p, label)
      BY <1>10, ThreePids DEF InitDatabase, CloseAll, WritePid, Start
    <2>5. pc' \in [Pids -> Labels]
      BY <1>3, <1>4, <2>4
    <2> QED
      BY <1>0, <1>1, <2>1, <2>2, <2>3, <2>5, ThreePids
  <1>11. ASSUME NEW fails \in BOOLEAN, FirstFork(fails) \/ SecondFork(fails)
         PROVE  /\ pc' \in [Pids -> Labels] /\ DOMAIN fds' = Pids
                /\ leader' \subseteq Pids /\ pidfile' \in Pids \cup {0}
                /\ database' \in [Repositories -> 0..MaxRows]
                /\ lost' \in 0..MaxRows
    <2>1. UNCHANGED <<leader, pidfile, database, lost>>
      BY <1>11 DEF FirstFork, SecondFork, Fork, world
    <2>2. DOMAIN fds' = Pids
      BY <1>0, <1>11 DEF FirstFork, SecondFork, Fork
    <2>3. pc' \in [Pids -> Labels]
      BY <1>0, <1>4, <1>11, ThreePids DEF FirstFork, SecondFork, Fork
    <2> QED
      BY <1>0, <1>1, <2>1, <2>2, <2>3
  <1> QED
    BY <1>5, <1>6, <1>7, <1>8, <1>9, <1>10, <1>11 DEF Next, Step

----------------------------------------------------------------------------
(* The settings *)

\* An item that is added to the list is the last one of its key.
LEMMA AddedItem ==
  ASSUME NEW S, NEW q \in Seq(S), NEW it \in S, NEW t, t = Append(q, it),
         NEW k
  PROVE  /\ it.key = k => LastIn(t, k, it.value)
         /\ it.key # k /\ NoneIn(q, k) => NoneIn(t, k)
         /\ \A v : it.key # k /\ LastIn(q, k, v) => LastIn(t, k, v)
  <1>1. /\ Len(q) \in Nat /\ Len(t) = Len(q) + 1 /\ t[Len(q) + 1] = it
        /\ \A j \in 1..Len(q) : t[j] = q[j]
    OBVIOUS
  <1>2. it.key = k => LastIn(t, k, it.value)
    <2> SUFFICES ASSUME it.key = k PROVE LastIn(t, k, it.value)
      OBVIOUS
    <2>1. Len(q) + 1 \in 1..Len(t) /\ (Len(q) + 1) + 1..Len(t) = {}
      BY <1>1
    <2> QED
      BY <1>1, <2>1 DEF LastIn
  <1>3. it.key # k /\ NoneIn(q, k) => NoneIn(t, k)
    BY <1>1 DEF NoneIn
  <1>4. ASSUME NEW v, it.key # k, LastIn(q, k, v) PROVE LastIn(t, k, v)
    <2>1. PICK j \in 1..Len(q) : /\ q[j].key = k /\ q[j].value = v
                                 /\ \A l \in j + 1..Len(q) : q[l].key # k
      BY <1>4 DEF LastIn
    <2>2. j \in 1..Len(t) /\ t[j].key = k /\ t[j].value = v
      BY <1>1, <2>1
    <2>3. \A l \in j + 1..Len(t) : t[l].key # k
      BY <1>1, <1>4, <2>1
    <2> QED
      BY <2>2, <2>3 DEF LastIn
  <1> QED
    BY <1>2, <1>3, <1>4

\* What is left of the list when its first item is taken.
LEMMA TakenItem ==
  ASSUME NEW S, NEW q \in Seq(S), q # <<>>, NEW t, t = Tail(q), NEW k
  PROVE  /\ Head(q).key # k /\ NoneIn(q, k) => NoneIn(t, k)
         /\ Head(q).key = k => ~NoneIn(q, k)
         /\ NoneIn(t, k) /\ Head(q).key # k => NoneIn(q, k)
         /\ \A v : Head(q).key # k /\ LastIn(q, k, v) => LastIn(t, k, v)
         /\ \A v : Head(q).key = k /\ LastIn(q, k, v) =>
              LastIn(t, k, v) \/ (NoneIn(t, k) /\ Head(q).value = v)
  <1>1. /\ Len(q) \in Nat /\ Len(q) >= 1 /\ Len(t) = Len(q) - 1
        /\ Head(q) = q[1]
        /\ \A j \in 1..Len(t) : t[j] = q[j + 1]
    OBVIOUS
  <1>2. /\ Head(q).key # k /\ NoneIn(q, k) => NoneIn(t, k)
        /\ Head(q).key = k => ~NoneIn(q, k)
    BY <1>1 DEF NoneIn
  <1>3. NoneIn(t, k) /\ Head(q).key # k => NoneIn(q, k)
    <2> SUFFICES ASSUME NoneIn(t, k), Head(q).key # k, NEW j \in 1..Len(q)
                 PROVE  q[j].key # k
      BY DEF NoneIn
    <2>1. CASE j = 1
      BY <1>1, <2>1
    <2>2. CASE j # 1
      <3>1. j - 1 \in 1..Len(t) /\ (j - 1) + 1 = j
        BY <1>1, <2>2
      <3>2. t[j - 1] = q[j]
        BY <1>1, <3>1
      <3> QED
        BY <3>1, <3>2 DEF NoneIn
    <2> QED
      BY <2>1, <2>2
  <1>4. ASSUME NEW v, LastIn(q, k, v)
        PROVE  \/ LastIn(t, k, v)
               \/ NoneIn(t, k) /\ Head(q).value = v /\ Head(q).key = k
    <2>1. PICK j \in 1..Len(q) : /\ q[j].key = k /\ q[j].value = v
                                 /\ \A l \in j + 1..Len(q) : q[l].key # k
      BY <1>4 DEF LastIn
    <2>2. CASE j = 1
      <3>1. \A l \in 1..Len(t) : l + 1 \in j + 1..Len(q)
        BY <1>1, <2>2
      <3> QED
        BY <1>1, <2>1, <2>2, <3>1 DEF NoneIn
    <2>3. CASE j # 1
      <3>1. j - 1 \in 1..Len(t) /\ (j - 1) + 1 = j
        BY <1>1, <2>3
      <3>2. t[j - 1].key = k /\ t[j - 1].value = v
        BY <1>1, <2>1, <3>1
      <3>3. \A l \in (j - 1) + 1..Len(t) : l \in 1..Len(t) /\ l + 1 \in j + 1..Len(q)
        BY <1>1, <3>1
      <3>4. \A l \in (j - 1) + 1..Len(t) : t[l].key # k
        BY <1>1, <2>1, <3>3
      <3> QED
        BY <3>1, <3>2, <3>4 DEF LastIn
    <2> QED
      BY <2>2, <2>3
  <1> QED
    BY <1>2, <1>3, <1>4

\* A step that leaves the configuration alone, and brings no process to
\* where it is read or has been read, keeps the invariant of the settings.
LEMMA ConfigFrame ==
  ASSUME ConfigInv, UNCHANGED config,
         pc'[Original] \in {"cmdline", "parse", "apply"} =>
            pc'[Original] = pc[Original],
         \A p \in Pids : pc'[p] \in Past => \E q \in Pids : pc[q] \in Past
  PROVE  ConfigInv'
  <1>1. /\ argv' = argv /\ build' = build /\ file' = file /\ opt' = opt
        /\ line' = line /\ items' = items /\ settings' = settings
        /\ server_base' = server_base
    BY DEF config
  <1>2. OptionsInv => OptionsInv'
    BY <1>1 DEF OptionsInv, OptionValue
  <1>3. ParseInv => ParseInv'
    BY <1>1 DEF ParseInv, OptionValue, NoLine, LastLine, GivenAt
  <1>4. ApplyInv => ApplyInv'
    BY <1>1 DEF ApplyInv, PortInv, ReadValue, OptionValue, NoLine, LastLine, GivenAt
  <1>5. ReadyInv => ReadyInv'
    BY <1>1 DEF ReadyInv, PortInv, ReadValue, OptionValue, NoLine, LastLine, GivenAt,
                check_config_integrity
  <1> QED
    BY <1>2, <1>3, <1>4, <1>5 DEF ConfigInv

\* While there is one process, what it has reached is what must hold.
LEMMA ConfigAlone ==
  ASSUME TypeInv, ProcessInv,
         pc[Original] \in {"cmdline", "parse", "apply", "database"},
         NEW label, pc' = [pc EXCEPT ![Original] = label],
         label = "cmdline" => OptionsInv',
         label = "parse" => ParseInv',
         label = "apply" => ApplyInv',
         label \in Past => ReadyInv'
  PROVE  ConfigInv'
  <1>1. pc'[Original] = label /\ \A p \in Pids \ {Original} : pc'[p] = "none"
    BY Alone, ThreePids DEF TypeInv
  <1>2. "none" \notin Past
    BY DEF Past, Working
  <1>3. (\E p \in Pids : pc'[p] \in Past) => label \in Past
    BY <1>1, <1>2
  <1> QED
    BY <1>1, <1>3 DEF ConfigInv

\* One more option is read: the settings are what the options so far make
\* them.
LEMMA ConfigOption ==
  ASSUME TypeInv, ProcessInv, ConfigInv, Option
  PROVE  ConfigInv'
  <1>1. /\ pc[Original] = "cmdline" /\ opt <= Len(argv) /\ opt' = opt + 1
        /\ UNCHANGED <<argv, build, line, items>>
    BY DEF Option
  <1>2. /\ OptionsInv /\ opt \in 1..Len(argv) + 1 /\ Len(argv) \in Nat
        /\ DOMAIN settings = Keys
    BY <1>1, CommandsAssumption DEF ConfigInv, TypeInv, SettingsType
  <1>3. opt \in 1..opt' - 1 /\ 1..opt' - 1 = (1..opt - 1) \cup {opt}
    BY <1>1, <1>2
  <1>4. ASSUME NEW k \in Keys PROVE settings'[k] = OptionValue(k, opt - 1)'
    <2>1. settings[k] = OptionValue(k, opt - 1)
      BY <1>2 DEF OptionsInv
    <2>2. /\ argv[opt] = "-d" => settings' = [settings EXCEPT !["daemon_mode"] = "on"]
          /\ argv[opt] = "-p" => settings' = [settings EXCEPT !["pid_file"] = "option"]
          /\ argv[opt] # "-d" /\ argv[opt] # "-p" => settings' = settings
      BY DEF Option
    <2>3. "daemon_mode" \in Keys /\ "pid_file" \in Keys
      BY DEF Keys, WordKeys, PathKeys
    <2> DEFINE d(n) == \E i \in 1..n : argv[i] = "-d"
               o(n) == \E i \in 1..n : argv[i] = "-p"
    <2>4. /\ d(opt' - 1) <=> (d(opt - 1) \/ argv[opt] = "-d")
          /\ o(opt' - 1) <=> (o(opt - 1) \/ argv[opt] = "-p")
      BY <1>3
    <2>5. CASE k = "daemon_mode"
      <3>1. /\ OptionValue(k, opt - 1) = IF d(opt - 1) THEN "on" ELSE Defaults(build)[k]
            /\ OptionValue(k, opt - 1)' =
                 IF d(opt' - 1) THEN "on" ELSE Defaults(build)[k]
        BY <1>1, <2>5 DEF OptionValue
      <3>2. settings'[k] = IF argv[opt] = "-d" THEN "on" ELSE settings[k]
        BY <1>2, <2>2, <2>3, <2>5
      <3> QED
        BY <2>1, <2>4, <3>1, <3>2
    <2>6. CASE k = "pid_file"
      <3>1. /\ OptionValue(k, opt - 1) =
                 IF o(opt - 1) THEN "option" ELSE Defaults(build)[k]
            /\ OptionValue(k, opt - 1)' =
                 IF o(opt' - 1) THEN "option" ELSE Defaults(build)[k]
        BY <1>1, <2>6 DEF OptionValue
      <3>2. settings'[k] = IF argv[opt] = "-p" THEN "option" ELSE settings[k]
        BY <1>2, <2>2, <2>3, <2>6
      <3> QED
        BY <2>1, <2>4, <3>1, <3>2
    <2>7. CASE k # "daemon_mode" /\ k # "pid_file"
      <3>1. /\ OptionValue(k, opt - 1) = Defaults(build)[k]
            /\ OptionValue(k, opt - 1)' = Defaults(build)[k]
        BY <1>1, <2>7 DEF OptionValue
      <3>2. settings'[k] = settings[k]
        BY <1>2, <2>2, <2>3, <2>7
      <3> QED
        BY <2>1, <3>1, <3>2
    <2> QED
      BY <2>5, <2>6, <2>7
  <1>5. OptionsInv'
    BY <1>1, <1>2, <1>4 DEF OptionsInv
  <1>6. pc = [pc EXCEPT ![Original] = pc[Original]]
    BY DEF TypeInv
  <1>7. \E label \in {"cmdline", "exited"} : pc' = [pc EXCEPT ![Original] = label]
    BY <1>1, <1>6 DEF Option, Goto
  <1>8. "cmdline" \notin Past /\ "exited" \notin Past
    BY DEF Past, Working
  <1> QED
    BY <1>1, <1>5, <1>7, <1>8, ConfigAlone

\* The file is opened after the last option: nothing of it has been read.
LEMMA ConfigEndOfOptions ==
  ASSUME TypeInv, ProcessInv, ConfigInv, NEW fails \in BOOLEAN, EndOfOptions(fails)
  PROVE  ConfigInv'
  <1>1. /\ pc[Original] = "cmdline" /\ opt > Len(argv)
        /\ argv' = argv /\ build' = build /\ file' = file /\ opt' = opt
        /\ line' = line /\ items' = items /\ settings' = settings
    BY DEF EndOfOptions, config
  <1>2. /\ OptionsInv /\ opt \in 1..Len(argv) + 1 /\ Len(argv) \in Nat
    BY <1>1, CommandsAssumption DEF ConfigInv, TypeInv
  <1>3. opt - 1 = Len(argv) /\ line = 1 /\ items = <<>> /\ 1..line - 1 = {}
        /\ 1..Len(items) = {}
    BY <1>1, <1>2 DEF OptionsInv
  <1>4. ParseInv
    <2>1. \A k \in Keys : settings[k] = OptionValue(k, Len(argv))
      BY <1>2, <1>3 DEF OptionsInv
    <2> QED
      BY <1>3, <2>1 DEF ParseInv, NoLine, NoneIn
  <1>5. ParseInv'
    BY <1>1, <1>4 DEF ParseInv, OptionValue, NoLine, LastLine, GivenAt
  <1>6. \E label \in {"parse", "aborted", "exited"} :
          pc' = [pc EXCEPT ![Original] = label]
    <2>1. \E label \in {"parse", "aborted", "exited"} : Goto(Original, label)
      BY DEF EndOfOptions
    <2> QED
      BY <2>1 DEF Goto
  <1>7. "parse" \notin Past /\ "aborted" \notin Past /\ "exited" \notin Past
    BY DEF Past, Working
  <1>8. PICK label \in {"parse", "aborted", "exited"} :
          pc' = [pc EXCEPT ![Original] = label]
    BY <1>6
  <1>9. label \notin Past /\ label # "cmdline" /\ label # "apply"
    BY <1>7
  <1> QED
    BY <1>1, <1>5, <1>8, <1>9, ConfigAlone

\* A line is read: its item is the last one in the list, and the others are
\* still the last of their keys.
LEMMA ConfigReadLine ==
  ASSUME TypeInv, ProcessInv, ConfigInv, ReadLine
  PROVE  ConfigInv'
  <1>1. /\ pc[Original] = "parse" /\ line <= Len(file) /\ line' = line + 1
        /\ argv' = argv /\ build' = build /\ file' = file
        /\ settings' = settings
    BY DEF ReadLine, NextLine
  <1>2. /\ ParseInv /\ line \in 1..Len(file) + 1 /\ items \in Seq(Items)
        /\ Len(file) \in Nat /\ DOMAIN file = 1..Len(file)
    BY <1>1, FilesAssumption DEF ConfigInv, TypeInv
  <1>3. line \in DOMAIN file /\ 1..line' - 1 = (1..line - 1) \cup {line}
    BY <1>1, <1>2
  <1>4. CASE file[line].kind = "bad"
    <2>1. pc' = [pc EXCEPT ![Original] = "aborted"]
      BY <1>4 DEF ReadLine, Goto
    <2>2. "aborted" \notin Past
      BY DEF Past, Working
    <2> QED
      BY <1>1, <2>1, <2>2, ConfigAlone
  <1>5. CASE file[line].kind # "bad"
    <2>1. pc' = [pc EXCEPT ![Original] = "parse"]
      BY <1>1, <1>5 DEF ReadLine, TypeInv
    <2>2. \A k \in Keys : settings'[k] = OptionValue(k, Len(argv))'
      BY <1>1, <1>2 DEF ParseInv, OptionValue
    <2>3. \A i \in 1..line' - 1 : file'[i].kind # "bad"
      BY <1>1, <1>2, <1>3, <1>5 DEF ParseInv
    <2>4. ASSUME NEW k \in Keys
          PROVE  \/ NoLine(line - 1, k)' /\ NoneIn(items, k)'
                 \/ \E i \in 1..line' - 1 : /\ LastLine(line - 1, k, i)'
                                            /\ LastIn(items', k, ValueOf(file'[i]))
      <3>1. CASE GivenAt(k, line)
        <4> DEFINE it == ItemOf(file[line])
        <4>1. items' = Append(items, it) /\ it \in Items
          BY <1>3, <3>1 DEF ReadLine, ItemOf, GivenAt, Items
        <4>2. it.key = k /\ it.value = ValueOf(file[line])
          BY <3>1 DEF ItemOf, GivenAt
        <4> HIDE DEF it
        <4>3. LastIn(items', k, it.value)
          BY <1>2, <4>1, <4>2, AddedItem
        <4>4. PICK i \in 1..line' - 1 : i = line
          BY <1>1, <1>2
        <4>5. i + 1..line' - 1 = {}
          BY <1>1, <1>2, <4>4
        <4>6. LastLine(line - 1, k, i)'
          BY <1>1, <3>1, <4>4, <4>5 DEF LastLine, GivenAt
        <4> QED
          BY <1>1, <4>2, <4>3, <4>4, <4>6
      <3>2. CASE ~GivenAt(k, line)
        <4>1. /\ NoneIn(items, k) => NoneIn(items', k)
              /\ \A v : LastIn(items, k, v) => LastIn(items', k, v)
          <5>1. CASE file[line].kind = "item"
            <6>1. items' = Append(items, ItemOf(file[line]))
                  /\ ItemOf(file[line]) \in Items
              BY <1>3, <5>1 DEF ReadLine, ItemOf, Items
            <6>2. ItemOf(file[line]).key # k
              BY <3>2, <5>1 DEF ItemOf, GivenAt
            <6> QED
              BY <1>2, <6>1, <6>2, AddedItem
          <5>2. CASE file[line].kind # "item"
            BY <5>2 DEF ReadLine
          <5> QED
            BY <5>1, <5>2
        <4>2. CASE NoLine(line - 1, k) /\ NoneIn(items, k)
          <5>1. NoLine(line - 1, k)'
            BY <1>1, <1>3, <3>2, <4>2 DEF NoLine, GivenAt
          <5> QED
            BY <4>1, <4>2, <5>1 DEF NoneIn
        <4>3. ASSUME NEW i \in 1..line - 1, LastLine(line - 1, k, i),
                     LastIn(items, k, ValueOf(file[i]))
              PROVE  /\ LastLine(line - 1, k, i)'
                     /\ LastIn(items', k, ValueOf(file'[i]))
          <5>1. i \in 1..line' - 1
                /\ \A l \in i + 1..line' - 1 : l = line \/ l \in i + 1..line - 1
            BY <1>1, <1>2
          <5>2. LastLine(line - 1, k, i)'
            BY <1>1, <3>2, <4>3, <5>1 DEF LastLine, GivenAt
          <5> QED
            BY <1>1, <4>1, <4>3, <5>2
        <4>4. 1..line - 1 \subseteq 1..line' - 1
          BY <1>3
        <4> QED
          BY <1>2, <4>2, <4>3, <4>4 DEF ParseInv
      <3> QED
        BY <3>1, <3>2
    <2>5. ParseInv'
      BY <2>2, <2>3, <2>4 DEF ParseInv
    <2>6. "parse" \notin Past
      BY DEF Past, Working
    <2> QED
      BY <1>1, <2>1, <2>5, <2>6, ConfigAlone
  <1> QED
    BY <1>4, <1>5

\* At the end of the file the list holds what every line gives.
LEMMA ConfigEndOfFile ==
  ASSUME TypeInv, ProcessInv, ConfigInv,
         NEW headnext \in {"null", "garbage"}, EndOfFile(headnext)
  PROVE  ConfigInv'
  <1>1. /\ pc[Original] = "parse" /\ line > Len(file)
        /\ argv' = argv /\ build' = build /\ file' = file
        /\ items' = items /\ settings' = settings /\ server_base' = server_base
    BY DEF EndOfFile, config
  <1>2. /\ ParseInv /\ line \in 1..Len(file) + 1 /\ Len(file) \in Nat
    BY <1>1, FilesAssumption DEF ConfigInv, TypeInv
  <1>3. line - 1 = Len(file)
    BY <1>1, <1>2
  <1>4. \A k \in Keys :
          /\ settings[k] = OptionValue(k, Len(argv))
          /\ \/ NoLine(Len(file), k) /\ NoneIn(items, k)
             \/ \E i \in 1..Len(file) : /\ LastLine(Len(file), k, i)
                                        /\ LastIn(items, k, ValueOf(file[i]))
    BY <1>2, <1>3 DEF ParseInv
  <1>5. ASSUME NEW k \in Keys
        PROVE  \E v : /\ ReadValue(k, v)
                      /\ \/ NoneIn(items, k) /\ settings[k] = v
                         \/ LastIn(items, k, v)
    BY <1>4 DEF ReadValue
  <1>6. PortInv(items)
    <2>1. "server_port_base" \in Keys
      BY DEF Keys, NumberKeys
    <2>2. \A v : LastIn(items, "server_port_base", v)
                   => ~NoneIn(items, "server_port_base")
      BY DEF LastIn, NoneIn
    <2> QED
      BY <1>4, <2>1, <2>2 DEF PortInv
  <1>7. \A i \in 1..Len(file) : file[i].kind # "bad"
    BY <1>2, <1>3 DEF ParseInv
  <1>8. ApplyInv
    BY <1>5, <1>6, <1>7 DEF ApplyInv
  <1>9. ApplyInv'
    BY <1>1, <1>8 DEF ApplyInv, PortInv, ReadValue, OptionValue, NoLine, LastLine, GivenAt
  <1>10. \E label \in {"apply", "aborted"} : pc' = [pc EXCEPT ![Original] = label]
    BY DEF EndOfFile, Goto
  <1>11. "apply" \notin Past /\ "aborted" \notin Past
    BY DEF Past, Working
  <1> QED
    BY <1>1, <1>9, <1>10, <1>11, ConfigAlone

\* An item is taken: either another one of its key follows, or the setting
\* now has the value the file gives it.
LEMMA ConfigApplyItem ==
  ASSUME TypeInv, ProcessInv, ConfigInv, ApplyItem
  PROVE  ConfigInv'
  <1> DEFINE it == Head(items)
  <1>1. /\ pc[Original] = "apply" /\ items # <<>>
        /\ argv' = argv /\ build' = build /\ file' = file
    BY DEF ApplyItem
  <1>2. /\ ApplyInv /\ items \in Seq(Items) /\ DOMAIN settings = Keys
    BY <1>1 DEF ConfigInv, TypeInv, SettingsType
  <1>3. CASE ~Valid(it.key, it.value)
    <2>1. pc' = [pc EXCEPT ![Original] = "aborted"]
      BY <1>3 DEF ApplyItem, Goto
    <2>2. "aborted" \notin Past
      BY DEF Past, Working
    <2> QED
      BY <1>1, <2>1, <2>2, ConfigAlone
  <1>4. CASE Valid(it.key, it.value)
    <2>1. /\ settings' = [settings EXCEPT ![it.key] = it.value]
          /\ server_base' = IF it.key = "server_port_base"
                            THEN it.value ELSE server_base
          /\ items' = Tail(items)
      BY <1>4 DEF ApplyItem
    <2>2. pc' = [pc EXCEPT ![Original] = "apply"]
      BY <1>1, <1>4 DEF ApplyItem, TypeInv
    <2>3. ASSUME NEW k PROVE
            /\ it.key # k /\ NoneIn(items, k) => NoneIn(items', k)
            /\ it.key = k => ~NoneIn(items, k)
            /\ NoneIn(items', k) /\ it.key # k => NoneIn(items, k)
            /\ \A v : it.key # k /\ LastIn(items, k, v) => LastIn(items', k, v)
            /\ \A v : it.key = k /\ LastIn(items, k, v) =>
                 LastIn(items', k, v) \/ (NoneIn(items', k) /\ it.value = v)
      BY <1>1, <1>2, <2>1, TakenItem
    <2> HIDE DEF it
    <2>4. \A k \in Keys : settings'[k] = IF it.key = k THEN it.value ELSE settings[k]
      BY <1>2, <2>1
    <2>5. ASSUME NEW k \in Keys
          PROVE  \E v : /\ ReadValue(k, v)'
                        /\ \/ NoneIn(items', k) /\ settings'[k] = v
                           \/ LastIn(items', k, v)
      <3>1. PICK v : /\ ReadValue(k, v)
                     /\ \/ NoneIn(items, k) /\ settings[k] = v
                        \/ LastIn(items, k, v)
        BY <1>2 DEF ApplyInv
      <3>2. ReadValue(k, v)'
        BY <1>1, <3>1 DEF ReadValue, OptionValue, NoLine, LastLine, GivenAt
      <3>3. CASE it.key = k
        BY <2>3, <2>4, <3>1, <3>2, <3>3
      <3>4. CASE it.key # k
        BY <2>3, <2>4, <3>1, <3>2, <3>4
      <3> QED
        BY <3>3, <3>4
    <2>6. PortInv(items)'
      <3>1. "server_port_base" \in Keys
        BY DEF Keys, NumberKeys
      <3>2. CASE it.key = "server_port_base"
        <4>1. server_base' = settings'["server_port_base"]
          BY <2>1, <2>4, <3>1, <3>2
        <4> QED
          BY <4>1 DEF PortInv
      <3>3. CASE it.key # "server_port_base"
        <4>1. server_base' = server_base
              /\ settings'["server_port_base"] = settings["server_port_base"]
          BY <2>1, <2>4, <3>1, <3>3
        <4>2. NoneIn(items', "server_port_base") => NoneIn(items, "server_port_base")
          BY <2>3, <3>3
        <4>3. PortInv(items)
          BY <1>2 DEF ApplyInv
        <4>4. NoLine(Len(file), "server_port_base")
                => NoLine(Len(file), "server_port_base")'
          BY <1>1 DEF NoLine, GivenAt
        <4> QED
          BY <4>1, <4>2, <4>3, <4>4 DEF PortInv
      <3> QED
        BY <3>2, <3>3
    <2>7. \A i \in 1..Len(file') : file'[i].kind # "bad"
      BY <1>1, <1>2 DEF ApplyInv
    <2>8. ApplyInv'
      BY <2>5, <2>6, <2>7 DEF ApplyInv
    <2>9. "apply" \notin Past
      BY DEF Past, Working
    <2> QED
      BY <1>1, <2>2, <2>8, <2>9, ConfigAlone
  <1> QED
    BY <1>3, <1>4

\* When the list is empty every setting is what was given.
LEMMA ConfigEndOfConfig ==
  ASSUME TypeInv, ProcessInv, ConfigInv, EndOfConfig
  PROVE  ConfigInv'
  <1>1. /\ pc[Original] = "apply" /\ items = <<>>
        /\ argv' = argv /\ build' = build /\ file' = file
        /\ items' = items /\ settings' = settings /\ server_base' = server_base
    BY DEF EndOfConfig, config
  <1>2. ApplyInv
    BY <1>1 DEF ConfigInv
  <1>3. \A k, v : ~LastIn(items, k, v)
    BY <1>1 DEF LastIn
  <1>4. CASE check_config_integrity
    <2>1. \A k \in Keys : ReadValue(k, settings[k])
      BY <1>2, <1>3 DEF ApplyInv
    <2>2. PortInv(<<>>)
      BY <1>1, <1>2 DEF ApplyInv
    <2>3. ReadyInv
      <3>1. \A i \in 1..Len(file) : file[i].kind # "bad"
        BY <1>2 DEF ApplyInv
      <3> QED
        BY <1>4, <2>1, <2>2, <3>1 DEF ReadyInv
    <2>4. ReadyInv'
      BY <1>1, <2>3 DEF ReadyInv, PortInv, ReadValue, OptionValue, NoLine, LastLine,
                        GivenAt, check_config_integrity
    <2>5. PICK label : label = "database" /\ pc' = [pc EXCEPT ![Original] = label]
      BY <1>4 DEF EndOfConfig, Goto
    <2>6. /\ label # "cmdline" /\ label # "parse" /\ label # "apply"
          /\ pc[Original] \in {"cmdline", "parse", "apply", "database"}
      BY <1>1, <2>5
    <2> QED
      BY <2>4, <2>5, <2>6, ConfigAlone, Zenon
  <1>5. CASE ~check_config_integrity
    <2>1. pc' = [pc EXCEPT ![Original] = "aborted"] /\ "aborted" \notin Past
      BY <1>5 DEF EndOfConfig, Goto, Past, Working
    <2> QED
      BY <1>1, <2>1, ConfigAlone
  <1> QED
    BY <1>4, <1>5

\* Every step keeps the invariant of the settings.
LEMMA ConfigStep ==
  ASSUME TypeInv, ProcessInv, ConfigInv, [Next]_vars
  PROVE  ConfigInv'
  <1>0. pc \in [Pids -> Labels]
    BY DEF TypeInv
  <1>1. CASE NoFile
    <2>1. pc[Original] = "parse" /\ pc' = [pc EXCEPT ![Original] = "aborted"]
      BY <1>1 DEF NoFile, Goto
    <2>2. "aborted" \notin Past
      BY DEF Past, Working
    <2> QED
      BY <2>1, <2>2, ConfigAlone
  <1>2. ASSUME NEW p \in Pids, pc[p] \in Past, NEW label, pc' = [pc EXCEPT ![p] = label],
               label \notin {"cmdline", "parse", "apply"}, UNCHANGED config
        PROVE  ConfigInv'
    <2>1. pc'[Original] \in {label, pc[Original]}
      BY <1>0, <1>2, ThreePids
    <2> QED
      BY <1>2, <2>1, ConfigFrame
  <1>3. ASSUME NEW fails \in BOOLEAN, InitDatabase(fails) PROVE ConfigInv'
    <2>1. pc[Original] \in Past /\ UNCHANGED config
      BY <1>3 DEF InitDatabase, Past, world
    <2>2. PICK label \in {"aborted", "fork", "start"} : Goto(Original, label)
      BY <1>3 DEF InitDatabase
    <2>3. Original \in Pids /\ label \notin {"cmdline", "parse", "apply"}
      BY <2>2, ThreePids
    <2> QED
      BY <1>2, <2>1, <2>2, <2>3 DEF Goto
  <1>4. CASE Setsid \/ \E p \in Pids : ParentExits(p)
    <2>1. PICK p \in Pids : /\ pc[p] \in {"setsid", "parent"}
                            /\ \E label \in {"fork", "exited"} : Goto(p, label)
      BY <1>4, ThreePids DEF Setsid, ParentExits
    <2>2. pc[p] \in Past
      BY <2>1 DEF Past
    <2>3. UNCHANGED config
      BY <1>4 DEF Setsid, ParentExits
    <2> QED
      BY <1>2, <2>1, <2>2, <2>3 DEF Goto
  <1>5. ASSUME NEW fails \in BOOLEAN,
               \/ CloseAll(fails) \/ WritePid(fails) \/ \E p \in Pids : Start(p, fails)
        PROVE  ConfigInv'
    <2>1. PICK p \in Pids :
             /\ pc[p] \in {"close", "pidfile", "start"}
             /\ \E label \in {"exited", "pidfile", "start", "serve", "aborted", "capture"} :
                  Goto(p, label)
      BY <1>5, ThreePids DEF CloseAll, WritePid, Start
    <2>2. pc[p] \in Past
      BY <2>1 DEF Past, Working
    <2>3. UNCHANGED config
      BY <1>5 DEF CloseAll, WritePid, Start
    <2> QED
      BY <1>2, <2>1, <2>2, <2>3 DEF Goto
  <1>6. ASSUME NEW fails \in BOOLEAN, FirstFork(fails) \/ SecondFork(fails)
        PROVE  ConfigInv'
    <2>1. \E p \in Pids : pc[p] = "fork"
      BY <1>6, ThreePids DEF FirstFork, SecondFork
    <2>2. "fork" \in Past
      BY DEF Past
    <2>3. UNCHANGED config
      BY <1>6 DEF FirstFork, SecondFork, Fork
    <2>4. pc'[Original] \in {pc[Original], "exited", "parent"}
      BY <1>0, <1>6, ThreePids DEF FirstFork, SecondFork, Fork
    <2> QED
      BY <2>1, <2>2, <2>3, <2>4, ConfigFrame
  <1>7. CASE UNCHANGED vars \/ \E p \in Pids : StoreRow(p)
    <2>1. pc' = pc /\ UNCHANGED config
      BY <1>7 DEF vars, StoreRow
    <2> QED
      BY <2>1, ConfigFrame
  <1> QED
    BY <1>1, <1>3, <1>4, <1>5, <1>6, <1>7, ConfigOption, ConfigEndOfOptions,
       ConfigReadLine, ConfigEndOfFile, ConfigApplyItem, ConfigEndOfConfig
    DEF Next, Step

----------------------------------------------------------------------------
(* The theorems *)

\* Every step keeps the whole invariant.
LEMMA StartStep == StartInv /\ [Next]_vars => StartInv'
  <1> SUFFICES ASSUME StartInv, [Next]_vars PROVE StartInv'
    OBVIOUS
  <1>1. TypeInv /\ FdInv /\ ProcessInv /\ ConfigInv
    BY DEF StartInv
  <1>2. TypeInv'
    BY <1>1, TypeStep
  <1>3. FdInv'
    BY <1>1, FdStep
  <1>4. ConfigInv'
    BY <1>1, ConfigStep
  <1>5. ProcessInv'
    <2>1. SettingsType'
      BY <1>2 DEF TypeInv
    <2>2. CASE UNCHANGED vars
      BY <1>1, <2>2 DEF vars, config, world, ProcessInv, NoTerminal
    <2>3. CASE \/ Option \/ NoFile \/ ReadLine
               \/ \E headnext \in {"null", "garbage"} : EndOfFile(headnext)
               \/ ApplyItem \/ EndOfConfig
               \/ \E fails \in BOOLEAN : EndOfOptions(fails) \/ InitDatabase(fails)
      BY <1>1, <2>1, <2>3, ProcessReading
    <2>4. CASE \/ Setsid
               \/ \E p \in Pids : ParentExits(p) \/ StoreRow(p)
               \/ \E fails \in BOOLEAN :
                    \/ FirstFork(fails) \/ SecondFork(fails)
                    \/ CloseAll(fails) \/ WritePid(fails)
                    \/ \E p \in Pids : Start(p, fails)
      BY <1>1, <2>4, ProcessForking
    <2> QED
      BY <2>2, <2>3, <2>4 DEF Next, Step
  <1> QED
    BY <1>2, <1>3, <1>4, <1>5 DEF StartInv

\* The invariant holds in every state of every start.
THEOREM StartInvariant == Spec => []StartInv
  BY StartInit, StartStep, PTL DEF Spec

\* main(), parse_config() and daemonize() keep every variable in its type: a
\* setting that is out of range never gets into struct global_context.
THEOREM StartTypeCorrect == Spec => []TypeOK
  <1>1. StartInv => TypeOK
    <2> SUFFICES ASSUME StartInv PROVE TypeOK
      OBVIOUS
    <2>1. TypeInv /\ FdInv
      BY DEF StartInv
    <2>2. \A p \in Pids : DOMAIN fds[p] \subseteq Descriptors
      <3> SUFFICES ASSUME NEW p \in Pids PROVE DOMAIN fds[p] \subseteq Descriptors
        OBVIOUS
      <3>1. PICK n \in 0..MaxFd + 1 : DOMAIN fds[p] = 0..n - 1
        BY <2>1 DEF FdInv
      <3> QED
        BY <3>1, FdAssumption DEF Descriptors
    <2> QED
      BY <2>1, <2>2 DEF TypeInv, SettingsType, TypeOK
  <1> QED
    BY <1>1, StartInvariant, PTL

\* daemonize() leaves one process at work: not the leader of its session,
\* without a terminal, and the one the pid file names.
THEOREM OneDetachedWorker == Spec => []WorkerDetached
  <1>1. StartInv => WorkerDetached
    <2> SUFFICES ASSUME StartInv, NEW p \in Pids, pc[p] \in Working
                 PROVE  /\ \A q \in Pids \ {p} : pc[q] \in Ended \cup {"parent"}
                        /\ settings["daemon_mode"] = "on" =>
                             /\ p \notin leader /\ leader # {}
                             /\ pidfile = p
                             /\ \A d \in 0..2 : d \in DOMAIN fds[p] /\ fds[p][d] = "null"
      BY DEF WorkerDetached
    <2>1. ProcessInv
      BY DEF StartInv
    <2>2. p = Original \/ p = Grandchild
      BY <2>1, ThreePids DEF ProcessInv, Working
    <2>3. CASE p = Original
      BY <2>1, <2>3, ThreePids DEF ProcessInv, Working, Ended
    <2>4. CASE p = Grandchild
      BY <2>1, <2>4, ThreePids DEF ProcessInv, NoTerminal, Working, Ended
    <2> QED
      BY <2>2, <2>3, <2>4
  <1> QED
    BY <1>1, StartInvariant, PTL

\* What was read for a key is what the user gave, if every item is ended by
\* '\n'.
LEMMA ReadIsGiven ==
  ASSUME TypeInv, Terminated, NEW k \in Keys, NEW v, ReadValue(k, v)
  PROVE  v = Given(k)
  <1> DEFINE at == {i \in DOMAIN file : file[i].kind = "item" /\ file[i].key = k}
             option(o) == \E i \in DOMAIN argv : argv[i] = o
  <1>1. /\ DOMAIN file = 1..Len(file) /\ DOMAIN argv = 1..Len(argv)
        /\ Len(file) \in Nat
    BY FilesAssumption, CommandsAssumption DEF TypeInv
  <1>2. CASE NoLine(Len(file), k) /\ v = OptionValue(k, Len(argv))
    <2>1. at = {}
      BY <1>1, <1>2 DEF NoLine, GivenAt
    <2>2. OptionValue(k, Len(argv)) =
            CASE k = "daemon_mode" /\ option("-d") -> "on"
              [] k = "pid_file" /\ option("-p") -> "option"
              [] OTHER -> Defaults(build)[k]
      BY <1>1 DEF OptionValue
    <2>3. Given(k) = CASE k = "daemon_mode" /\ option("-d") -> "on"
                       [] k = "pid_file" /\ option("-p") -> "option"
                       [] OTHER -> Defaults(build)[k]
      BY <2>1 DEF Given
    <2> QED
      BY <1>2, <2>2, <2>3
  <1>3. ASSUME NEW i \in 1..Len(file), LastLine(Len(file), k, i), v = ValueOf(file[i])
        PROVE  v = Given(k)
    <2>1. i \in at /\ \A j \in at : j \in Int /\ j <= i
      BY <1>1, <1>3 DEF LastLine, GivenAt
    <2>2. Max(at) \in at /\ \A j \in at : Max(at) >= j
      <3> HIDE DEF at
      <3> QED
        BY <2>1, Zenon DEF Max
    <2> DEFINE m == Max(at)
    <2>3. m \in at /\ m >= i /\ m <= i /\ m \in Int
      BY <2>1, <2>2
    <2> HIDE DEF m
    <2>4. m = i
      BY <2>1, <2>3
    <2>5. ValueOf(file[i]) = file[i].value
      BY <2>1 DEF ValueOf, Terminated
    <2>6. Given(k) = file[Max(at)].value
      BY <2>1 DEF Given
    <2> QED
      BY <1>3, <2>4, <2>5, <2>6 DEF m
  <1> QED
    BY <1>2, <1>3 DEF ReadValue

\* parse_config_file() and parse_config(): a program that works has every
\* setting as the last line gives it that names it, else as the command line
\* does, else the default, and the file had no bad line.
THEOREM ConfigurationIsRead == Spec => []SettingsAreGiven
  <1>1. StartInv => SettingsAreGiven
    <2> SUFFICES ASSUME StartInv, \E p \in Pids : pc[p] \in Working, Terminated
                 PROVE  /\ \A k \in Keys : settings[k] = Given(k)
                        /\ \A i \in DOMAIN file : file[i].kind # "bad"
      BY DEF SettingsAreGiven
    <2>1. TypeInv /\ ReadyInv
      BY DEF StartInv, ConfigInv, Past
    <2>2. \A k \in Keys : settings[k] = Given(k)
      BY <2>1, ReadIsGiven DEF ReadyInv
    <2>3. DOMAIN file = 1..Len(file)
      BY <2>1, FilesAssumption DEF TypeInv
    <2> QED
      BY <2>1, <2>2, <2>3 DEF ReadyInv
  <1> QED
    BY <1>1, StartInvariant, PTL

\* check_config_integrity() and the two copies of the port base: a cluster
\* client at work sends to a port that a server with the same file serves.
THEOREM ClientPortIsServed == Spec => []PortIsServed
  <1>1. StartInv => PortIsServed
    <2> SUFFICES ASSUME StartInv, NEW p \in Pids, pc[p] = "capture",
                        settings["cluster_mode"] = "client",
                        NEW i \in DOMAIN file, file[i].kind = "item",
                        file[i].key = "server_port_base"
                 PROVE  ClientPort \in ServedPorts
      BY DEF PortIsServed
    <2>1. TypeInv /\ ReadyInv
      BY DEF StartInv, ConfigInv, Past, Working
    <2>2. DOMAIN file = 1..Len(file)
      BY <2>1, FilesAssumption DEF TypeInv
    <2>3. ~NoLine(Len(file), "server_port_base")
      BY <2>2 DEF NoLine, GivenAt
    <2>4. NoneIn(<<>>, "server_port_base")
      BY DEF NoneIn
    <2>5. server_base = settings["server_port_base"]
      BY <2>1, <2>3, <2>4 DEF ReadyInv, PortInv
    <2> DEFINE n == settings["local_sequence_number"]
               scale == settings["client_scale"]
               base == settings["server_port_base"]
    <2>6. n \in 1..scale
      BY <2>1 DEF ReadyInv, check_config_integrity
    <2>7. scale \in Nat
      BY <2>1 DEF TypeInv, SettingsType
    <2>8. ServedPorts = {Port(base + 2 * (j + 1)) : j \in 0..scale - 1}
      BY <2>5 DEF ServedPorts
    <2>9. ClientPort = Port(base + 2 * n)
      BY DEF ClientPort
    <2> HIDE DEF n, scale, base
    <2>10. n - 1 \in 0..scale - 1 /\ (n - 1) + 1 = n
      BY <2>6, <2>7
    <2>11. Port(base + 2 * ((n - 1) + 1)) \in ServedPorts
      BY <2>8, <2>10
    <2> QED
      BY <2>9, <2>10, <2>11
  <1> QED
    BY <1>1, StartInvariant, PTL

----------------------------------------------------------------------------
(* The rows of the motions *)

\* A process in the foreground has the database open, and rows are lost only
\* once there is a daemon.
RowInv ==
    /\ pc[Original] \in {"start", "capture"} =>
         opendmd_db \in DOMAIN fds[Original] /\ fds[Original][opendmd_db] = "database"
    /\ lost # 0 => pc[Grandchild] # "none"

\* What is open stays open when a descriptor is added.
LEMMA StaysOpen ==
  ASSUME NEW table, NEW n \in 0..MaxFd, DOMAIN table = 0..n - 1, NEW what,
         NEW d \in DOMAIN table
  PROVE  /\ d \in DOMAIN Opened(table, what)
         /\ Opened(table, what)[d] = table[d]
  <1>1. 0..n - 1 \subseteq 0..(n + 1) - 1
    OBVIOUS
  <1> QED
    BY <1>1, NextDescriptor

\* Starting to capture leaves the descriptor of the database open.
LEMMA StartKeepsOpen ==
  ASSUME TypeInv, FdInv, NEW p \in Pids, NEW fails \in BOOLEAN, Start(p, fails),
         NEW d \in DOMAIN fds[p]
  PROVE  d \in DOMAIN fds'[p] /\ fds'[p][d] = fds[p][d]
  <1> DEFINE t == fds[p]
             t1 == Opened(t, "socket")
             t2 == Opened(t1, "socket")
             Kept(x) == d \in DOMAIN x /\ x[d] = t[d]
  <1>1. PICK n \in 3..4 : DOMAIN t = 0..n - 1
    BY DEF FdInv, Start
  <1>2. n \in 0..MaxFd /\ n + 1 \in 0..MaxFd /\ n + 2 \in 0..MaxFd
    BY FdAssumption
  <1>3. \/ fds'[p] = t \/ fds'[p] = Opened(t, "socket")
        \/ fds'[p] = Opened(t, "camera") \/ fds'[p] = Opened(t2, "camera")
    BY DEF Start, TypeInv
  <1>4. d \in DOMAIN t
    OBVIOUS
  <1> HIDE DEF t
  <1>5. Kept(t1) /\ Kept(Opened(t, "camera")) /\ DOMAIN t1 = 0..(n + 1) - 1
    BY <1>1, <1>2, <1>4, StaysOpen, NextDescriptor
  <1> HIDE DEF t1
  <1>6. Kept(t2) /\ DOMAIN t2 = 0..((n + 1) + 1) - 1
    BY <1>2, <1>5, StaysOpen, NextDescriptor
  <1> HIDE DEF t2
  <1>7. DOMAIN t2 = 0..(n + 2) - 1
    BY <1>6
  <1>8. Kept(Opened(t2, "camera"))
    BY <1>2, <1>6, <1>7, StaysOpen
  <1>9. Kept(fds'[p])
    BY <1>3, <1>4, <1>5, <1>8 DEF t1
  <1> QED
    BY <1>9 DEF t

\* Every step keeps RowInv.
LEMMA RowStep ==
  ASSUME TypeInv, FdInv, ProcessInv, RowInv, [Next]_vars
  PROVE  RowInv'
  <1>0. pc \in [Pids -> Labels] /\ DOMAIN fds = Pids
    BY DEF TypeInv
  <1>1. ASSUME UNCHANGED <<fds, opendmd_db, lost>>,
               pc'[Original] \in {"start", "capture"} => pc'[Original] = pc[Original],
               pc[Grandchild] # "none" => pc'[Grandchild] # "none"
        PROVE  RowInv'
    BY <1>1 DEF RowInv
  <1>2. CASE UNCHANGED vars
    BY <1>1, <1>2 DEF vars, world
  <1>3. CASE Option \/ NoFile \/ ReadLine \/ ApplyItem \/ EndOfConfig
             \/ \E headnext \in {"null", "garbage"} : EndOfFile(headnext)
    BY <1>0, <1>1, <1>3, ThreePids
    DEF Option, NoFile, ReadLine, ApplyItem, EndOfConfig, EndOfFile, Goto, world
  <1>4. CASE \/ Setsid \/ \E p \in Pids : ParentExits(p)
             \/ \E fails \in BOOLEAN : EndOfOptions(fails) \/ WritePid(fails)
    BY <1>0, <1>1, <1>4, ThreePids
    DEF Setsid, ParentExits, EndOfOptions, WritePid, Goto, world
  <1>5. ASSUME NEW fails \in BOOLEAN, InitDatabase(fails) PROVE RowInv'
    <2>1. lost' = lost /\ pc'[Grandchild] = pc[Grandchild]
      BY <1>0, <1>5, ThreePids DEF InitDatabase, Goto, world
    <2>2. CASE fails
      BY <1>0, <1>1, <1>5, <2>1, <2>2 DEF InitDatabase, Goto
    <2>3. CASE ~fails
      <3> DEFINE t == fds[Original]
      <3>1. /\ fds'[Original] = Opened(t, "database") /\ opendmd_db' = Lowest(t)
            /\ Original \in Pids
        BY <1>0, <1>5, <2>3, ThreePids DEF InitDatabase
      <3>2. /\ opendmd_db' \in DOMAIN fds'[Original]
            /\ fds'[Original][opendmd_db'] = "database"
        BY <3>1 DEF Opened
      <3> QED
        BY <2>1, <3>2 DEF RowInv
    <2> QED
      BY <2>2, <2>3
  <1>6. ASSUME NEW fails \in BOOLEAN,
               FirstFork(fails) \/ SecondFork(fails) \/ CloseAll(fails)
        PROVE  RowInv'
    <2>1. UNCHANGED <<opendmd_db, lost>> /\ fds'[Original] = fds[Original]
      BY <1>0, <1>6, ThreePids DEF FirstFork, SecondFork, Fork, CloseAll, world
    <2>2. /\ pc'[Original] \in {"start", "capture"} => pc'[Original] = pc[Original]
          /\ pc[Grandchild] # "none" => pc'[Grandchild] # "none"
      BY <1>0, <1>6, ThreePids DEF FirstFork, SecondFork, Fork, CloseAll, Goto
    <2> QED
      BY <2>1, <2>2 DEF RowInv
  <1>7. ASSUME NEW fails \in BOOLEAN, NEW p \in Pids, Start(p, fails)
        PROVE  RowInv'
    <2>1. UNCHANGED <<opendmd_db, lost>> /\ pc[p] = "start"
      BY <1>7 DEF Start, world
    <2>2. PICK label \in {"exited", "aborted", "serve", "capture"} :
            pc' = [pc EXCEPT ![p] = label]
      BY <1>7 DEF Start, Goto
    <2>3. pc[Grandchild] # "none" => pc'[Grandchild] # "none"
      BY <1>0, <2>2, ThreePids
    <2>4. CASE p = Original
      <3>1. /\ opendmd_db \in DOMAIN fds[p]
            /\ fds[p][opendmd_db] = "database"
        BY <2>1, <2>4 DEF RowInv
      <3>2. opendmd_db \in DOMAIN fds'[p] /\ fds'[p][opendmd_db] = "database"
        BY <1>7, <3>1, StartKeepsOpen
      <3> QED
        BY <2>1, <2>3, <2>4, <3>2 DEF RowInv
    <2>5. CASE p # Original
      <3>1. fds'[Original] = fds[Original] /\ pc'[Original] = pc[Original]
        BY <1>0, <1>7, <2>2, <2>5, ThreePids DEF Start
      <3> QED
        BY <2>1, <2>3, <3>1 DEF RowInv
    <2> QED
      BY <2>4, <2>5
  <1>8. ASSUME NEW p \in Pids, StoreRow(p) PROVE RowInv'
    <2>1. UNCHANGED <<pc, fds, opendmd_db>> /\ pc[p] = "capture"
      BY <1>8 DEF StoreRow
    <2>2. CASE p = Original
      <3>1. lost' = lost
        BY <1>8, <2>1, <2>2 DEF StoreRow, RowInv
      <3> QED
        BY <2>1, <3>1 DEF RowInv
    <2>3. CASE p # Original
      <3>1. pc[Grandchild] # "none"
        BY <2>1, <2>3, ThreePids DEF ProcessInv
      <3> QED
        BY <2>1, <3>1 DEF RowInv
    <2> QED
      BY <2>2, <2>3
  <1> QED
    BY <1>2, <1>3, <1>4, <1>5, <1>6, <1>7, <1>8 DEF Next, Step

\* Without daemonize() every row that insert_item() writes reaches the
\* database: the descriptor that init_database() got is the database's until
\* the end, whatever else the program opens (src/main.c).  A daemon loses
\* them, because daemonize() closes it.
THEOREM ForegroundStoresRows ==
  Spec => [](settings["daemon_mode"] = "off" => RowsStored)
  <1>1. Init => RowInv
    <2> SUFFICES ASSUME Init PROVE RowInv
      OBVIOUS
    <2>1. lost = 0 /\ pc[Original] = "cmdline"
      BY ThreePids DEF Init
    <2> QED
      BY <2>1 DEF RowInv
  <1>2. StartInv /\ RowInv /\ [Next]_vars => RowInv'
    BY RowStep DEF StartInv
  <1>3. StartInv /\ RowInv => (settings["daemon_mode"] = "off" => RowsStored)
    <2> SUFFICES ASSUME StartInv, RowInv, lost # 0
                 PROVE  settings["daemon_mode"] = "on"
      BY DEF RowsStored
    <2>1. ProcessInv /\ pc[Grandchild] # "none"
      BY DEF StartInv, RowInv
    <2> QED
      BY <2>1 DEF ProcessInv
  <1> QED
    BY StartInvariant, <1>1, <1>2, <1>3, PTL DEF Spec

----------------------------------------------------------------------------
(* The start is bounded *)

\* How far a process is from its end
Rank(label) ==
    CASE label = "cmdline" -> 6
      [] label = "parse" -> 5
      [] label \in {"apply", "none"} -> 4
      [] label \in {"database", "setsid", "close"} -> 3
      [] label \in {"fork", "pidfile"} -> 2
      [] label \in {"start", "parent"} -> 1
      [] OTHER -> 0

Ranks == Rank(pc[Original]) + Rank(pc[Child]) + Rank(pc[Grandchild])

\* What is left of the start: options, lines, items and the ways to go. A
\* line may become an item and so counts twice.
Remaining ==
    ((Len(argv) + 1 - opt) + 2 * (Len(file) + 1 - line)) + (Len(items) + Ranks)

\* The ranks, spelled out.
LEMMA RankValues ==
  /\ Rank("cmdline") = 6 /\ Rank("parse") = 5
  /\ Rank("apply") = 4 /\ Rank("none") = 4
  /\ Rank("database") = 3 /\ Rank("setsid") = 3 /\ Rank("close") = 3
  /\ Rank("fork") = 2 /\ Rank("pidfile") = 2
  /\ Rank("start") = 1 /\ Rank("parent") = 1
  /\ Rank("exited") = 0 /\ Rank("aborted") = 0
  /\ Rank("capture") = 0 /\ Rank("serve") = 0
  BY DEF Rank

\* Every label has a rank.
LEMMA RankType ==
  ASSUME NEW label \in Labels PROVE Rank(label) \in Nat
  BY RankValues DEF Labels, Ended, Working

\* A process that goes to a label of a lower rank lowers the sum.
LEMMA RankDown ==
  ASSUME TypeInv, NEW p \in Pids, NEW label \in Labels,
         pc' = [pc EXCEPT ![p] = label], Rank(label) < Rank(pc[p])
  PROVE  Ranks' < Ranks
  <1>0. pc \in [Pids -> Labels]
    BY DEF TypeInv
  <1>1. pc'[p] = label /\ \A q \in Pids : q # p => pc'[q] = pc[q]
    BY <1>0
  <1>2. /\ Rank(pc[Original]) \in Nat /\ Rank(pc[Child]) \in Nat
        /\ Rank(pc[Grandchild]) \in Nat /\ Rank(label) \in Nat
    BY <1>0, RankType, ThreePids
  <1>3. Ranks' = Rank(pc'[Original]) + Rank(pc'[Child]) + Rank(pc'[Grandchild])
    BY DEF Ranks
  <1>4. CASE p = Original
    BY <1>1, <1>2, <1>3, <1>4, ThreePids DEF Ranks
  <1>5. CASE p = Child
    BY <1>1, <1>2, <1>3, <1>5, ThreePids DEF Ranks
  <1>6. CASE p = Grandchild
    BY <1>1, <1>2, <1>3, <1>6, ThreePids DEF Ranks
  <1> QED
    BY <1>4, <1>5, <1>6, ThreePids

\* What is left is a number.
LEMMA RemainingType ==
  ASSUME TypeInv
  PROVE  /\ Ranks \in Nat /\ Len(items) \in Nat
         /\ Len(argv) \in Nat /\ Len(file) \in Nat
         /\ Len(argv) + 1 - opt \in Nat /\ Len(file) + 1 - line \in Nat
         /\ opt \in Nat /\ line \in Nat
         /\ Remaining \in Nat
  <1>1. Len(argv) \in Nat /\ Len(file) \in Nat
    BY CommandsAssumption, FilesAssumption DEF TypeInv
  <1>2. /\ Len(argv) + 1 - opt \in Nat /\ Len(file) + 1 - line \in Nat
        /\ opt \in Nat /\ line \in Nat
    BY <1>1 DEF TypeInv
  <1>3. Len(items) \in Nat
    BY DEF TypeInv
  <1>4. /\ Rank(pc[Original]) \in Nat /\ Rank(pc[Child]) \in Nat
        /\ Rank(pc[Grandchild]) \in Nat
    BY RankType, ThreePids DEF TypeInv
  <1>5. Ranks \in Nat
    BY <1>4 DEF Ranks
  <1>6. \A a, b, c, d \in Nat : (a + 2 * b) + (c + d) \in Nat
    OBVIOUS
  <1> QED
    BY <1>1, <1>2, <1>3, <1>5, <1>6 DEF Remaining

\* The same of the ranks after a step.
LEMMA NextRanksType ==
  ASSUME TypeInv' PROVE Ranks' \in Nat
  <1>1. pc' \in [Pids -> Labels]
    BY DEF TypeInv
  <1>2. /\ Rank(pc'[Original]) \in Nat /\ Rank(pc'[Child]) \in Nat
        /\ Rank(pc'[Grandchild]) \in Nat
    BY <1>1, RankType, ThreePids
  <1>3. Ranks' = Rank(pc'[Original]) + Rank(pc'[Child]) + Rank(pc'[Grandchild])
    BY DEF Ranks
  <1> QED
    BY <1>2, <1>3

\* The control goes on and the rest stands.
LEMMA RemainingDown ==
  ASSUME TypeInv, TypeInv', UNCHANGED <<argv, opt, file, line, items>>,
         NEW p \in Pids, NEW label \in Labels, pc' = [pc EXCEPT ![p] = label],
         Rank(label) < Rank(pc[p])
  PROVE  Remaining' < Remaining
  <1>1. Ranks' < Ranks
    BY RankDown
  <1>2. \A a, b, c, d, e \in Nat :
           e < d => (a + 2 * b) + (c + e) < (a + 2 * b) + (c + d)
    OBVIOUS
  <1>3. Ranks' \in Nat
    BY NextRanksType
  <1> DEFINE a == Len(argv) + 1 - opt
             b == Len(file) + 1 - line
             c == Len(items)
             d == Ranks
             e == Ranks'
  <1>4. a \in Nat /\ b \in Nat /\ c \in Nat /\ d \in Nat /\ e \in Nat /\ e < d
    BY <1>1, <1>3, RemainingType
  <1>5. Remaining = (a + 2 * b) + (c + d) /\ Remaining' = (a + 2 * b) + (c + e)
    BY DEF Remaining
  <1> HIDE DEF a, b, c, d, e
  <1> QED
    BY <1>2, <1>4, <1>5

\* Every step of the start leaves less of it.
LEMMA StepDown ==
  ASSUME StartInv, StartInv', Step
  PROVE  Remaining' < Remaining
  <1>0. TypeInv /\ TypeInv' /\ ProcessInv /\ pc \in [Pids -> Labels]
    BY DEF StartInv, TypeInv
  <1>a. {"cmdline", "parse", "apply", "database", "fork", "parent", "setsid", "close",
         "pidfile", "none", "exited", "aborted", "start", "capture", "serve"} = Labels
    BY DEF Labels, Ended, Working
  <1>b. Ranks \in Nat /\ Ranks' \in Nat
    BY <1>0, RemainingType, NextRanksType
  <1>c. /\ opt \in Nat /\ line \in Nat /\ Len(items) \in Nat
        /\ Len(argv) + 1 - opt \in Nat /\ Len(file) + 1 - line \in Nat
        /\ Len(argv) \in Nat /\ Len(file) \in Nat
    BY <1>0, RemainingType
  <1>1. CASE Option
    <2>1. /\ argv' = argv /\ file' = file /\ line' = line /\ items' = items
          /\ opt' = opt + 1
      BY <1>1 DEF Option
    <2>2. Ranks' <= Ranks
      <3>1. CASE pc' = pc
        <4>1. Ranks' = Ranks
          BY <3>1 DEF Ranks
        <4> QED
          BY <1>b, <4>1
      <3>2. CASE Goto(Original, "exited")
        <4>1. Ranks' < Ranks
          <5>1. pc[Original] = "cmdline" /\ Rank("exited") < Rank(pc[Original])
            BY <1>1, RankValues DEF Option
          <5>2. "exited" \in Labels /\ Original \in Pids
            BY <1>a, ThreePids
          <5> QED
            BY <1>0, <3>2, <5>1, <5>2, RankDown DEF Goto
        <4> QED
          BY <1>b, <4>1
      <3> QED
        BY <1>1, <3>1, <3>2 DEF Option
    <2>3. Remaining' = ((Len(argv) + 1 - (opt + 1)) + 2 * (Len(file) + 1 - line))
                         + (Len(items) + Ranks')
      BY <2>1 DEF Remaining
    <2> QED
      BY <1>b, <1>c, <2>2, <2>3 DEF Remaining
  <1>2. CASE ReadLine
    <2>1. /\ argv' = argv /\ file' = file /\ line' = line + 1 /\ opt' = opt
      BY <1>2 DEF ReadLine, NextLine
    <2>2. Len(items') \in Nat /\ Len(items') <= Len(items) + 1
      <3>0. items \in Seq(Items) /\ items' \in Seq(Items')
        BY <1>0 DEF TypeInv
      <3>1. CASE items' = items
        BY <3>0, <3>1
      <3>2. CASE items' # items
        <4>1. PICK x : items' = Append(items, x)
          BY <1>2, <3>2 DEF ReadLine
        <4>2. Len(items') = Len(items) + 1
          BY <3>0, <4>1
        <4> QED
          BY <1>c, <4>2
      <3> QED
        BY <3>1, <3>2
    <2>3. Ranks' <= Ranks
      <3>1. CASE pc' = pc
        <4>1. Ranks' = Ranks
          BY <3>1 DEF Ranks
        <4> QED
          BY <1>b, <4>1
      <3>2. CASE Goto(Original, "aborted")
        <4>1. Ranks' < Ranks
          <5>1. pc[Original] = "parse" /\ Rank("aborted") < Rank(pc[Original])
            BY <1>2, RankValues DEF ReadLine
          <5>2. "aborted" \in Labels /\ Original \in Pids
            BY <1>a, ThreePids
          <5> QED
            BY <1>0, <3>2, <5>1, <5>2, RankDown DEF Goto
        <4> QED
          BY <1>b, <4>1
      <3> QED
        BY <1>2, <3>1, <3>2 DEF ReadLine
    <2>4. Remaining' = ((Len(argv) + 1 - opt) + 2 * (Len(file) + 1 - (line + 1)))
                         + (Len(items') + Ranks')
      BY <2>1 DEF Remaining
    <2> QED
      BY <1>b, <1>c, <2>2, <2>3, <2>4 DEF Remaining
  <1>3. CASE ApplyItem
    <2>1. /\ argv' = argv /\ file' = file /\ line' = line /\ opt' = opt
          /\ pc[Original] = "apply" /\ items # <<>>
      BY <1>3 DEF ApplyItem
    <2>2. CASE Goto(Original, "aborted") /\ items' = items
      <3>1. Rank("aborted") < Rank(pc[Original])
        BY <2>1, RankValues
      <3>2. "aborted" \in Labels /\ Original \in Pids
        BY <1>a, ThreePids
      <3> QED
        BY <1>0, <2>1, <2>2, <3>1, <3>2, RemainingDown DEF Goto
    <2>3. CASE items' = Tail(items) /\ pc' = pc
      <3>1. Len(items') = Len(items) - 1
        <4>1. items \in Seq(Items)
          BY <1>0 DEF TypeInv
        <4> QED
          BY <2>1, <2>3, <4>1
      <3>2. Ranks' = Ranks
        BY <2>3 DEF Ranks
      <3>3. Remaining' = ((Len(argv) + 1 - opt) + 2 * (Len(file) + 1 - line))
                           + ((Len(items) - 1) + Ranks)
        BY <2>1, <3>1, <3>2 DEF Remaining
      <3> QED
        BY <1>b, <1>c, <3>3 DEF Remaining
    <2> QED
      BY <1>3, <2>2, <2>3 DEF ApplyItem
  <1>4. ASSUME NEW p \in Pids, NEW label \in Labels, Goto(p, label), UNCHANGED config,
               Rank(label) < Rank(pc[p])
        PROVE  Remaining' < Remaining
    BY <1>0, <1>4, RemainingDown DEF Goto, config
  <1>5. CASE NoFile
    BY <1>4, <1>5, <1>a, RankValues, ThreePids DEF NoFile
  <1>6. CASE \E headnext \in {"null", "garbage"} : EndOfFile(headnext)
    BY <1>4, <1>6, <1>a, RankValues, ThreePids DEF EndOfFile
  <1>7. CASE EndOfConfig
    BY <1>4, <1>7, <1>a, RankValues, ThreePids DEF EndOfConfig
  <1>8. CASE Setsid
    BY <1>4, <1>8, <1>a, RankValues, ThreePids DEF Setsid
  <1>9. CASE \E p \in Pids : ParentExits(p)
    BY <1>4, <1>9, <1>a, RankValues DEF ParentExits
  <1>10. CASE \E fails \in BOOLEAN : EndOfOptions(fails)
    BY <1>4, <1>10, <1>a, RankValues, ThreePids DEF EndOfOptions
  <1>11. CASE \E fails \in BOOLEAN : InitDatabase(fails)
    BY <1>4, <1>11, <1>a, RankValues, ThreePids DEF InitDatabase
  <1>12. CASE \E fails \in BOOLEAN : CloseAll(fails) \/ WritePid(fails)
    BY <1>4, <1>12, <1>a, RankValues, ThreePids DEF CloseAll, WritePid
  <1>13. CASE \E fails \in BOOLEAN : \E p \in Pids : Start(p, fails)
    <2>1. PICK p \in Pids, label \in {"exited", "aborted", "serve", "capture"} :
             pc[p] = "start" /\ Goto(p, label) /\ UNCHANGED config
      BY <1>13 DEF Start
    <2>2. label \in Labels /\ Rank(label) < Rank(pc[p])
      BY <1>a, <2>1, RankValues
    <2> QED
      BY <1>4, <2>1, <2>2
  <1>14. ASSUME NEW p \in Pids, NEW child \in Pids \ {p}, NEW next \in {"setsid", "close"},
                NEW fails \in BOOLEAN, pc[p] = "fork", Fork(p, child, next, fails),
                pc[child] = "none"
         PROVE  Remaining' < Remaining
    <2>1. UNCHANGED config
      BY <1>14 DEF Fork
    <2>2. CASE fails
      <3>1. Goto(p, "exited")
        BY <1>0, <1>14, <2>2 DEF Fork, Goto
      <3> QED
        BY <1>4, <1>14, <1>a, <2>1, <3>1, RankValues
    <2>3. CASE ~fails
      <3>1. /\ pc'[p] = "parent" /\ pc'[child] = next
            /\ \A q \in Pids : q # p /\ q # child => pc'[q] = pc[q]
        BY <1>0, <1>14, <2>3 DEF Fork
      <3>2. Rank(pc'[p]) = 1 /\ Rank(pc[p]) = 2 /\ Rank(pc'[child]) = 3
            /\ Rank(pc[child]) = 4
        BY <1>14, <3>1, RankValues
      <3>3. /\ Rank(pc[Original]) \in Nat /\ Rank(pc[Child]) \in Nat
            /\ Rank(pc[Grandchild]) \in Nat
        BY <1>0, RankType, ThreePids
      <3>4. Ranks' = Rank(pc'[Original]) + Rank(pc'[Child]) + Rank(pc'[Grandchild])
        BY DEF Ranks
      <3>5. Ranks' < Ranks
        BY <1>14, <3>1, <3>2, <3>3, <3>4, ThreePids DEF Ranks
      <3>6. Remaining' = ((Len(argv) + 1 - opt) + 2 * (Len(file) + 1 - line))
                           + (Len(items) + Ranks')
        BY <2>1 DEF Remaining, config
      <3> QED
        BY <1>b, <1>c, <3>5, <3>6 DEF Remaining
    <2> QED
      BY <2>2, <2>3
  <1>15. CASE \E fails \in BOOLEAN : FirstFork(fails) \/ SecondFork(fails)
    <2>1. ASSUME NEW fails \in BOOLEAN, FirstFork(fails) PROVE Remaining' < Remaining
      <3>1. pc[Original] = "fork" /\ pc[Child] = "none"
        BY <1>0, <2>1 DEF FirstFork, ProcessInv
      <3> QED
        BY <1>14, <2>1, <3>1, ThreePids DEF FirstFork
    <2>2. ASSUME NEW fails \in BOOLEAN, SecondFork(fails) PROVE Remaining' < Remaining
      <3>1. pc[Child] = "fork" /\ pc[Grandchild] = "none"
        BY <1>0, <2>2 DEF SecondFork, ProcessInv
      <3> QED
        BY <1>14, <2>2, <3>1, ThreePids DEF SecondFork
    <2> QED
      BY <1>15, <2>1, <2>2
  <1> QED
    BY <1>1, <1>2, <1>3, <1>5, <1>6, <1>7, <1>8, <1>9, <1>10, <1>11, <1>12, <1>13,
       <1>15 DEF Step

\* The start takes at most as many steps as options, lines (twice) and the
\* ways of three processes give: every step leaves less to do, and storing
\* rows adds nothing.  With fairness, which lets some step be taken as long
\* as one can, this is why the start comes to an end.
THEOREM StartIsBounded ==
  Spec => /\ [](Remaining \in Nat)
          /\ [][IF Step THEN Remaining' < Remaining ELSE Remaining' = Remaining]_vars
  <1>1. StartInv => Remaining \in Nat
    BY RemainingType DEF StartInv
  <1>2. StartInv /\ StartInv' /\ Next =>
          IF Step THEN Remaining' < Remaining ELSE Remaining' = Remaining
    <2> SUFFICES ASSUME StartInv, StartInv', Next
                 PROVE  IF Step THEN Remaining' < Remaining
                                ELSE Remaining' = Remaining
      OBVIOUS
    <2>1. CASE Step
      BY <2>1, StepDown
    <2>2. CASE ~Step
      <3>1. UNCHANGED <<argv, opt, file, line, items, pc>>
        BY <2>2 DEF Next, StoreRow, config
      <3> QED
        BY <2>2, <3>1 DEF Remaining, Ranks
    <2> QED
      BY <2>1, <2>2
  <1> QED
    BY StartInvariant, <1>1, <1>2, PTL DEF Spec

\* The guards of Step: where a process has a step to take.
CanStep ==
    \/ pc[Original] \in {"cmdline", "parse", "apply", "database", "fork"}
    \/ pc[Child] \in {"setsid", "fork"}
    \/ pc[Grandchild] \in {"close", "pidfile"}
    \/ \E p \in Pids : pc[p] \in {"parent", "start"}

\* No process is stuck on the way: as long as one is neither at work nor
\* gone, one has a step to take.
LEMMA StartGoesOn ==
  Spec => [](CanStep \/ \A p \in Pids : pc[p] \in Ended \cup {"capture", "serve"})
  <1>1. StartInv => CanStep \/ \A p \in Pids : pc[p] \in Ended \cup {"capture", "serve"}
    BY ThreePids DEF StartInv, ProcessInv, CanStep, Ended, Working
  <1> QED
    BY StartInvariant, <1>1, PTL
=============================================================================
