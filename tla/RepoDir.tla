------------------------------ MODULE RepoDir ------------------------------
(***************************************************************************)
(* The repositories of openDMD (src/path.c): test_and_mkdir() creates a    *)
(* directory and its missing ancestors with one system call at a time, and *)
(* several threads and processes run it on the same file system:           *)
(*   - main calls it for the database and then for the client repository;  *)
(*     the picture and the video thread, created afterwards, call it for a *)
(*     subdirectory before each file they name;                            *)
(*   - a server calls it for its repository, the directory of each client, *)
(*     and the subdirectory of each file;                                  *)
(*   - openDMD -s and -c call it for the database only.                    *)
(* Each access() and each mkdir() is a step; the calls in progress of a    *)
(* thread are a stack of activations of test_and_mkdir().                  *)
(***************************************************************************)
EXTENDS Integers, Sequences

CONSTANTS
    Processes,      \* the running openDMD processes
    Casts,          \* which processes may run side by side: each member gives
                    \*   every process its role
    Names,          \* the names of directories
    DatabaseRepo,   \* global.database_repo, global.client.client_repo and
    ClientRepo,     \*   global.server.server_repo: sequences of names; the
    ServerRepo,     \*   empty sequence stands for ""
    Clients,        \* names of the server's clients: client-01, ... in the
                    \*   order of their numbers
    FileSystems,    \* the possible sets of directories before the start
    StackLimit      \* activations that fit on a thread's stack

Roles == {"client", "server", "statistics"}
Threads == {"main", "picture", "video"}
Callers == Processes \X Threads

Paths == Seq(Names)
Prefixes(path) == {SubSeq(path, 1, n) : n \in 1..Len(path)}

ASSUME CastsAssumption == Casts \subseteq [Processes -> Roles]
ASSUME PathsAssumption ==
    /\ DatabaseRepo \in Paths /\ ClientRepo \in Paths /\ ServerRepo \in Paths
    /\ Clients \in Seq(Names) /\ {"jpg", "flv", "h264"} \subseteq Names

\* A directory is in its parent, and none has the name ""
ASSUME FileSystemsAssumption ==
    \A fs \in FileSystems :
        /\ fs \subseteq Paths /\ <<>> \notin fs
        /\ \A d \in fs : Prefixes(d) \subseteq fs

\* The stack has room for one activation per name of a path but the first:
\* a path has less than PATH_MAX characters
ASSUME StackAssumption ==
    /\ StackLimit \in Nat \ {0}
    /\ Len(DatabaseRepo) <= StackLimit + 1
    /\ Len(ClientRepo) <= StackLimit
    /\ Len(ServerRepo) <= StackLimit - 1

VARIABLES
    role,       \* role[p]: what process p was started as
    dirs,       \* the directories that exist
    maker,      \* maker[d]: the thread that created directory d
    proc,       \* proc[p]: how process p fares
    todo,       \* todo[c]: the calls that thread c has still to make
    stack,      \* stack[c]: the activations of test_and_mkdir() in thread c
    result,     \* result[c]: what its last call returned
    before      \* before[c]: the directories when its last call began

vars == <<role, dirs, maker, proc, todo, stack, result, before>>

\* A call: the directory wanted, and what the caller does about a -1
Call(path, onfail) == [path |-> path, onfail |-> onfail]

Sub(repo, name) == Append(repo, name)

\* client_get_filepath(): <client_repo>/jpg and <client_repo>/flv
PictureCalls == <<Call(Sub(ClientRepo, "jpg"), "assert")>>
VideoCalls == <<Call(Sub(ClientRepo, "flv"), "assert")>>

\* rtp_server_init() and then server_get_filepath() for a file of each client
ServerCalls ==
       <<Call(ServerRepo, "exit")>>
    \o [i \in 1..Len(Clients) |-> Call(Sub(ServerRepo, Clients[i]), "exit")]
    \o [i \in 1..Len(Clients) |->
            Call(Sub(Sub(ServerRepo, Clients[i]), "h264"), "assert")]

\* Every process opens the database first (init(), manage_cmdline())
MainCalls(r) ==
    <<Call(DatabaseRepo, "assert")>> \o
    CASE r = "client" -> <<Call(ClientRepo, "ignore")>>
      [] r = "server" -> ServerCalls
      [] OTHER -> <<>>

Calls(c) ==
    CASE c[2] = "main" -> MainCalls(role[c[1]])
      [] c[2] = "picture" /\ role[c[1]] = "client" -> PictureCalls
      [] c[2] = "video" /\ role[c[1]] = "client" -> VideoCalls
      [] OTHER -> <<>>

\* Mutant of Parent: the last slash is left standing.
ParentSelf(path) == path

\* The parent as the loop over path finds it: "" for a single name and for ""
Parent(path) == IF path = <<>> THEN <<>> ELSE SubSeq(path, 1, Len(path) - 1)

\* access(path, F_OK) == 0: there is no file whose name is ""
Exists(path) == path \in dirs

\* mkdir(path) succeeds: a single name is created in / or in the current
\* directory, whatever access("") says of its parent
CanMake(path) ==
    /\ path # <<>> /\ path \notin dirs
    /\ Len(path) = 1 \/ Parent(path) \in dirs

Frame(path, pc) == [path |-> path, pc |-> pc]

Init ==
    /\ role \in Casts
    /\ dirs \in FileSystems
    /\ maker = [d \in {} |-> <<>>]
    /\ proc = [p \in Processes |-> "running"]
    /\ todo = [c \in Callers |-> Calls(c)]
    /\ stack = [c \in Callers |-> <<>>]
    /\ result = [c \in Callers |-> 0]
    /\ before = [c \in Callers |-> {}]

----------------------------------------------------------------------------
\* The activation that runs in thread c
Active(c) == proc[c[1]] = "running" /\ stack[c] # <<>>
Top(c) == stack[c][Len(stack[c])]
At(c, pc) == Active(c) /\ Top(c).pc = pc
SetTop(c, frame) == [stack EXCEPT ![c][Len(stack[c])] = frame]
PopTop(c) == [stack EXCEPT ![c] = SubSeq(@, 1, Len(@) - 1)]

\* Mutant of Created: the threads are created before the repository.
CreatedAtOnce(c) == TRUE

\* main creates the threads after it has made its calls
Created(c) ==
    c[2] # "main" =>
        todo[<<c[1], "main">>] = <<>> /\ stack[<<c[1], "main">>] = <<>>

\* The next call of thread c
Begin(c) ==
    /\ proc[c[1]] = "running" /\ stack[c] = <<>> /\ todo[c] # <<>>
    /\ Created(c)
    /\ stack' = [stack EXCEPT ![c] = <<Frame(Head(todo[c]).path, "parent")>>]
    /\ before' = [before EXCEPT ![c] = dirs]
    /\ result' = [result EXCEPT ![c] = 0]
    /\ UNCHANGED <<role, dirs, maker, proc, todo>>

\* access(parent): a missing parent is made by a call of the function itself
TestParent(c) ==
    /\ At(c, "parent")
    /\ LET path == Top(c).path IN
         IF Exists(Parent(path))
         THEN stack' = SetTop(c, Frame(path, "path")) /\ UNCHANGED proc
         ELSE IF Len(stack[c]) < StackLimit
         THEN /\ stack' = [SetTop(c, Frame(path, "mkdir")) EXCEPT
                              ![c] = Append(@, Frame(Parent(path), "parent"))]
              /\ UNCHANGED proc
         ELSE /\ proc' = [proc EXCEPT ![c[1]] = "overflow"]
              /\ UNCHANGED stack
    /\ UNCHANGED <<role, dirs, maker, todo, result, before>>

\* Mutant of ReturnOk: the result of the recursive call is returned at once.
ReturnOkThrough(c) ==
    /\ stack' = [stack EXCEPT ![c] = <<>>]
    /\ todo' = [todo EXCEPT ![c] = Tail(@)]
    /\ UNCHANGED <<proc, result>>

\* Return 0: the activation below goes on with its own mkdir()
ReturnOk(c) ==
    /\ stack' = PopTop(c)
    /\ todo' = [todo EXCEPT ![c] = IF Len(stack[c]) = 1 THEN Tail(@) ELSE @]
    /\ UNCHANGED <<proc, result>>

\* Mutant of ReturnError: the mkdir() is tried again.
ReturnErrorRetries(c) == UNCHANGED <<stack, todo, result, proc>>

\* Return -1: every activation below returns it too, and the caller reacts
ReturnError(c) ==
    LET onfail == Head(todo[c]).onfail IN
    /\ stack' = [stack EXCEPT ![c] = <<>>]
    /\ todo' = [todo EXCEPT ![c] = Tail(@)]
    /\ result' = [result EXCEPT ![c] = -1]
    /\ proc' = [proc EXCEPT ![c[1]] =
                   CASE onfail = "assert" -> "aborted"
                     [] onfail = "exit" -> "exited"
                     [] OTHER -> @]

\* Mutant of TestPath: the mkdir() follows at once.
TestPathBlind(c) ==
    /\ At(c, "path")
    /\ stack' = SetTop(c, Frame(Top(c).path, "mkdir"))
    /\ UNCHANGED <<proc, todo, result, role, dirs, maker, before>>

\* access(path)
TestPath(c) ==
    /\ At(c, "path")
    /\ IF Exists(Top(c).path)
       THEN ReturnOk(c)
       ELSE /\ stack' = SetTop(c, Frame(Top(c).path, "mkdir"))
            /\ UNCHANGED <<proc, todo, result>>
    /\ UNCHANGED <<role, dirs, maker, before>>

\* mkdir(path), after the tests or after the parent was made
Mkdir(c) ==
    /\ At(c, "mkdir")
    /\ LET path == Top(c).path IN
         IF CanMake(path)
         THEN /\ dirs' = dirs \cup {path}
              /\ maker' = [d \in DOMAIN maker \cup {path} |->
                              IF d = path THEN c ELSE maker[d]]
              /\ ReturnOk(c)
         ELSE ReturnError(c) /\ UNCHANGED <<dirs, maker>>
    /\ UNCHANGED <<role, before>>

ThreadStep(c) == TestParent(c) \/ TestPath(c) \/ Mkdir(c)

Next == \E c \in Callers : Begin(c) \/ ThreadStep(c)

\* A thread that runs makes its calls, and a call its steps
Fairness == \A c \in Callers : WF_vars(Begin(c) \/ ThreadStep(c))

Spec == Init /\ [][Next]_vars /\ Fairness

----------------------------------------------------------------------------
\* The call that thread c made last
LastCall(c) == Calls(c)[Len(Calls(c)) - Len(todo[c])]

MadeBy(c) == {d \in DOMAIN maker : maker[d] = c}

\* test_and_mkdir() returns -1 only because another thread or process made
\* one of the directories of the path while the call was running: the test
\* and the mkdir() are two system calls, and EEXIST is taken for an error.
OnlyRacesFail ==
    \A c \in Callers :
        result[c] = -1 =>
            \E d \in Prefixes(LastCall(c).path) :
                d \in DOMAIN maker /\ maker[d] # c /\ d \notin before[c]

\* A process aborts on a directory only where another process made one: alone,
\* no order of main, the picture and the video thread makes a call fail,
\* although client_init_repodir()'s result is ignored by main.
AbortNeedsRival ==
    \A p \in Processes :
        proc[p] \in {"aborted", "exited"} =>
            \E d \in DOMAIN maker : maker[d][1] # p

\* The recursion of test_and_mkdir() ends unless the first directory of a
\* path is missing, or the path has no parent (a repository right under /,
\* there or not): access("") fails, and so it never gets to its mkdir().
RecursionEnds ==
    \A c \in Callers :
        /\ proc[c[1]] = "overflow" =>
             \E t \in Threads : \E i \in DOMAIN Calls(<<c[1], t>>) :
                 LET path == Calls(<<c[1], t>>)[i].path IN
                 Len(path) < 2 \/ SubSeq(path, 1, 1) \notin dirs
        /\ \A d \in MadeBy(c) : Len(d) > 1

\* A call that returned 0 leaves the directory and every ancestor of it there:
\* a file can be created in it.
CallMakesPath ==
    \A c \in Callers :
        proc[c[1]] = "running" =>
            LET made == Len(Calls(c)) - Len(todo[c]) IN
            \A i \in 1..made :
                \/ Prefixes(Calls(c)[i].path) \subseteq dirs
                \/ Calls(c)[i].onfail = "ignore" /\ result[c] = -1

\* Every process gets through its calls, or stops on one of them.
CallsReturn ==
    \A p \in Processes :
        <>(\/ proc[p] # "running"
           \/ \A t \in Threads : todo[<<p, t>>] = <<>>)
=============================================================================
