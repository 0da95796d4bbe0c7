--------------------------- MODULE RepoDirProofs ---------------------------
(***************************************************************************)
(* Theorems about test_and_mkdir() (src/path.c): for every number of       *)
(* processes, every repository and every file system, whatever the order   *)
(* of the system calls of their threads.                                   *)
(***************************************************************************)
EXTENDS RepoDir, TLAPS

----------------------------------------------------------------------------
(* The inductive invariant *)

\* The first m names of a path; none if m is not positive
Cut(path, m) == SubSeq(path, 1, m)

CallSet == [path : Paths, onfail : {"assert", "exit", "ignore"}]
FrameSet == [path : Paths, pc : {"parent", "path", "mkdir"}]

TypeInv ==
    /\ role \in Casts
    /\ dirs \subseteq Paths
    /\ proc \in [Processes -> {"running", "aborted", "exited", "overflow"}]
    /\ todo \in [Callers -> Seq(CallSet)]
    /\ stack \in [Callers -> Seq(FrameSet)]
    /\ result \in [Callers -> {0, -1}]
    /\ before \in [Callers -> SUBSET Paths]

\* Thread c calls for directory d or one in it.
Asked(c, d) == \E i \in DOMAIN Calls(c) : d \in Prefixes(Calls(c)[i].path)

\* The file system stays one, and of what was made it is known by whom.
DirInv ==
    /\ <<>> \notin dirs
    /\ \A d \in dirs : Prefixes(d) \subseteq dirs
    /\ DOMAIN maker \subseteq dirs
    /\ \A d \in DOMAIN maker :
         /\ Len(d) > 1 /\ maker[d] \in Callers
         /\ \A c \in Callers : maker[d] = c => Asked(c, d)

\* The calls that are left are the last ones of a thread's calls.
Made(c) == Len(Calls(c)) - Len(todo[c])
TodoInv ==
    \A c \in Callers :
        /\ Made(c) >= 0
        /\ \A i \in 1..Len(todo[c]) : todo[c][i] = Calls(c)[Made(c) + i]

\* Of a call in progress: the activations are those for the path and its
\* ancestors; all but the last wait for the next one.  A directory about to
\* be made has its parent, was not there when the call began, and was not
\* made by this thread.
Wanted(c) == todo[c][1].path
First(path) == SubSeq(path, 1, 1)
Rooted(path) == Len(path) > 1 /\ First(path) \in dirs
Due(c, path) ==
    path \notin before[c] /\ (path \in DOMAIN maker => maker[path] # c)
InCall(c) ==
    /\ todo[c] # <<>> /\ result[c] = 0
    /\ Len(stack[c]) <= StackLimit
    /\ \A j \in 1..Len(stack[c]) :
         /\ stack[c][j].path = Cut(Wanted(c), Len(Wanted(c)) + 1 - j)
         /\ j < Len(stack[c]) => stack[c][j].pc = "mkdir"
         /\ stack[c][j].pc = "mkdir" /\ Len(stack[c][j].path) > 1
              => Due(c, stack[c][j].path)
    /\ Top(c).pc # "parent" => Parent(Top(c).path) \in dirs
    /\ Len(stack[c]) >= Len(Wanted(c)) => ~Rooted(Wanted(c))
    /\ before[c] \subseteq dirs /\ dirs \ before[c] \subseteq DOMAIN maker
StackInv == \A c \in Callers : stack[c] # <<>> => InCall(c)

\* Of the calls that were made
DoneInv ==
    \A c \in Callers :
        proc[c[1]] = "running" =>
            \A i \in 1..Made(c) :
                \/ Calls(c)[i].path \in dirs
                \/ Calls(c)[i].onfail = "ignore" /\ result[c] = -1

\* Another process has made a directory
Rival(p) == \E d \in DOMAIN maker : maker[d][1] # p
MainOf(c) == <<c[1], "main">>
RivalInv ==
    /\ AbortNeedsRival
    /\ \A p \in Processes : result[<<p, "main">>] = -1 => Rival(p)
    /\ \A d \in DOMAIN maker : \A c \in Callers :
         maker[d] = c /\ c[2] # "main" => todo[MainOf(c)] = <<>>
    /\ \A c \in Callers :
         c[2] # "main" /\ stack[c] # <<>> =>
             /\ todo[MainOf(c)] = <<>>
             /\ \A d \in DOMAIN maker : maker[d] = MainOf(c) => d \in before[c]
             /\ Len(stack[c]) > 1 => Rival(c[1])

RepoInv ==
    /\ TypeInv /\ DirInv /\ TodoInv /\ StackInv /\ DoneInv /\ RivalInv
    /\ OnlyRacesFail /\ RecursionEnds

----------------------------------------------------------------------------
(* Paths *)

\* What the first names of a path are: a path again, of that length, and the
\* parent is the path without its last name.
LEMMA CutFacts ==
  ASSUME NEW path \in Paths, NEW m \in Int, m <= Len(path)
  PROVE  /\ Cut(path, m) \in Paths
         /\ m >= 0 => Len(Cut(path, m)) = m
         /\ m <= 0 => Cut(path, m) = <<>>
         /\ Parent(Cut(path, m)) = Cut(path, m - 1)
  <1>1. Len(path) \in Nat /\ path \in [1..Len(path) -> Names]
    BY DEF Paths
  <1>2. CASE m <= 0
    <2>1. Cut(path, m) = <<>> /\ Cut(path, m - 1) = <<>>
      BY <1>1, <1>2 DEF Cut
    <2> QED
      BY <1>2, <2>1 DEF Parent, Paths
  <1>3. CASE m > 0
    <2>1. Cut(path, m) = [i \in 1..m |-> path[i]]
      BY <1>1, <1>3 DEF Cut
    <2>2. Cut(path, m) \in Seq(Names) /\ Len(Cut(path, m)) = m /\ Cut(path, m) # <<>>
      BY <1>1, <1>3, <2>1
    <2>3. Parent(Cut(path, m)) = SubSeq(Cut(path, m), 1, m - 1)
      BY <2>2 DEF Parent
    <2>4. SubSeq(Cut(path, m), 1, m - 1) = [i \in 1..m - 1 |-> Cut(path, m)[i]]
      BY <1>3, <2>2
    <2>5. Cut(path, m - 1) = [i \in 1..m - 1 |-> path[i]]
      BY <1>1, <1>3 DEF Cut
    <2>6. \A i \in 1..m - 1 : Cut(path, m)[i] = path[i]
      BY <1>3, <2>1
    <2> QED
      BY <1>3, <2>2, <2>3, <2>4, <2>5, <2>6 DEF Paths
  <1> QED
    BY <1>2, <1>3

\* The first directory of a path
LEMMA FirstName ==
  ASSUME NEW path \in Paths, Len(path) > 1
  PROVE  /\ ~(Len(First(path)) > 1)
         /\ \A m \in Int : m = 1 => Cut(path, m) = First(path)
  <1>1. Len(path) \in Nat /\ path \in [1..Len(path) -> Names]
    BY DEF Paths
  <1>2. SubSeq(path, 1, 1) = [i \in 1..1 |-> path[i]]
    BY <1>1
  <1>3. Len(SubSeq(path, 1, 1)) = 1
    BY <1>1, <1>2
  <1> QED
    BY <1>3 DEF First, Cut

\* A path is the longest of its prefixes.
LEMMA CutWhole ==
  ASSUME NEW path \in Paths
  PROVE  Cut(path, Len(path)) = path /\ Parent(path) = Cut(path, Len(path) - 1)
  <1>1. Len(path) \in Nat /\ path = [i \in 1..Len(path) |-> path[i]]
    BY DEF Paths
  <1>2. Cut(path, Len(path)) = [i \in 1..Len(path) |-> path[i]]
    BY <1>1 DEF Cut
  <1>3. Parent(Cut(path, Len(path))) = Cut(path, Len(path) - 1)
    BY <1>1, CutFacts
  <1> QED
    BY <1>1, <1>2, <1>3

\* The first names of the first names are the first names.
LEMMA CutTwice ==
  ASSUME NEW path \in Paths, NEW m \in 0..Len(path), NEW n \in 0..m
  PROVE  Cut(Cut(path, m), n) = Cut(path, n)
  <1>1. Len(path) \in Nat /\ path \in [1..Len(path) -> Names]
    BY DEF Paths
  <1>2. m \in Int /\ n \in Int /\ m >= 0 /\ n >= 0 /\ n <= m /\ m <= Len(path)
    BY <1>1
  <1>3. Cut(path, m) \in Paths /\ Len(Cut(path, m)) = m
    BY <1>1, <1>2, CutFacts
  <1>4. CASE n = 0
    BY <1>2, <1>3, <1>4, CutFacts
  <1>5. CASE n > 0
    <2>1. Cut(Cut(path, m), n) = [i \in 1..n |-> Cut(path, m)[i]]
      BY <1>2, <1>3, <1>5 DEF Cut
    <2>2. Cut(path, n) = [i \in 1..n |-> path[i]]
      BY <1>1, <1>2, <1>5 DEF Cut
    <2>3. Cut(path, m) = [i \in 1..m |-> path[i]]
      BY <1>1, <1>2, <1>5 DEF Cut
    <2>4. \A i \in 1..n : Cut(path, m)[i] = path[i]
      BY <1>2, <2>3
    <2> QED
      BY <2>1, <2>2, <2>4
  <1> QED
    BY <1>2, <1>4, <1>5

\* The prefixes of a path are those of its parent, and the path.
LEMMA PrefixFacts ==
  ASSUME NEW path \in Paths
  PROVE  /\ Prefixes(path) = {Cut(path, n) : n \in 1..Len(path)}
         /\ path # <<>> => /\ Prefixes(path) = Prefixes(Parent(path)) \cup {path}
                           /\ path \in Prefixes(path)
         /\ \A d \in Prefixes(path) : d \in Paths /\ (Len(d) = Len(path) => d = path)
  <1>0. Len(path) \in Nat
    BY DEF Paths
  <1>1. Prefixes(path) = {Cut(path, n) : n \in 1..Len(path)}
    BY DEF Prefixes, Cut
  <1>2. ASSUME path # <<>>
        PROVE  Prefixes(path) = Prefixes(Parent(path)) \cup {path}
    <2> DEFINE m == Len(path) - 1
    <2>1. Len(path) >= 1
      BY <1>2 DEF Paths
    <2>2. Parent(path) = Cut(path, m) /\ Cut(path, Len(path)) = path
      BY CutWhole
    <2>3. Cut(path, m) \in Paths /\ Len(Cut(path, m)) = m
      BY <1>0, <2>1, CutFacts
    <2>4. Prefixes(Parent(path)) = {Cut(Cut(path, m), n) : n \in 1..m}
      BY <2>2, <2>3 DEF Prefixes, Cut
    <2>5. \A n \in 1..m : Cut(Cut(path, m), n) = Cut(path, n)
      <3> SUFFICES ASSUME NEW n \in 1..m PROVE Cut(Cut(path, m), n) = Cut(path, n)
        OBVIOUS
      <3>1. m \in 0..Len(path) /\ n \in 0..m
        BY <1>0, <2>1
      <3> QED
        BY <3>1, CutTwice
    <2>6. 1..Len(path) = (1..m) \cup {Len(path)}
      BY <1>0, <2>1
    <2> HIDE DEF m
    <2>7. Prefixes(Parent(path)) = {Cut(path, n) : n \in 1..m}
      BY <2>4, <2>5
    <2> QED
      BY <1>1, <2>2, <2>6, <2>7
  <1>3. ASSUME NEW d \in Prefixes(path)
        PROVE  d \in Paths /\ (Len(d) = Len(path) => d = path)
    <2>1. PICK n \in 1..Len(path) : d = Cut(path, n)
      BY <1>1
    <2>2. d \in Paths /\ Len(d) = n
      BY <1>0, <2>1, CutFacts
    <2> QED
      BY <2>1, <2>2, CutWhole
  <1> QED
    BY <1>1, <1>2, <1>3

\* The n-th activation is for the path without its last n - 1 names.
LEMMA CutAt ==
  ASSUME NEW w \in Paths, NEW n \in Nat \ {0}, NEW path,
         path = Cut(w, Len(w) + 1 - n)
  PROVE  /\ path \in Paths /\ Parent(path) = Cut(w, Len(w) - n)
         /\ n < Len(w) => Len(path) > 1
         /\ n >= Len(w) => Len(path) <= 1 /\ Parent(path) = <<>>
         /\ n <= Len(w) => path \in Prefixes(w)
  <1>0. Len(w) \in Nat
    BY DEF Paths
  <1> DEFINE m == Len(w) + 1 - n
  <1>1. m \in Int /\ m <= Len(w) /\ m - 1 = Len(w) - n /\ m - 1 \in Int
        /\ m - 1 <= Len(w)
    BY <1>0
  <1>2. /\ n < Len(w) => m > 1
        /\ n >= Len(w) => m <= 1
        /\ n <= Len(w) => m \in 1..Len(w)
    BY <1>0
  <1>3. path = Cut(w, m)
    OBVIOUS
  <1> HIDE DEF m
  <1>4. /\ Cut(w, m) \in Paths /\ Parent(Cut(w, m)) = Cut(w, m - 1)
        /\ (m >= 0 => Len(Cut(w, m)) = m) /\ (m <= 0 => Cut(w, m) = <<>>)
    BY <1>1, CutFacts
  <1>5. m - 1 <= 0 => Cut(w, m - 1) = <<>>
    BY <1>1, CutFacts
  <1>6. n < Len(w) => Len(path) > 1
    BY <1>1, <1>2, <1>3, <1>4
  <1>7. ASSUME n >= Len(w) PROVE Len(path) <= 1 /\ Parent(path) = <<>>
    <2>1. m <= 1 /\ m - 1 <= 0 /\ Len(<<>>) = 0
      BY <1>1, <1>2, <1>7
    <2>2. CASE m <= 0
      BY <1>3, <1>4, <1>5, <2>1, <2>2
    <2>3. CASE m >= 0
      BY <1>3, <1>4, <1>5, <2>1, <2>3
    <2> QED
      BY <1>1, <2>2, <2>3
  <1>8. n <= Len(w) => path \in Prefixes(w)
    BY <1>2, <1>3, PrefixFacts
  <1>9. Parent(path) = Cut(w, Len(w) - n)
    BY <1>1, <1>3, <1>4
  <1> QED
    BY <1>3, <1>4, <1>6, <1>7, <1>8, <1>9

----------------------------------------------------------------------------
(* The calls of a thread *)

\* A directory in another one is a path that is one name longer.
LEMMA SubFacts ==
  ASSUME NEW repo \in Paths, NEW name \in Names
  PROVE  /\ Sub(repo, name) \in Paths /\ Len(Sub(repo, name)) = Len(repo) + 1
         /\ Parent(Sub(repo, name)) = repo
         /\ Sub(repo, name)[Len(repo) + 1] = name
  <1>1. /\ Sub(repo, name) \in Paths /\ Len(Sub(repo, name)) = Len(repo) + 1
        /\ Len(repo) \in Nat /\ Sub(repo, name) # <<>>
        /\ Sub(repo, name)[Len(repo) + 1] = name
    BY DEF Sub, Paths
  <1> DEFINE s == Sub(repo, name)
  <1>2. Parent(s) = SubSeq(s, 1, Len(repo))
    BY <1>1 DEF Parent, Paths
  <1>3. SubSeq(s, 1, Len(repo)) = [i \in 1..Len(repo) |-> s[i]]
    BY <1>1 DEF Paths
  <1>4. \A i \in 1..Len(repo) : s[i] = repo[i]
    BY DEF Sub, Paths
  <1>5. repo = [i \in 1..Len(repo) |-> repo[i]]
    BY DEF Paths
  <1> QED
    <2>1. [i \in 1..Len(repo) |-> s[i]] = [i \in 1..Len(repo) |-> repo[i]]
      BY <1>4
    <2> HIDE DEF s
    <2>2. Parent(s) = repo
      BY <1>2, <1>3, <1>5, <2>1
    <2> QED
      BY <1>1, <2>2 DEF s

\* A list of calls as main and the threads make them: paths that fit on the
\* stack, and a failure is ignored only of the last call.
CallList(s) ==
    /\ s \in Seq(CallSet)
    /\ \A i \in 1..Len(s) :
         /\ Len(s[i].path) <= StackLimit + 1
         /\ s[i].onfail = "ignore" => i = Len(s)

\* The calls of a server are such a list.
LEMMA ServerCallList == CallList(<<Call(DatabaseRepo, "assert")>> \o ServerCalls)
  <1>0. /\ DatabaseRepo \in Paths /\ ServerRepo \in Paths /\ Clients \in Seq(Names)
        /\ StackLimit \in Nat /\ Len(DatabaseRepo) <= StackLimit + 1
        /\ Len(ServerRepo) <= StackLimit - 1
    BY PathsAssumption, StackAssumption
  <1> DEFINE n == Len(Clients)
             a == <<Call(ServerRepo, "exit")>>
             b == [i \in 1..n |-> Call(Sub(ServerRepo, Clients[i]), "exit")]
             e == [i \in 1..n |-> Call(Sub(Sub(ServerRepo, Clients[i]), "h264"), "assert")]
             Good == {x \in CallSet : /\ Len(x.path) <= StackLimit + 1
                                      /\ x.onfail # "ignore"}
  <1>1. n \in Nat /\ \A i \in 1..n : Clients[i] \in Names
    BY <1>0
  <1>2. Call(DatabaseRepo, "assert") \in Good
    BY <1>0 DEF Call, CallSet
  <1>3. Call(ServerRepo, "exit") \in Good
    <2>1. Len(ServerRepo) \in Nat
      BY <1>0 DEF Paths
    <2> QED
      BY <1>0, <2>1 DEF Call, CallSet
  <1>4. ASSUME NEW i \in 1..n
        PROVE  /\ Call(Sub(ServerRepo, Clients[i]), "exit") \in Good
               /\ Call(Sub(Sub(ServerRepo, Clients[i]), "h264"), "assert") \in Good
    <2>1. Clients[i] \in Names /\ "h264" \in Names
      BY <1>1, PathsAssumption
    <2>5. Len(ServerRepo) \in Nat
      BY <1>0 DEF Paths
    <2> DEFINE s == Sub(ServerRepo, Clients[i])
               t == Sub(s, "h264")
    <2>2. s \in Paths /\ Len(s) = Len(ServerRepo) + 1
      BY <1>0, <2>1, SubFacts
    <2> HIDE DEF s
    <2>3. t \in Paths /\ Len(t) = Len(s) + 1
      BY <2>1, <2>2, SubFacts
    <2> HIDE DEF t
    <2>4. Call(s, "exit") \in Good /\ Call(t, "assert") \in Good
      BY <1>0, <2>2, <2>3, <2>5 DEF Call, CallSet
    <2> QED
      BY <2>4 DEF s, t
  <1>5. b \in Seq(Good) /\ e \in Seq(Good)
    BY <1>1, <1>4
  <1> HIDE DEF Good, b, e, n
  <1>6. a \in Seq(Good) /\ <<Call(DatabaseRepo, "assert")>> \in Seq(Good)
    BY <1>2, <1>3
  <1> HIDE DEF a
  <1>7. ServerCalls = a \o b \o e
    BY Zenon DEF ServerCalls, a, b, e, n
  <1>8. <<Call(DatabaseRepo, "assert")>> \o ServerCalls \in Seq(Good)
    BY <1>5, <1>6, <1>7
  <1>9. ASSUME NEW s \in Seq(Good) PROVE CallList(s)
    BY <1>9 DEF CallList, Good
  <1> QED
    BY <1>8, <1>9

\* What is wanted by the threads that main of a client creates
ThreadPath(c) == Sub(ClientRepo, IF c[2] = "picture" THEN "jpg" ELSE "flv")

\* The calls of every thread are such a list.  A thread other than main
\* makes one call, for a subdirectory of the repository that is main's last.
LEMMA CallsFacts ==
  ASSUME role \in Casts, NEW c \in Callers
  PROVE  /\ CallList(Calls(c))
         /\ c[1] \in Processes /\ c[2] \in Threads
         /\ c[2] # "main" /\ Calls(c) # <<>> =>
              /\ Calls(c) = <<Call(ThreadPath(c), "assert")>>
              /\ Calls(MainOf(c)) = <<Call(DatabaseRepo, "assert"),
                                      Call(ClientRepo, "ignore")>>
  <1>1. c[1] \in Processes /\ c[2] \in Threads /\ MainOf(c)[1] = c[1]
        /\ MainOf(c)[2] = "main"
    BY DEF Callers, MainOf
  <1>2. role[c[1]] \in Roles
    BY <1>1, CastsAssumption
  <1>3. CallList(<<>>)
    BY DEF CallList
  <1>4. /\ DatabaseRepo \in Paths /\ ClientRepo \in Paths /\ StackLimit \in Nat
        /\ Len(DatabaseRepo) <= StackLimit + 1 /\ Len(ClientRepo) <= StackLimit
        /\ "jpg" \in Names /\ "flv" \in Names
    BY PathsAssumption, StackAssumption
  <1>5. Len(ClientRepo) \in Nat
    BY <1>4 DEF Paths
  <1>6. CallList(<<Call(DatabaseRepo, "assert")>>)
    BY <1>4 DEF CallList, Call, CallSet
  <1>7. CallList(<<Call(DatabaseRepo, "assert"), Call(ClientRepo, "ignore")>>)
    BY <1>4, <1>5 DEF CallList, Call, CallSet
  <1>8. CallList(<<Call(ThreadPath(c), "assert")>>)
    <2>1. ThreadPath(c) \in Paths /\ Len(ThreadPath(c)) <= StackLimit + 1
      BY <1>4, <1>5, SubFacts DEF ThreadPath
    <2> QED
      BY <2>1 DEF CallList, Call, CallSet
  <1>9. /\ role[c[1]] = "client" => MainCalls(role[c[1]]) =
             <<Call(DatabaseRepo, "assert"), Call(ClientRepo, "ignore")>>
        /\ role[c[1]] = "server" => MainCalls(role[c[1]]) =
             <<Call(DatabaseRepo, "assert")>> \o ServerCalls
        /\ role[c[1]] = "statistics" => MainCalls(role[c[1]]) =
             <<Call(DatabaseRepo, "assert")>>
    <2>1. MainCalls("client") = <<Call(DatabaseRepo, "assert")>> \o
                                <<Call(ClientRepo, "ignore")>>
      BY DEF MainCalls
    <2>2. MainCalls("server") = <<Call(DatabaseRepo, "assert")>> \o ServerCalls
      BY DEF MainCalls
    <2>3. MainCalls("statistics") = <<Call(DatabaseRepo, "assert")>> \o <<>>
      BY DEF MainCalls
    <2>4. <<Call(DatabaseRepo, "assert")>> \o <<Call(ClientRepo, "ignore")>> =
          <<Call(DatabaseRepo, "assert"), Call(ClientRepo, "ignore")>>
      <3>1. ASSUME NEW a, NEW b PROVE <<a>> \o <<b>> = <<a, b>>
        <4> DEFINE s == <<a>> \o <<b>>
                   t == <<a, b>>
        <4>1. /\ s \in Seq({a, b}) /\ t \in Seq({a, b})
              /\ Len(s) = 2 /\ Len(t) = 2 /\ s[1] = t[1] /\ s[2] = t[2]
          OBVIOUS
        <4> HIDE DEF s, t
        <4>2. s = [i \in 1..2 |-> s[i]] /\ t = [i \in 1..2 |-> t[i]]
          BY <4>1
        <4>3. \A i \in 1..2 : s[i] = t[i]
          BY <4>1
        <4> QED
          BY <4>2, <4>3 DEF s, t
      <3> QED
        BY <3>1
    <2>5. <<Call(DatabaseRepo, "assert")>> \o <<>> = <<Call(DatabaseRepo, "assert")>>
      OBVIOUS
    <2> QED
      BY <2>1, <2>2, <2>3, <2>4, <2>5
  <1>10. CASE c[2] = "main"
    <2>1. Calls(c) = MainCalls(role[c[1]])
      BY <1>10 DEF Calls
    <2> QED
      BY <1>1, <1>2, <1>6, <1>7, <1>9, <1>10, <2>1, ServerCallList DEF Roles
  <1>11. CASE c[2] # "main" /\ role[c[1]] = "client"
    <2>1. Calls(c) = <<Call(ThreadPath(c), "assert")>>
      BY <1>1, <1>11 DEF Calls, PictureCalls, VideoCalls, ThreadPath, Threads
    <2>2. Calls(MainOf(c)) = MainCalls(role[c[1]])
      BY <1>1 DEF Calls
    <2> QED
      BY <1>1, <1>8, <1>9, <1>11, <2>1, <2>2
  <1>12. CASE c[2] # "main" /\ role[c[1]] # "client"
    <2>1. Calls(c) = <<>>
      BY <1>12 DEF Calls
    <2> QED
      BY <1>1, <1>3, <1>12, <2>1
  <1> QED
    BY <1>10, <1>11, <1>12

----------------------------------------------------------------------------
(* The start *)

\* The invariant holds before any call.
LEMMA RepoInit == Init => RepoInv
  <1> SUFFICES ASSUME Init PROVE RepoInv
    OBVIOUS
  <1>1. /\ role \in Casts /\ dirs \in FileSystems
        /\ proc = [p \in Processes |-> "running"]
        /\ todo = [c \in Callers |-> Calls(c)]
        /\ stack = [c \in Callers |-> <<>>]
        /\ result = [c \in Callers |-> 0]
        /\ before = [c \in Callers |-> {}]
        /\ DOMAIN maker = {}
    BY DEF Init
  <1>2. /\ dirs \subseteq Paths /\ <<>> \notin dirs
        /\ \A d \in dirs : Prefixes(d) \subseteq dirs
    BY <1>1, FileSystemsAssumption
  <1>3. TypeInv
    <2>1. ASSUME NEW c \in Callers PROVE Calls(c) \in Seq(CallSet)
      BY <1>1, CallsFacts DEF CallList
    <2> QED
      BY <1>1, <1>2, <2>1 DEF TypeInv
  <1>4. DirInv
    BY <1>1, <1>2 DEF DirInv
  <1>5. \A c \in Callers : Made(c) = 0 /\ todo[c] = Calls(c)
    <2> SUFFICES ASSUME NEW c \in Callers PROVE Made(c) = 0 /\ todo[c] = Calls(c)
      OBVIOUS
    <2>1. todo[c] = Calls(c) /\ Len(Calls(c)) \in Nat
      BY <1>1, CallsFacts DEF CallList
    <2> QED
      BY <2>1 DEF Made
  <1>6. TodoInv
    BY <1>5 DEF TodoInv
  <1>7. StackInv
    BY <1>1 DEF StackInv
  <1>8. DoneInv
    BY <1>5 DEF DoneInv
  <1>9. \A p \in Processes : <<p, "main">> \in Callers
    BY DEF Callers, Threads
  <1>10. RivalInv
    BY <1>1, <1>9 DEF RivalInv, AbortNeedsRival
  <1>11. OnlyRacesFail
    BY <1>1 DEF OnlyRacesFail
  <1>12. RecursionEnds
    BY <1>1 DEF RecursionEnds, MadeBy, Callers
  <1> QED
    BY <1>3, <1>4, <1>6, <1>7, <1>8, <1>10, <1>11, <1>12 DEF RepoInv

----------------------------------------------------------------------------
(* A step of a thread *)

\* The call that a thread is in
LEMMA CallFacts ==
  ASSUME TypeInv, TodoInv, NEW c \in Callers, todo[c] # <<>>
  PROVE  /\ Len(todo[c]) \in Nat \ {0} /\ Made(c) \in Nat
         /\ Len(Calls(c)) = Made(c) + Len(todo[c])
         /\ Made(c) + 1 \in 1..Len(Calls(c)) /\ Made(c) + 1 \in DOMAIN Calls(c)
         /\ Head(todo[c]) = Calls(c)[Made(c) + 1]
         /\ Wanted(c) = Calls(c)[Made(c) + 1].path /\ Wanted(c) = Head(todo[c]).path
         /\ Wanted(c) \in Paths /\ Len(Wanted(c)) \in Nat
         /\ Len(Wanted(c)) <= StackLimit + 1
         /\ Head(todo[c]).onfail \in {"assert", "exit", "ignore"}
  <1>1. todo[c] \in Seq(CallSet) /\ CallList(Calls(c))
    BY CallsFacts DEF TypeInv
  <1>2. Len(todo[c]) \in Nat \ {0} /\ Len(Calls(c)) \in Nat
        /\ DOMAIN Calls(c) = 1..Len(Calls(c))
    BY <1>1 DEF CallList
  <1>3. Made(c) \in Nat /\ Len(Calls(c)) = Made(c) + Len(todo[c])
    <2>1. Made(c) >= 0 /\ Made(c) = Len(Calls(c)) - Len(todo[c])
      BY DEF TodoInv, Made
    <2> QED
      BY <1>2, <2>1
  <1>4. 1 \in 1..Len(todo[c]) /\ Made(c) + 1 \in 1..Len(Calls(c))
    BY <1>2, <1>3
  <1>5. todo[c][1] = Calls(c)[Made(c) + 1] /\ Head(todo[c]) = todo[c][1]
    BY <1>1, <1>2, <1>4 DEF TodoInv
  <1>6. todo[c][1] \in CallSet /\ Len(todo[c][1].path) <= StackLimit + 1
    BY <1>1, <1>4, <1>5 DEF CallList
  <1>7. todo[c][1].path \in Paths /\ todo[c][1].onfail \in {"assert", "exit", "ignore"}
    BY <1>6 DEF CallSet
  <1>8. Len(todo[c][1].path) \in Nat
    BY <1>7 DEF Paths
  <1> QED
    BY <1>2, <1>3, <1>4, <1>5, <1>6, <1>7, <1>8 DEF Wanted

\* The activation that runs: it is for an ancestor of the directory wanted,
\* and past the first test it is not for the first of them.
LEMMA TopFacts ==
  ASSUME TypeInv, DirInv, TodoInv, StackInv, NEW c \in Callers, stack[c] # <<>>,
         NEW n, n = Len(stack[c]), NEW w, w = Wanted(c)
  PROVE  /\ n \in Nat \ {0} /\ n <= StackLimit
         /\ Top(c) \in FrameSet /\ Top(c) = stack[c][n]
         /\ w \in Paths /\ Len(w) \in Nat /\ Len(w) <= StackLimit + 1
         /\ Top(c).path = Cut(w, Len(w) + 1 - n) /\ Top(c).path \in Paths
         /\ Parent(Top(c).path) = Cut(w, Len(w) - n)
         /\ n < Len(w) <=> Len(Top(c).path) > 1
         /\ Top(c).pc # "parent" =>
              /\ n < Len(w) /\ Top(c).path \in Prefixes(w)
              /\ Parent(Top(c).path) \in dirs
         /\ Top(c).pc = "mkdir" => Due(c, Top(c).path)
  <1>1. InCall(c)
    BY DEF StackInv
  <1>2. stack[c] \in Seq(FrameSet)
    BY DEF TypeInv
  <1>3. n \in Nat \ {0} /\ n \in 1..n /\ stack[c][n] \in FrameSet /\ n <= StackLimit
    BY <1>1, <1>2 DEF InCall
  <1>4. Top(c) = stack[c][n]
    BY DEF Top
  <1>5. w \in Paths /\ Len(w) \in Nat /\ Len(w) <= StackLimit + 1
    BY <1>1, CallFacts DEF InCall
  <1>6. Top(c).path = Cut(w, Len(w) + 1 - n)
        /\ (Top(c).pc # "parent" => Parent(Top(c).path) \in dirs)
        /\ (Top(c).pc = "mkdir" /\ Len(Top(c).path) > 1 => Due(c, Top(c).path))
    BY <1>1, <1>3, <1>4 DEF InCall
  <1>7. /\ Top(c).path \in Paths /\ Parent(Top(c).path) = Cut(w, Len(w) - n)
        /\ n < Len(w) => Len(Top(c).path) > 1
        /\ n >= Len(w) => Len(Top(c).path) <= 1 /\ Parent(Top(c).path) = <<>>
        /\ n <= Len(w) => Top(c).path \in Prefixes(w)
    BY <1>3, <1>5, <1>6, CutAt
  <1>8. n < Len(w) \/ n >= Len(w)
    BY <1>3, <1>5
  <1>9. Len(Top(c).path) \in Nat
    BY <1>7 DEF Paths
  <1>10. n < Len(w) <=> Len(Top(c).path) > 1
    BY <1>7, <1>8, <1>9
  <1>11. Top(c).pc # "parent" => n < Len(w) /\ n <= Len(w)
    <2>1. <<>> \notin dirs
      BY DEF DirInv
    <2>2. Top(c).pc # "parent" => n < Len(w)
      BY <1>6, <1>7, <1>8, <2>1
    <2> QED
      BY <1>3, <1>5, <2>2
  <1>12. Top(c).pc = "mkdir" => Due(c, Top(c).path)
    BY <1>6, <1>10, <1>11
  <1> QED
    BY <1>3, <1>4, <1>5, <1>6, <1>7, <1>10, <1>11, <1>12

\* What a step of c leaves alone
Others(c) ==
    /\ role' = role
    /\ stack' = [stack EXCEPT ![c] = stack'[c]]
    /\ todo' = [todo EXCEPT ![c] = todo'[c]]
    /\ result' = [result EXCEPT ![c] = result'[c]]
    /\ before' = [before EXCEPT ![c] = before'[c]]
    /\ proc' = [proc EXCEPT ![c[1]] = proc'[c[1]]]

\* What a step of c does: it begins a call,
Begins(c) ==
    /\ stack[c] = <<>> /\ todo[c] # <<>> /\ Created(c)
    /\ stack'[c] = <<Frame(Wanted(c), "parent")>>
    /\ before'[c] = dirs /\ result'[c] = 0
    /\ UNCHANGED <<todo, proc, dirs, maker>>

\* or finds that the parent is there, or that the directory is not,
WithTop(c, pc) == [stack[c] EXCEPT ![Len(stack[c])] = Frame(Top(c).path, pc)]
Tests(c, pc) ==
    /\ pc = "path" => Top(c).pc = "parent" /\ Parent(Top(c).path) \in dirs
    /\ pc = "mkdir" => Top(c).pc = "path" /\ Top(c).path \notin dirs
    /\ stack'[c] = WithTop(c, pc)
    /\ UNCHANGED <<todo, result, before, proc, dirs, maker>>

\* or calls the function for the parent, which is not there,
Descends(c) ==
    /\ Top(c).pc = "parent" /\ Parent(Top(c).path) \notin dirs
    /\ Len(stack[c]) < StackLimit
    /\ stack'[c] = Append(WithTop(c, "mkdir"), Frame(Parent(Top(c).path), "parent"))
    /\ UNCHANGED <<todo, result, before, proc, dirs, maker>>

Overflows(c) ==
    /\ Top(c).pc = "parent" /\ Parent(Top(c).path) \notin dirs
    /\ Len(stack[c]) >= StackLimit
    /\ proc'[c[1]] = "overflow"
    /\ UNCHANGED <<stack, todo, result, before, dirs, maker>>

\* or makes directory d,
Adds(c, d) ==
    /\ d \in Paths /\ d \notin dirs /\ Len(d) > 1 /\ Parent(d) \in dirs
    /\ dirs' = dirs \cup {d}
    /\ DOMAIN maker' = DOMAIN maker \cup {d} /\ maker'[d] = c
    /\ \A e \in DOMAIN maker : e # d => maker'[e] = maker[e]
Growth(c) == UNCHANGED <<dirs, maker>> \/ Adds(c, Top(c).path)

\* or returns: 0 with the directory there, or -1 because it is.
Succeeds(c) ==
    /\ Growth(c) /\ Top(c).path \in dirs' /\ Top(c).pc # "parent"
    /\ stack'[c] = SubSeq(stack[c], 1, Len(stack[c]) - 1)
    /\ todo'[c] = IF Len(stack[c]) = 1 THEN Tail(todo[c]) ELSE todo[c]
    /\ UNCHANGED <<result, before, proc>>
Fails(c) ==
    /\ Top(c).pc = "mkdir" /\ Top(c).path \in dirs
    /\ stack'[c] = <<>> /\ todo'[c] = Tail(todo[c]) /\ result'[c] = -1
    /\ proc'[c[1]] = CASE Head(todo[c]).onfail = "assert" -> "aborted"
                       [] Head(todo[c]).onfail = "exit" -> "exited"
                       [] OTHER -> proc[c[1]]
    /\ UNCHANGED <<before, dirs, maker>>

Running(c) == stack[c] # <<>> /\ todo[c] # <<>> /\ result[c] = 0
Does(c) ==
    /\ Others(c) /\ proc[c[1]] = "running"
    /\ \/ Begins(c)
       \/ Running(c) /\ (Tests(c, "path") \/ Tests(c, "mkdir") \/ Descends(c))
       \/ Running(c) /\ Overflows(c)
       \/ Running(c) /\ Succeeds(c)
       \/ Running(c) /\ Fails(c)

CoreInv == TypeInv /\ DirInv /\ TodoInv /\ StackInv

\* Every step of a thread is one of these.
LEMMA StepDoes ==
  ASSUME CoreInv, NEW c \in Callers, Begin(c) \/ ThreadStep(c)
  PROVE  Does(c)
  <1>0. TypeInv /\ DirInv /\ TodoInv /\ StackInv
    BY DEF CoreInv
  <1>1. /\ stack \in [Callers -> Seq(FrameSet)] /\ todo \in [Callers -> Seq(CallSet)]
        /\ DOMAIN result = Callers /\ DOMAIN before = Callers
        /\ DOMAIN proc = Processes /\ c[1] \in Processes
        /\ stack = [stack EXCEPT ![c] = stack[c]]
        /\ todo = [todo EXCEPT ![c] = todo[c]]
        /\ result = [result EXCEPT ![c] = result[c]]
        /\ before = [before EXCEPT ![c] = before[c]]
        /\ proc = [proc EXCEPT ![c[1]] = proc[c[1]]]
    BY <1>0 DEF TypeInv, Callers
  <1>2. CASE Begin(c)
    <2>1. todo[c] # <<>> /\ Head(todo[c]).path = Wanted(c)
      BY <1>0, <1>2, CallFacts DEF Begin
    <2>2. Others(c)
      BY <1>1, <1>2 DEF Begin, Others
    <2>3. Begins(c)
      BY <1>1, <1>2, <2>1 DEF Begin, Begins
    <2> QED
      BY <1>2, <2>2, <2>3 DEF Does, Begin
  <1>3. ASSUME stack[c] # <<>> PROVE Running(c)
    BY <1>0, <1>3 DEF StackInv, InCall, Running
  <1>4. CASE TestParent(c)
    <2>1. proc[c[1]] = "running" /\ Running(c) /\ Top(c).pc = "parent"
      BY <1>3, <1>4 DEF TestParent, At, Active
    <2>2. UNCHANGED <<role, dirs, maker, todo, result, before>>
      BY <1>4 DEF TestParent
    <2>3. CASE Parent(Top(c).path) \in dirs
      <3>1. stack' = SetTop(c, Frame(Top(c).path, "path")) /\ proc' = proc
        BY <1>4, <2>3 DEF TestParent, Exists
      <3>2. stack'[c] = WithTop(c, "path") /\ stack' = [stack EXCEPT ![c] = stack'[c]]
        BY <1>1, <3>1 DEF SetTop, WithTop
      <3> QED
        BY <1>1, <2>1, <2>2, <2>3, <3>1, <3>2 DEF Does, Others, Tests
    <2>4. CASE Parent(Top(c).path) \notin dirs /\ Len(stack[c]) < StackLimit
      <3>1. /\ stack' = [SetTop(c, Frame(Top(c).path, "mkdir")) EXCEPT
                            ![c] = Append(@, Frame(Parent(Top(c).path), "parent"))]
            /\ proc' = proc
        BY <1>4, <2>4 DEF TestParent, Exists
      <3>2. /\ stack'[c] = Append(WithTop(c, "mkdir"), Frame(Parent(Top(c).path), "parent"))
            /\ stack' = [stack EXCEPT ![c] = stack'[c]]
        BY <1>1, <3>1 DEF SetTop, WithTop
      <3> QED
        BY <1>1, <2>1, <2>2, <2>4, <3>1, <3>2 DEF Does, Others, Descends
    <2>5. CASE Parent(Top(c).path) \notin dirs /\ ~(Len(stack[c]) < StackLimit)
      <3>1. proc' = [proc EXCEPT ![c[1]] = "overflow"] /\ stack' = stack
        BY <1>4, <2>5 DEF TestParent, Exists
      <3>2. Len(stack[c]) >= StackLimit
        BY <1>1, <2>5, StackAssumption
      <3> QED
        BY <1>1, <2>1, <2>2, <2>5, <3>1, <3>2 DEF Does, Others, Overflows
    <2> QED
      BY <2>3, <2>4, <2>5
  <1>5. ASSUME ReturnOk(c), Running(c), proc[c[1]] = "running", Growth(c),
               Top(c).path \in dirs', Top(c).pc # "parent", UNCHANGED <<role, before>>
        PROVE  Does(c)
    <2>1. /\ stack'[c] = SubSeq(stack[c], 1, Len(stack[c]) - 1)
          /\ stack' = [stack EXCEPT ![c] = stack'[c]]
          /\ todo'[c] = IF Len(stack[c]) = 1 THEN Tail(todo[c]) ELSE todo[c]
          /\ todo' = [todo EXCEPT ![c] = todo'[c]]
          /\ UNCHANGED <<proc, result>>
      BY <1>1, <1>5 DEF ReturnOk, PopTop
    <2> QED
      BY <1>1, <1>5, <2>1 DEF Does, Others, Succeeds
  <1>6. CASE TestPath(c)
    <2>1. proc[c[1]] = "running" /\ Running(c) /\ Top(c).pc = "path"
      BY <1>3, <1>6 DEF TestPath, At, Active
    <2>2. UNCHANGED <<role, dirs, maker, before>>
      BY <1>6 DEF TestPath
    <2>3. CASE Top(c).path \in dirs
      BY <1>5, <1>6, <2>1, <2>2, <2>3 DEF TestPath, Exists, Growth
    <2>4. CASE Top(c).path \notin dirs
      <3>1. stack' = SetTop(c, Frame(Top(c).path, "mkdir"))
            /\ UNCHANGED <<proc, todo, result>>
        BY <1>6, <2>4 DEF TestPath, Exists
      <3>2. stack'[c] = WithTop(c, "mkdir") /\ stack' = [stack EXCEPT ![c] = stack'[c]]
        BY <1>1, <3>1 DEF SetTop, WithTop
      <3> QED
        BY <1>1, <2>1, <2>2, <2>4, <3>1, <3>2 DEF Does, Others, Tests
    <2> QED
      BY <2>3, <2>4
  <1>7. CASE Mkdir(c)
    <2>1. proc[c[1]] = "running" /\ Running(c) /\ Top(c).pc = "mkdir" /\ stack[c] # <<>>
      BY <1>3, <1>7 DEF Mkdir, At, Active
    <2>2. UNCHANGED <<role, before>>
      BY <1>7 DEF Mkdir
    <2> DEFINE path == Top(c).path
    <2>3. path \in Paths /\ Len(path) > 1 /\ Parent(path) \in dirs /\ path # <<>>
      <3>1. path \in Paths /\ Len(path) > 1 /\ Parent(path) \in dirs
        BY <1>0, <2>1, TopFacts
      <3>2. Len(<<>>) = 0
        OBVIOUS
      <3> QED
        BY <3>1, <3>2
    <2> HIDE DEF path
    <2>4. CASE path \notin dirs
      <3>1. CanMake(path)
        BY <2>3, <2>4 DEF CanMake
      <3>2. /\ dirs' = dirs \cup {path}
            /\ maker' = [d \in DOMAIN maker \cup {path} |->
                            IF d = path THEN c ELSE maker[d]]
            /\ ReturnOk(c)
        BY <1>7, <3>1 DEF Mkdir, path
      <3>3. Adds(c, path)
        BY <2>3, <2>4, <3>2 DEF Adds
      <3> QED
        BY <1>5, <2>1, <2>2, <3>2, <3>3 DEF Growth, path
    <2>5. CASE path \in dirs
      <3>1. ~CanMake(path)
        BY <2>5 DEF CanMake
      <3>2. ReturnError(c) /\ UNCHANGED <<dirs, maker>>
        BY <1>7, <3>1 DEF Mkdir, path
      <3>3. Fails(c)
        BY <1>1, <2>1, <2>2, <2>5, <3>2 DEF Fails, ReturnError, path
      <3>4. Others(c)
        BY <1>1, <2>2, <3>2 DEF Others, ReturnError
      <3> QED
        BY <2>1, <3>3, <3>4 DEF Does
    <2> QED
      BY <2>4, <2>5
  <1> QED
    BY <1>2, <1>4, <1>6, <1>7 DEF ThreadStep

\* The other threads and processes are where they were.
LEMMA OthersFacts ==
  ASSUME TypeInv, NEW c \in Callers, Others(c)
  PROVE  /\ \A e \in Callers : Calls(e)' = Calls(e)
         /\ \A e \in Callers : e # c =>
              /\ stack'[e] = stack[e] /\ todo'[e] = todo[e]
              /\ result'[e] = result[e] /\ before'[e] = before[e]
         /\ \A p \in Processes : p # c[1] => proc'[p] = proc[p]
  <1>1. role' = role
    BY DEF Others
  <1>2. \A e \in Callers : Calls(e)' = Calls(e)
    BY <1>1 DEF Calls, MainCalls
  <1>3. ASSUME NEW e \in Callers, e # c
        PROVE  /\ stack'[e] = stack[e] /\ todo'[e] = todo[e]
               /\ result'[e] = result[e] /\ before'[e] = before[e]
    BY <1>3 DEF Others, TypeInv
  <1>4. ASSUME NEW p \in Processes, p # c[1] PROVE proc'[p] = proc[p]
    BY <1>4 DEF Others, TypeInv
  <1> QED
    BY <1>2, <1>3, <1>4

\* Directories are added, one at a time, and nothing else is forgotten.
Grows(c) ==
    /\ dirs \subseteq dirs' /\ DOMAIN maker \subseteq DOMAIN maker'
    /\ \A d \in DOMAIN maker : maker'[d] = maker[d]
    /\ \A d \in dirs' : d \notin dirs => d \in DOMAIN maker'
    /\ \A d \in DOMAIN maker' : d \notin DOMAIN maker =>
         /\ d \in dirs' /\ d \notin dirs /\ d \in Paths /\ Len(d) > 1
         /\ Parent(d) \in dirs /\ maker'[d] = c /\ d = Top(c).path
         /\ stack[c] # <<>> /\ Top(c).pc # "parent"

\* A step adds at most the directory of the activation that runs.
LEMMA GrowStep ==
  ASSUME CoreInv, NEW c \in Callers, Does(c)
  PROVE  Grows(c)
  <1>1. CASE UNCHANGED <<dirs, maker>>
    BY <1>1 DEF Grows
  <1>2. CASE Running(c) /\ Succeeds(c) /\ Adds(c, Top(c).path)
    <2>1. DOMAIN maker \subseteq dirs
      BY DEF CoreInv, DirInv
    <2>2. stack[c] # <<>> /\ Top(c).pc # "parent"
      BY <1>2 DEF Running, Succeeds
    <2> DEFINE d == Top(c).path
    <2>3. /\ d \in Paths /\ d \notin dirs /\ Len(d) > 1 /\ Parent(d) \in dirs
          /\ dirs' = dirs \cup {d}
          /\ DOMAIN maker' = DOMAIN maker \cup {d} /\ maker'[d] = c
          /\ \A e \in DOMAIN maker : e # d => maker'[e] = maker[e]
      BY <1>2 DEF Adds
    <2> HIDE DEF d
    <2>4. \A e \in DOMAIN maker : e # d
      BY <2>1, <2>3
    <2> QED
      BY <2>1, <2>2, <2>3, <2>4 DEF Grows, d
  <1> QED
    BY <1>1, <1>2, Zenon DEF Does, Begins, Tests, Descends, Overflows, Succeeds, Growth, Fails

\* The file system stays one.
LEMMA DirStep ==
  ASSUME CoreInv, NEW c \in Callers, Does(c)
  PROVE  DirInv' /\ dirs' \subseteq Paths
  <1>0. TypeInv /\ DirInv /\ TodoInv /\ StackInv /\ Others(c) /\ Grows(c)
    BY GrowStep DEF CoreInv, Does
  <1>1. ASSUME NEW d \in dirs', d \notin dirs
        PROVE  d \in Paths /\ Len(d) > 1 /\ Parent(d) \in dirs
    <2>1. DOMAIN maker \subseteq dirs
      BY <1>0 DEF DirInv
    <2> QED
      BY <1>0, <1>1, <2>1 DEF Grows
  <1>2. dirs \subseteq dirs' /\ dirs' \subseteq Paths
    BY <1>0, <1>1 DEF Grows, TypeInv
  <1>3. <<>> \notin dirs'
    <2>1. Len(<<>>) = 0 /\ <<>> \notin dirs
      BY <1>0 DEF DirInv
    <2> QED
      BY <1>1, <2>1
  <1>4. ASSUME NEW d \in dirs' PROVE Prefixes(d) \subseteq dirs'
    <2>1. CASE d \in dirs
      BY <1>0, <1>2, <2>1 DEF DirInv
    <2>2. CASE d \notin dirs
      <3>1. d \in Paths /\ Parent(d) \in dirs /\ d # <<>>
        BY <1>1, <1>3, <2>2
      <3>2. Prefixes(d) = Prefixes(Parent(d)) \cup {d}
        BY <3>1, PrefixFacts
      <3>3. Prefixes(Parent(d)) \subseteq dirs
        BY <1>0, <3>1 DEF DirInv
      <3> QED
        BY <1>2, <3>2, <3>3
    <2> QED
      BY <2>1, <2>2
  <1>5. DOMAIN maker' \subseteq dirs'
    BY <1>0, <1>2 DEF Grows, DirInv
  <1>6. ASSUME NEW d \in DOMAIN maker'
        PROVE  /\ Len(d) > 1 /\ maker'[d] \in Callers
               /\ \A e \in Callers : maker'[d] = e => Asked(e, d)'
    <2>0. \A e \in Callers : Asked(e, d) => Asked(e, d)'
      BY <1>0, OthersFacts DEF Asked
    <2>1. CASE d \in DOMAIN maker
      BY <1>0, <2>0, <2>1 DEF DirInv, Grows
    <2>2. CASE d \notin DOMAIN maker
      <3>1. /\ Len(d) > 1 /\ maker'[d] = c /\ d = Top(c).path
            /\ stack[c] # <<>> /\ Top(c).pc # "parent"
        BY <1>0, <2>2 DEF Grows
      <3>2. d \in Prefixes(Wanted(c))
        <4>1. PICK n, w : n = Len(stack[c]) /\ w = Wanted(c)
          OBVIOUS
        <4>2. Top(c).path \in Prefixes(w)
          BY <1>0, <3>1, <4>1, TopFacts
        <4> QED
          BY <3>1, <4>1, <4>2
      <3>3. todo[c] # <<>>
        BY <1>0, <3>1 DEF StackInv, InCall
      <3>4. Made(c) + 1 \in DOMAIN Calls(c) /\ Wanted(c) = Calls(c)[Made(c) + 1].path
        BY <1>0, <3>3, CallFacts
      <3>5. Asked(c, d)
        BY <3>2, <3>4 DEF Asked
      <3> QED
        BY <2>0, <3>1, <3>5
    <2> QED
      BY <2>1, <2>2
  <1> QED
    BY <1>2, <1>3, <1>4, <1>5, <1>6 DEF DirInv

\* The activations of a thread after a step of it
LEMMA NewStack ==
  ASSUME NEW s \in Seq(FrameSet), s # <<>>, NEW n, n = Len(s),
         NEW f \in FrameSet, NEW g \in FrameSet,
         NEW t, t = [s EXCEPT ![n] = f]
  PROVE  /\ t \in Seq(FrameSet) /\ Len(t) = n /\ t[n] = f
         /\ \A j \in 1..n - 1 : t[j] = s[j]
         /\ Append(t, g) \in Seq(FrameSet) /\ Len(Append(t, g)) = n + 1
         /\ Append(t, g)[n + 1] = g /\ Append(t, g)[n] = f
         /\ \A j \in 1..n - 1 : Append(t, g)[j] = s[j]
         /\ SubSeq(s, 1, n - 1) \in Seq(FrameSet) /\ Len(SubSeq(s, 1, n - 1)) = n - 1
         /\ \A j \in 1..n - 1 : SubSeq(s, 1, n - 1)[j] = s[j]
  <1>1. n \in Nat /\ n >= 1 /\ n \in 1..n /\ s \in [1..n -> FrameSet]
    OBVIOUS
  <1>2. t \in Seq(FrameSet) /\ Len(t) = n /\ t[n] = f
        /\ \A j \in 1..n - 1 : t[j] = s[j]
    <2>1. t \in [1..n -> FrameSet]
      BY <1>1
    <2> QED
      BY <1>1, <2>1
  <1>3. Append(t, g) \in Seq(FrameSet) /\ Len(Append(t, g)) = n + 1
        /\ Append(t, g)[n + 1] = g /\ \A j \in 1..n : Append(t, g)[j] = t[j]
    BY <1>2
  <1>4. SubSeq(s, 1, n - 1) \in Seq(FrameSet) /\ Len(SubSeq(s, 1, n - 1)) = n - 1
        /\ \A j \in 1..n - 1 : SubSeq(s, 1, n - 1)[j] = s[j]
    BY <1>1
  <1>5. n \in 1..n /\ 1..n - 1 \subseteq 1..n
    BY <1>1
  <1> QED
    BY <1>2, <1>3, <1>4, <1>5

\* Every step keeps the types.
LEMMA TypeStep ==
  ASSUME CoreInv, NEW c \in Callers, Does(c)
  PROVE  TypeInv'
  <1>0. TypeInv /\ DirInv /\ TodoInv /\ StackInv /\ Others(c) /\ dirs' \subseteq Paths
    BY DirStep DEF CoreInv, Does
  <1>1. /\ stack[c] \in Seq(FrameSet) /\ todo[c] \in Seq(CallSet)
        /\ result[c] \in {0, -1} /\ before[c] \subseteq Paths /\ c[1] \in Processes
        /\ proc[c[1]] \in {"running", "aborted", "exited", "overflow"}
    BY <1>0 DEF TypeInv, Callers
  <1>2. SUFFICES /\ stack'[c] \in Seq(FrameSet) /\ todo'[c] \in Seq(CallSet)
                 /\ result'[c] \in {0, -1} /\ before'[c] \subseteq Paths
                 /\ proc'[c[1]] \in {"running", "aborted", "exited", "overflow"}
    <2>1. /\ stack' \in [Callers -> Seq(FrameSet)] /\ todo' \in [Callers -> Seq(CallSet)]
          /\ result' \in [Callers -> {0, -1}] /\ before' \in [Callers -> SUBSET Paths]
          /\ proc' \in [Processes -> {"running", "aborted", "exited", "overflow"}]
          /\ role' \in Casts
      BY <1>0, <1>1, <1>2 DEF TypeInv, Others
    <2> QED
      BY <1>0, <2>1 DEF TypeInv
  <1>3. CASE Begins(c)
    <2>1. Wanted(c) \in Paths
      BY <1>0, <1>3, CallFacts DEF Begins
    <2>2. Frame(Wanted(c), "parent") \in FrameSet
      BY <2>1 DEF Frame, FrameSet
    <2>3. stack'[c] \in Seq(FrameSet)
      BY <1>3, <2>2 DEF Begins
    <2> QED
      BY <1>0, <1>1, <1>3, <2>3 DEF Begins, TypeInv
  <1>4. ASSUME stack[c] # <<>>
        PROVE  /\ \A pc \in {"path", "mkdir"} : WithTop(c, pc) \in Seq(FrameSet)
               /\ Append(WithTop(c, "mkdir"), Frame(Parent(Top(c).path), "parent"))
                    \in Seq(FrameSet)
               /\ SubSeq(stack[c], 1, Len(stack[c]) - 1) \in Seq(FrameSet)
    <2>1. PICK n, w : n = Len(stack[c]) /\ w = Wanted(c)
      OBVIOUS
    <2>2. /\ Top(c).path \in Paths /\ Top(c).path = Cut(w, Len(w) + 1 - n)
          /\ Parent(Top(c).path) = Cut(w, Len(w) - n) /\ w \in Paths
          /\ n \in Nat \ {0}
      BY <1>0, <1>4, <2>1, TopFacts
    <2>3. Parent(Top(c).path) \in Paths
      <3>1. Len(w) - n \in Int /\ Len(w) - n <= Len(w)
        BY <2>2 DEF Paths
      <3> QED
        BY <2>2, <3>1, CutFacts
    <2>4. /\ \A pc \in {"path", "mkdir"} : Frame(Top(c).path, pc) \in FrameSet
          /\ Frame(Parent(Top(c).path), "parent") \in FrameSet
      BY <2>2, <2>3 DEF Frame, FrameSet
    <2>5. ASSUME NEW pc \in {"path", "mkdir"}
          PROVE  /\ WithTop(c, pc) \in Seq(FrameSet)
                 /\ Append(WithTop(c, pc), Frame(Parent(Top(c).path), "parent"))
                      \in Seq(FrameSet)
                 /\ SubSeq(stack[c], 1, Len(stack[c]) - 1) \in Seq(FrameSet)
      BY <1>1, <1>4, <2>4, NewStack DEF WithTop
    <2> QED
      BY <2>5
  <1>5. CASE Running(c) /\ (Tests(c, "path") \/ Tests(c, "mkdir") \/ Descends(c))
    BY <1>1, <1>4, <1>5 DEF Running, Tests, Descends
  <1>6. CASE Running(c) /\ Overflows(c)
    BY <1>1, <1>6 DEF Overflows
  <1>7. ASSUME Running(c) PROVE Tail(todo[c]) \in Seq(CallSet)
    BY <1>1, <1>7 DEF Running
  <1>8. CASE Running(c) /\ Succeeds(c)
    BY <1>1, <1>4, <1>7, <1>8 DEF Running, Succeeds
  <1>9. CASE Running(c) /\ Fails(c)
    <2>1. /\ stack'[c] = <<>> /\ todo'[c] = Tail(todo[c]) /\ result'[c] = -1
          /\ before' = before
          /\ proc'[c[1]] \in {"aborted", "exited", proc[c[1]]}
      BY <1>9 DEF Fails
    <2> QED
      BY <1>1, <1>7, <1>9, <2>1
  <1> QED
    BY <1>3, <1>5, <1>6, <1>8, <1>9 DEF Does

\* What is left to do stays the end of the calls.
LEMMA TodoStep ==
  ASSUME CoreInv, NEW c \in Callers, Does(c)
  PROVE  /\ TodoInv'
         /\ todo'[c] = todo[c] => Made(c)' = Made(c)
         /\ todo'[c] # todo[c] => Made(c)' = Made(c) + 1
         /\ todo'[c] = todo[c] \/ (todo[c] # <<>> /\ todo'[c] = Tail(todo[c]))
         /\ \A e \in Callers : e # c => Made(e)' = Made(e)
  <1>0. TypeInv /\ TodoInv /\ Others(c)
    BY DEF CoreInv, Does
  <1>1. \/ todo'[c] = todo[c]
        \/ todo[c] # <<>> /\ todo'[c] = Tail(todo[c])
    BY DEF Does, Begins, Running, Tests, Descends, Overflows, Succeeds, Fails
  <1>2. \A e \in Callers : Calls(e)' = Calls(e) /\ (e # c => todo'[e] = todo[e])
    BY <1>0, OthersFacts
  <1>3. ASSUME NEW e \in Callers, todo'[e] = todo[e]
        PROVE  /\ Made(e)' = Made(e) /\ Made(e)' >= 0
               /\ \A i \in 1..Len(todo'[e]) : todo'[e][i] = Calls(e)'[Made(e)' + i]
    <2>1. Made(e)' = Made(e)
      BY <1>2, <1>3 DEF Made
    <2> QED
      BY <1>0, <1>2, <1>3, <2>1 DEF TodoInv
  <1>4. ASSUME todo[c] # <<>>, todo'[c] = Tail(todo[c])
        PROVE  /\ Made(c)' = Made(c) + 1 /\ Made(c)' >= 0 /\ todo'[c] # todo[c]
               /\ \A i \in 1..Len(todo'[c]) : todo'[c][i] = Calls(c)'[Made(c)' + i]
    <2>1. /\ Len(todo[c]) \in Nat \ {0} /\ Made(c) \in Nat
          /\ Len(Calls(c)) = Made(c) + Len(todo[c])
      BY <1>0, <1>4, CallFacts
    <2>2. todo[c] \in Seq(CallSet)
      BY <1>0 DEF TypeInv
    <2>3. Len(todo'[c]) = Len(todo[c]) - 1
          /\ \A i \in 1..Len(todo'[c]) : todo'[c][i] = todo[c][i + 1]
      BY <1>4, <2>2
    <2>4. Made(c)' = Made(c) + 1
      <3>1. Made(c)' = Len(Calls(c)) - Len(todo'[c])
        BY <1>2 DEF Made
      <3> QED
        BY <2>1, <2>3, <3>1
    <2>5. \A i \in 1..Len(todo'[c]) : todo'[c][i] = Calls(c)'[Made(c)' + i]
      <3> SUFFICES ASSUME NEW i \in 1..Len(todo'[c])
                   PROVE  todo'[c][i] = Calls(c)'[Made(c)' + i]
        OBVIOUS
      <3>1. i + 1 \in 1..Len(todo[c]) /\ Made(c) + (i + 1) = (Made(c) + 1) + i
        BY <2>1, <2>3
      <3>2. todo[c][i + 1] = Calls(c)[Made(c) + (i + 1)]
        BY <1>0, <3>1 DEF TodoInv
      <3> QED
        BY <1>2, <2>3, <2>4, <3>1, <3>2
    <2>6. todo'[c] # todo[c]
      BY <2>1, <2>3
    <2> QED
      BY <2>1, <2>4, <2>5, <2>6
  <1> QED
    BY <1>1, <1>2, <1>3, <1>4 DEF TodoInv

\* A call in progress does not notice what others make, but for the
\* directories that are there now.
LEMMA InCallKept ==
  ASSUME CoreInv, NEW c \in Callers, Grows(c), NEW e \in Callers,
         stack[e] # <<>>, InCall(e), e # c \/ maker' = maker,
         stack'[e] = stack[e], todo'[e] = todo[e], result'[e] = result[e],
         before'[e] = before[e]
  PROVE  InCall(e)'
  <1>0. TypeInv /\ DirInv /\ TodoInv /\ StackInv
    BY DEF CoreInv
  <1>1. Wanted(e)' = Wanted(e) /\ Top(e)' = Top(e)
    BY DEF Wanted, Top
  <1>2. todo[e] # <<>>
    BY DEF InCall
  <1>3. Wanted(e) \in Paths /\ Len(Wanted(e)) \in Nat
    BY <1>0, <1>2, CallFacts
  <1>4. \A path : Due(e, path) => Due(e, path)'
    <2> SUFFICES ASSUME NEW path, Due(e, path), path \in DOMAIN maker'
                 PROVE  path \notin before'[e] /\ maker'[path] # e
      BY DEF Due
    <2>1. CASE path \in DOMAIN maker
      BY <2>1 DEF Due, Grows
    <2>2. CASE path \notin DOMAIN maker
      BY <2>2 DEF Due, Grows
    <2> QED
      BY <2>1, <2>2
  <1>5. ASSUME ~Rooted(Wanted(e)) PROVE ~Rooted(Wanted(e))'
    <2> SUFFICES ASSUME Len(Wanted(e)) > 1, First(Wanted(e)) \in dirs'
                 PROVE  FALSE
      BY <1>1 DEF Rooted
    <2>1. First(Wanted(e)) \notin dirs
      BY <1>5 DEF Rooted
    <2>2. First(Wanted(e)) \in DOMAIN maker' /\ First(Wanted(e)) \notin DOMAIN maker
      BY <1>0, <2>1 DEF Grows, DirInv
    <2>3. Len(First(Wanted(e))) > 1
      BY <2>2 DEF Grows
    <2> QED
      BY <1>3, <2>3, FirstName
  <1>6. before'[e] \subseteq dirs' /\ dirs' \ before'[e] \subseteq DOMAIN maker'
    BY DEF InCall, Grows
  <1>7. Top(e)'.pc # "parent" => Parent(Top(e)'.path) \in dirs'
    BY <1>1 DEF InCall, Grows
  <1>8. Len(stack'[e]) >= Len(Wanted(e)') => ~Rooted(Wanted(e))'
    BY <1>1, <1>5 DEF InCall
  <1>9. \A j \in 1..Len(stack'[e]) :
          /\ stack'[e][j].path = Cut(Wanted(e)', Len(Wanted(e)') + 1 - j)
          /\ j < Len(stack'[e]) => stack'[e][j].pc = "mkdir"
    BY <1>1 DEF InCall
  <1>10. ASSUME NEW j \in 1..Len(stack'[e]), stack'[e][j].pc = "mkdir",
                Len(stack'[e][j].path) > 1
         PROVE  Due(e, stack[e][j].path)'
    <2>1. Due(e, stack[e][j].path)
      BY <1>10 DEF InCall
    <2>2. PICK path : path = stack[e][j].path
      OBVIOUS
    <2>3. Due(e, path)'
      BY <1>4, <2>1, <2>2
    <2> QED
      BY <2>2, <2>3 DEF Due
  <1>11. todo'[e] # <<>> /\ result'[e] = 0 /\ Len(stack'[e]) <= StackLimit
    BY DEF InCall
  <1> QED
    BY <1>6, <1>7, <1>8, <1>9, <1>10, <1>11 DEF InCall

\* A directory whose parent is missing is missing.
LEMMA MissingParent ==
  ASSUME DirInv, NEW path \in Paths, Len(path) > 1, Parent(path) \notin dirs
  PROVE  path \notin dirs
  <1> SUFFICES ASSUME path \in dirs PROVE FALSE
    OBVIOUS
  <1>1. Len(path) \in Nat /\ path # <<>>
    BY DEF Paths
  <1>2. Len(path) - 1 \in 1..Len(path)
    BY <1>1
  <1>3. Parent(path) = Cut(path, Len(path) - 1)
    BY CutWhole
  <1>4. Parent(path) \in Prefixes(path)
    BY <1>2, <1>3, PrefixFacts
  <1> QED
    BY <1>4 DEF DirInv

\* A call that begins
LEMMA StackBegins ==
  ASSUME CoreInv, NEW c \in Callers, Others(c), Begins(c)
  PROVE  InCall(c)'
  <1>0. TypeInv /\ DirInv /\ TodoInv
    BY DEF CoreInv
  <1>9. PICK w : w = Wanted(c)
    OBVIOUS
  <1>1. todo'[c] = todo[c] /\ todo[c] # <<>> /\ Wanted(c)' = w
        /\ stack'[c] = <<Frame(w, "parent")>> /\ before'[c] = dirs /\ result'[c] = 0
        /\ dirs' = dirs /\ maker' = maker
    BY <1>9 DEF Begins, Wanted
  <1>2. w \in Paths /\ Len(w) \in Nat
    BY <1>0, <1>1, <1>9, CallFacts
  <1>3. Len(stack'[c]) = 1 /\ stack'[c][1] = Frame(w, "parent")
    BY <1>1
  <1>4. Frame(w, "parent").path = w /\ Frame(w, "parent").pc = "parent"
    BY DEF Frame
  <1>5. Top(c)' = Frame(w, "parent")
    BY <1>3 DEF Top
  <1>6. \A j \in 1..Len(stack'[c]) :
          /\ stack'[c][j].path = Cut(w, Len(w) + 1 - j)
          /\ j < Len(stack'[c]) => stack'[c][j].pc = "mkdir"
          /\ stack'[c][j].pc = "mkdir" /\ Len(stack'[c][j].path) > 1
               => Due(c, stack[c][j].path)'
    <2> SUFFICES ASSUME NEW j \in 1..Len(stack'[c])
                 PROVE  /\ stack'[c][j].path = Cut(w, Len(w) + 1 - j)
                        /\ ~(j < Len(stack'[c])) /\ stack'[c][j].pc # "mkdir"
      OBVIOUS
    <2>1. j = 1 /\ Len(w) + 1 - j = Len(w)
      BY <1>2, <1>3
    <2>2. stack'[c][j] = Frame(w, "parent")
      BY <1>3, <2>1
    <2> QED
      BY <1>2, <1>3, <1>4, <2>1, <2>2, CutWhole
  <1>7. Len(stack'[c]) >= Len(w) => ~Rooted(w)'
    BY <1>2, <1>3 DEF Rooted
  <1>8. 1 <= StackLimit
    BY StackAssumption
  <1>10. Rooted(Wanted(c))' <=> Rooted(w)'
    BY <1>1 DEF Rooted
  <1> QED
    BY <1>1, <1>3, <1>4, <1>5, <1>6, <1>7, <1>8, <1>10 DEF InCall

\* The activation that runs has made a test.
LEMMA StackTests ==
  ASSUME CoreInv, NEW c \in Callers, Running(c), NEW pc \in {"path", "mkdir"},
         Tests(c, pc)
  PROVE  InCall(c)'
  <1>0. TypeInv /\ DirInv /\ TodoInv /\ StackInv /\ stack[c] # <<>>
    BY DEF CoreInv, Running
  <1>1. InCall(c)
    BY <1>0 DEF StackInv
  <1>2. PICK n, w : n = Len(stack[c]) /\ w = Wanted(c)
    OBVIOUS
  <1>3. /\ n \in Nat \ {0} /\ n <= StackLimit /\ Top(c) = stack[c][n]
        /\ Top(c).path = Cut(w, Len(w) + 1 - n) /\ Top(c).path \in Paths
        /\ Top(c).pc # "parent" => Parent(Top(c).path) \in dirs
    BY <1>0, <1>2, TopFacts
  <1>4. UNCHANGED <<todo, result, before, dirs, maker>> /\ stack'[c] = WithTop(c, pc)
    BY DEF Tests
  <1>5. stack[c] \in Seq(FrameSet) /\ Frame(Top(c).path, pc) \in FrameSet
    BY <1>0, <1>3 DEF TypeInv, Frame, FrameSet
  <1>6. /\ Len(stack'[c]) = n /\ stack'[c][n] = Frame(Top(c).path, pc)
        /\ \A j \in 1..n - 1 : stack'[c][j] = stack[c][j]
    BY <1>0, <1>2, <1>4, <1>5, NewStack DEF WithTop
  <1>7. Frame(Top(c).path, pc).path = Top(c).path /\ Frame(Top(c).path, pc).pc = pc
    BY DEF Frame
  <1>8. Top(c)' = Frame(Top(c).path, pc)
    BY <1>6 DEF Top
  <1>9. Wanted(c)' = w
    BY <1>2, <1>4 DEF Wanted
  <1>10. Parent(Top(c).path) \in dirs
    BY <1>3 DEF Tests
  <1>11. pc = "mkdir" => Due(c, Top(c).path)
    <2>1. before[c] \subseteq dirs /\ DOMAIN maker \subseteq dirs
      BY <1>0, <1>1 DEF InCall, DirInv
    <2> QED
      BY <2>1 DEF Due, Tests
  <1>12. \A path : Due(c, path)' <=> Due(c, path)
    BY <1>4 DEF Due
  <1>13. ASSUME NEW j \in 1..n
         PROVE  /\ stack'[c][j].path = Cut(w, Len(w) + 1 - j)
                /\ j < n => stack'[c][j].pc = "mkdir"
                /\ stack'[c][j].pc = "mkdir" /\ Len(stack'[c][j].path) > 1
                     => Due(c, stack[c][j].path)'
    <2>0. PICK path : path = stack'[c][j].path
      OBVIOUS
    <2>1. CASE j = n
      <3>1. path = Top(c).path /\ stack'[c][j].pc = pc
        BY <1>6, <1>7, <2>0, <2>1
      <3>2. pc = "mkdir" => Due(c, path)'
        BY <1>11, <1>12, <3>1
      <3>3. ~(j < n)
        BY <1>3, <2>1
      <3>4. path = Cut(w, Len(w) + 1 - j)
        BY <1>3, <2>1, <3>1
      <3>5. pc = "mkdir" => Due(c, stack[c][j].path)'
        BY <2>0, <3>2 DEF Due
      <3> QED
        BY <2>0, <3>1, <3>3, <3>4, <3>5
    <2>2. CASE j # n
      <3>1. j \in 1..n - 1 /\ j \in 1..Len(stack[c]) /\ j < Len(stack[c])
        BY <1>2, <1>3, <2>2
      <3>2. stack'[c][j] = stack[c][j]
        BY <1>6, <3>1
      <3>3. /\ stack[c][j].path = Cut(w, Len(w) + 1 - j) /\ stack[c][j].pc = "mkdir"
            /\ Len(stack[c][j].path) > 1 => Due(c, stack[c][j].path)
        BY <1>1, <1>2, <3>1 DEF InCall
      <3>4. Len(path) > 1 => Due(c, path)'
        BY <1>12, <2>0, <3>2, <3>3
      <3>5. Len(path) > 1 => Due(c, stack[c][j].path)'
        BY <2>0, <3>4 DEF Due
      <3> QED
        BY <2>0, <3>2, <3>3, <3>5
    <2> QED
      BY <2>1, <2>2
  <1>14. n >= Len(w) => ~Rooted(w)'
    BY <1>1, <1>2, <1>4 DEF InCall, Rooted
  <1>15. before[c] \subseteq dirs /\ dirs \ before[c] \subseteq DOMAIN maker
         /\ todo[c] # <<>> /\ result[c] = 0
    BY <1>1 DEF InCall
  <1>16. Rooted(Wanted(c))' <=> Rooted(w)'
    BY <1>9 DEF Rooted
  <1> QED
    BY <1>3, <1>4, <1>6, <1>7, <1>8, <1>9, <1>10, <1>13, <1>14, <1>15, <1>16 DEF InCall

\* The function is called for the parent.
LEMMA StackDescends ==
  ASSUME CoreInv, NEW c \in Callers, Running(c), Descends(c)
  PROVE  InCall(c)'
  <1>0. TypeInv /\ DirInv /\ TodoInv /\ StackInv /\ stack[c] # <<>>
    BY DEF CoreInv, Running
  <1>1. InCall(c)
    BY <1>0 DEF StackInv
  <1>2. PICK n, w : n = Len(stack[c]) /\ w = Wanted(c)
    OBVIOUS
  <1>3. /\ n \in Nat \ {0} /\ Top(c) = stack[c][n] /\ w \in Paths /\ Len(w) \in Nat
        /\ Top(c).path = Cut(w, Len(w) + 1 - n) /\ Top(c).path \in Paths
        /\ Parent(Top(c).path) = Cut(w, Len(w) - n)
    BY <1>0, <1>2, TopFacts
  <1>4. /\ UNCHANGED <<todo, result, before, dirs, maker>>
        /\ stack'[c] = Append(WithTop(c, "mkdir"), Frame(Parent(Top(c).path), "parent"))
        /\ n < StackLimit /\ Parent(Top(c).path) \notin dirs
    BY <1>2 DEF Descends
  <1>5. PICK up : up = Parent(Top(c).path)
    OBVIOUS
  <1>6. Len(w) - n \in Int /\ Len(w) - n <= Len(w) /\ Len(w) - n = Len(w) + 1 - (n + 1)
    BY <1>3
  <1>7. up \in Paths /\ up = Cut(w, Len(w) + 1 - (n + 1))
    BY <1>3, <1>5, <1>6, CutFacts
  <1>8. /\ stack[c] \in Seq(FrameSet) /\ Frame(Top(c).path, "mkdir") \in FrameSet
        /\ Frame(up, "parent") \in FrameSet
    BY <1>0, <1>3, <1>7 DEF TypeInv, Frame, FrameSet
  <1>9. /\ Len(stack'[c]) = n + 1 /\ stack'[c][n] = Frame(Top(c).path, "mkdir")
        /\ stack'[c][n + 1] = Frame(up, "parent")
        /\ \A j \in 1..n - 1 : stack'[c][j] = stack[c][j]
    BY <1>0, <1>2, <1>4, <1>5, <1>8, NewStack DEF WithTop
  <1>10. /\ Frame(Top(c).path, "mkdir").path = Top(c).path
         /\ Frame(Top(c).path, "mkdir").pc = "mkdir"
         /\ Frame(up, "parent").path = up /\ Frame(up, "parent").pc = "parent"
    BY DEF Frame
  <1>11. Top(c)' = Frame(up, "parent") /\ Wanted(c)' = w
    BY <1>2, <1>4, <1>9 DEF Top, Wanted
  <1>12. Len(Top(c).path) > 1 => Due(c, Top(c).path)
    <2>1. before[c] \subseteq dirs /\ DOMAIN maker \subseteq dirs
      BY <1>0, <1>1 DEF InCall, DirInv
    <2>2. Len(Top(c).path) > 1 => Top(c).path \notin dirs
      BY <1>0, <1>3, <1>4, MissingParent
    <2> QED
      BY <2>1, <2>2 DEF Due
  <1>13. \A path : Due(c, path)' <=> Due(c, path)
    BY <1>4 DEF Due
  <1>14. ASSUME NEW j \in 1..n + 1
         PROVE  /\ stack'[c][j].path = Cut(w, Len(w) + 1 - j)
                /\ j < n + 1 => stack'[c][j].pc = "mkdir"
                /\ stack'[c][j].pc = "mkdir" /\ Len(stack'[c][j].path) > 1
                     => Due(c, stack[c][j].path)'
    <2>0. PICK path : path = stack'[c][j].path
      OBVIOUS
    <2>1. CASE j = n + 1
      <3>1. path = up /\ stack'[c][j].pc = "parent"
        BY <1>9, <1>10, <2>0, <2>1
      <3>2. ~(j < n + 1) /\ up = Cut(w, Len(w) + 1 - j)
        BY <1>3, <1>7, <2>1
      <3> QED
        BY <2>0, <3>1, <3>2
    <2>2. CASE j = n
      <3>1. path = Top(c).path /\ stack'[c][j].pc = "mkdir"
        BY <1>9, <1>10, <2>0, <2>2
      <3>2. Len(path) > 1 => Due(c, path)'
        BY <1>12, <1>13, <3>1
      <3>3. path = Cut(w, Len(w) + 1 - j)
        BY <1>3, <2>2, <3>1
      <3>4. Len(path) > 1 => Due(c, stack[c][j].path)'
        BY <2>0, <3>2 DEF Due
      <3> QED
        BY <2>0, <3>1, <3>3, <3>4
    <2>3. CASE j # n /\ j # n + 1
      <3>1. j \in 1..n - 1 /\ j \in 1..Len(stack[c]) /\ j < Len(stack[c])
        BY <1>2, <1>3, <2>3
      <3>2. stack'[c][j] = stack[c][j]
        BY <1>9, <3>1
      <3>3. /\ stack[c][j].path = Cut(w, Len(w) + 1 - j) /\ stack[c][j].pc = "mkdir"
            /\ Len(stack[c][j].path) > 1 => Due(c, stack[c][j].path)
        BY <1>1, <1>2, <3>1 DEF InCall
      <3>4. Len(path) > 1 => Due(c, path)'
        BY <1>13, <2>0, <3>2, <3>3
      <3>5. Len(path) > 1 => Due(c, stack[c][j].path)'
        BY <2>0, <3>4 DEF Due
      <3> QED
        BY <2>0, <3>2, <3>3, <3>5
    <2> QED
      BY <2>1, <2>2, <2>3
  <1>15. n + 1 >= Len(w) => ~Rooted(w)'
    <2> SUFFICES ASSUME n + 1 >= Len(w), Len(w) > 1, First(w) \in dirs
                 PROVE  FALSE
      BY <1>4 DEF Rooted
    <2>1. CASE n >= Len(w)
      BY <1>1, <1>2, <2>1 DEF InCall, Rooted
    <2>2. CASE ~(n >= Len(w))
      <3>1. Len(w) - n \in Int /\ Len(w) - n = 1
        BY <1>3, <2>2
      <3>2. Cut(w, Len(w) - n) = First(w)
        BY <1>3, <3>1, FirstName
      <3> QED
        BY <1>3, <1>4, <3>2
    <2> QED
      BY <2>1, <2>2
  <1>16. before[c] \subseteq dirs /\ dirs \ before[c] \subseteq DOMAIN maker
         /\ todo[c] # <<>> /\ result[c] = 0
    BY <1>1 DEF InCall
  <1>17. Rooted(Wanted(c))' <=> Rooted(w)'
    BY <1>11 DEF Rooted
  <1>18. n + 1 <= StackLimit
    BY <1>3, <1>4, StackAssumption
  <1> QED
    BY <1>4, <1>9, <1>10, <1>11, <1>14, <1>15, <1>16, <1>17, <1>18 DEF InCall

\* The function returns 0 to itself.
LEMMA StackSucceeds ==
  ASSUME CoreInv, NEW c \in Callers, Running(c), Succeeds(c), Grows(c),
         stack'[c] # <<>>
  PROVE  InCall(c)'
  <1>0. TypeInv /\ DirInv /\ TodoInv /\ StackInv /\ stack[c] # <<>>
    BY DEF CoreInv, Running
  <1>1. InCall(c)
    BY <1>0 DEF StackInv
  <1>2. PICK n, w : n = Len(stack[c]) /\ w = Wanted(c)
    OBVIOUS
  <1>3. /\ n \in Nat \ {0} /\ n <= StackLimit /\ Top(c) = stack[c][n] /\ w \in Paths
        /\ Len(w) \in Nat /\ Top(c) \in FrameSet
        /\ Top(c).path = Cut(w, Len(w) + 1 - n) /\ n < Len(w)
    BY <1>0, <1>2, TopFacts DEF Succeeds
  <1>4. /\ UNCHANGED <<result, before>>
        /\ stack'[c] = SubSeq(stack[c], 1, n - 1) /\ Top(c).path \in dirs'
        /\ n # 1 => todo'[c] = todo[c]
    BY <1>2 DEF Succeeds
  <1>5. stack[c] \in Seq(FrameSet)
    BY <1>0 DEF TypeInv
  <1>6. /\ Len(stack'[c]) = n - 1
        /\ \A j \in 1..n - 1 : stack'[c][j] = stack[c][j]
    BY <1>0, <1>2, <1>3, <1>4, <1>5, NewStack
  <1>7. n # 1
    <2> SUFFICES ASSUME n = 1 PROVE FALSE
      OBVIOUS
    <2>1. stack'[c] = SubSeq(stack[c], 1, 0)
      BY <1>4
    <2> QED
      BY <1>5, <2>1
  <1>8. n - 1 \in Nat /\ n - 1 >= 1 /\ n - 1 \in 1..n - 1
    BY <1>3, <1>7
  <1>9. Wanted(c)' = w /\ todo'[c] = todo[c]
    BY <1>2, <1>4, <1>7 DEF Wanted
  <1>10. ASSUME NEW j \in 1..n - 1
         PROVE  /\ stack'[c][j].path = Cut(w, Len(w) + 1 - j)
                /\ stack'[c][j].pc = "mkdir"
                /\ Len(stack'[c][j].path) > 1 => Due(c, stack[c][j].path)'
    <2>1. j \in 1..Len(stack[c]) /\ j < Len(stack[c]) /\ j \in Nat \ {0}
      BY <1>2, <1>3
    <2>2. /\ stack[c][j].path = Cut(w, Len(w) + 1 - j) /\ stack[c][j].pc = "mkdir"
          /\ Len(stack[c][j].path) > 1 => Due(c, stack[c][j].path)
      BY <1>1, <1>2, <2>1 DEF InCall
    <2>3. PICK path : path = stack'[c][j].path
      OBVIOUS
    <2>4. path = stack[c][j].path /\ path = Cut(w, Len(w) + 1 - j)
      BY <1>6, <2>2, <2>3
    <2>5. path # Top(c).path
      <3>1. /\ Len(w) + 1 - j \in Int /\ Len(w) + 1 - j <= Len(w) /\ Len(w) + 1 - j >= 0
            /\ Len(w) + 1 - n \in Int /\ Len(w) + 1 - n <= Len(w) /\ Len(w) + 1 - n >= 0
            /\ Len(w) + 1 - j # Len(w) + 1 - n
        <4>1. ASSUME NEW k \in Nat, NEW a \in Nat, NEW b \in Nat, a >= 1, a < b, b < k
              PROVE  /\ k + 1 - a \in Int /\ k + 1 - a <= k /\ k + 1 - a >= 0
                     /\ k + 1 - b \in Int /\ k + 1 - b <= k /\ k + 1 - b >= 0
                     /\ k + 1 - a # k + 1 - b
          BY <4>1
        <4>2. n \in Nat /\ j \in Nat /\ j >= 1 /\ j < n /\ Len(w) \in Nat /\ n < Len(w)
          BY <1>2, <1>3, <2>1
        <4> QED
          BY <4>1, <4>2
      <3>2. Len(path) = Len(w) + 1 - j
        BY <1>3, <2>4, <3>1, CutFacts
      <3>3. Len(Top(c).path) = Len(w) + 1 - n
        BY <1>3, <3>1, CutFacts
      <3> QED
        BY <3>1, <3>2, <3>3
    <2>6. Len(path) > 1 => Due(c, path)'
      <3> SUFFICES ASSUME Due(c, path), path \in DOMAIN maker'
                   PROVE  path \notin before'[c] /\ maker'[path] # c
        BY <1>4, <2>2, <2>4 DEF Due
      <3>1. path \in DOMAIN maker
        BY <2>5 DEF Grows
      <3> QED
        BY <1>4, <3>1 DEF Due, Grows
    <2>7. Len(path) > 1 => Due(c, stack[c][j].path)'
      BY <2>3, <2>6 DEF Due
    <2> QED
      BY <1>6, <2>2, <2>3, <2>7
  <1>11. Parent(Top(c).path)' \in dirs'
    <2>1. Top(c)' = stack'[c][n - 1]
      BY <1>6 DEF Top
    <2>2. Top(c)'.path = Cut(w, Len(w) + 1 - (n - 1))
      BY <1>8, <1>10, <2>1
    <2>3. Parent(Top(c)'.path) = Cut(w, Len(w) - (n - 1))
      BY <1>3, <1>8, <2>2, CutAt
    <2>4. Len(w) - (n - 1) = Len(w) + 1 - n
      BY <1>3
    <2> QED
      BY <1>3, <1>4, <2>3, <2>4 DEF Parent
  <1>12. ~(n - 1 >= Len(w))
    BY <1>3
  <1>13. before[c] \subseteq dirs' /\ dirs' \ before[c] \subseteq DOMAIN maker'
         /\ todo[c] # <<>> /\ result[c] = 0
    BY <1>1 DEF InCall, Grows
  <1>14. n - 1 <= StackLimit
    BY <1>3, StackAssumption
  <1>15. Top(c)'.pc # "parent" => Parent(Top(c)'.path) \in dirs'
    BY <1>11 DEF Parent
  <1> QED
    BY <1>4, <1>6, <1>9, <1>10, <1>12, <1>13, <1>14, <1>15 DEF InCall

\* Every step keeps what is known of the calls in progress.
LEMMA StackStep ==
  ASSUME CoreInv, NEW c \in Callers, Does(c)
  PROVE  StackInv'
  <1>0. TypeInv /\ StackInv /\ Others(c) /\ Grows(c)
    BY GrowStep DEF CoreInv, Does
  <1> SUFFICES ASSUME NEW e \in Callers, stack'[e] # <<>> PROVE InCall(e)'
    BY DEF StackInv
  <1>1. CASE e # c
    <2>1. /\ stack'[e] = stack[e] /\ todo'[e] = todo[e]
          /\ result'[e] = result[e] /\ before'[e] = before[e]
      BY <1>0, <1>1, OthersFacts
    <2>2. stack[e] # <<>> /\ InCall(e)
      BY <1>0, <2>1 DEF StackInv
    <2> QED
      BY <1>0, <1>1, <2>1, <2>2, InCallKept
  <1>2. CASE e = c
    <2>1. CASE Begins(c)
      BY <1>0, <1>2, <2>1, StackBegins
    <2>2. CASE Running(c) /\ (Tests(c, "path") \/ Tests(c, "mkdir"))
      BY <1>2, <2>2, StackTests
    <2>3. CASE Running(c) /\ Descends(c)
      BY <1>2, <2>3, StackDescends
    <2>4. CASE Running(c) /\ Overflows(c)
      <3>1. InCall(c) /\ stack[c] # <<>>
        BY <1>0, <2>4 DEF StackInv, Running
      <3> QED
        BY <1>0, <1>2, <2>4, <3>1, InCallKept DEF Overflows
    <2>5. CASE Running(c) /\ Succeeds(c)
      BY <1>0, <1>2, <2>5, StackSucceeds
    <2>6. CASE Running(c) /\ Fails(c)
      BY <1>2, <2>6 DEF Fails
    <2> QED
      BY <2>1, <2>2, <2>3, <2>4, <2>5, <2>6 DEF Does
  <1> QED
    BY <1>1, <1>2

----------------------------------------------------------------------------
(* Why a call fails *)

\* A directory that mkdir() finds there was made by another thread while the
\* call was running.
LEMMA FailFacts ==
  ASSUME CoreInv, NEW c \in Callers, Running(c), Fails(c)
  PROVE  /\ Top(c).path \in Prefixes(Wanted(c)) /\ Top(c).path \in DOMAIN maker
         /\ maker[Top(c).path] # c /\ Top(c).path \notin before[c]
  <1>0. TypeInv /\ DirInv /\ TodoInv /\ StackInv /\ stack[c] # <<>>
    BY DEF CoreInv, Running
  <1>1. PICK n, w : n = Len(stack[c]) /\ w = Wanted(c)
    OBVIOUS
  <1>2. Top(c).path \in Prefixes(w) /\ Due(c, Top(c).path)
    BY <1>0, <1>1, TopFacts DEF Fails
  <1>3. dirs \ before[c] \subseteq DOMAIN maker
    BY <1>0 DEF StackInv, InCall
  <1> QED
    BY <1>1, <1>2, <1>3 DEF Fails, Due

\* OnlyRacesFail is kept.
LEMMA RaceStep ==
  ASSUME CoreInv, OnlyRacesFail, NEW c \in Callers, Does(c)
  PROVE  OnlyRacesFail'
  <1>0. TypeInv /\ TodoInv /\ Others(c) /\ Grows(c)
    BY GrowStep DEF CoreInv, Does
  <1> SUFFICES ASSUME NEW e \in Callers, result'[e] = -1
               PROVE  \E d \in Prefixes(LastCall(e)'.path) :
                        d \in DOMAIN maker' /\ maker'[d] # e /\ d \notin before'[e]
    BY DEF OnlyRacesFail
  <1>1. CASE e # c
    <2>1. /\ Calls(e)' = Calls(e) /\ todo'[e] = todo[e]
          /\ result'[e] = result[e] /\ before'[e] = before[e]
      BY <1>0, <1>1, OthersFacts
    <2>2. LastCall(e)' = LastCall(e)
      BY <2>1 DEF LastCall
    <2>3. PICK d \in Prefixes(LastCall(e).path) :
            d \in DOMAIN maker /\ maker[d] # e /\ d \notin before[e]
      BY <2>1 DEF OnlyRacesFail
    <2> QED
      BY <1>0, <2>1, <2>2, <2>3 DEF Grows
  <1>2. CASE e = c
    <2>1. Running(c) /\ Fails(c)
      BY <1>2 DEF Does, Begins, Running, Tests, Descends, Overflows, Succeeds
    <2>2. todo[c] # <<>> /\ todo'[c] = Tail(todo[c])
      BY <2>1 DEF Running, Fails
    <2>3. Len(todo[c]) \in Nat \ {0} /\ todo[c] \in Seq(CallSet)
      BY <1>0, <2>2, CallFacts DEF TypeInv
    <2>4. todo'[c] # todo[c]
      <3>1. Len(todo'[c]) = Len(todo[c]) - 1
        BY <2>2, <2>3
      <3> QED
        BY <2>3, <3>1
    <2>5. Made(c)' = Made(c) + 1 /\ Calls(c)' = Calls(c)
      BY <1>0, <2>4, TodoStep, OthersFacts
    <2>6. LastCall(c)' = Calls(c)[Made(c) + 1]
      BY <2>5 DEF LastCall, Made
    <2>7. Wanted(c) = Calls(c)[Made(c) + 1].path
      BY <1>0, <2>2, CallFacts
    <2>8. before' = before /\ maker' = maker
      BY <2>1 DEF Fails
    <2> QED
      BY <1>2, <2>1, <2>6, <2>7, <2>8, FailFacts
  <1> QED
    BY <1>1, <1>2

\* When the stack is full the first directory of the path is missing, or it
\* has no parent.
LEMMA OverflowFacts ==
  ASSUME CoreInv, NEW c \in Callers, Running(c), Overflows(c)
  PROVE  ~Rooted(Wanted(c))
  <1>0. TypeInv /\ DirInv /\ TodoInv /\ StackInv /\ stack[c] # <<>>
    BY DEF CoreInv, Running
  <1>1. PICK n, w : n = Len(stack[c]) /\ w = Wanted(c)
    OBVIOUS
  <1>2. /\ n \in Nat \ {0} /\ w \in Paths /\ Len(w) \in Nat /\ Len(w) <= StackLimit + 1
        /\ Parent(Top(c).path) = Cut(w, Len(w) - n)
    BY <1>0, <1>1, TopFacts
  <1>3. n >= StackLimit /\ Parent(Top(c).path) \notin dirs /\ StackLimit \in Nat
    BY <1>1, StackAssumption DEF Overflows
  <1>4. CASE n >= Len(w)
    BY <1>0, <1>1, <1>4 DEF StackInv, InCall
  <1>5. CASE ~(n >= Len(w))
    <2> SUFFICES ASSUME Len(w) > 1, First(w) \in dirs PROVE FALSE
      BY <1>1 DEF Rooted
    <2>1. Len(w) - n \in Int /\ Len(w) - n = 1
      BY <1>2, <1>3, <1>5
    <2>2. Cut(w, Len(w) - n) = First(w)
      BY <1>2, <2>1, FirstName
    <2> QED
      BY <1>2, <1>3, <2>2
  <1> QED
    BY <1>4, <1>5

\* RecursionEnds is kept.
LEMMA OverflowStep ==
  ASSUME CoreInv, RecursionEnds, NEW c \in Callers, Does(c)
  PROVE  RecursionEnds'
  <1>0. TypeInv /\ DirInv /\ TodoInv /\ Others(c) /\ Grows(c) /\ DirInv'
    BY GrowStep, DirStep DEF CoreInv, Does
  <1>1. ASSUME NEW e \in Callers, NEW d \in MadeBy(e)' PROVE Len(d) > 1
    BY <1>0, <1>1 DEF MadeBy, DirInv
  <1>2. ASSUME NEW e \in Callers, proc'[e[1]] = "overflow"
        PROVE  \E t \in Threads : \E i \in DOMAIN Calls(<<e[1], t>>)' :
                 \/ Len(Calls(<<e[1], t>>)'[i].path) < 2
                 \/ SubSeq(Calls(<<e[1], t>>)'[i].path, 1, 1) \notin dirs'
    <2>1. ASSUME NEW t \in Threads, NEW i \in DOMAIN Calls(<<e[1], t>>),
                 \/ Len(Calls(<<e[1], t>>)[i].path) < 2
                 \/ SubSeq(Calls(<<e[1], t>>)[i].path, 1, 1) \notin dirs
          PROVE  /\ i \in DOMAIN Calls(<<e[1], t>>)'
                 /\ \/ Len(Calls(<<e[1], t>>)'[i].path) < 2
                    \/ SubSeq(Calls(<<e[1], t>>)'[i].path, 1, 1) \notin dirs'
      <3>1. <<e[1], t>> \in Callers
        BY DEF Callers
      <3>2. PICK s : s = Calls(<<e[1], t>>)
        OBVIOUS
      <3>3. Calls(<<e[1], t>>)' = s /\ CallList(s)
        BY <1>0, <3>1, <3>2, OthersFacts, CallsFacts DEF TypeInv
      <3>4. s[i] \in CallSet /\ i \in DOMAIN s
        BY <2>1, <3>2, <3>3 DEF CallList
      <3>5. PICK path : path = s[i].path
        OBVIOUS
      <3>6. path \in Paths
        BY <3>4, <3>5 DEF CallSet
      <3>7. Len(path) < 2 \/ First(path) \notin dirs'
        <4>1. CASE Len(path) < 2
          BY <4>1
        <4>2. CASE ~(Len(path) < 2) /\ First(path) \notin dirs
          <5>1. Len(path) > 1
            BY <3>6, <4>2 DEF Paths
          <5>2. ~(Len(First(path)) > 1)
            BY <3>6, <5>1, FirstName
          <5>3. First(path) \in dirs' => Len(First(path)) > 1
            BY <1>0, <4>2 DEF Grows, DirInv
          <5> QED
            BY <5>2, <5>3
        <4> QED
          BY <2>1, <3>2, <3>5, <4>1, <4>2 DEF First
      <3> QED
        BY <3>3, <3>4, <3>5, <3>7 DEF First
    <2>2. CASE proc[e[1]] = "overflow"
      BY <2>1, <2>2 DEF RecursionEnds
    <2>3. CASE proc[e[1]] # "overflow"
      <3>1. e[1] \in Processes /\ c[1] \in Processes /\ c[2] \in Threads
            /\ c = <<c[1], c[2]>>
        BY DEF Callers
      <3>2. e[1] = c[1]
        BY <1>0, <1>2, <2>3, <3>1, OthersFacts
      <3>3. Running(c) /\ Overflows(c)
        <4>1. proc'[c[1]] = "overflow" /\ proc[c[1]] # "overflow"
          BY <1>2, <2>3, <3>2
        <4> QED
          BY <4>1 DEF Does, Begins, Tests, Descends, Succeeds, Fails
      <3>4. ~Rooted(Wanted(c)) /\ todo[c] # <<>>
        BY <3>3, OverflowFacts DEF Running
      <3>5. PICK i : i = Made(c) + 1
        OBVIOUS
      <3>6. i \in DOMAIN Calls(c) /\ Wanted(c) = Calls(c)[i].path /\ Wanted(c) \in Paths
        BY <1>0, <3>4, <3>5, CallFacts
      <3>7. Len(Wanted(c)) < 2 \/ SubSeq(Wanted(c), 1, 1) \notin dirs
        BY <3>4, <3>6 DEF Rooted, First, Paths
      <3> QED
        BY <2>1, <3>1, <3>2, <3>6, <3>7
    <2> QED
      BY <2>2, <2>3
  <1> QED
    BY <1>1, <1>2 DEF RecursionEnds

----------------------------------------------------------------------------
(* The calls that were made *)

\* A thread that does something has a call to make, and the ones before it
\* are not the last of its calls.
LEMMA MadeFacts ==
  ASSUME CoreInv, DoneInv, NEW c \in Callers, Does(c)
  PROVE  /\ todo[c] # <<>> /\ Made(c) \in Nat
         /\ \A i \in 1..Made(c) : Calls(c)[i].path \in dirs
  <1>0. TypeInv /\ TodoInv /\ proc[c[1]] = "running"
    BY DEF CoreInv, Does
  <1>1. todo[c] # <<>>
    BY DEF Does, Begins, Running
  <1>2. Made(c) \in Nat /\ Made(c) + 1 \in 1..Len(Calls(c)) /\ CallList(Calls(c))
    BY <1>0, <1>1, CallFacts, CallsFacts DEF TypeInv
  <1>3. ASSUME NEW i \in 1..Made(c) PROVE Calls(c)[i].path \in dirs
    <2>1. i \in 1..Len(Calls(c)) /\ i # Len(Calls(c))
      BY <1>2
    <2>2. Calls(c)[i].onfail # "ignore"
      BY <1>2, <2>1 DEF CallList
    <2> QED
      BY <1>0, <2>2 DEF DoneInv
  <1> QED
    BY <1>1, <1>2, <1>3

\* DoneInv is kept.
LEMMA DoneStep ==
  ASSUME CoreInv, DoneInv, NEW c \in Callers, Does(c)
  PROVE  DoneInv'
  <1>0. /\ TypeInv /\ DirInv /\ TodoInv /\ StackInv /\ Others(c) /\ Grows(c)
        /\ proc[c[1]] = "running" /\ dirs \subseteq dirs'
    BY GrowStep DEF CoreInv, Does, Grows
  <1> SUFFICES ASSUME NEW e \in Callers, proc'[e[1]] = "running", NEW i \in 1..Made(e)'
               PROVE  \/ Calls(e)'[i].path \in dirs'
                      \/ Calls(e)'[i].onfail = "ignore" /\ result'[e] = -1
    BY DEF DoneInv
  <1>1. Calls(e)' = Calls(e)
    BY <1>0, OthersFacts
  <1>2. CASE e # c
    <2>1. Made(e)' = Made(e) /\ result'[e] = result[e]
      BY <1>0, <1>2, OthersFacts, TodoStep
    <2>2. e[1] \in Processes
      BY DEF Callers
    <2>3. proc[e[1]] = "running"
      BY <1>0, <2>2, OthersFacts
    <2> QED
      BY <1>0, <1>1, <2>1, <2>3 DEF DoneInv
  <1>3. CASE e = c /\ i \in 1..Made(c)
    BY <1>0, <1>1, <1>3, MadeFacts
  <1>4. CASE e = c /\ i \notin 1..Made(c)
    <2>1. todo[c] # <<>> /\ Made(c) \in Nat
      BY MadeFacts
    <2>2. Made(c)' = Made(c) \/ Made(c)' = Made(c) + 1
      BY TodoStep
    <2>3. Made(c)' # Made(c) /\ i = Made(c) + 1
      BY <1>4, <2>1, <2>2
    <2>4. todo'[c] # todo[c]
      BY <2>3, TodoStep
    <2>5. Wanted(c) = Calls(c)[i].path /\ Head(todo[c]) = Calls(c)[i]
          /\ Head(todo[c]).onfail \in {"assert", "exit", "ignore"}
      BY <1>0, <2>1, <2>3, CallFacts
    <2>6. CASE Running(c) /\ Succeeds(c)
      <3>1. Len(stack[c]) = 1 /\ Top(c).path \in dirs' /\ stack[c] # <<>>
        BY <2>4, <2>6 DEF Succeeds, Running
      <3>2. PICK n, w : n = Len(stack[c]) /\ w = Wanted(c)
        OBVIOUS
      <3>3. w \in Paths /\ Len(w) \in Nat /\ Top(c).path = Cut(w, Len(w) + 1 - n)
        BY <1>0, <3>1, <3>2, TopFacts
      <3>4. Len(w) + 1 - n = Len(w)
        BY <3>1, <3>2, <3>3
      <3>5. Top(c).path = w
        BY <3>3, <3>4, CutWhole
      <3> QED
        BY <1>1, <1>4, <2>5, <3>1, <3>2, <3>5
    <2>7. CASE Running(c) /\ Fails(c)
      <3>1. Head(todo[c]).onfail = "ignore" /\ result'[c] = -1
        BY <1>4, <2>5, <2>7 DEF Fails
      <3> QED
        BY <1>1, <1>4, <2>5, <3>1
    <2> QED
      BY <2>4, <2>6, <2>7 DEF Does, Begins, Tests, Descends, Overflows
  <1> QED
    BY <1>2, <1>3, <1>4

----------------------------------------------------------------------------
(* A thread is never in the way of another one of its process *)

\* The subdirectories of the picture and the video thread are two.
LEMMA ThreadPaths ==
  ASSUME NEW c \in Callers, NEW m \in Callers, c[2] # "main", m[2] # "main",
         c[2] # m[2]
  PROVE  /\ ThreadPath(c) \in Paths /\ ThreadPath(m) \in Paths
         /\ Len(ThreadPath(c)) = Len(ThreadPath(m)) /\ ThreadPath(c) # ThreadPath(m)
         /\ Parent(ThreadPath(c)) = ClientRepo
  <1>1. ClientRepo \in Paths /\ "jpg" \in Names /\ "flv" \in Names
    BY PathsAssumption
  <1> DEFINE a == Sub(ClientRepo, "jpg")
             b == Sub(ClientRepo, "flv")
  <1>2. /\ a \in Paths /\ b \in Paths /\ Len(a) = Len(ClientRepo) + 1
        /\ Len(b) = Len(ClientRepo) + 1 /\ Parent(a) = ClientRepo
        /\ Parent(b) = ClientRepo
        /\ a[Len(ClientRepo) + 1] = "jpg" /\ b[Len(ClientRepo) + 1] = "flv"
    BY <1>1, SubFacts
  <1> HIDE DEF a, b
  <1>3. a # b /\ Len(a) = Len(b)
    BY <1>2
  <1>4. c[2] \in {"picture", "video"} /\ m[2] \in {"picture", "video"}
    BY DEF Callers, Threads
  <1>5. \/ ThreadPath(c) = a /\ ThreadPath(m) = b
        \/ ThreadPath(c) = b /\ ThreadPath(m) = a
    BY <1>4 DEF ThreadPath, a, b
  <1> QED
    BY <1>2, <1>3, <1>5

\* What the threads other than main want
LEMMA ThreadFacts ==
  ASSUME TypeInv, NEW m \in Callers, m[2] # "main"
  PROVE  \A i \in DOMAIN Calls(m) : Calls(m)[i].path = ThreadPath(m)
  <1> SUFFICES ASSUME NEW i \in DOMAIN Calls(m) PROVE Calls(m)[i].path = ThreadPath(m)
    OBVIOUS
  <1>1. Calls(m) # <<>>
    OBVIOUS
  <1>2. PICK call : call = Call(ThreadPath(m), "assert")
    OBVIOUS
  <1>3. Calls(m) = <<call>>
    BY <1>1, <1>2, CallsFacts DEF TypeInv
  <1>4. i = 1
    BY <1>3
  <1> QED
    BY <1>2, <1>3, <1>4 DEF Call

\* A call fails only where another process has made a directory.
LEMMA FailRival ==
  ASSUME CoreInv, RivalInv, NEW c \in Callers, Running(c), Fails(c)
  PROVE  Rival(c[1])
  <1>0. /\ TypeInv /\ DirInv /\ TodoInv /\ StackInv /\ stack[c] # <<>>
        /\ todo[c] # <<>>
    BY DEF CoreInv, Running
  <1>1. PICK d : d = Top(c).path
    OBVIOUS
  <1>2. /\ d \in DOMAIN maker /\ maker[d] # c /\ d \notin before[c]
        /\ d \in Prefixes(Wanted(c))
    BY <1>1, FailFacts
  <1>3. PICK m \in Callers : m = maker[d]
    BY <1>0, <1>2 DEF DirInv
  <1>4. Asked(m, d) /\ m # c
    BY <1>0, <1>2, <1>3 DEF DirInv
  <1>5. c = <<c[1], c[2]>> /\ m = <<m[1], m[2]>>
    BY DEF Callers
  <1>6. CASE m[1] # c[1]
    BY <1>2, <1>3, <1>6 DEF Rival
  <1>7. CASE m[1] = c[1] /\ c[2] = "main"
    <2>1. m[2] # "main"
      BY <1>4, <1>5, <1>7
    <2>2. todo[MainOf(m)] = <<>>
      BY <1>2, <1>3, <2>1 DEF RivalInv
    <2>3. MainOf(m) = c
      BY <1>5, <1>7 DEF MainOf
    <2> QED
      BY <1>0, <2>2, <2>3
  <1>8. CASE m[1] = c[1] /\ c[2] # "main" /\ m[2] = "main"
    <2>1. MainOf(c) = m
      BY <1>5, <1>8 DEF MainOf
    <2>2. d \in before[c]
      BY <1>0, <1>2, <1>3, <1>8, <2>1 DEF RivalInv
    <2> QED
      BY <1>2, <2>2
  <1>9. CASE m[1] = c[1] /\ c[2] # "main" /\ m[2] # "main"
    <2>1. c[2] # m[2]
      BY <1>4, <1>5, <1>9
    <2>2. PICK n, w : n = Len(stack[c]) /\ w = Wanted(c)
      OBVIOUS
    <2>3. /\ n \in Nat \ {0} /\ w \in Paths /\ Len(w) \in Nat
          /\ d = Cut(w, Len(w) + 1 - n)
      BY <1>0, <1>1, <2>2, TopFacts
    <2>4. CASE n > 1
      BY <1>0, <1>9, <2>2, <2>4 DEF RivalInv
    <2>5. CASE n = 1
      <3>1. Len(w) + 1 - n = Len(w)
        BY <2>3, <2>5
      <3>2. d = w
        BY <2>3, <3>1, CutWhole
      <3>3. w = ThreadPath(c)
        BY <1>0, <1>9, <2>2, CallFacts, ThreadFacts
      <3>4. d \in Prefixes(ThreadPath(m))
        BY <1>0, <1>4, <1>9, ThreadFacts DEF Asked
      <3>5. d = ThreadPath(m)
        BY <1>9, <2>1, <3>2, <3>3, <3>4, ThreadPaths, PrefixFacts
      <3> QED
        BY <1>9, <2>1, <3>2, <3>3, <3>5, ThreadPaths
    <2> QED
      BY <2>3, <2>4, <2>5
  <1> QED
    BY <1>6, <1>7, <1>8, <1>9

\* The repository of the client is missing for its threads only where another
\* process has made a directory.
LEMMA ParentRival ==
  ASSUME CoreInv, DoneInv, RivalInv, NEW c \in Callers, c[2] # "main",
         proc[c[1]] = "running", Running(c), Descends(c), Len(stack[c]) = 1
  PROVE  Rival(c[1])
  <1>0. /\ TypeInv /\ DirInv /\ TodoInv /\ StackInv /\ stack[c] # <<>>
        /\ todo[c] # <<>> /\ todo[MainOf(c)] = <<>>
    BY DEF CoreInv, Running, RivalInv
  <1>1. PICK n, w : n = Len(stack[c]) /\ w = Wanted(c)
    OBVIOUS
  <1>2. w \in Paths /\ Parent(Top(c).path) = Cut(w, Len(w) - n) /\ n = 1
    BY <1>0, <1>1, TopFacts
  <1>3. Parent(w) \notin dirs
    BY <1>2, CutWhole DEF Descends
  <1>4. Made(c) + 1 \in DOMAIN Calls(c) /\ w = Calls(c)[Made(c) + 1].path
    BY <1>0, <1>1, CallFacts
  <1>5. w = Sub(ClientRepo, "jpg") \/ w = Sub(ClientRepo, "flv")
    BY <1>0, <1>4, ThreadFacts DEF ThreadPath
  <1>6. ClientRepo \notin dirs
    <2>1. ClientRepo \in Paths /\ "jpg" \in Names /\ "flv" \in Names
      BY PathsAssumption
    <2>2. /\ Parent(Sub(ClientRepo, "jpg")) = ClientRepo
          /\ Parent(Sub(ClientRepo, "flv")) = ClientRepo
      BY <2>1, SubFacts
    <2> QED
      BY <1>3, <1>5, <2>2
  <1>7. PICK m \in Callers : m = MainOf(c)
    BY DEF MainOf, Callers, Threads
  <1>8. m[1] = c[1] /\ m = <<c[1], "main">> /\ c[1] \in Processes
    BY <1>7 DEF MainOf, Callers
  <1>9. PICK a, b : a = Call(DatabaseRepo, "assert") /\ b = Call(ClientRepo, "ignore")
    OBVIOUS
  <1>10. Calls(m) = <<a, b>>
    BY <1>0, <1>4, <1>7, <1>9, CallsFacts DEF TypeInv
  <1>11. Made(m) = 2
    BY <1>0, <1>7, <1>10 DEF Made
  <1>12. Calls(m)[2] = b /\ 2 \in 1..Made(m)
    BY <1>10, <1>11
  <1>13. b.path = ClientRepo
    BY <1>9 DEF Call
  <1>14. proc[m[1]] = "running"
    BY <1>8
  <1>15. result[m] = -1
    BY <1>6, <1>12, <1>13, <1>14 DEF DoneInv
  <1> QED
    BY <1>8, <1>15 DEF RivalInv

\* A directory that another process made stays one.
LEMMA RivalKept ==
  ASSUME NEW c \in Callers, Grows(c), NEW p, Rival(p)
  PROVE  Rival(p)'
  BY DEF Rival, Grows

\* RivalInv is kept.
LEMMA RivalStep ==
  ASSUME CoreInv, DoneInv, RivalInv, NEW c \in Callers, Does(c)
  PROVE  RivalInv'
  <1>0. /\ TypeInv /\ DirInv /\ StackInv /\ Others(c) /\ Grows(c) /\ todo[c] # <<>>
        /\ proc[c[1]] = "running"
    BY GrowStep, MadeFacts DEF CoreInv, Does
  <1>1. c[1] \in Processes /\ c = <<c[1], c[2]>>
    BY DEF Callers
  <1>2. AbortNeedsRival'
    <2> SUFFICES ASSUME NEW p \in Processes, proc'[p] \in {"aborted", "exited"}
                 PROVE  Rival(p)'
      BY DEF AbortNeedsRival, Rival
    <2>1. CASE proc[p] \in {"aborted", "exited"}
      <3>1. Rival(p)
        BY <2>1 DEF RivalInv, AbortNeedsRival, Rival
      <3> QED
        BY <1>0, <3>1, RivalKept
    <2>2. CASE proc[p] \notin {"aborted", "exited"}
      <3>1. p = c[1]
        BY <1>0, <2>2, OthersFacts
      <3>2. Running(c) /\ Fails(c)
        <4>1. proc'[c[1]] \in {"aborted", "exited"} /\ proc'[c[1]] # proc[c[1]]
          BY <2>2, <3>1
        <4> QED
          BY <4>1 DEF Does, Begins, Tests, Descends, Overflows, Succeeds
      <3> QED
        BY <1>0, <3>1, <3>2, FailRival, RivalKept
    <2> QED
      BY <2>1, <2>2
  <1>3. ASSUME NEW p \in Processes, result'[<<p, "main">>] = -1
        PROVE  Rival(p)'
    <2>1. <<p, "main">> \in Callers
      BY DEF Callers, Threads
    <2>2. CASE c # <<p, "main">>
      <3>1. result[<<p, "main">>] = -1
        BY <1>0, <1>3, <2>1, <2>2, OthersFacts
      <3> QED
        BY <1>0, <3>1, RivalKept DEF RivalInv
    <2>3. CASE c = <<p, "main">>
      <3>1. result'[c] = -1 /\ p = c[1]
        BY <1>3, <2>3
      <3>2. Running(c) /\ Fails(c)
        BY <3>1 DEF Does, Begins, Running, Tests, Descends, Overflows, Succeeds
      <3> QED
        BY <1>0, <3>1, <3>2, FailRival, RivalKept
    <2> QED
      BY <2>2, <2>3
  <1>4. ASSUME NEW e \in Callers, todo[MainOf(e)] = <<>>
        PROVE  todo'[MainOf(e)] = <<>> /\ MainOf(e) # c
    <2>1. MainOf(e) \in Callers
      BY DEF MainOf, Callers, Threads
    <2> QED
      BY <1>0, <1>4, <2>1, OthersFacts
  <1>5. ASSUME NEW d \in DOMAIN maker', NEW e \in Callers,
               maker'[d] = e, e[2] # "main"
        PROVE  todo'[MainOf(e)] = <<>>
    <2>1. todo[MainOf(e)] = <<>>
      <3>1. CASE d \in DOMAIN maker
        BY <1>0, <1>5, <3>1 DEF RivalInv, Grows
      <3>2. CASE d \notin DOMAIN maker
        <4>1. e = c /\ stack[c] # <<>>
          BY <1>0, <1>5, <3>2 DEF Grows
        <4> QED
          BY <1>5, <4>1 DEF RivalInv
      <3> QED
        BY <3>1, <3>2
    <2> QED
      BY <1>4, <2>1
  <1>6. ASSUME NEW e \in Callers, e[2] # "main", stack'[e] # <<>>,
               \/ stack[e] # <<>> /\ before'[e] = before[e]
               \/ e = c /\ Begins(c)
        PROVE  /\ todo'[MainOf(e)] = <<>>
               /\ \A d \in DOMAIN maker' : maker'[d] = MainOf(e) => d \in before'[e]
    <2>1. CASE stack[e] # <<>> /\ before'[e] = before[e]
      <3>1. todo[MainOf(e)] = <<>>
        BY <1>6, <2>1 DEF RivalInv
      <3>2. \A d \in DOMAIN maker' : maker'[d] = MainOf(e) =>
              d \in DOMAIN maker /\ maker[d] = MainOf(e)
        BY <1>0, <1>4, <3>1 DEF Grows
      <3> QED
        BY <1>4, <1>6, <2>1, <3>1, <3>2 DEF RivalInv
    <2>2. CASE e = c /\ Begins(c)
      <3>1. todo[MainOf(e)] = <<>>
        BY <1>6, <2>2 DEF Begins, Created, MainOf
      <3>2. before'[e] = dirs /\ maker' = maker
        BY <2>2 DEF Begins
      <3>3. DOMAIN maker \subseteq dirs
        BY <1>0 DEF DirInv
      <3> QED
        BY <1>4, <3>1, <3>2, <3>3
    <2> QED
      BY <1>6, <2>1, <2>2
  <1>7. ASSUME NEW e \in Callers, e[2] # "main", stack'[e] # <<>>
        PROVE  /\ todo'[MainOf(e)] = <<>>
               /\ \A d \in DOMAIN maker' : maker'[d] = MainOf(e) => d \in before'[e]
               /\ Len(stack'[e]) > 1 => Rival(e[1])'
    <2>1. CASE e # c
      <3>1. stack'[e] = stack[e] /\ before'[e] = before[e]
        BY <1>0, <2>1, OthersFacts
      <3>2. Len(stack[e]) > 1 => Rival(e[1])
        BY <1>7, <3>1 DEF RivalInv
      <3>3. Len(stack'[e]) > 1 => Rival(e[1])'
        BY <1>0, <3>1, <3>2, RivalKept
      <3> QED
        BY <1>6, <1>7, <3>1, <3>3
    <2>2. CASE e = c /\ Begins(c)
      <3>1. Len(stack'[c]) = 1
        BY <2>2 DEF Begins
      <3> QED
        BY <1>6, <1>7, <2>2, <3>1
    <2>3. CASE e = c /\ Running(c) /\ stack'[c] # <<>> /\ ~Begins(c)
      <3>1. stack[c] # <<>> /\ before'[c] = before[c]
        BY <2>3 DEF Does, Running, Tests, Descends, Overflows, Succeeds, Fails
      <3>2. Len(stack[c]) > 1 => Rival(c[1])
        BY <1>7, <2>3, <3>1 DEF RivalInv
      <3>3. Len(stack'[c]) > 1 => Len(stack[c]) > 1 \/ Descends(c)
        <4>1. stack[c] \in Seq(FrameSet)
          BY <1>0 DEF TypeInv
        <4>2. CASE Tests(c, "path") \/ Tests(c, "mkdir")
          <5>1. Len(stack'[c]) = Len(stack[c])
            BY <4>1, <4>2 DEF Tests, WithTop
          <5> QED
            BY <5>1
        <4>3. CASE Overflows(c)
          BY <4>3 DEF Overflows
        <4>4. CASE Succeeds(c)
          <5>1. Len(stack'[c]) = Len(stack[c]) - 1
            BY <3>1, <4>1, <4>4 DEF Succeeds
          <5> QED
            BY <4>1, <5>1
        <4>5. CASE Fails(c)
          BY <2>3, <4>5 DEF Fails
        <4> QED
          BY <2>3, <4>2, <4>3, <4>4, <4>5 DEF Does
      <3>4. Descends(c) => Len(stack[c]) > 1 \/ Len(stack[c]) = 1
        <4>1. stack[c] \in Seq(FrameSet)
          BY <1>0 DEF TypeInv
        <4>2. Len(stack[c]) \in Nat \ {0}
          BY <3>1, <4>1
        <4>3. \A n \in Nat \ {0} : n > 1 \/ n = 1
          OBVIOUS
        <4> QED
          BY <4>2, <4>3
      <3>5. Descends(c) => Rival(c[1])
        BY <1>0, <1>7, <2>3, <3>2, <3>4, ParentRival
      <3>6. Len(stack'[c]) > 1 => Rival(c[1])'
        BY <1>0, <3>2, <3>3, <3>5, RivalKept
      <3> QED
        BY <1>6, <1>7, <2>3, <3>1, <3>6
    <2> QED
      BY <1>7, <2>1, <2>2, <2>3 DEF Does
  <1> QED
    BY <1>2, <1>3, <1>5, <1>7 DEF RivalInv, Rival, MainOf

----------------------------------------------------------------------------
(* The theorems *)

\* Every step keeps the invariant.
LEMMA RepoStep == RepoInv /\ [Next]_vars => RepoInv'
  <1> SUFFICES ASSUME RepoInv, [Next]_vars PROVE RepoInv'
    OBVIOUS
  <1>1. /\ TypeInv /\ DirInv /\ TodoInv /\ StackInv /\ DoneInv /\ RivalInv
        /\ OnlyRacesFail /\ RecursionEnds /\ CoreInv
    BY DEF RepoInv, CoreInv
  <1>2. CASE Next
    <2>1. PICK c \in Callers : Begin(c) \/ ThreadStep(c)
      BY <1>2 DEF Next
    <2>2. Does(c)
      BY <1>1, <2>1, StepDoes
    <2>3. TypeInv' /\ DirInv' /\ TodoInv' /\ StackInv'
      BY <1>1, <2>2, TypeStep, DirStep, TodoStep, StackStep
    <2>4. DoneInv' /\ RivalInv' /\ OnlyRacesFail' /\ RecursionEnds'
      BY <1>1, <2>2, DoneStep, RivalStep, RaceStep, OverflowStep
    <2> QED
      BY <2>3, <2>4 DEF RepoInv
  <1>3. CASE UNCHANGED vars
    <2>1. /\ role' = role /\ dirs' = dirs /\ maker' = maker /\ proc' = proc
          /\ todo' = todo /\ stack' = stack /\ result' = result /\ before' = before
      BY <1>3 DEF vars
    <2>2. \A e : Calls(e)' = Calls(e)
      BY <2>1 DEF Calls, MainCalls
    <2>3. \A e : Made(e)' = Made(e)
      BY <2>1, <2>2 DEF Made
    <2>4. TypeInv' /\ TodoInv' /\ DoneInv'
      BY <1>1, <2>1, <2>2, <2>3 DEF TypeInv, TodoInv, DoneInv
    <2>5. DirInv'
      BY <1>1, <2>1, <2>2 DEF DirInv, Asked
    <2>6. StackInv'
      <3>1. \A e : InCall(e)' = InCall(e)
        BY <2>1 DEF InCall, Wanted, Rooted, Due, Top
      <3> QED
        BY <1>1, <2>1, <3>1 DEF StackInv
    <2>7. RivalInv'
      BY <1>1, <2>1 DEF RivalInv, AbortNeedsRival, Rival, MainOf
    <2>8. OnlyRacesFail'
      BY <1>1, <2>1, <2>2 DEF OnlyRacesFail, LastCall
    <2>9. RecursionEnds'
      BY <1>1, <2>1, <2>2 DEF RecursionEnds, MadeBy
    <2> QED
      BY <2>4, <2>5, <2>6, <2>7, <2>8, <2>9 DEF RepoInv
  <1> QED
    BY <1>2, <1>3

\* The invariant holds in every state, whatever the processes, repositories
\* and file systems.
THEOREM RepoInvariant == Spec => []RepoInv
  BY RepoInit, RepoStep, PTL DEF Spec

\* test_and_mkdir() returns -1 only because another thread made one of the
\* directories of the path while the call was running.
THEOREM FailureIsARace == Spec => []OnlyRacesFail
  <1>1. RepoInv => OnlyRacesFail
    BY DEF RepoInv
  <1> QED
    BY <1>1, RepoInvariant, PTL

\* A process aborts or exits on a directory only where another process made
\* one: its own main, picture and video thread are never in each other's way.
THEOREM AbortsNeedARival == Spec => []AbortNeedsRival
  <1>1. RepoInv => AbortNeedsRival
    BY DEF RepoInv, RivalInv
  <1> QED
    BY <1>1, RepoInvariant, PTL

\* The recursion ends where the first directory of a path of two names or
\* more is there, and no directory is made right under /.
THEOREM RecursionHasAnEnd == Spec => []RecursionEnds
  <1>1. RepoInv => RecursionEnds
    BY DEF RepoInv
  <1> QED
    BY <1>1, RepoInvariant, PTL

\* A call that returned 0 leaves the directory and its ancestors there.
THEOREM CallsMakePaths == Spec => []CallMakesPath
  <1>1. RepoInv => CallMakesPath
    <2> SUFFICES ASSUME RepoInv, NEW c \in Callers, proc[c[1]] = "running",
                        NEW i \in 1..(Len(Calls(c)) - Len(todo[c]))
                 PROVE  \/ Prefixes(Calls(c)[i].path) \subseteq dirs
                        \/ Calls(c)[i].onfail = "ignore" /\ result[c] = -1
      BY DEF CallMakesPath
    <2>1. DoneInv /\ DirInv
      BY DEF RepoInv
    <2>2. i \in 1..Made(c)
      BY DEF Made
    <2> QED
      BY <2>1, <2>2 DEF DoneInv, DirInv
  <1> QED
    BY <1>1, RepoInvariant, PTL

----------------------------------------------------------------------------
(* The calls end                                                           *)

\* The steps that thread c has at most left in its call: on the way up the
\* path one for each activation that fits on the stack, on the way down one
\* for each activation
Left(c) ==
    LET n == Len(stack[c]) IN
    IF stack[c] = <<>> THEN 2 * StackLimit + 2
    ELSE CASE Top(c).pc = "parent" -> 2 * StackLimit + 2 - n
           [] Top(c).pc = "path" -> n + 1
           [] OTHER -> n

\* A step of c brings its process to a stop, or c to the end of the call,
\* or c nearer to it.
Advances(c) ==
    /\ proc[c[1]] = "running"
    /\ \/ proc'[c[1]] # "running"
       \/ Len(todo'[c]) = Len(todo[c]) - 1
       \/ todo'[c] = todo[c] /\ Left(c)' < Left(c)

\* Nobody else is set back.
OthersStay(c) ==
    /\ \A d \in Callers : d # c => todo'[d] = todo[d] /\ Left(d)' = Left(d)
    /\ \A p \in Processes : proc[p] # "running" => proc'[p] = proc[p]

\* What is left of a call, by what its thread is doing
LEMMA LeftFacts ==
  ASSUME CoreInv, NEW c \in Callers
  PROVE  /\ Len(stack[c]) \in Nat /\ Len(stack[c]) <= StackLimit
         /\ stack[c] = <<>> => Left(c) = 2 * StackLimit + 2
         /\ stack[c] # <<>> =>
              /\ Len(stack[c]) >= 1
              /\ Top(c).pc \in {"parent", "path", "mkdir"}
              /\ Top(c).pc = "parent" => Left(c) = 2 * StackLimit + 2 - Len(stack[c])
              /\ Top(c).pc = "path" => Left(c) = Len(stack[c]) + 1
              /\ Top(c).pc = "mkdir" => Left(c) = Len(stack[c])
         /\ Left(c) \in 1..(2 * StackLimit + 2)
  <1>0. TypeInv /\ DirInv /\ TodoInv /\ StackInv /\ StackLimit \in Nat \ {0}
    BY StackAssumption DEF CoreInv
  <1>1. CASE stack[c] = <<>>
    <2>1. Left(c) = 2 * StackLimit + 2 /\ Len(stack[c]) = 0
      BY <1>1 DEF Left
    <2> QED
      BY <1>0, <1>1, <2>1
  <1>2. CASE stack[c] # <<>>
    <2>1. /\ Len(stack[c]) \in Nat \ {0} /\ Len(stack[c]) <= StackLimit
          /\ Top(c) \in FrameSet
      BY <1>0, <1>2, TopFacts
    <2>2. Top(c).pc \in {"parent", "path", "mkdir"}
      BY <2>1 DEF FrameSet
    <2>3. /\ Top(c).pc = "parent" => Left(c) = 2 * StackLimit + 2 - Len(stack[c])
          /\ Top(c).pc = "path" => Left(c) = Len(stack[c]) + 1
          /\ Top(c).pc = "mkdir" => Left(c) = Len(stack[c])
      BY <1>2 DEF Left
    <2>4. Left(c) \in 1..(2 * StackLimit + 2)
      <3>1. ASSUME NEW n \in Nat, NEW l \in Nat, n # 0, n <= l
            PROVE  /\ 2 * l + 2 - n \in 1..(2 * l + 2)
                   /\ n + 1 \in 1..(2 * l + 2) /\ n \in 1..(2 * l + 2)
        BY <3>1
      <3>2. /\ Len(stack[c]) \in Nat /\ StackLimit \in Nat /\ Len(stack[c]) # 0
            /\ Len(stack[c]) <= StackLimit
        BY <1>0, <2>1
      <3>3. /\ 2 * StackLimit + 2 - Len(stack[c]) \in 1..(2 * StackLimit + 2)
            /\ Len(stack[c]) + 1 \in 1..(2 * StackLimit + 2)
            /\ Len(stack[c]) \in 1..(2 * StackLimit + 2)
        BY <3>1, <3>2
      <3> QED
        BY <2>2, <2>3, <3>3
    <2> QED
      BY <1>2, <2>1, <2>2, <2>3, <2>4
  <1> QED
    BY <1>1, <1>2

\* The activation below the one that runs is waiting to make its directory.
LEMMA BelowTop ==
  ASSUME CoreInv, NEW c \in Callers, stack[c] # <<>>, Len(stack[c]) # 1
  PROVE  stack[c][Len(stack[c]) - 1].pc = "mkdir"
  <1>1. InCall(c) /\ stack[c] \in Seq(FrameSet)
    BY DEF CoreInv, StackInv, TypeInv
  <1>2. Len(stack[c]) \in Nat \ {0}
    BY <1>1
  <1>3. Len(stack[c]) - 1 \in 1..Len(stack[c]) /\ Len(stack[c]) - 1 < Len(stack[c])
    <2>1. \A n \in Nat : n # 0 /\ n # 1 => n - 1 \in 1..n /\ n - 1 < n
      OBVIOUS
    <2> QED
      BY <1>2, <2>1
  <1> QED
    BY <1>1, <1>3 DEF InCall

\* The next state's side of Left
LEMMA NextLeft ==
  ASSUME NEW c \in Callers
  PROVE  /\ stack'[c] # <<>> /\ Top(c)'.pc = "parent" =>
              Left(c)' = 2 * StackLimit + 2 - Len(stack'[c])
         /\ stack'[c] # <<>> /\ Top(c)'.pc = "path" => Left(c)' = Len(stack'[c]) + 1
         /\ stack'[c] # <<>> /\ Top(c)'.pc = "mkdir" => Left(c)' = Len(stack'[c])
         /\ Top(c)' = stack'[c][Len(stack'[c])]
         /\ \A d \in Callers : stack'[d] = stack[d] => Left(d)' = Left(d)
  <1>1. /\ stack'[c] # <<>> /\ Top(c)'.pc = "parent" =>
              Left(c)' = 2 * StackLimit + 2 - Len(stack'[c])
        /\ stack'[c] # <<>> /\ Top(c)'.pc = "path" => Left(c)' = Len(stack'[c]) + 1
        /\ stack'[c] # <<>> /\ Top(c)'.pc = "mkdir" => Left(c)' = Len(stack'[c])
    BY DEF Left
  <1>2. Top(c)' = stack'[c][Len(stack'[c])]
    BY DEF Top
  <1>3. ASSUME NEW d \in Callers, stack'[d] = stack[d] PROVE Left(d)' = Left(d)
    BY <1>3 DEF Left, Top
  <1> QED
    BY <1>1, <1>2, <1>3

\* Every step of a thread brings its call nearer to the end.
LEMMA AdvanceStep ==
  ASSUME CoreInv, NEW c \in Callers, Does(c)
  PROVE  Advances(c) /\ OthersStay(c)
  <1>0. TypeInv /\ Others(c) /\ proc[c[1]] = "running" /\ StackLimit \in Nat \ {0}
        /\ c[1] \in Processes
    BY StackAssumption DEF CoreInv, Does, Callers
  <1>1. OthersStay(c)
    BY <1>0, OthersFacts, NextLeft DEF OthersStay
  <1>2. PICK n : n = Len(stack[c])
    OBVIOUS
  <1>3. n \in Nat /\ n <= StackLimit /\ stack[c] \in Seq(FrameSet) /\ todo[c] \in Seq(CallSet)
    BY <1>0, <1>2, LeftFacts DEF TypeInv
  <1>4. CASE Begins(c)
    <2>1. /\ stack[c] = <<>> /\ todo'[c] = todo[c]
          /\ stack'[c] = <<Frame(Wanted(c), "parent")>>
      BY <1>4 DEF Begins
    <2>2. Len(stack'[c]) = 1 /\ stack'[c] # <<>> /\ stack'[c][1].pc = "parent"
      BY <2>1 DEF Frame
    <2>3. Left(c)' = 2 * StackLimit + 2 - 1 /\ Left(c) = 2 * StackLimit + 2
      BY <2>1, <2>2, NextLeft, LeftFacts
    <2> QED
      BY <1>0, <1>1, <2>1, <2>3 DEF Advances
  <1>5. ASSUME Running(c)
        PROVE  /\ n >= 1 /\ Top(c).path \in Paths
               /\ \A pc \in {"parent", "path", "mkdir"}, path \in Paths :
                    Frame(path, pc) \in FrameSet /\ Frame(path, pc).pc = pc
               /\ Parent(Top(c).path) \in Paths
    <2>1. stack[c] # <<>>
      BY <1>5 DEF Running
    <2>2. Top(c).path \in Paths /\ n >= 1
      BY <1>2, <2>1, TopFacts, LeftFacts DEF CoreInv
    <2>3. \A pc \in {"parent", "path", "mkdir"}, path \in Paths :
             Frame(path, pc) \in FrameSet /\ Frame(path, pc).pc = pc
      BY DEF Frame, FrameSet
    <2>4. Parent(Top(c).path) \in Paths
      BY <2>2 DEF Parent, Paths
    <2> QED
      BY <2>2, <2>3, <2>4
  <1>6. ASSUME NEW pc \in {"path", "mkdir"}, Running(c), Tests(c, pc)
        PROVE  Advances(c)
    <2>1. /\ pc = "path" => Top(c).pc = "parent"
          /\ pc = "mkdir" => Top(c).pc = "path"
          /\ stack'[c] = [stack[c] EXCEPT ![n] = Frame(Top(c).path, pc)]
          /\ todo' = todo /\ stack[c] # <<>>
      BY <1>2, <1>6 DEF Tests, WithTop, Running
    <2>2. Len(stack'[c]) = n /\ stack'[c][n] = Frame(Top(c).path, pc)
      BY <1>2, <1>3, <1>5, <1>6, <2>1, NewStack
    <2>3. stack'[c] # <<>> /\ Top(c)'.pc = pc
      BY <1>5, <1>6, <2>2, NextLeft
    <2>4. Left(c)' < Left(c)
      <3>1. CASE pc = "path"
        <4>1. Left(c)' = n + 1 /\ Left(c) = 2 * StackLimit + 2 - n
          BY <1>2, <2>1, <2>2, <2>3, <3>1, NextLeft, LeftFacts
        <4> QED
          BY <1>0, <1>3, <4>1
      <3>2. CASE pc = "mkdir"
        <4>1. Left(c)' = n /\ Left(c) = n + 1
          BY <1>2, <2>1, <2>2, <2>3, <3>2, NextLeft, LeftFacts
        <4> QED
          BY <1>3, <4>1
      <3> QED
        BY <3>1, <3>2
    <2> QED
      BY <1>0, <2>1, <2>4 DEF Advances
  <1>7. ASSUME Running(c), Descends(c) PROVE Advances(c)
    <2>1. /\ Top(c).pc = "parent" /\ todo' = todo /\ stack[c] # <<>>
          /\ stack'[c] = Append([stack[c] EXCEPT ![n] = Frame(Top(c).path, "mkdir")],
                                Frame(Parent(Top(c).path), "parent"))
      BY <1>2, <1>7 DEF Descends, WithTop, Running
    <2>2. Len(stack'[c]) = n + 1 /\ stack'[c][n + 1] = Frame(Parent(Top(c).path), "parent")
      BY <1>2, <1>3, <1>5, <1>7, <2>1, NewStack
    <2>3. stack'[c] # <<>> /\ Top(c)'.pc = "parent"
      <3>1. n + 1 # 0
        BY <1>3
      <3>2. stack'[c] # <<>>
        BY <2>2, <3>1
      <3> QED
        BY <1>5, <1>7, <2>2, <3>2, NextLeft
    <2>4. Left(c)' = 2 * StackLimit + 2 - (n + 1) /\ Left(c) = 2 * StackLimit + 2 - n
      BY <1>2, <2>1, <2>2, <2>3, NextLeft, LeftFacts
    <2>5. Left(c)' < Left(c)
      BY <1>0, <1>3, <2>4
    <2> QED
      BY <1>0, <2>1, <2>5 DEF Advances
  <1>8. ASSUME Running(c), Overflows(c) PROVE Advances(c)
    BY <1>0, <1>8 DEF Overflows, Advances
  <1>9. ASSUME Running(c), todo'[c] = Tail(todo[c]) PROVE Advances(c)
    <2>1. Len(todo'[c]) = Len(todo[c]) - 1
      BY <1>3, <1>9 DEF Running
    <2> QED
      BY <1>0, <2>1 DEF Advances
  <1>10. ASSUME Running(c), Succeeds(c) PROVE Advances(c)
    <2>1. /\ Top(c).pc # "parent" /\ stack[c] # <<>>
          /\ stack'[c] = SubSeq(stack[c], 1, n - 1)
          /\ n = 1 => todo'[c] = Tail(todo[c])
          /\ n # 1 => todo'[c] = todo[c]
      BY <1>2, <1>10 DEF Succeeds, Running
    <2>2. CASE n = 1
      BY <1>9, <1>10, <2>1, <2>2
    <2>3. CASE n # 1
      <3>1. n - 1 \in Nat /\ n - 1 >= 1 /\ n - 1 \in 1..n - 1
        BY <1>3, <1>5, <1>10, <2>3
      <3>2. Len(stack'[c]) = n - 1 /\ \A j \in 1..n - 1 : stack'[c][j] = stack[c][j]
        BY <1>3, <2>1, <3>1
      <3>3. stack'[c][n - 1].pc = "mkdir"
        BY <1>2, <2>1, <2>3, <3>1, <3>2, BelowTop
      <3>4. stack'[c] # <<>>
        BY <3>1, <3>2
      <3>5. Left(c)' = n - 1
        BY <3>2, <3>3, <3>4, NextLeft
      <3>6. Left(c) = n \/ Left(c) = n + 1
        BY <1>2, <2>1, LeftFacts
      <3>7. Left(c)' < Left(c)
        BY <1>3, <3>5, <3>6
      <3> QED
        BY <1>0, <2>1, <2>3, <3>7 DEF Advances
    <2> QED
      BY <2>2, <2>3
  <1>11. ASSUME Running(c), Fails(c) PROVE Advances(c)
    BY <1>9, <1>11 DEF Fails
  <1> QED
    BY <1>1, <1>4, <1>6, <1>7, <1>8, <1>10, <1>11 DEF Does

\* test_and_mkdir() comes to an end whatever the other threads and processes
\* make meanwhile: a call takes at most 2 * StackLimit + 2 steps, each step of
\* a thread uses up one of them, ends the call or stops the process, and no
\* step sets another thread back. This is the safety side of CallsReturn.
THEOREM CallsAreBounded ==
    Spec => /\ [](\A c \in Callers : Left(c) \in 1..(2 * StackLimit + 2))
            /\ [][\E c \in Callers : Advances(c) /\ OthersStay(c)]_vars
  <1>1. RepoInv => CoreInv
    BY DEF RepoInv, CoreInv
  <1>2. RepoInv => \A c \in Callers : Left(c) \in 1..(2 * StackLimit + 2)
    BY <1>1, LeftFacts
  <1>3. RepoInv /\ [Next]_vars => [\E c \in Callers : Advances(c) /\ OthersStay(c)]_vars
    <2> SUFFICES ASSUME RepoInv, Next
                 PROVE  \E c \in Callers : Advances(c) /\ OthersStay(c)
      OBVIOUS
    <2>1. PICK c \in Callers : Begin(c) \/ ThreadStep(c)
      BY DEF Next
    <2>2. Does(c)
      BY <1>1, <2>1, StepDoes
    <2> QED
      BY <1>1, <2>2, AdvanceStep
  <1> QED
    BY <1>2, <1>3, RepoInvariant, PTL DEF Spec
=============================================================================
