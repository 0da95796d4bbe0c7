-------------------------- MODULE RtpServerProofs --------------------------
(***************************************************************************)
(* Theorems about RtpServer, for any number of clients and fragments, any  *)
(* port base, any last_duration of at least a second, any clock and any    *)
(* second at which local time is put back.                                 *)
(***************************************************************************)
EXTENDS RtpServer, TLAPS

Entries == [from : Clients, n : Nat, at : Nat, named : Nat]

\* A fragment is in the buffer of deal_with_client()
Holding == pc \in {"name", "write"}

Dealing == pc \in {"receive", "name", "write"}

\* The types TypeOK leaves out
LocalTypes ==
    /\ entry \in Nat /\ now \in Nat /\ clock \in Nat
    /\ packet \in [from : Clients \cup {0}, n : Nat]
    /\ \A f \in DOMAIN files : files[f] \in Seq(Entries)

\* Times: a stale lasttime is an early one, and a fragment is written at most
\* last_duration after time() was asked.
TimesOrdered ==
    /\ clock > LastDuration
    /\ \A i \in Items : lasttime[i] <= clock
    /\ Dealing => entry <= lasttime[item]
    /\ Holding => /\ lasttime[item] <= now
                  /\ now <= clock /\ clock <= now + LastDuration

\* Names: the seconds they are made of grow, although the names themselves
\* need not, and there is one once something was written.
NamesGrow ==
    /\ \A i \in Items : named[i] <= clock
    /\ \A i \in Items : named[i] \in Nat => filename[i] = LocalTime(named[i])
    /\ \A i \in Items : lasttime[i] > 0 => named[i] \in Nat
    /\ \A f \in DOMAIN files : \A k \in DOMAIN files[f] :
           /\ files[f][k].named <= named[f[1]]
           /\ f[2] = LocalTime(files[f][k].named)
    /\ pc = "write" => /\ named[item] \in Nat
                       /\ named[item] <= now + LastDuration

\* The file whose name item i has ends with the fragment of lasttime, written
\* under this very name
Current(i) ==
    lasttime[i] > 0 =>
        LET file == files[<<i, filename[i]>>] IN
        /\ <<i, filename[i]>> \in DOMAIN files
        /\ file # <<>>
        /\ file[Len(file)].at = lasttime[i] /\ file[Len(file)].named = named[i]

\* A fragment is not much older than the name of its file; each item has its
\* current file, except the one whose new file is not yet written; the name
\* for a fragment is kept because lasttime is recent, or made after it came.
FilesRecent ==
    /\ \A f \in DOMAIN files : \A k \in DOMAIN files[f] :
           files[f][k].named <= files[f][k].at + LastDuration
    /\ \A i \in Items :
           pc = "crashed" \/ (pc = "write" /\ i = item) \/ Current(i)
    /\ pc = "write" =>
           \/ now <= named[item]
           \/ Current(item) /\ entry > 0 /\ now <= entry + LastDuration

\* The fragment in the buffer is of the item's client, and newer than all in
\* its files
PacketNewest ==
    /\ \A f \in DOMAIN files : \A k \in DOMAIN files[f] :
           /\ files[f][k].from = f[1] + 1
           /\ files[f][k].n <= taken[f[1] + 1]
    /\ Holding =>
           /\ packet.from = item + 1 /\ packet.n = taken[item + 1]
           /\ \A f \in DOMAIN files : f[1] = item =>
                  \A k \in DOMAIN files[f] : files[f][k].n < packet.n

IInv ==
    /\ TypeOK /\ LocalTypes /\ TimesOrdered /\ NamesGrow /\ FilesRecent
    /\ PacketNewest /\ PauseStartsFile /\ FilesInOrder

USE ScaleAssumption, DurationAssumption, PortAssumption, BoundAssumption,
    DstAssumption

----------------------------------------------------------------------------
(* Ports *)

\* Item and client number differ by one, and so the port of client c is that
\* of item c - 1 only.
LEMMA PortOwner ==
    ASSUME NEW c \in Clients, NEW i \in Items, ClientPort(c) = SessionPort(i)
    PROVE  c = i + 1
BY DEF Clients, Items, ClientPort, SessionPort

\* No port belongs to two sessions, the RTCP ports included.
LEMMA PortsDisjoint ==
    ASSUME NEW i \in Items, NEW j \in Items, i # j
    PROVE  PortsOf(i) \cap PortsOf(j) = {}
BY DEF Items, PortsOf, SessionPort

\* Item i is the one of client i + 1.
LEMMA ItemClient ==
    ASSUME NEW i \in Items
    PROVE  i \in Nat /\ i + 1 \in Clients
BY DEF Items, Clients

\* The loop variable stays in the array
LEMMA NextItemType == item \in Items => NextItem \in Items
BY DEF Items, NextItem

\* Local time is a natural number, and as long as it is not put back it grows
\* with the time.
LEMMA LocalTimeGrows ==
    ASSUME NEW s \in Nat, NEW t \in Nat, s <= t
    PROVE  /\ LocalTime(t) \in Nat
           /\ ~PutBack(s, t) => /\ LocalTime(s) <= LocalTime(t)
                                /\ s < t => LocalTime(s) < LocalTime(t)
BY DEF LocalTime, PutBack

\* Two names are the same only if they were made in the same second, or if
\* local time was put back in between.
LEMMA SameName ==
    ASSUME NEW s \in Nat, NEW t \in Nat, s <= t, ~PutBack(s, t),
           LocalTime(s) = LocalTime(t)
    PROVE  s = t
BY DEF LocalTime, PutBack

----------------------------------------------------------------------------
\* The inductive invariant holds when rtp_server_init() begins.
LEMMA InitInv == Init => IInv
<1> SUFFICES ASSUME Init PROVE IInv
    OBVIOUS
<1>1. 0 \in Items
    BY DEF Items
<1>2. TypeOK /\ LocalTypes
    BY <1>1 DEF Init, TypeOK, LocalTypes, PcLabels, NoPacket, NoName
<1>3. TimesOrdered /\ NamesGrow
    BY DEF Init, TimesOrdered, NamesGrow, Dealing, Holding, NoName, LocalTime
<1>4. FilesRecent /\ PacketNewest /\ PauseStartsFile /\ FilesInOrder
    BY DEF Init, FilesRecent, Current, PacketNewest, PauseStartsFile,
           FilesInOrder, Holding
<1> QED BY <1>2, <1>3, <1>4 DEF IInv

\* Steps that move the loops and leave items, fragments and files alone
LEMMA LoopStep ==
    ASSUME IInv,
           UNCHANGED <<lasttime, filename, named, now, packet, clock, taken,
                       files>>,
           pc' \in PcLabels \ {"name", "write"}, item' \in Items,
           set' \subseteq Items, bound' \subseteq Items,
           r_sessions' \subseteq Items, waiting' \subseteq Items,
           server_running' \in BOOLEAN, scheduler' \in {"live", "freed"},
           pc' = "crashed" \/ pc \notin {"write", "crashed"},
           entry' \in Nat, pc' = "receive" => entry' <= lasttime[item']
    PROVE  IInv'
<1>1. TypeOK' /\ LocalTypes'
    BY DEF IInv, TypeOK, LocalTypes
<1>2. TimesOrdered' /\ NamesGrow'
    BY DEF IInv, TimesOrdered, NamesGrow, Dealing, Holding, PcLabels
<1>3. FilesRecent'
    BY DEF IInv, FilesRecent, Current
<1>4. PacketNewest' /\ PauseStartsFile' /\ FilesInOrder'
    BY DEF IInv, PacketNewest, PauseStartsFile, FilesInOrder, Holding
<1> QED BY <1>1, <1>2, <1>3, <1>4 DEF IInv

\* deal_with_client() begins with the lasttime the item has.
LEMMA ItemStep == IInv /\ Item => IInv'
<1> SUFFICES ASSUME IInv, Item PROVE IInv'
    OBVIOUS
<1>1. item \in Items /\ NextItem \in Items /\ AfterItem \in PcLabels \ {"name", "write"}
      /\ AfterItem # "receive"
    BY NextItemType DEF IInv, TypeOK, AfterItem, PcLabels
<1>2. lasttime[item] \in Nat /\ entry \in Nat
    BY <1>1 DEF IInv, TypeOK, LocalTypes
<1>3. entry' \in Nat /\ (pc' = "receive" => entry' <= lasttime[item'])
    BY <1>1, <1>2 DEF Item, local
<1>4. pc' \in PcLabels \ {"name", "write"} /\ item' \in Items /\ pc = "item"
    BY <1>1 DEF Item, PcLabels
<1>5. UNCHANGED <<lasttime, filename, named, now, packet, clock, taken, files,
                  set, bound, server_running, scheduler, r_sessions, waiting>>
    BY DEF Item, local, disk, masks, client_items
<1>6. set' \subseteq Items /\ bound' \subseteq Items /\ server_running' \in BOOLEAN
      /\ scheduler' \in {"live", "freed"}
      /\ r_sessions' \subseteq Items /\ waiting' \subseteq Items
    BY <1>5 DEF IInv, TypeOK
<1> QED BY <1>3, <1>4, <1>5, <1>6, LoopStep

\* The masks hold sessions only, whichever of two changes is lost.
LEMMA MarkTypes ==
    ASSUME item \in Items, r_sessions \subseteq Items, waiting \subseteq Items,
           NEW later \in BOOLEAN, Mark(later)
    PROVE  r_sessions' \subseteq Items /\ waiting' \subseteq Items
BY DEF Mark

\* The fragment is newer than all of its client, and its sender is the client
\* whose port the session has.  If no name is made there is one, since
\* lasttime was set.
LEMMA ReceiveStep ==
    ASSUME IInv, NEW c \in Clients, NEW more \in BOOLEAN, Receive(c, more)
    PROVE  IInv'
<1>1. item \in Items /\ c = item + 1
    BY PortOwner DEF IInv, TypeOK, Receive
<1>2. /\ pc = "receive" /\ pc' \in {"name", "write"}
      /\ now' = clock /\ packet' = [from |-> c, n |-> taken[c] + 1]
      /\ taken' = [taken EXCEPT ![c] = @ + 1] /\ taken[c] < MaxFragments
      /\ UNCHANGED <<item, set, bound, server_running, scheduler, lasttime,
                     filename, named, entry, clock, files>>
    BY DEF Receive, AfterReceive, client_items
<1>m. r_sessions' \subseteq Items /\ waiting' \subseteq Items
    BY <1>1, MarkTypes DEF Receive, IInv, TypeOK
<1>3. /\ entry \in Nat /\ clock \in Nat /\ lasttime[item] \in Nat
      /\ entry <= lasttime[item] /\ lasttime[item] <= clock /\ clock > LastDuration
      /\ taken[c] \in Nat
    BY <1>1, <1>2 DEF IInv, TypeOK, LocalTypes, TimesOrdered, Dealing
<1>4. pc' = "write" => entry > 0 /\ clock <= entry + LastDuration
    BY <1>3 DEF Receive, AfterReceive
<1>5. TypeOK' /\ LocalTypes'
  <2>1. taken' \in [Clients -> 0..MaxFragments]
      BY <1>2 DEF IInv, TypeOK
  <2> QED BY <1>2, <1>3, <1>m, <2>1 DEF IInv, TypeOK, LocalTypes, PcLabels
<1>6. TimesOrdered'
    BY <1>1, <1>2, <1>3 DEF IInv, TimesOrdered, Dealing, Holding
<1>7. NamesGrow'
  <2>1. pc' = "write" => named[item] \in Nat /\ named[item] <= clock
      BY <1>1, <1>3, <1>4 DEF IInv, NamesGrow
  <2> QED BY <1>2, <1>3, <2>1 DEF IInv, NamesGrow
<1>8. FilesRecent'
  <2>1. \A i \in Items : Current(i)' <=> Current(i)
      BY <1>2 DEF Current
  <2>2. \A i \in Items : Current(i)
      BY <1>2 DEF IInv, FilesRecent
  <2> QED BY <1>1, <1>2, <1>4, <2>1, <2>2 DEF IInv, FilesRecent
<1>9. PacketNewest'
  <2>1. ASSUME NEW f \in DOMAIN files, NEW k \in DOMAIN files[f]
        PROVE  /\ files[f][k].from = f[1] + 1
               /\ files[f][k].n <= taken'[f[1] + 1]
               /\ f[1] = item => files[f][k].n < taken[c] + 1
    <3>1. f[1] \in Items /\ f[1] + 1 \in Clients
        BY ItemClient DEF IInv, TypeOK
    <3>2. files[f][k].n <= taken[f[1] + 1] /\ files[f][k].from = f[1] + 1
        BY DEF IInv, PacketNewest
    <3>3. files[f][k].n \in Nat
      <4>1. files[f] \in Seq(Entries)
          BY DEF IInv, LocalTypes
      <4>2. files[f][k] \in Entries
          BY <4>1
      <4> QED BY <4>2 DEF Entries
    <3>4. taken[f[1] + 1] \in Nat
        BY <3>1 DEF IInv, TypeOK
    <3>5. taken'[f[1] + 1] = IF f[1] + 1 = c THEN taken[c] + 1 ELSE taken[f[1] + 1]
        BY <1>2, <3>1 DEF IInv, TypeOK
    <3> QED BY <1>1, <1>3, <3>2, <3>3, <3>4, <3>5
  <2>2. taken'[item + 1] = taken[c] + 1
      BY <1>1, <1>2 DEF IInv, TypeOK
  <2>3. packet'.from = item + 1 /\ packet'.n = taken[c] + 1
      BY <1>1, <1>2
  <2> QED BY <1>2, <2>1, <2>2, <2>3 DEF PacketNewest, Holding
<1>10. PauseStartsFile' /\ FilesInOrder'
    BY <1>2 DEF IInv, PauseStartsFile, FilesInOrder
<1> QED BY <1>5, <1>6, <1>7, <1>8, <1>9, <1>10 DEF IInv

\* The new name is made of the time, after that of the fragment
LEMMA NameStep == IInv /\ Name => IInv'
<1> SUFFICES ASSUME IInv, Name PROVE IInv'
    OBVIOUS
<1>1. /\ pc = "name" /\ pc' = "write" /\ item \in Items
      /\ filename' = [filename EXCEPT ![item] = LocalTime(clock)]
      /\ named' = [named EXCEPT ![item] = clock]
      /\ UNCHANGED <<item, set, bound, server_running, scheduler, r_sessions,
                     waiting, lasttime, entry, now, packet, havemore, clock, taken,
                     files>>
    BY DEF Name, NewName, IInv, TypeOK, local, disk, masks
<1>2. /\ filename'[item] = LocalTime(clock) /\ named'[item] = clock
      /\ clock \in Nat
      /\ \A i \in Items : i # item => /\ filename'[i] = filename[i]
                                      /\ named'[i] = named[i]
    BY <1>1 DEF IInv, TypeOK, LocalTypes
<1>8. LocalTime(clock) \in Nat
    BY <1>2, LocalTimeGrows
<1>3. TypeOK' /\ LocalTypes'
  <2>1. filename' \in [Items -> Nat \cup {NoName}]
        /\ named' \in [Items -> Nat \cup {NoName}]
      BY <1>1, <1>2, <1>8 DEF IInv, TypeOK
  <2> QED BY <1>1, <1>2, <2>1 DEF IInv, TypeOK, LocalTypes, PcLabels
<1>4. TimesOrdered'
    BY <1>1 DEF IInv, TimesOrdered, Dealing, Holding
<1>5. NamesGrow'
  <2>3. \A i \in Items : named[i] \in Int /\ named'[i] \in Int
      BY <1>3 DEF IInv, TypeOK, NoName
  <2>1. \A i \in Items : named[i] <= named'[i] /\ named'[i] <= clock
      BY <1>1, <1>2, <2>3 DEF IInv, NamesGrow
  <2>4. ASSUME NEW f \in DOMAIN files, NEW k \in DOMAIN files[f]
        PROVE  /\ files[f][k].named <= named'[f[1]]
               /\ f[2] = LocalTime(files[f][k].named)
    <3>1. files[f][k] \in Entries /\ f[1] \in Items
      <4>1. files[f] \in Seq(Entries)
          BY DEF IInv, LocalTypes
      <4> QED BY <4>1 DEF IInv, TypeOK
    <3>2. files[f][k].named \in Nat
        BY <3>1 DEF Entries
    <3>3. files[f][k].named <= named[f[1]] /\ f[2] = LocalTime(files[f][k].named)
        BY DEF IInv, NamesGrow
    <3> QED BY <2>1, <2>3, <3>1, <3>2, <3>3
  <2>5. named'[item] <= now + LastDuration
      BY <1>1, <1>2 DEF IInv, TimesOrdered, Holding
  <2>6. \A i \in Items : lasttime[i] > 0 => named'[i] \in Nat
      BY <1>1, <1>2 DEF IInv, NamesGrow
  <2>7. \A i \in Items : named'[i] \in Nat => filename'[i] = LocalTime(named'[i])
      BY <1>1, <1>2 DEF IInv, NamesGrow
  <2> QED BY <1>1, <1>2, <2>1, <2>4, <2>5, <2>6, <2>7 DEF NamesGrow
<1>6. FilesRecent'
  <2>1. \A i \in Items : i # item => Current(i)'
      BY <1>1, <1>2 DEF IInv, FilesRecent, Current
  <2>2. now <= named'[item]
      BY <1>1, <1>2 DEF IInv, TimesOrdered, Holding
  <2> QED BY <1>1, <2>1, <2>2 DEF IInv, FilesRecent
<1>7. PacketNewest' /\ PauseStartsFile' /\ FilesInOrder'
    BY <1>1 DEF IInv, PacketNewest, PauseStartsFile, FilesInOrder, Holding
<1> QED BY <1>3, <1>4, <1>5, <1>6, <1>7 DEF IInv

\* What a write leaves: the fragment is the last one of its file, every other
\* place is as it was.
LEMMA WriteFiles ==
    ASSUME IInv, Write
    PROVE  LET F == <<item, filename[item]>>
               e == [from |-> packet.from, n |-> packet.n, at |-> now,
                     named |-> named[item]]
               last == IF F \in DOMAIN files THEN Len(files[F]) ELSE 0
           IN /\ F \in Items \X Nat /\ e \in Entries /\ last \in Nat
              /\ DOMAIN files' = DOMAIN files \cup {F}
              /\ \A f \in DOMAIN files' : files'[f] \in Seq(Entries)
              /\ Len(files'[F]) = last + 1 /\ files'[F][last + 1] = e
              /\ \A f \in DOMAIN files' : \A k \in DOMAIN files'[f] :
                     \/ f = F /\ k = last + 1
                     \/ /\ f \in DOMAIN files /\ k \in DOMAIN files[f]
                        /\ files'[f][k] = files[f][k]
              /\ \A f \in DOMAIN files : f # F => files'[f] = files[f]
<1> DEFINE F == <<item, filename[item]>>
           e == [from |-> packet.from, n |-> packet.n, at |-> now,
                 named |-> named[item]]
           old == IF F \in DOMAIN files THEN files[F] ELSE <<>>
           last == IF F \in DOMAIN files THEN Len(files[F]) ELSE 0
<1>1. F \in Items \X Nat
  <2>1. item \in Items /\ named[item] \in Nat
      BY DEF IInv, TypeOK, NamesGrow, Write
  <2>2. filename[item] = LocalTime(named[item]) /\ LocalTime(named[item]) \in Nat
      BY <2>1, LocalTimeGrows DEF IInv, NamesGrow
  <2> QED BY <2>1, <2>2
<1>2. e \in Entries
  <2>1. packet.from = item + 1 /\ item \in Items
      BY DEF IInv, TypeOK, PacketNewest, Holding, Write
  <2>2. packet.from \in Clients /\ packet.n \in Nat /\ now \in Nat
        /\ named[item] \in Nat
      BY <2>1, ItemClient DEF IInv, LocalTypes, NamesGrow, Write
  <2> QED BY <2>2 DEF Entries
<1>3. old \in Seq(Entries) /\ Len(old) = last /\ last \in Nat
    BY DEF IInv, LocalTypes
<1>4. files' = [g \in DOMAIN files \cup {F} |-> IF g = F THEN Append(old, e)
                                                     ELSE files[g]]
    BY DEF Write
<1>5. /\ DOMAIN files' = DOMAIN files \cup {F}
      /\ files'[F] = Append(old, e)
      /\ \A f \in DOMAIN files : f # F => files'[f] = files[f]
    BY <1>4
<1>6. /\ Append(old, e) \in Seq(Entries) /\ Len(Append(old, e)) = last + 1
      /\ Append(old, e)[last + 1] = e
      /\ DOMAIN Append(old, e) = 1..last + 1
      /\ \A k \in 1..last : k \in DOMAIN old /\ Append(old, e)[k] = old[k]
    BY <1>2, <1>3
<1>7. \A f \in DOMAIN files' : files'[f] \in Seq(Entries)
    BY <1>5, <1>6 DEF IInv, LocalTypes
<1>8. ASSUME NEW f \in DOMAIN files', NEW k \in DOMAIN files'[f],
             ~(f = F /\ k = last + 1)
      PROVE  f \in DOMAIN files /\ k \in DOMAIN files[f] /\ files'[f][k] = files[f][k]
  <2>1. CASE f # F
      BY <1>5, <2>1
  <2>2. CASE f = F
    <3>1. k \in 1..last
        BY <1>3, <1>5, <1>6, <1>8, <2>2
    <3>2. f \in DOMAIN files /\ old = files[f]
        BY <3>1, <2>2
    <3> QED BY <1>5, <1>6, <2>2, <3>1, <3>2
  <2> QED BY <2>1, <2>2
<1> QED BY <1>1, <1>2, <1>3, <1>5, <1>6, <1>7, <1>8

\* The written fragment comes within last_duration of the one before it in its
\* file, and after all others of its client
LEMMA WriteStep == IInv /\ Write => IInv'
<1> SUFFICES ASSUME IInv, Write PROVE IInv'
    OBVIOUS
<1> DEFINE F == <<item, filename[item]>>
           e == [from |-> packet.from, n |-> packet.n, at |-> now,
                 named |-> named[item]]
           last == IF F \in DOMAIN files THEN Len(files[F]) ELSE 0
<1>1. /\ F \in Items \X Nat /\ e \in Entries /\ last \in Nat
      /\ DOMAIN files' = DOMAIN files \cup {F}
      /\ \A f \in DOMAIN files' : files'[f] \in Seq(Entries)
      /\ Len(files'[F]) = last + 1 /\ files'[F][last + 1] = e
    BY WriteFiles
<1>2. ASSUME NEW f \in DOMAIN files', NEW k \in DOMAIN files'[f]
      PROVE  \/ f = F /\ k = last + 1
             \/ /\ f \in DOMAIN files /\ k \in DOMAIN files[f]
                /\ files'[f][k] = files[f][k]
    BY WriteFiles
<1>3. \A f \in DOMAIN files : f # F => files'[f] = files[f]
    BY WriteFiles
<1>4. /\ pc = "write" /\ pc' = "receive" /\ item \in Items
      /\ lasttime' = [lasttime EXCEPT ![item] = now] /\ packet' = NoPacket
      /\ now' = 0
      /\ UNCHANGED <<item, set, bound, server_running, scheduler, r_sessions,
                     waiting, filename, named, entry, havemore, clock, taken>>
    BY DEF Write, LastTime, IInv, TypeOK, masks
<1>5. /\ now \in Nat /\ clock \in Nat /\ entry \in Nat /\ named[item] \in Nat
      /\ lasttime[item] \in Nat
      /\ entry <= lasttime[item] /\ lasttime[item] <= now /\ now <= clock
      /\ named[item] <= clock /\ named[item] <= now + LastDuration
      /\ filename[item] = LocalTime(named[item])
    BY <1>4 DEF IInv, TypeOK, LocalTypes, TimesOrdered, NamesGrow, Dealing, Holding
<1>6. /\ lasttime'[item] = now
      /\ \A i \in Items : i # item => lasttime'[i] = lasttime[i]
    BY <1>4 DEF IInv, TypeOK
<1>7. \A f \in DOMAIN files : f[1] \in Items /\ f[2] \in Nat
    BY DEF IInv, TypeOK
<1>8. TypeOK'
  <2>1. \A f \in DOMAIN files' : f \in Items \X Nat
      BY <1>1 DEF IInv, TypeOK
  <2>2. lasttime' \in [Items -> Nat]
      BY <1>4, <1>5 DEF IInv, TypeOK
  <2> QED BY <1>4, <2>1, <2>2 DEF IInv, TypeOK, PcLabels
<1>9. LocalTypes'
    BY <1>1, <1>4 DEF IInv, LocalTypes, NoPacket
<1>10. TimesOrdered'
    BY <1>4, <1>5, <1>6 DEF IInv, TimesOrdered, Dealing, Holding
<1>11. NamesGrow'
  <2>1. ASSUME NEW f \in DOMAIN files', NEW k \in DOMAIN files'[f]
        PROVE  /\ files'[f][k].named <= named[f[1]]
               /\ f[2] = LocalTime(files'[f][k].named)
    <3>1. CASE f = F /\ k = last + 1
        BY <1>1, <1>5, <3>1
    <3>2. CASE f \in DOMAIN files /\ k \in DOMAIN files[f]
               /\ files'[f][k] = files[f][k]
        BY <3>2 DEF IInv, NamesGrow
    <3> QED BY <1>2, <3>1, <3>2
  <2>2. \A i \in Items : lasttime'[i] > 0 => named[i] \in Nat
      BY <1>5, <1>6 DEF IInv, NamesGrow
  <2> QED BY <1>4, <2>1, <2>2 DEF IInv, NamesGrow
<1>12. FilesRecent'
  <2>1. ASSUME NEW f \in DOMAIN files', NEW k \in DOMAIN files'[f]
        PROVE  files'[f][k].named <= files'[f][k].at + LastDuration
    <3>1. CASE f = F /\ k = last + 1
        BY <1>1, <1>5, <3>1
    <3>2. CASE f \in DOMAIN files /\ k \in DOMAIN files[f]
               /\ files'[f][k] = files[f][k]
        BY <3>2 DEF IInv, FilesRecent
    <3> QED BY <1>2, <3>1, <3>2
  <2>2. Current(item)'
    <3>1. files'[F] # <<>>
        BY <1>1
    <3> QED BY <1>1, <1>4, <1>6, <3>1 DEF Current
  <2>3. ASSUME NEW i \in Items, i # item
        PROVE  Current(i)'
    <3>1. Current(i)
        BY <1>4, <2>3 DEF IInv, FilesRecent
    <3>2. <<i, filename[i]>> # F
        BY <2>3
    <3> QED BY <1>1, <1>3, <1>4, <1>6, <2>3, <3>1, <3>2 DEF Current
  <2> QED BY <1>4, <2>1, <2>2, <2>3 DEF FilesRecent
<1>13. PacketNewest'
  <2>1. ASSUME NEW f \in DOMAIN files', NEW k \in DOMAIN files'[f]
        PROVE  /\ files'[f][k].from = f[1] + 1
               /\ files'[f][k].n <= taken[f[1] + 1]
    <3>1. CASE f = F /\ k = last + 1
      <4>1. packet.from = item + 1 /\ packet.n = taken[item + 1] /\ packet.n \in Nat
          BY <1>4 DEF IInv, LocalTypes, PacketNewest, Holding
      <4> QED BY <1>1, <3>1, <4>1
    <3>2. CASE f \in DOMAIN files /\ k \in DOMAIN files[f]
               /\ files'[f][k] = files[f][k]
        BY <3>2 DEF IInv, PacketNewest
    <3> QED BY <1>2, <3>1, <3>2
  <2> QED BY <1>4, <2>1 DEF PacketNewest, Holding
<1>14. PauseStartsFile'
  <2> SUFFICES ASSUME NEW f \in DOMAIN files', NEW k \in DOMAIN files'[f], k > 1
               PROVE  \/ files'[f][k].at - files'[f][k - 1].at <= LastDuration
                      \/ PutBack(files'[f][k - 1].named, files'[f][k].named)
      BY DEF PauseStartsFile
  <2>1. files'[f] \in Seq(Entries) /\ k - 1 \in DOMAIN files'[f]
      BY <1>1
  <2>2. CASE f # F
    <3>1. f \in DOMAIN files /\ files'[f] = files[f]
        BY <1>1, <1>3, <2>2
    <3> QED BY <3>1 DEF IInv, PauseStartsFile
  <2>3. CASE f = F /\ k # last + 1
    <3>1. DOMAIN files'[F] = 1..last + 1
        BY <1>1, <2>1, <2>3
    <3>2. k - 1 # last + 1
        BY <1>1, <2>3, <3>1
    <3>3. /\ f \in DOMAIN files /\ k \in DOMAIN files[f] /\ k - 1 \in DOMAIN files[f]
          /\ files'[f][k] = files[f][k] /\ files'[f][k - 1] = files[f][k - 1]
        BY <1>2, <2>1, <2>3, <3>2
    <3> QED BY <3>3 DEF IInv, PauseStartsFile
  <2>4. CASE f = F /\ k = last + 1
    <3>1. /\ F \in DOMAIN files /\ last = Len(files[F]) /\ last > 0
          /\ last \in DOMAIN files[F] /\ files'[F][last] = files[F][last]
      <4>1. last > 0 /\ k - 1 = last
          BY <1>1, <2>4
      <4> QED BY <1>1, <1>2, <2>1, <2>4, <4>1
    <3>2. files[F][last].at \in Nat /\ files[F][last].named \in Nat
      <4>1. files[F] \in Seq(Entries)
          BY <3>1 DEF IInv, LocalTypes
      <4>2. files[F][last] \in Entries
          BY <3>1, <4>1
      <4> QED BY <4>2 DEF Entries
    <3>3. ASSUME ~PutBack(files[F][last].named, named[item])
          PROVE  now <= files[F][last].at + LastDuration
      <4>1. CASE now <= named[item]
        <5>1. /\ files[F][last].named <= named[item]
              /\ filename[item] = LocalTime(files[F][last].named)
              /\ files[F][last].named <= files[F][last].at + LastDuration
            BY <3>1 DEF IInv, NamesGrow, FilesRecent
        <5>2. files[F][last].named = named[item]
          <6>1. LocalTime(files[F][last].named) = LocalTime(named[item])
              BY <1>5, <5>1
          <6> HIDE DEF F, last
          <6> QED BY <1>5, <3>2, <3>3, <5>1, <6>1, SameName
        <5> QED BY <1>5, <3>2, <4>1, <5>1, <5>2
      <4>2. CASE Current(item) /\ entry > 0 /\ now <= entry + LastDuration
        <5>1. files[F][last].at = lasttime[item]
            BY <1>5, <3>1, <4>2 DEF Current
        <5> QED BY <1>5, <4>2, <5>1
      <4> QED BY <1>4, <4>1, <4>2 DEF IInv, FilesRecent
    <3>4. /\ files'[f][k].at = now /\ files'[f][k].named = named[item]
          /\ files'[f][k - 1] = files[F][last]
        BY <1>1, <2>4, <3>1
    <3> QED BY <1>5, <3>2, <3>3, <3>4
  <2> QED BY <2>2, <2>3, <2>4
<1>15. FilesInOrder'
  <2> SUFFICES ASSUME NEW f \in DOMAIN files', NEW g \in DOMAIN files',
                      f[1] = g[1],
                      NEW k \in DOMAIN files'[f], NEW l \in DOMAIN files'[g],
                      \/ f = g /\ k < l
                      \/ /\ f[2] < g[2]
                         /\ ~PutBack(files'[g][l].named, files'[f][k].named)
               PROVE  files'[f][k].n < files'[g][l].n
      BY DEF FilesInOrder
  <2>1. CASE g = F /\ l = last + 1
    <3>1. ~(f = F /\ k = last + 1)
        BY <1>1, <2>1
    <3>2. /\ f \in DOMAIN files /\ k \in DOMAIN files[f]
          /\ files'[f][k] = files[f][k]
        BY <1>2, <3>1
    <3>3. f[1] = item
        BY <2>1
    <3> QED BY <1>1, <1>4, <2>1, <3>2, <3>3 DEF IInv, PacketNewest, Holding
  <2>2. CASE ~(g = F /\ l = last + 1) /\ f = F /\ k = last + 1
    <3>1. /\ g \in DOMAIN files /\ l \in DOMAIN files[g]
          /\ files'[g][l] = files[g][l]
        BY <1>2, <2>2
    <3>2. /\ files[g][l].named <= named[item]
          /\ g[2] = LocalTime(files[g][l].named)
        BY <2>2, <3>1 DEF IInv, NamesGrow
    <3>6. files[g][l].named \in Nat
      <4>1. files[g] \in Seq(Entries)
          BY <3>1 DEF IInv, LocalTypes
      <4>2. files[g][l] \in Entries
          BY <3>1, <4>1
      <4> QED BY <4>2 DEF Entries
    <3>7. files'[f][k].named = named[item] /\ f[2] = LocalTime(named[item])
        BY <1>1, <1>5, <2>2
    <3>8. LocalTime(named[item]) \in Nat /\ LocalTime(files[g][l].named) \in Nat
        BY <1>5, <3>6, LocalTimeGrows
    <3>3. ~(f[2] < g[2] /\ ~PutBack(files'[g][l].named, files'[f][k].named))
        BY <1>5, <3>1, <3>2, <3>6, <3>7, <3>8, LocalTimeGrows
    <3>4. g = F /\ l > last + 1
        BY <2>2, <3>3
    <3>5. DOMAIN files'[F] = 1..last + 1
        BY <1>1
    <3> QED BY <1>1, <3>4, <3>5
  <2>3. CASE ~(g = F /\ l = last + 1) /\ ~(f = F /\ k = last + 1)
    <3>1. /\ f \in DOMAIN files /\ k \in DOMAIN files[f]
          /\ files'[f][k] = files[f][k]
        BY <1>2, <2>3
    <3>2. /\ g \in DOMAIN files /\ l \in DOMAIN files[g]
          /\ files'[g][l] = files[g][l]
        BY <1>2, <2>3
    <3> QED BY <3>1, <3>2 DEF IInv, FilesInOrder
  <2> QED BY <2>1, <2>2, <2>3
<1> QED BY <1>8, <1>9, <1>10, <1>11, <1>12, <1>13, <1>14, <1>15 DEF IInv

\* The other steps of the loops: entering and leaving them, waiting in select,
\* nothing received, an assertion that fails, the end, and the scheduler.
LEMMA OtherSteps ==
    ASSUME IInv,
           \/ \E fails \in BOOLEAN : InitItem(fails)
           \/ Loop \/ Select \/ Leave \/ ReceiveNothing \/ Abort \/ DealtWith
           \/ \E outcome \in {"goes_on", "crashed", "hung"} : Clean(outcome)
    PROVE  IInv'
<1>1. /\ item \in Items /\ NextItem \in Items /\ 0 \in Items
      /\ AfterItem \in {"item", "loop"}
      /\ set \subseteq Items /\ bound \subseteq Items
      /\ server_running \in BOOLEAN /\ scheduler \in {"live", "freed"}
      /\ r_sessions \subseteq Items /\ waiting \subseteq Items
      /\ entry \in Nat
    BY NextItemType DEF IInv, TypeOK, LocalTypes, AfterItem, Items
<1>2. pc = "receive" => entry <= lasttime[item]
    BY DEF IInv, TimesOrdered, Dealing
<1> DEFINE Goal ==
        /\ UNCHANGED <<lasttime, filename, named, now, packet, clock, taken, files>>
        /\ pc' \in PcLabels \ {"name", "write"} /\ item' \in Items
        /\ set' \subseteq Items /\ bound' \subseteq Items
        /\ r_sessions' \subseteq Items /\ waiting' \subseteq Items
        /\ server_running' \in BOOLEAN /\ scheduler' \in {"live", "freed"}
        /\ pc' = "crashed" \/ pc \notin {"write", "crashed"}
        /\ entry' \in Nat
        /\ pc' = "receive" => entry' <= lasttime[item']
<1> USE DEF PcLabels, local, disk, masks, client_items
<1>3. ASSUME NEW fails \in BOOLEAN, InitItem(fails) PROVE Goal
    BY <1>1, <1>3 DEF InitItem
<1>4. ASSUME Loop \/ Select PROVE Goal
    BY <1>1, <1>4 DEF Loop, Select
<1>5. ASSUME Leave PROVE Goal
    BY <1>1, <1>5 DEF Leave
<1>6. ASSUME ReceiveNothing PROVE Goal
  <2>1. r_sessions' \subseteq Items /\ waiting' \subseteq Items
      BY <1>1, <1>6, MarkTypes DEF ReceiveNothing
  <2> QED BY <1>1, <1>2, <1>6, <2>1 DEF ReceiveNothing
<1>7. ASSUME Abort PROVE Goal
    BY <1>1, <1>7 DEF Abort
<1>8. ASSUME DealtWith PROVE Goal
    BY <1>1, <1>8 DEF DealtWith
<1>9. ASSUME NEW outcome \in {"goes_on", "crashed", "hung"}, Clean(outcome)
      PROVE  Goal
    BY <1>1, <1>9 DEF Clean
<1>10. Goal
    BY <1>3, <1>4, <1>5, <1>6, <1>7, <1>8, <1>9
<1> QED BY <1>1, <1>10, LoopStep

\* Ctrl-C only clears server_running, and the scheduler only moves sessions
\* from waiting to the mask.
LEMMA OutsideStep == IInv /\ (Sigint \/ SchedulerStep) => IInv'
<1> SUFFICES ASSUME IInv, Sigint \/ SchedulerStep PROVE IInv'
    OBVIOUS
<1>1. /\ server_running' \in BOOLEAN
      /\ r_sessions' \subseteq Items /\ waiting' \subseteq Items
      /\ UNCHANGED <<pc, item, set, bound, scheduler, lasttime, filename, named,
                     entry, now, packet, havemore, clock, taken, files>>
    BY DEF Sigint, SchedulerStep, Process, local, disk, masks, client_items, IInv,
           TypeOK
<1>2. TypeOK' /\ LocalTypes' /\ TimesOrdered' /\ NamesGrow'
    BY <1>1 DEF IInv, TypeOK, LocalTypes, TimesOrdered, NamesGrow, Dealing, Holding
<1>3. FilesRecent' /\ PacketNewest' /\ PauseStartsFile' /\ FilesInOrder'
    BY <1>1 DEF IInv, FilesRecent, Current, PacketNewest, PauseStartsFile,
                FilesInOrder, Holding
<1> QED BY <1>2, <1>3 DEF IInv

\* A second passes: times lie further back, and while a fragment is in the
\* buffer its own time stays within last_duration.
LEMMA TickStep == IInv /\ Tick => IInv'
<1> SUFFICES ASSUME IInv, Tick PROVE IInv'
    OBVIOUS
<1>1. /\ clock' = clock + 1 /\ clock \in Nat /\ now \in Nat
      /\ pc \in {"name", "write"} => clock < now + LastDuration
      /\ UNCHANGED <<pc, item, set, bound, server_running, scheduler, r_sessions,
                     waiting, lasttime, filename, named, entry, now, packet,
                     havemore, taken, files>>
    BY DEF IInv, LocalTypes, Tick, local, masks, client_items
<1>2. TypeOK' /\ LocalTypes'
    BY <1>1 DEF IInv, TypeOK, LocalTypes
<1>3. TimesOrdered'
  <2>1. \A i \in Items : lasttime[i] \in Nat /\ lasttime[i] <= clock
      BY DEF IInv, TypeOK, TimesOrdered
  <2>2. \A i \in Items : lasttime[i] <= clock'
      BY <1>1, <2>1
  <2> QED BY <1>1, <2>2 DEF IInv, TimesOrdered, Dealing, Holding
<1>4. NamesGrow'
  <2>1. \A i \in Items : named[i] \in Int /\ named[i] <= clock
      BY DEF IInv, TypeOK, NamesGrow, NoName
  <2>2. \A i \in Items : named[i] <= clock'
      BY <1>1, <2>1
  <2> QED BY <1>1, <2>2 DEF IInv, NamesGrow
<1>5. FilesRecent' /\ PacketNewest' /\ PauseStartsFile' /\ FilesInOrder'
    BY <1>1 DEF IInv, FilesRecent, Current, PacketNewest, PauseStartsFile,
                FilesInOrder, Holding
<1> QED BY <1>2, <1>3, <1>4, <1>5 DEF IInv

\* Every step of the server, of the scheduler, of the user and of the clock
\* keeps the invariant.
LEMMA NextInv == IInv /\ [Next]_vars => IInv'
<1> SUFFICES ASSUME IInv, [Next]_vars PROVE IInv'
    OBVIOUS
<1>1. CASE ServerStep
  <2>1. CASE Item
      BY <2>1, ItemStep
  <2>2. CASE Name
      BY <2>2, NameStep
  <2>3. CASE Write
      BY <2>3, WriteStep
  <2>4. CASE \E c \in Clients, more \in BOOLEAN : Receive(c, more)
      BY <2>4, ReceiveStep
  <2>5. CASE \/ \E fails \in BOOLEAN : InitItem(fails)
             \/ Loop \/ Select \/ Leave \/ ReceiveNothing \/ Abort \/ DealtWith
             \/ \E outcome \in {"goes_on", "crashed", "hung"} : Clean(outcome)
      BY <2>5, OtherSteps
  <2> QED BY <1>1, <2>1, <2>2, <2>3, <2>4, <2>5 DEF ServerStep
<1>2. CASE Sigint \/ SchedulerStep
    BY <1>2, OutsideStep
<1>3. CASE Tick
    BY <1>3, TickStep
<1>4. CASE UNCHANGED vars
  <2>1. UNCHANGED <<pc, item, set, bound, server_running, scheduler, r_sessions,
                    waiting, lasttime, filename, named, entry, now, packet,
                    havemore, clock, taken, files>>
      BY <1>4 DEF vars
  <2>2. TypeOK' /\ LocalTypes' /\ TimesOrdered' /\ NamesGrow'
      BY <2>1 DEF IInv, TypeOK, LocalTypes, TimesOrdered, NamesGrow, Dealing, Holding
  <2>3. FilesRecent' /\ PacketNewest' /\ PauseStartsFile' /\ FilesInOrder'
      BY <2>1 DEF IInv, FilesRecent, Current, PacketNewest, PauseStartsFile,
                  FilesInOrder, Holding
  <2> QED BY <2>2, <2>3 DEF IInv
<1> QED BY <1>1, <1>2, <1>3, <1>4 DEF Next

----------------------------------------------------------------------------
(* The theorems *)

\* rtp_server keeps its types: a fragment is never written to a file without
\* a name.
THEOREM TypeCorrect == Spec => []TypeOK
<1>1. IInv => TypeOK
    BY DEF IInv
<1> QED BY <1>1, InitInv, NextInv, PTL DEF Spec

\* rtp_server writes to a client's file nothing of another client, and no two
\* sessions share an RTP or RTCP port, for any client_scale.
THEOREM StreamsAreSeparated == Spec => []StreamsSeparated
<1>1. ASSUME IInv PROVE StreamsSeparated
  <2>1. \A f \in DOMAIN files : \A k \in DOMAIN files[f] : files[f][k].from = f[1] + 1
      BY <1>1 DEF IInv, PacketNewest
  <2>2. \A i, j \in bound : i # j => PortsOf(i) \cap PortsOf(j) = {}
      BY <1>1, PortsDisjoint DEF IInv, TypeOK
  <2> QED BY <2>1, <2>2 DEF StreamsSeparated
<1> QED BY <1>1, InitInv, NextInv, PTL DEF Spec

\* deal_with_client() begins a new file after every pause longer than
\* last_duration, although it compares with a lasttime read earlier, unless
\* local time was put back to an old name.
THEOREM PausesStartFiles == Spec => []PauseStartsFile
<1>1. IInv => PauseStartsFile
    BY DEF IInv
<1> QED BY <1>1, InitInv, NextInv, PTL DEF Spec

\* deal_with_client() leaves the fragments of a client in order, within each
\* file whenever local time is put back, and in its files taken by name as far
\* as it was not put back between the making of the two names.
THEOREM FilesAreInOrder == Spec => []FilesInOrder
<1>1. IInv => FilesInOrder
    BY DEF IInv
<1> QED BY <1>1, InitInv, NextInv, PTL DEF Spec

=============================================================================
