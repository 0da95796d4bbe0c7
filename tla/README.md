# openDMD in TLA+

A verification project for openDMD, a motion-detection program: TLA+ modules
translated from its C source, TLC configurations that check them on small
instances, and proofs checked by TLAPS.  File names below are relative to the
repository (`src/client/image_capture.c` is `src/src/client/image_capture.c`
in `PROJECT.json`).

## 1. The system

| part | state | operations | interacts with |
|---|---|---|---|
| capture loop, `src/client/image_capture.c`, `src/main.c` | `lasttime`, `counter_in_second`, the frame buffer | dequeue a frame, look for motion, start, refresh and end motions, hand the frame to the threads, stop | statistics (mutex), buffer (rwlock), threads (target + mutex + condition), database |
| picture thread, `src/client/picture_thread.c` | its copy of the frame | wait, take the target, copy, write a JPEG, count it, exit | capture loop, statistics |
| video thread, `src/client/video_thread.c` | `video_capturing_switch` (shared, unlocked), `flv_filepath` | wait, take, switch the recording on, name its file, encode, count, exit | capture loop, statistics, x264 wrapper |
| SIGINT handler, `src/signal_handler.c` | `client_running` | tell the threads to exit, stop main | runs on top of any thread |
| statistics, `src/statistics.c` | `current_motion`, `motion_list`, totals | create, end, count, dump | all three threads |
| database, `src/sqlite_utils.c` | one table | insert, dump, clean | main, the web process, the command line |
| file names and directories, `src/path.c` | the file system | make names, create directories | both threads, the RTP server |
| release, `src/global_context.c` | `total_thread` | free buffers, join, destroy locks, dump | the threads |
| camera, `src/v4l2_utils.c`, `src/client/video.c` | mapped buffers | open, init, stream on and off, close | capture loop |
| image conversion, `src/client/image_convert.c` | reference image | motion detection, colour conversions | capture loop, threads |
| x264 wrapper and FLV muxer, `src/client/libx264.c`, `src/client/flv_muxer.c` | the FLV file | encode one frame, write it | video thread |
| RTP server, `src/server/` | a session, a `lasttime` and a file name per client | receive, rotate files, stop | cluster clients, oRTP's scheduler |
| RTP sender, `src/client/rtp_send.c` | session, time stamp | fragment and send | RTP server, through oRTP's queues and the network (nothing calls `rtp_send` at this commit: only `write_nals_abc` and `write_nalss` of `libx264.c` do, which are unused) |
| web administration, `src/webserver/` | epoll set, connections | accept, parse, authenticate, answer | database, signals (not reachable: the switch of `parse_cmdline` has `'2'` where `-w` should be, `main.c:333`) |
| configuration, `src/config.c`, `src/parser.c` | key/value list | parse, check, set | everything at start |
| process life cycle, `src/main.c` | descriptors, child process | command line, daemonize, fork, kill | everything |
| logging, JIT, bundled libraries | | | not part of the logic |

What is hard in it: three threads and a signal handler share the statistics,
one frame buffer, two one-place mailboxes (`picture_target`, `video_target`),
an unlocked recording switch and an unlocked reading of the thread counter.
Motions end while their frames are still being written.  The handler takes
locks.  Buffers are freed before the threads are joined.  Failing calls are
asserted (the process aborts) or ignored (the database).  Around it: processes
and threads that create directories with a test and a `mkdir`; fragments that
the network loses, repeats and reorders, compared by numbers that wrap around;
a server that compares times it read earlier; a daemon that closes descriptors
it does not know; buffers shared with a driver; pixel loops over several
pointers.

What makes it correct: no assertion fails, whatever the interleaving; no
wake-up is lost; nothing a thread uses is freed before it is done; every motion
is listed once, in the order of time, with consistent counts, and has its row
in the table; Ctrl-C ends the program.  A directory cannot be made only if
someone else made it; a client's stream ends up in its own files, in order, and
a pause begins a new file; the settings in force are those given, and one
process, detached, goes on with them; no buffer is lost or written to while it
is examined; a motion is reported exactly if enough pixels have changed.

## 2. Modules

* `LocalClock.tla` — local time, as `localtime_r` and `ctime_r` give it: the
  text of a file name or of the table's key does not say whether it was made
  before or after local time was put back, so that it repeats and goes back at
  the end of daylight saving time.  `DstEnd` and `DstShift` say when and by how
  much; `Statistics`, `ClientCapture` and `RtpServer` use it.
* `Statistics.tla` — `struct motion_t`, `struct stats` and the table as values
  and the functions of `statistics.c` and `insert_item` on them as operators.
  Every accounting rule of the threads (`count_picture`, `count_frame`,
  `name_video`) is an operator of its own, with the code's rule for motions
  that have already ended.
* `ClientCapture.tla` — the capturing client.  `mpc`, `ppc`, `vpc` are the
  control points of main, picture and video thread; `hpc[t]` is the handler's
  when it runs on top of thread `t`, which then does not advance.  A step is
  one critical section or one unlocked access.  Wherever SIGINT can find main
  between a lock and its unlock these are two steps, because the handler takes
  the same locks.  A frame is its number, a file name is the data it is made
  from, motion in a frame is a free choice.  `Abort` is a failed assertion.
* `MotionLog.tla` — what the statistics promise: motions one after another,
  logged when they end, in front of the earlier ones, and never changed
  afterwards except for the number of video frames of the newest.
  `ClientCapture` implements it under the mapping `Log` (property `LogKept`).
* `MCClientCapture.tla` — the instances for TLC.
* `ClientCaptureProofs.tla` — the theorems about it and their proofs.
* `WebServer.tla` — the web administration process: the edge-triggered epoll
  loop, `handleEvent`, `handle_request` down to the answer, which blocks the
  only thread if it does not fit the socket's buffer and the browser does not
  read (`SendBlocks`), the locks its
  statistics page and the capturing process's insertions take on the database
  file, and the browsers and the kernel's sockets as the environment.
* `MCWebServer.tla`, `WebServerProofs.tla` — its instances, its theorems.
* `RepoDir.tla` (`MCRepoDir.tla`, `RepoDirProofs.tla`) — `test_and_mkdir` as a
  stack of activations, one `access` or `mkdir` a step, for every caller of it: the database, the
  client and server repositories, the subdirectory of each file; with what each
  caller does about a failure (assert, exit, nothing).
* `OrderedChannel.tla` — what the RTP path promises a recording: the fragments
  of one run of a client may be lost or repeated, but never change their order,
  until those of a restarted client are queued behind a backlog of the run
  before (`mixed`, a history variable; see section 4).
* `RtpStream.tla` (`RtpStreamProofs.tla`) — one stream: `rtp_send`'s loop, the network, and oRTP's
  `rtp_session_rtp_parse` (SSRC lock, late packets), `queue_packet`, `rtp_putq`,
  `rtp_getq` and `rtp_session_recvm_with_ts`.  Numbers have a width, and the
  client may be restarted.  It implements `OrderedChannel` (`RecordedInOrder`).
* `RtpServer.tla`, `RtpServerProofs.tla` — the server: sessions and ports, the
  select loop, `deal_with_client` with the `lasttime` it reads once, naming and
  appending, SIGINT, and the end with its use of a freed scheduler, which may go
  well, end the process or hang it.  oRTP's scheduler is a second thread:
  `session_set_select` takes what it returns from the mask `r_sessions` and
  waits while there is nothing; a receive puts its session back there or asks
  the scheduler to do so when the next packet is due, and as the two write the
  mask under different locks a change may be lost (`Mark`).  What oRTP
  hands over is what `OrderedChannel` allows: fragments in their order.
* `Startup.tla` (`MCStartup.tla`, `StartupProofs.tla`) — `parse_cmdline`, `manage_cmdline`,
  `parse_config_file`, `parse_config`, `init_database`, `daemonize` with its
  three processes and their descriptor tables, and the start of client or
  server; `StoreRow` is the first row a client stores.
* `ImageConvert.tla` (`ImageConvertProofs.tla`) — motion detection and the two
  conversions the program uses, loop by loop with its pointers, each with a definition by the
  coordinates of a pixel.
* `Camera.tla` (`MCCamera.tla`, `CameraProofs.tla`) — the calls from `dmd_video_open` to
  `dmd_video_release`, the buffers' way through driver and `read_frame`, and
  what `ImageConvert` makes of each frame.

Abstractions of `ClientCapture`: the reader side of `bufferYUYV_rwlock` and
`total_thread_mutex` protect one step each and do not appear;
`vyuyv422buffer`, `rgbbuffer` and `yuv420pbuffer` are private to one step;
memory allocation does not fail; `WEBSERVER_ONLY` is not a capturing mode;
the clock does not run backwards; the table is empty at the start.  SIGINT is
delivered to main unless main is already in the handler, as Linux does.

Abstractions of `WebServer`: a descriptor is used for one connection only; all
pending events are returned by one `epoll_wait` (fewer than
`MAX_EPOLL_EVENT`); a request arrives in at most two parts, the empty line in
the second; credentials are right or wrong; a request's content is the few
things `parse_http` and `response_url` tell apart; the answer is one step, in
which it is sent whole, or (`SendFails`) not; the fixed texts fit the socket's
buffer, a file and the rows of the table may not, and then the step waits for a
browser that reads (`reads`; one that does not may still leave).  The writer of the database goes
from a reserved to an exclusive lock, a reader holds its shared lock while the
rows are sent, and neither waits for the other, as no busy handler is set.
Nothing is modelled once the process has ended.

Abstractions of the others.  `RepoDir`: a path is a sequence of names (one
trailing slash is removed by `check_path`); permissions and full disks do not
occur, so that a failure is a race; a file system has a directory only in its
parent; a thread's stack has room for one activation per name of a path but the
first (a path is shorter than `PATH_MAX`, an activation some hundred bytes).
`RtpStream`: a fragment is overtaken by
fewer than `Reorder` later ones, and the widths are at least twice that (with
65536 numbers: 32768 fragments); the time stamp wanted by the server is free,
which covers every jitter computation; `ts_jump` has no listeners and matters
only for stamps half the range apart; the environment variable `SSRC`, with
which every run of a client would have the same source (`rtp_send.c:84`), is not
set; between two runs of a client the server
polls its session at least once (it does so every 20 ms); the network is empty
when the client has restarted.  `RtpServer`: `last_duration` is at least 1 (its default, if not
configured, is 0), and `server_get_filepath` takes at most `last_duration`;
a scheduler's turn is one step per session, and what a session waits for is due
some time.  `Startup`: eight keys stand for all (the others are set in the same way,
most without a check); a text is a model value, but `ValueOf` cuts the last
character as the code does; the read of the heading node's unset `next` is a
free choice.  `Camera`: the driver fills buffers in the order in which it got
them; `select` may report what it likes within that; `ClientCapture` has the
rest of `process_image`.  Writing behind `buffers[]` ends the model
(`"undefined"`).

Control of the source that the actions keep in its order: main unlocks the
statistics before it refreshes `lasttime`; it notifies the video thread before
it switches the recording off; the threads keep their mutex while they work;
`total_thread` is incremented after the thread was created; the buffers are
freed before the joins.

## 3. Runs

| run | module | mode and environment | checks |
|---|---|---|---|
| `video` | `MCClientCapture` | video, SIGINT anywhere, camera and disk faults, 3 frames, 2 s | `TypeOK` `AssertionsHold` `FileIsNamed` `MotionsStored` `LogKept` |
| `picture` | `MCClientCapture` | picture, two SIGINTs, all faults, 3 frames, 2 s | `TotalsConsistent` |
| `all` | `MCClientCapture` | both threads, SIGINT anywhere, 2 frames, 1 s | `ThreadsDoneWhenFreed` `NoLostWakeup` `TotalsConsistent` |
| `shutdown` | `MCClientCapture` | both threads, fair, SIGINT outside main's critical sections | `NoWaitForWaiter` `SigintExits` `TargetsTaken`, no deadlock |
| `shutdown_deadlock` | `MCClientCapture` | picture, fair, SIGINT anywhere | `SigintExits` is violated |
| `web` | `MCWebServer` | 2 connections, 7 requests that take every way through the request handling, browsers that do not read among them, 1 insertion, fair web process | `TypeOK` `LoopNeverBlocks` `PagesProtected` `AcceptedAreServed` |
| `repodir` | `MCRepoDir` | a client with a second client, a server or `openDMD -s`; 3 initial file systems | `OnlyRacesFail` `AbortNeedsRival` `RecursionEnds` `CallMakesPath` `CallsReturn` |
| `rtp_stream` | `RtpStream` | two runs of a client, 4 fragments each, loss, reordering, one repetition, wrap-around, a backlog at a restart | `TypeOK` `QueueSorted` `RecordedInOrder` `QueueDrains` |
| `rtp_server` | `RtpServer` | 2 clients, 2 fragments each, 5 s, local time put back by 3 s after the second, the scheduler's thread, failures, SIGINT | `TypeOK` `StreamsSeparated` `PauseStartsFile` `FilesInOrder` `SigintStops` |
| `startup` | `MCStartup` | every file of up to 3 lines out of 18, the items of a cluster client in every order, 6 command lines, every failure | `TypeOK` `SettingsAreGiven` `PortIsServed` `WorkerDetached` `StartEnds` |
| `daemon_database` | `MCStartup` | the same | `RowsStored` is violated |
| `camera` | `MCCamera` | 2 buffers, 4 x 4 pixels, 31 images, cameras that grant 1 to 3 buffers, every failure | `BuffersConserved` `MotionIsChange` `PlanarIsExact` `RgbIsClose` `BuffersCirculate` |

What they show beyond their names: a call of `test_and_mkdir` fails only when
another thread or process made a directory of the path during the call, and a
process never aborts for its own threads' sake, although main ignores
`client_init_repodir`'s result (`OnlyRacesFail`, `AbortNeedsRival`); the
recursion needs a path of two names or more whose first directory exists
(`RecursionEnds`); a
stale `lasttime` may split a stream into more files, but never joins two that a
pause separates, unless local time is put back and an old name is made again
(`PauseStartsFile`); Ctrl-C brings the server to its end although `select` is
not ended by a signal and a change of its mask may be lost (`SigintStops`);
nothing but a browser that stays and does not read its answer keeps an accepted
connection from being served (`AcceptedAreServed`); every buffer the driver
fills is queued again or the program ends (`BuffersCirculate`); the file overrules the command line
(`SettingsAreGiven`); a client's port is served if the file gives the base,
since the server's copy has no default (`PortIsServed`); as long as SIGINT does
not find main between a lock and its unlock, whoever owns a lock goes on, the
handler on top of a thread included (`NoWaitForWaiter`).

Bounds.  `MaxFrames` 3 is the least with which a motion ends, its frames are
still being encoded and a second motion starts; with `MaxClock` 2 and
`video_duration` 1 that takes three different seconds; `DstEnd` 1 and
`DstShift` 2 give the first and the last of them the same local time.  `UIntMax` 3 is the
width of `total_thread`: large enough for two threads and small enough for the
wrap-around below 0 to happen.  Two SIGINTs are enough for the handler to run
on top of two threads at once.  `CHECK_DEADLOCK FALSE` stands where SIGINT may
find main inside a critical section, where the program does hang, and in the
runs whose SIGINT never comes; `shutdown` checks for deadlock.

Two connections are the least with which a connection arrives while the
listening socket's event is being handled, or leaves while another is being
answered; the proofs cover any number.  Two processes and paths of three names
are the least in which a rival makes an ancestor, and `StackLimit` 4 is one
more than any path needs.  `SEQ_MOD` 16 and `TS_MOD` 32 wrap within the four
fragments that follow `Starts` 30; 11 lets a restarted client's numbers meet a
backlog half the range away, 0 one close to it; the queue of 3 overflows; `SsrcThres` 2 lets
a restarted client be dropped and then accepted.  Five seconds are two pauses
and two fragments the least that a pause or an order of names is about; with
`DstEnd` 3 and `DstShift` 3 the seconds 2 to 5 have the local times 5, 3, 4, 5,
which go back and repeat; the proofs cover any number and any such change.  Three lines are a value, the one that overrules it and a line in
between.  A 4 x 4 image has two rows of macro pixels for each row of the U and
V planes.  These systems stop (their processes end, their bounds are reached),
so deadlock is not checked there; each has a liveness property instead.

Fairness (`FairSpec`).  Strong fairness of each thread and of the handler on
top of each thread: the kernel schedules every runnable thread, and a thread
contending for a mutex gets it at some time although others take it again and
again (the exit loop of main does).  Spurious wake-ups, signals and the clock
are not promised.  For `WebServer`, weak fairness of its single process; the
browsers, insertions and the kill are not promised.  `RepoDir`: every thread
goes on with its calls.  `RtpStream`: the server polls with a time stamp that
reaches the oldest packet, again and again, since `user_ts` grows with every
round.  `RtpServer`: the server's thread and the scheduler's run (the scheduler
by a timer, every 10 ms).  `Startup`: its processes run.  `Camera`: the program
runs, the calls it makes succeed some time, and the driver fills what it has;
nothing is assumed of SIGINT.

What the violated claims show (`findings` in `PROJECT.json` quote the lines):
the handler can wait for a mutex its own thread owns (`shutdown_deadlock`); a
daemon's rows do not reach the database, whose descriptor `daemonize` has closed
and the camera has taken over (`daemon_database`).

Met while modelling and kept in the models, without a run of their own:

* main notifies the video thread and then switches the recording off: the late
  notification starts a recording without motion (`video_thread.c:78`);
* the result of `insert_item` is ignored, so that a busy database loses a row
  (`image_capture.c:183`); in picture mode the insertion is commented out (`:211`);
* a JPEG name is made when the picture is written, so that two frames can share
  it (`path.c:151`); the FLV file is opened anew, and emptied, for each frame
  (`libx264.c:505`);
* one `accept` per edge leaves connections in the backlog
  (`socket_utils.c:198`); a statistics page during a commit aborts the web
  process (`http_utils.c:163`), as do a browser that leaves before its answer
  and a request of 1024 bytes; `errno = EAGAIN` (`:371`) keeps a reset
  connection open for ever; a browser that does not read its answer stops the
  only thread (`:282`), and while it is the rows of the table that it does not
  read, every insertion of the capturing process finds the database busy;
* at the end of daylight saving time names and keys of the hour before are made
  again: a motion may be without its row (`sqlite_utils.c:128`), an FLV file is
  replaced, and the server appends to old files (`path.c:139`, `:224`);
* a change of `r_sessions` lost to the race between a receive and the scheduler
  leaves a client that nothing will mark again unserved for good
  (`rtpsession.c:1197`, `:1858`); `rtp_server_clean` uses the freed scheduler
  (`rtp_recv.c:61`);
* `-w` ends the program (`main.c:333`), and `working_mode` webserver without it
  runs into `assert(0)`: the web process cannot be started;
* `diff_pixels` is not checked: 0 makes every frame a motion, a negative value,
  compared with an unsigned counter, none (`config.c:335`);
* `rtp_send` ignores the result of each fragment (`rtp_send.c:104`), and its last
  assertion compares what was asked for with itself;
* `-s` and `-c` use the default repository, because the configuration file is
  read after them (`main.c:389`); whether `-c` cleaned the table is not looked
  at, and the program exits with success either way (`main.c:399`);
* `rtp_getq` hands over the newest due packet and throws older ones away, so
  that a burst after a pause loses all but its last (`rtpsession.c:176`); the
  last packet, repeated by the network, is recorded twice (`rtpparse.c:217`);
* a repository of one name, such as `/opt`, overflows the stack whether it is
  there or not, since the test of its parent asks for `""` (`path.c:90`);
* a fragment of an earlier run that is still queued when the client comes back,
  half the number range away from the new ones, makes `rtp_putq` put these out
  of order: with numbers modulo 16, 11 of run 1 in the queue and then 3 and 2 of
  run 2, 3 is put before 11 (it is 8 ahead, which does not count as greater) and
  2 after it (it is 7 ahead), so that 3 is handed over before 2, although the
  comment in the function says that messages are ordered (`rtpsession.c:115`);
* the first frame is compared with a black image and counts as motion; a camera
  that adjusts the size meets an assertion in `read_frame`
  (`image_capture.c:236`).

## 4. Proofs

`ClientCaptureProofs` proves, for every mode, duration, width (at least 2) and
bound, and for SIGINT at any control point:

| theorem | statement | argument |
|---|---|---|
| `TypeCorrect` | `Spec => []TypeOK` | `TypeOK` is inductive; a lemma per statistics operator |
| `AssertionsNeverFail` | `Spec => []AssertionsHold` | `AssertInv` |
| `NoWakeupIsLost` | `Spec => []NoLostWakeup` | inductive, from what each thread does to targets |
| `FreeIsSafe` | `Spec => []ThreadsDoneWhenFreed` | `ThreadInv` |
| `FileIsAlwaysNamed` | `Spec => []FileIsNamed` | `FileInv`, with `ThreadInv` |
| `MotionsAreStored` | `video_duration >= 1`, no `"database"` fault: `Spec => []MotionsStored` | `TimeInv`, `StoredInv` |
| `TheLogIsKept` | `Spec => LogKept` | each step is one of `MotionLog` or a stutter |
| `TotalsAreConsistent` | `Spec => []TotalsConsistent` | `Totalled`, a property of the statistics alone |
| `LocksAreOwned` | `Spec => []LocksOwned` | inductive, one lock after the other |
| `NobodyWaitsForAWaiter` | `SignalPoints \cap MainHolds = {}`: `Spec => [](sigints <= 1 => NoWaitForWaiter)` | `LocksOwned`, `HandlerOwnsNothing` |

`AssertionsHold` alone is not inductive: that the video thread finds a motion
to count on has to be known from the moment main starts the motion, through the
notification, until the count.  `AssertInv` says that there is a motion,
current or listed, whenever the recording is on, a video notification is
pending, the video thread works on a frame, or main is on its way to notify it,
and that `num_motions` is the length of the list.

`ThreadsDoneWhenFreed` needs the value of `total_thread` at every step:
`ThreadInv` says it is the number of threads main counted in less those that
counted themselves out, modulo its width (it is `UIntMax` while a thread has
gone before main counted it).  Once all are counted in, 0 means all are out.
This is where `UIntAssumption` is used.

`FileInv` adds that while the recording is on the file is named or about to be.

`MotionsStored` is about a table whose primary key is the local time, to the
second, at which a motion started.  `TimeInv` orders the times main keeps (the motion in progress
started no later than the last detection, the newest closed one ended no later
than the frame being looked at, and main ends a motion only `video_duration`
after the last detection); with it `StoredInv` says that every row is older than
the motion in progress, and `SameLocalTime` that an older one with its key was
written before local time was put back, which is the one exception of
`MotionsStored`.  The two hypotheses are where the claim stops: with a
duration of 0 (`config.c:342`) two motions can start in one second, and a
database that refuses an insertion loses the row, since its result is ignored.
`LogKept` is the refinement of `MotionLog`: which of its actions a step of main
maps to follows from the statistics operator it uses, and what the threads count
after a motion has ended touches nothing but the frames of the newest.

`TotalsConsistent` compares the printed totals with sums over the list of
motions.  A sum is stated as the size of a set: `Units(counters)` has a pair for
each picture (or frame) of each motion, numbered in the order in which the
motions ended, so that a list that grows in front or is changed in place adds
known elements to the set, and the library's theorems on finite sets replace the
induction over the list that the prover cannot do.  `EndMotionTotals` and
`CountFrameTotals` are the two ways in which the statistics change.

`LocksOwned` is mutual exclusion: a lock is owned exactly by the thread that is
between its lock and its unlock, so two are never there.  It holds for SIGINT
anywhere; the handler takes and releases a lock within one step.  `NoWaitForWaiter` says
that nobody waits for a lock whose owner itself waits, so that no circle of
waiting can form.  It needs both hypotheses, and TLC shows so: with SIGINT inside
main's critical sections the handler waits for its own thread
(`shutdown_deadlock`), and a second SIGINT, on top of the picture or the video
thread, can do the same there.

`WebServerProofs` proves, for any connections, requests, backlog and number of
insertions:

| theorem | statement |
|---|---|
| `WebTypeCorrect` | `Spec => []TypeOK` |
| `TheLoopNeverBlocks` | `Spec => []LoopNeverBlocks` |
| `PagesAreProtected` | `Spec => []PagesProtected` |

`LoopNeverBlocks` is not inductive alone: `Answer` closes a connection, which
clears its pending event but not the list being handled.  `ServingOpen` says
the connection being answered is open and no longer in that list.
`PagesProtected` speaks of what was sent; `ResponseAllowed` says it of what is
about to be sent, from the lemma `ParseHttp`.

`RtpServerProofs` proves, for any number of clients and fragments, any port
base, any `last_duration` of at least a second, any clock and any `DstEnd` and
`DstShift`:

| theorem | statement |
|---|---|
| `TypeCorrect` | `Spec => []TypeOK` |
| `StreamsAreSeparated` | `Spec => []StreamsSeparated` |
| `PausesStartFiles` | `Spec => []PauseStartsFile` |
| `FilesAreInOrder` | `Spec => []FilesInOrder` |

None of the last three is inductive.  `IInv` adds how the times are related
while a fragment is in the buffer (`TimesOrdered`: the local `lasttime` is at
most the item's, that at most `now`, and the clock at most `last_duration`
later), that the seconds names are made in only grow and the names are their
local times (`NamesGrow`; `LocalTimeGrows` and `SameName` say what that leaves
of their order when local time is put back), that the file an item names ends
with the fragment of its `lasttime` (`Current`), that the name for the fragment
in the buffer was made after it came or is kept because `lasttime` is recent,
and that no name is more than `last_duration` later than a fragment of its file
(`FilesRecent`), and that the fragment in the buffer is the newest of its
client (`PacketNewest`).  The write is the step that uses all of it: the
fragment before it in the file is either the one of `lasttime` or at most
`last_duration` older than the file's name.  `PortOwner` is where the numbering
of clients (from 1) and items (from 0) meets the ports.

`CameraProofs`, with the lemmas of `ImageConvertProofs`, proves for any number
of buffers asked for and granted, any even width and height, any thresholds and
any frames:

| theorem | statement |
|---|---|
| `BuffersAreConserved` | `Spec => []BuffersConserved` |
| `MotionIsTheChange` | `Spec => []MotionIsChange` |
| `PlanarConversionIsExact` | `Spec => []PlanarIsExact` |
| `RgbConversionIsClose` | `Spec => []RgbIsClose` |

`CameraInv` says where each buffer is at each control point, during setup and
release too, and that the image examined is the one dequeued.  The pixel loops
are recursive functions of the iteration; what they compute is shown by the
least counterexample (`LeastNumber`: a set of numbers that is not empty has a
least member), which the provers can use where they cannot use an induction
theorem.  `Place` and `Position` relate a pixel's number to its coordinates;
`CountsChanged` shows that the counter of the detection is the number of changed
pixels so far, and `CounterValue` what the loop with its early end makes of it; `RowPointerValue` and `PlanePointers` give the six pointers of the
planar conversion in closed form.  `RgbIsClose` had been checked with a bound of
2; the attempt to prove it led to u = 253, v = 2, where green is 2.03586 off.
The bound is 2.04 now, and the run has that image (`Worst`).

`RtpStreamProofs` proves, for any widths, queue length, fragment lengths and any
number of runs of a client:

| theorem | statement |
|---|---|
| `StreamTypeCorrect` | `Spec => []TypeOK` |
| `QueueIsSorted` | `Spec /\ []Fresh => []QueueSorted` |
| `HandedOverInOrder` | `Spec /\ []Fresh => RecordedInOrder` |
| `ShortRunsAreOrdered` | `MaxSent <= SEQ_MOD \div 2`: `Spec => []QueueSorted /\ RecordedInOrder` |

`StreamInv` ties each number to the fragment it was counted from (`Numbered`),
bounds how old a fragment in the network is (`NetInv`), and says which runs the
queue, the SSRC lock and the record of what was handed over may speak of.
`OrderInv` adds that nothing queued is older than what was handed over.  `Fresh`
says that no fragment of the present run is still queued when half the number
range has been sent after it.  That is a property of the run time, not of the
code: nothing in oRTP stops a packet from staying that long, but the server polls
every 20 ms, and 32768 fragments take minutes.  The last theorem has no such
hypothesis.  The first attempt found that the queue is not sorted across a
restart, as told in section 3; `QueueSorted` and `OrderedChannel` promise
since then what the code keeps.

`StartupProofs` proves, for any configuration file, command line and build:

| theorem | statement |
|---|---|
| `StartTypeCorrect` | `Spec => []TypeOK` |
| `OneDetachedWorker` | `Spec => []WorkerDetached` |
| `ConfigurationIsRead` | `Spec => []SettingsAreGiven` |
| `ClientPortIsServed` | `Spec => []PortIsServed` |
| `ForegroundStoresRows` | `Spec => [](settings["daemon_mode"] = "off" => RowsStored)` |
| `StartIsBounded` | `Spec => [](Remaining \in Nat) /\ [][IF Step THEN Remaining' < Remaining ELSE Remaining' = Remaining]_vars` |

`StartInv` is made of `FdInv` (no descriptor table has a gap, so that the next
one opened is known: after `CloseAll` it is 0, 1, 2), `ProcessInv` (where the
three processes may be relative to each other) and `ConfigInv`, which says for
each phase what was done with the part of the file read so far: the settings are
those of the options (`OptionsInv`), the list has for each key the last line that
gives it (`ParseInv`), the list and the settings together give the value read
(`ApplyInv`), and the settings alone do (`ReadyInv`).

`ForegroundStoresRows` is the part of `RowsStored` that the code keeps: without
`daemonize` the descriptor that `init_database` got is never closed, so nothing
opened later can take its number (`RowInv`).  `StartIsBounded` is the safety side
of `StartEnds`: `Remaining` adds the options, lines and items still to be dealt
with and a rank for the control point of each process.  With `StartGoesOn` (a step is
possible unless every process has ended or works) only fairness is missing to
`StartEnds`.

`RepoDirProofs` proves, for any processes and roles, repositories, clients and
initial file system:

| theorem | statement |
|---|---|
| `FailureIsARace` | `Spec => []OnlyRacesFail` |
| `AbortsNeedARival` | `Spec => []AbortNeedsRival` |
| `RecursionHasAnEnd` | `Spec => []RecursionEnds` |
| `CallsMakePaths` | `Spec => []CallMakesPath` |
| `CallsAreBounded` | `Spec => [](\A c \in Callers : Left(c) \in 1..(2 * StackLimit + 2)) /\ [][\E c \in Callers : Advances(c) /\ OthersStay(c)]_vars` |

Every step of a thread is put into one of six forms (`Does`: it begins a call,
passes a test, descends to the parent, overflows, succeeds or fails), and each
part of `RepoInv` is shown for these.  `StackInv` says of a call in progress that
its activations are for the path and its ancestors, one name less each, that all
but the last wait for their `mkdir`, and that a directory about to be made has its
parent, was not there when the call began and was not made by this thread
(`Due`): so if `mkdir` finds it, another thread made it since.  `RivalInv` is why
that other thread is never one of the same process: main has made all its calls
before the other two begin, what it made is in their `before`, and their own
directories differ in the last name; they descend to the client's repository only
if main's ignored call failed, which takes a rival again.  The proof of
`RecursionEnds` found that its earlier form, which asked only for the first
directory, is wrong of a path of one name: TLC then confirmed it.
`CallsAreBounded` is the safety side of `CallsReturn`: `Left` counts the steps a
call has left, up the path and down again; each step of a thread decreases it,
ends the call or stops the process, and no step of another thread or process,
whatever it makes, sets it back.

Assumptions: the named `ASSUME`s of the modules, which TLC evaluates on every
run: `NULL` is no motion and no time; `DstEnd` and `DstShift` are natural
numbers; `LISTENER` is no connection; modes,
bounds, widths, `last_duration >= 1`; images of even size with bytes in them; a
file is a sequence of lines, numbers are integers; a reordering is shorter than
half the numbers and than the packets that change the SSRC lock; paths are
sequences of names, initial file systems are closed under parents, and the
stack holds a path.

Only model-checked: liveness (`SigintExits`, `TargetsTaken`, `AcceptedAreServed`,
`CallsReturn`, `QueueDrains`, `SigintStops`, `StartEnds`, `BuffersCirculate`),
which is out of the prover's reach; of `CallsReturn` and `StartEnds` the measure
that decreases is proved, of `SigintExits` that nobody waits for a waiter.  The
two violated claims are shown by their counterexamples.

## 5. Not modelled, and the plan

All invariants of the passing runs are theorems, and so are both refinements.
What could follow: measures for the other liveness properties, and the web
process's connections refined to a specification of what a browser sees.

Left out, and why:

* logging: syslog output, no state the rest depends on; SIGHUP only logs;
* the JIT (`src/jit`): built into no program here;
* code nothing calls: the NAL parser and packetizer of `libx264.c`, most of
  `flv_muxer.c`, the floating-point and YUV422P conversions;
* the encoding of credentials in base64: credentials are right or wrong;
* the bundled libraries, which are 97 % of the lines of the repository
  (SQLite alone 160,000): third-party code with its own verification, entered
  only where openDMD's correctness depends on what it does with openDMD's
  data.  That is oRTP's receiving side with its scheduler, which `RtpStream` and
  `RtpServer` model, and the locks of SQLite's commit (`WebServer`); JPEG and
  H.264 encoding and SQL are calls that succeed or fail.  The share of all
  lines that the map covers is small for that reason; of openDMD's own code it
  covers most of what runs.
