# camrtsp in TLA+

camrtsp turns a camera into an RTSP stream: a desktop command line (macOS, Windows) and an
Android application capture and encode H.264 with the operating system's own libraries and
serve it with one Rust server. This directory holds TLA+ models of its concurrent parts, the
TLC configurations that check them on small instances, and proofs, checked by TLAPS, of the
safety of nearly all of them for instances of any size. Paths below are relative to the repository
(`src/`); "server" is `crates/camrtsp-server/src/lib.rs`, "windows.rs" is
`crates/camrtsp-capture/src/windows.rs`.

Contents: [inventory](#inventory), [plan](#plan), [modules](#modules-and-their-code),
[runs](#what-each-run-checks), [bounds](#bounds), [fairness](#fairness),
[proofs](#what-is-proved), [disagreements](#where-code-and-text-disagree),
[what is left out](#what-is-only-model-checked-and-what-is-not-modelled).

## Inventory

How the parts interact:

    camera -> capture/encoder -> AccessUnitSink -> Broadcaster -> Subscription -> session -> client
      ^            ^                                   |                              ^
      |            +--- request_keyframe <-- owner <---+ take_keyframe_request        |
      +--- owner: start, stop (CLI or StreamService) ---- stop flag ---> accept loop --+

| Component | State | Operations | Hard behaviour | What makes it correct |
| --- | --- | --- | --- | --- |
| **Broadcaster**, server:25-198 | clients, their `alive` flags and queues, codec, the shared keyframe flag | subscribe, drop, recv_timeout, publish, set_codec_config, take_keyframe_request | a global lock and one lock per queue: takes and drops run in the middle of a publish; overflow discards units others depend on; one flag for all viewers | each viewer can decode what it takes, in order; nobody waits for a keyframe that was never asked for; no purge removes a viewer |
| **Session**, server:353-766, 814-971 | transport, subscription, nonce and its age, time since the last request | OPTIONS ... TEARDOWN, media, idle check, failure | requests in any order, a nonce that expires between a challenge and its answer, a client that hangs | nothing is told or sent before authentication; a refused request changes nothing; the agreed transport carries the media; a silent session ends |
| **Accept loop**, server:279-341 | `sessions`, index, stop flag | reap, accept, refuse, fail, shut down | threads finish while `swap_remove` walks the vector; the joins of the shutdown wait for clients | no thread is lost or held twice; the limit holds; stop returns and leaves nothing behind |
| **Windows pipeline**, windows.rs:153-497 | channels between owner, worker and callback, flags, camera | start, stop, request_keyframe, the worker's loop, OnReadSample | three threads; the chain of ReadSample calls; failures polled; a full queue inside a callback that may not block | capture never falls silent; no discard is forgotten; one camera at a time; start and stop return |
| **Windows hardware encoder**, windows.rs:100-151, 545-704 | event channel, `needs_input`, the transform's own state | Invoke, consume, pump_events, request_keyframe, shutdown | two queues between three parties, one of which refuses when full | no input is given uninvited, no output forgotten, a forced keyframe comes out |
| **Windows software encoder, NAL splitting**, windows.rs:506-543, 775-951, 1429-1465 | the transform's | consume, drain, request_keyframe, shutdown; split_h264 | a transform that refuses a frame until its outputs are collected, and keeps frames back; Annex B or length-prefixed buffers | no frame is dropped or left inside; the NALs are the encoder's |
| **macOS capture**, `crates/camrtsp-capture/src/lib.rs`:66-584 | force_keyframe flag, session, encoder, context pointer | start, stop, request_keyframe, two callbacks | the flag is swapped and put back; a raw pointer must outlive the callbacks of two other threads | no callback after the context is freed; requests not lost |
| **Android supervisor**, `StreamService.kt` | wanted, generation, retries, handle, encoder, locks, the worker's message queue | onStartCommand, startAttempt, poll, recover, finishWithError, onDestroy | late and duplicate errors, delayed retries, destruction during recovery | nothing leaks, a wanted stream is watched, retries are bounded, a stop is final |
| **Android camera**, `CameraEncoder.kt` | camera, session, codec, surface, `stopped` | start, nested callbacks, stop with a 3 s wait | callbacks against stop; a wait that gives up | camera and codec are free for the next attempt; the thread ends; errors are heard |
| **JNI bridge**, `crates/camrtsp-android/src/lib.rs` | table of handles, each a server thread and a broadcaster | create, stop, push, configure, stats | a stop against pushes in flight | a stopped handle is not used |
| **Desktop CLI**, `apps/cli/src/main.rs` | announced, stop flag, result | 50 ms watchdog loop, shutdown | a camera, an encoder or a server that falls silent at any point; the order of stopping | serving means publishing; it ends, with nothing left running and a true exit status |
| **Request framing**, server:689-766 | input buffer | take_request, read_control | requests, bodies and RTCP frames cut anywhere and joined | the same requests for every cut; a bounded buffer |
| **RTP and its delivery**, `crates/camrtsp-rtp/src/lib.rs`, server:424-462, 656-684 | sequence number, bytes half written | packetize_h264, rtp_packet, send_rtp, send_rtcp | FU-A boundaries, 16-bit numbers, writes that fail half way, loss and reordering | a client shows what the encoder made, or knows that it cannot |
| **Transport negotiation**, server:844-911 | none kept | negotiate_transport, bind_udp_pair | several alternatives, no free ports | the first usable alternative decides |
| **Core types**, `crates/camrtsp-core/src/lib.rs` | none | validation, the sink's closures | none | |
| camrtsp-codec, MainActivity, website, packaging, CI | | | none of their own | |

`PROJECT.json` lists the same components with their status, and under `hazards` every line
where something is hard to test, with the properties that cover it or the reason none does.

## Plan

The order is that of what a viewer notices first. All of it is done.

1. `AccessUnits`, `ViewerFeed`, `Broadcaster`: the data path, refined from the abstract feed,
   and `BroadcasterProofs`.
2. `RtspPlayback`, `Transport`, `RtspSession`: one connection, refined from the playback state
   machine.
3. `RtspServer`: the accept loop around the sessions.
4. `HardwareEncoder`, `SynchronousEncoder` and `MftEncoder` over them; `WindowsCapture`.
5. `StreamService`: the Android supervisor.
6. `CameraEncoder`: camera callbacks, MediaCodec and `stop`; `AndroidStream` composes it with
   `StreamService`.
7. `MacCapture`, and `Desktop`, which composes it with the command line's watchdog.
8. `NalUnits`, `MediaPath` and `RequestFraming`, the bytes of a connection; `RtspWire`
   composes its two directions.
9. Proofs beside each component: `RtspServerProofs`, `RtspSessionProofs`, `MftEncoderProofs`,
   `WindowsCaptureProofs`, `DesktopProofs`, `AndroidStreamProofs`.
10. Proofs of `RtspWire`: `WireInv`, `Packetize` for units of any length, `CutsDoNotMatter`.
11. `ShownIsMade`: each platform's splitting undoes an encoder's buffer (`SplitUndoesBuffer`), and the
    client's reassembly undoes `Packetize` whatever arrives; over UDP with as many packets as the
    sequence numbers tell apart.

## Modules and their code

Comments beginning "Variant:" introduce an operator that no specification uses: a plausible
mistake in the definition after it, under which a named property must fail
(`mutants` in `PROJECT.json`).

**`AccessUnits`** is the data: a unit has its publication number, its keyframe flag, the types
of its NALs and, as history, the codec in force when it was published. `Decodable(prev, u)`
says what a viewer can be given after `prev`: a recovery point with its parameter sets, or the
very next publication under the same codec.

**`ViewerFeed`** is the broadcaster's promise: viewers join, leave and receive decodable units.

**`Broadcaster`** has one action per critical section. `publish` holds the broadcaster's lock
over its whole walk but each client's queue lock only for that client, so it is `Publish`
(prepare the unit), one `Deliver` or `Evict` per client, and `PublishDone`; `set_codec_config`
is split the same way. `Take` (recv_timeout) and `Drop` need no global lock and interleave with
both. `encoder` records what became of a keyframe request that was taken from the flag:
forced, refused, or answered.

**`RtspPlayback`** is the playback state machine of a connection (init, ready, playing,
closed), with the status a change is told with. **`RtspSession`** is `handle`: its pc is "control" (read at most one request) or
"media" (the tail of the loop); the gates of a request are `Admitted`, `WrongSession` and the
match on method, whose last arm answers a method out of order and one it does not know alike
("OTHER"); each answer is an action. A request that is answered 401, 404 or 454 stays in
"control", as the code's `continue` does. A SETUP brings a list of alternatives, which
**`Transport`** judges as `negotiate_transport` does, with whatever ports are busy. The client's knowledge (`held`, the nonce it was
challenged with) and what it was told are history.

**`RtspServer`** is `run_until`: "top" (stop flag), "reap" (one index per step), "accept", "shut",
"join". Session threads run, watch and finish at any moment, and a finished thread is counted
until it is joined.

**`HardwareEncoder`** composes the transform (external: asks for up to `Depth` frames, needs
`Lookahead` before it has an output), its event generator's queue, the callback `Invoke`, split
where it reads `alive`, sends and re-arms, and the worker's `consume`, one event per step of
`pump_events`.

**`SynchronousEncoder`** is the software fallback: one thread that collects outputs, gives a frame,
and once more after it was refused. **`MftEncoder`** is the choice: `MftEncoder::new` makes one of the
two, and the other is closed from the start.

**`WindowsCapture`** has the owner (`start` and `stop` as two steps, since both block), the
worker (one step per line of its loop that touches something shared) and the callback (split
between the refused `try_send` and the flag it raises, and between cloning the reader and
`ReadSample`). What `consume` does with a sample is `HardwareEncoder`'s business: here it
succeeds or fails.

**`StreamService`** has the worker's queue as a sequence of messages, the poll and the retries
that wait for their delay apart; an attempt and a recovery are steps of their own inside the
message that leads to them, because `destroyed` may be set between. An error carries its
generation: once another attempt or a release has counted `generation` up, it is "stale".

**`CameraEncoder`** has the handler thread with its queue of messages. Camera, session and codec
callbacks are such messages; the codec's are chosen only when no other waits, which loses no
order that matters, since each of them reads `stopped` anew. `stop` is posting the clean-up and
waiting for it, or giving up (`StopGivesUp`). **`AndroidStream`** puts it into `StreamService`:
`Recover`, `Finish` and `HandleDestroy` wait until `stop` returns, an error of the encoder becomes
a message of its generation, and a poll finds the stream healthy only when the encoder has
announced its parameter sets.

**`MacCapture`** is the macOS pipeline on three threads: the owner's `start` and `stop`, one step
per call that waits for another thread or can fail; the delegate's callback, split between the
swap of `force_keyframe` and `encode_frame`; VideoToolbox's callback. Of the broadcaster it keeps
who waits, the request flag and the age of the newest frame. **`Desktop`** is `run` of the command
line over it: the loop's 50 ms pass is `Poll`, the ways to leave it `Leave`, and the server thread is
what `RtspServer` promises: it ends when told to, or by an error of its own.

**`NalUnits`** holds the pure functions: the three ways a buffer is split into NAL units, and
`Packetize`. **`MediaPath`** sends what they yield: the two writes of an interleaved frame, reports and
responses between them, a write that fails with any part of its bytes written, datagrams that are
lost, reordered or duplicated; and a client that follows RFC 6184 and says what it shows. `Formats` says
which buffers an encoder may make of its units, on which platform; of the units themselves
`UnitsAssumption` asks only what H.264 does.
**`RequestFraming`** is the other direction: `TakeRequest` is `take_request` on a buffer of tokens of one
byte: its loop drains frames (`AfterFrames`) and comes to an `Answer`; `Read(n)` is a
read of any length. A head that is not UTF-8 and a Content-Length that is not a
number (`Readable`) are refused before the body is there, as the code does. A line and a CRLF are one token
each, so no cut falls inside them: `take_request` keeps no state between reads and searches the
whole buffer again. **`RtspWire`** puts both on one connection.

**`...Proofs`** modules hold the theorems about the module they are named after, see
[proofs](#what-is-proved).

**`MC...`** modules hold the instances: viewers, samples, clients, offers, messages and NAL units.

## What each run checks

| Run | Question | Result |
| --- | --- | --- |
| `broadcaster_safety` | `DecodeChain`, `FeedSpec`: can every viewer decode what it takes, through overflow, late joins, changes of codec? `QueuesMatchCodec`: no queue holds a unit of an old codec. `WaitingIsOwedAKeyframe`: whoever waits has a request standing. `BroadcasterInv` (the queue limit; `ViewersAreClients`: purges remove the dead only). | hold, 3 million states |
| `broadcaster_liveness` | `WaitingEnds`: does a waiting viewer get a keyframe when the encoder honours requests? | holds |
| `rtsp_session` | `SessionInv` (`NothingBeforeTrust`), `RefusalBringsFreshNonce` (the `>` at server:932 and the `>=` at server:499 agree), `PlaybackSpec`: do transport and subscription change only in order, and only with a 200? `SilentSessionEnds` | hold |
| `rtsp_server` | `ServerInv` (`EveryThreadIsHeld`; `AcceptSeesOnlyUnfinished`: swap_remove skips nothing; `JoinsWaitForNoClient`), `NothingOutlivesTheServer`, `StopReturns`, `ConnectionsAreAnswered` | hold |
| `rtsp_wire` | `CutsDoNotMatter`, `EverythingIsServed`: are the requests the same for every cut, and none of them stuck? `ShownIsMade`: is what a viewer takes for a whole unit what the encoder made, through three platforms' splitting, fragments, loss, reordering and the wrap of the sequence number? `TcpShowsEveryUnit`; `FramesStayWhole`: does nothing follow half a frame, whichever write fails? `WireInv` (the MTU, `InputIsBounded`) | hold, 160 thousand states |
| `hardware_encoder` | `MftInv` (`InputIsInvited`), `OutputsAreAnnounced`, with a transform of depth 2 and no lookahead; `SoftwareLosesNothing`; `RequestedKeyframeComesOut`, of either encoder | hold |
| `hardware_encoder_two_requests` | `DropsOnlyWhenBusy`: is a frame dropped only while the transform is busy? | violated, see below |
| `windows_capture` | `CaptureKeepsAsking`, `DiscardIsRemembered`, `PipelineInv` (`CameraIsHeldOnce`), `OwnerIsNotBlocked`, `FailureEndsCapture`, and no deadlock | hold |
| `windows_failure_surfaced` | `FailureIsSurfaced`: is the owner told of a failure? | violated, see below |
| `desktop` | `ServingMeansPublishing`: does the watchdog catch every silence? `DesktopInv` (`ContextOutlivesCallbacks`: is the context of VideoToolbox's callback alive?), `ShutdownEnds` and `CleanExit` (`NothingOutlivesMain`, `SuccessIsEarned`): how does the program end? `WaitingViewerIsServed`: does a request reach the encoder? | hold, 460 thousand states |
| `stream_service` | `AndroidInv` (`NothingIsLeaked`), `WantedIsWatched`, `RecoveryIsBounded`; `ReleasedMeansFree` (with `CameraIsGivenBack`) and `AndroidStopIsFinal` (`StopIsFinal`, `StoppedEncoderEnds`): what does a stop leave? `FailedEncoderIsStopped`: is every error heard? | hold, 320 thousand states |
| `stream_service_awake` | `WantedIsAwake`: does a wanted stream hold the wake lock? | violated, see below |

A name ending in `Inv` is the conjunction of a module's type invariant with the invariants named in
brackets.

`CHECK_DEADLOCK FALSE` stands where the system may stop: a session that ended, a server that
returned, a closed encoder, a service whose thread has quit, a program that exited, a client that
has sent everything. The Windows pipeline can always be
started again and the broadcaster always be used, so their runs check deadlock.

## Bounds

They bound what TLC checks. Where a safety property is [proved](#what-is-proved), the proof removes
the bound, but not what the model abstracts.

- Broadcaster: two viewers show every interference between viewers (the invariants speak of one
  viewer and the shared flag). `MaxQueued` is 2 for 16 in the
  code: a queue can be empty, partly filled and full. Publication numbers count modulo
  `PtsRange` = 3, more than a unit is ever compared across (its neighbour). Two picture
  parameter sets give every change of codec; the samples are a delta, a bare IDR and a flagged
  keyframe with one of its two parameter sets. The liveness run uses one slot and no numbering.
- Session: time is in ticks, both limits 2 ticks, so that before, at and after a limit differ; ages
  are capped one past their limit, where the code no longer tells them apart. Nonces are
  counted modulo 3. An offer has up to two alternatives, the ports are two pairs.
- Wire: a byte has three values, so that an AVCC length takes more than one of its four bytes
  and the length of an interleaved frame both of its two; the largest request has 7 bytes and a
  read yields 0 to 3, so that every cut between tokens occurs, messages of exactly the limit and one
  byte above it included. Scripts of up to three messages, of which two are proper. Fragments of 3 bytes
  at an MTU of 5: units below, at and above the MTU, of which one fills two fragments exactly, and among
  them the lengths 1 and 5 (`Base` to 2 `Base` - 1, for 256 to 511) that read as start codes. Both
  headers of the instance are in `Headers`, which stands for types 1 to 23 with the forbidden bit clear. Sequence
  numbers modulo 16, starting at 0 and just before the wrap; fewer than half of them are in
  flight, as a client must assume. The length of `$` frames as the code writes them is within
  16 bits (`RTP_MTU` is 1400).
- Accept loop: three slots and four clients, so that the limit is met and `swap_remove` can
  leave a hole in the middle.
- Hardware encoder: an event channel of 2 (32 in the code), small enough to overflow, 4 where
  overflow would hide the question; a transform that asks for two frames at a time. The software
  transform keeps one frame back. `Disturb`
  puts an unknown or failed event only into an empty generator queue.
- Windows pipeline: a channel of 2 (16 in the code), 2 commands in flight; one start may keep its
  camera for good (`leaked`).
- Android: the three retries of the code; starts and errors are posted while fewer than two
  messages wait. One encoder at a time: the next is made when the thread of the one before has quit,
  which a stop that gave up may delay (an attempt may fail meanwhile).
- Desktop: VideoToolbox holds two frames; the 15 seconds are one tick, and an age is before, at or past
  them. One viewer waits or not.

## Fairness

Threads that can run do run (weak fairness of the critical sections, of the accept loop, of
the workers and of a callback that has begun). Nothing is assumed of clients, of cameras that
fail, or of the owner's wish to start and stop. What goes beyond weak fairness:

- `broadcaster_liveness`: the owner polls the request flag every 50 ms (CLI) or 500 ms
  (Android) and the lock is free again and again, hence strong fairness of
  `TakeKeyframeRequest`; an encoder that accepted a request produces a keyframe, hence strong
  fairness of publishing one. With encoders that refuse, only the safety half
  (`WaitingIsOwedAKeyframe`) is claimed.
- `rtsp_server`: the kernel hands out connections in order, hence strong fairness of `Accept` or
  `Refuse` per client, which also says that `accept` is not interrupted for ever
  (`AcceptInterrupted`); a session whose socket has been shut down gets errors from it and ends.
- `hardware_encoder`: the camera delivers frames and the transform asks for and encodes them
  (external); errors may happen or not. `ForcedKeyframeComesOut`, the hardware part of
  `RequestedKeyframeComesOut`, excludes what the code itself
  ignores: a failed `BeginGetEvent` (windows.rs:147), an event refused by a full channel and an
  announced output that `ProcessOutput` does not deliver (windows.rs:670). The last two are in `lost`.
- `stream_service`: delays elapse, the system destroys a service it was asked to stop, and the handler
  thread runs; nothing is assumed of the camera service and the codec. An error's report is
  strongly fair, because the model's bound on the queue can refuse it again and again and the
  code's queue cannot.
- `hardware_encoder`, software: consume's steps go on; refusals and failures are free.
- `desktop`: every thread goes on and the clock ticks. The camera may deliver nothing for ever,
  `encode_frame` may fail always, and the user may never press Ctrl+C: `ServingMeansPublishing` and
  `WaitingViewerIsServed` hold because the watchdog then ends the program.
- `rtsp_wire`: the thread writes while it can, a TCP client reads, what a client sent arrives.
  Nothing is assumed of datagrams.

## What is proved

Every safety property of a passing run is a theorem, for every value of the constants that the
named assumptions allow. Each proof module `XProofs` extends the
module `X` it is about.

| Module | Theorem | Statement |
| --- | --- | --- |
| `BroadcasterProofs` | `BroadcasterHolds` | `Spec => []BroadcasterInv`: the queue limit, no live viewer purged |
| any viewers, samples, | `ChainHolds` | `Spec => []DecodeChain` |
| queue limit, codecs | `QueuesHold` | `Spec => []QueuesMatchCodec` |
| | `OwedHolds` | `Spec => []WaitingIsOwedAKeyframe` |
| | `ImplementsFeed` | `Spec => FeedSpec`: every step is a step of `ViewerFeed` or a stutter |
| `RtspSessionProofs` | `SessionHolds` | `Spec => []SessionInv`: nothing before trust |
| any offers, ports, | `RefusalIsFresh` | `Spec => RefusalBringsFreshNonce` |
| lifetimes | `ImplementsPlayback` | `Spec => PlaybackSpec` |
| | `FirstUsableDecides` | what `negotiate_transport` chooses, for any offer |
| `RtspServerProofs` | `ServerHolds` | `Spec => []ServerInv`: no thread is lost, no join waits for a client |
| any clients, any limit | `NothingOutlives` | `Spec => []NothingOutlivesTheServer` |
| `MftEncoderProofs` | `MftHolds` | `MftSpec => []MftInv`: no input uninvited |
| any channel, depth, | `OutputsHold` | `MftSpec => []OutputsAreAnnounced` |
| lookahead, delay | `SoftwareHolds` | `MftSpec => []SoftwareLosesNothing` |
| `WindowsCaptureProofs` | `PipelineHolds` | `Spec => []PipelineInv`: one camera at a time |
| any capacity of both | `AskingHolds` | `Spec => []CaptureKeepsAsking` |
| channels | `DiscardHolds` | `Spec => []DiscardIsRemembered` |
| `DesktopProofs` | `DesktopHolds` | `Spec => []DesktopInv`: the context outlives the callbacks |
| any number of frames | `ExitIsClean` | `Spec => []CleanExit` |
| `AndroidStreamProofs` | `AndroidHolds` | `AndroidSpec => []AndroidInv`: nothing leaks |
| any number of retries | `WatchedHolds` | `AndroidSpec => []WantedIsWatched` |
| and messages | `ReleasedHolds` | `AndroidSpec => []ReleasedMeansFree` |
| `RtspWireProofs` | `WireCorrect` | `Spec => []WireInv`: input bounded, payloads fit |
| any bytes, MTU, units, | `RequestsSurviveCuts` | `Spec => []CutsDoNotMatter` |
| scripts, sizes | `FramesHold` | `Spec => []FramesStayWhole` |
| | `PayloadsCarryTheUnit` | what `packetize_h264` makes of any unit, at any MTU |
| | `SplitUndoesBuffer` | each platform's splitting returns the units put into a buffer, in every format it can tell apart (`Formats`) |
| | `ViewersSeeWhatWasMade` | `Spec => []ShownIsMade` |

Safety of a component rests on one theorem of its module, `Spec => []IInv` (`Invariance`,
`ServerInvariance` and so on). Few of the properties are inductive as they stand; what the
inductive invariants add was checked by TLC on the runs' instances before it was proved:

- *Broadcaster.* `DecodeChain` says nothing of the unit that will be appended next.
  `NewestIsCurrent`: a viewer that is not waiting has been given the newest publication (or the
  one before it, while the walk of `publish` has not reached it) under the current codec.
  `UnitIsCurrent`: the unit in delivery is the newest publication, complete if it is a keyframe.
  `VisitedStartOver`: what `set_codec_config` has visited is empty and waiting, so that
  installing the new codec at the end of its walk contradicts no queue. `NoOrphanQueue`: a
  purged client has no queue.
- *Session.* `SessionInv` is inductive. `RefusalIsFresh` needs that the next nonce of the bounded
  numbering differs from the last (`NextNonceDiffers`); the refinement goes through what the
  playback machine sees of each answer.
- *Accept loop.* `EveryThreadIsHeld` counts entries, which no step can be judged by. `HeldOnce` and
  `HeldIsStarted` say it without a count: no connection has two entries, and the entries are the
  started threads. `PassedAreUnfinished` is what a pass with `swap_remove` has established behind
  its index: the entry moved into a hole comes from in front of the index, hence is still to be
  looked at. `PassedAreShut` is the same for the shutdown: once every socket is shut, a join waits
  for a thread and no client. `BacklogIsNew`, `ViewersRun`, `IndexInReach` and `NoneRunsAtTheEnd`
  tie threads to vector and index.
- *Windows encoders.* `InputIsInvited` and `OutputsAreAnnounced` are balances: credit and outputs of the
  transform against announcements in its queue, in the callback and in the channel (`InFlight`,
  with lemmas on counting in `Append` and `Tail`). They are inductive with the types. Of the software
  encoder, `SoftInv` says at which place a frame may be unencoded: one is given only after a drain,
  and the last drain of `consume` follows a frame that was taken.
- *Windows pipeline.* `AsksOnce` is `CaptureKeepsAsking` without its count. It survives a restart only
  because the callback state of a new worker has never been called (`OpenedIsFresh`), and the loop's
  only because nobody else stops that state (`LoopIsConnected`). `IdleMeansJoined` is why one camera
  at a time suffices; `BacklogFits` why `stop` finds room for its command.
- *Desktop.* `InStep` pairs the places of main, of the owner's call and of the server thread;
  `EncoderInStep` pairs encoder and context with the owner's call on every way `start` can end;
  `QuietInStep` says how far the shutdown has come when session, queue and encoder are silent.
  `ContextOutlivesCallbacks` is then a consequence: frames only while the owner has not come past
  `complete`. `Earned` follows the result from the loop to the exit.
- *Android.* The service alone: a wanted stream is watched by one poll or one retry (`Watched`,
  `OnePoll`, `OneRetry`), a poll means a server (`PollMeansServer`), and a retry means that nothing is
  held (`RetryMeansFree`), so that the attempt it becomes leaks nothing (`AttemptIsFree`); an error of the
  present generation comes from the present encoder (`ErrorIsCurrent`), which is what makes
  ignoring the stale ones safe. The encoder: `OpenIsAnswered` (a device that opened is owned or
  about to be), `CleanUpIsStop`, `QuittingIsDone`, `ReleasedIsFree`. The composition changes the one
  only where it leaves the other's invariant alone, and `ServiceMoves` shows that each of its steps
  is one of the service or leaves the service alone.

- *Wire, media.* `FramesStayWhole`, which `FramesHold` states, speaks of the client at the end of the
  connection. `LinkIsFramed` says that everything on its way finds the client in step, and that a frame whose first write is out is
  still at the head of what waits. The types carry `Fits`, so that no payload is above the MTU from
  `packetize_h264` to the client.
- *Wire, requests.* `CutsInv` says where the connection stands in the client's bytes: they were
  understood up to the end of some message, the input is exactly what was read behind it, and the
  calls are those of the messages before. `Decoding` shows that one call of `take_request` leads
  from such a point to another, wherever the bytes were cut; a refusal comes at the first message that
  is not `Proper`.
- *Wire, pictures.* `ShownIsMade` says nothing of the packets on their way, nor of a unit half received.
  `ViewerInv` counts the packets of all units made so far (`Stream`): there are a first sequence number
  and numbers `sent` and `read` of packets such that what is due are the packets after `sent`, what is
  on the connection are those after `read` up to `sent` (over UDP: any up to `sent`, in any order and
  number), and the client has exactly what the packets up to `read` say of the unit of the next one, or
  knows that it misses some of it (`Viewed`, `Awaits`). `Place` says of which unit, NAL unit and payload the
  i-th packet is, `PlaceNext` what follows. A datagram is late or lies ahead; of the ones ahead, only
  the next has the number the client expects (`Numbers`), and one after a gap shows nothing until the
  next marker (`ReceiveAfterGap`). `PayloadsAre` takes the payloads back to the unit, and
  `SplitUndoesBuffer` the buffer back to the units: start codes stand where the encoder put them and
  nowhere else (`LaidCodes`), and a buffer of lengths holds none (`AvccHasNoCode`).
- *Wire, data.* Loops over bytes are recursive functions, and an induction is over the set of
  numbers for which a fact holds (`Least`, `Every`). `Recursion` shows that such a function exists,
  `Solution` that its values are typed; `Flattened` is the same for `FlattenSeq`.

A proof has one lemma for each part of the invariant, or one for each group of actions, and in it
one step for each action that can disturb the part. What actions do to data is stated once in lemmas
that they cite: `Taken`, `Delivered`, `PreparedUnit`; `SwapRemoved`; `CountAppend`, `CountTail`;
`Appended`, `Shifted`, and `Unpolled` of a queue.

Assumptions are those of the modules on their constants, which TLC evaluates in the runs: sizes and
limits are positive (a lookahead below the depth), "none" values differ from others.
Three are about the outside. `InBandAssumption`: an encoder that puts parameter sets into a
unit puts them before the picture. `UnitsAssumption`: what H.264 asks of a NAL unit, and no more: a
header, no start code inside, no zero at the end. `ScriptsAssumption`: a request's body is as long as its
Content-Length says, if that can be read (a client that says otherwise has sent another script).

`SplitUndoesBuffer` is about any such units in any of the `Formats` of the platform. Annex B and bare units
are split right whatever their sizes, and so is AVCC on macOS, whose pipeline expects nothing else. On
Windows and Android AVCC has to be told from Annex B, and the proof found all it takes (`FitsAvcc`). A
length reads as a start code not only if it is 1 or 256 to 511 (or 1 above a multiple of 2^24): a unit
whose length is a multiple of 65536 and whose header is 1 (a slice of a picture nothing refers to) has
the last zeros of its length and its header taken for one (`ReadsAsCode`). And a buffer whose first
length is 16 MiB or more need not begin with a zero, so that Android takes it for a unit without
any prefix (`OpensOtherwise`): "a four-byte AVCC length for our bounded buffers starts with zero"
(camrtsp-android's lib.rs:307). These AVCC buffers are what `Formats` leaves out, and zeros behind the
last unit on Windows, whose `split_h264` does not trim them.

Over UDP `ShownIsMade` speaks of as many packets as half the range of sequence numbers (2^15 of
them in the code). A datagram that is later than that passes for a new one, which is so for every
receiver of RTP and not a matter of this code; without the bound the statement is false. On the
run's instance the condition always holds, so the run checks the property as if it were not there.
Over TCP there is no such condition.

Out of the prover's reach, and left to TLC:

- liveness under fairness: `WaitingEnds`, `SilentSessionEnds`, `StopReturns`, `ConnectionsAreAnswered`,
  `RequestedKeyframeComesOut`, `OwnerIsNotBlocked`, `FailureEndsCapture`, `ServingMeansPublishing`,
  `ShutdownEnds`, `WaitingViewerIsServed`, `RecoveryIsBounded`, `AndroidStopIsFinal`,
  `FailedEncoderIsStopped`, `EverythingIsServed`, `TcpShowsEveryUnit`;
- what the runs check by ENABLED: that there is no deadlock.

## Where code and text disagree

1. *One flag for several requests* (`hardware_encoder_two_requests`, windows.rs:640).
   `pump_events` turns any number of NeedInput events into `needs_input = true`, and
   `ProcessInput` clears it. A transform that asks for two frames before the worker looks is
   given one, and later frames are dropped as if "the transform is still busy"
   (windows.rs:633). Only throughput suffers with a transform that has an output for each
   input. One that must hold a frame before it has an output never asks again:
   with `Depth = 2`, `Lookahead = 1` even `ForcedKeyframeComesOut` fails, and the stream stands
   still until the 15 s watchdog ends it.
2. *A failure that nobody hears* (`windows_failure_surfaced`, windows.rs:377). After a
   successful start the worker's error goes to the startup channel, whose receiver is gone.
   The comment at windows.rs:219 says "Failure is surfaced to the owner". The worker does end
   (`FailureEndsCapture`), but the pipeline's owner learns of it only from the age of the last frame
   or from a later `request_keyframe`.
3. *Asleep while reconnecting* (`stream_service_awake`, StreamService.kt:114). `recover` releases
   the wake lock before it posts the delayed retry; `README.md:90` says the phone keeps
   streaming with a wake lock. `postDelayed` counts uptime, so a phone that falls asleep
   in between retries when it is woken.

Met while modelling, and no contradiction of a text, so no run asks about them:

- A camera that is still being opened when the clean-up of `CameraEncoder.stop` runs calls
  `onOpened` on a handler that has quit. Nothing closes that device; the model calls it an
  "orphan", and `CameraIsGivenBack` excepts it (CameraEncoder.kt:119, 170).
- An AVCC buffer with a unit of 1 or of 256 to 511 bytes, or of a multiple of 65536 bytes with header
  1, contains a start code in its lengths. `split_h264` takes it for Annex B: on Windows anywhere in the
  buffer (windows.rs:1430), on Android at its front (camrtsp-android's lib.rs:268). Android takes one that
  begins with a length of 16 MiB or more for a bare unit. `FitsAvcc` leaves these buffers out, on these
  platforms and in this format only; the encoders in use emit Annex B.
- A start of the Windows pipeline that fails after it has activated the camera calls no `Shutdown` on
  the source (windows.rs:391-442). Up to `set_reader` dropping it may do; from the failing first `ReadSample`
  on, reader and callback state hold each other. The model lets either keep the camera (`leaked`).
- An access unit whose keyframe VideoToolbox delivers without data has brought its codec configuration all
  the same (capture's lib.rs:505): `Dropped` in `MacCapture` may set `ready`.
- A usable UDP alternative without free ports fails a SETUP with 461, even when a TCP alternative
  follows it (server:874).
- A request that is refused skips the media part of the loop, so a client that pipelines refused
  requests delays its own media (server:516). The write deadline is per system call, so a client
  that reads a byte every second keeps its thread long (server:475).
- A frame that VideoToolbox accepts and then fails on takes its forced keyframe with it
  (capture's lib.rs:499); the viewer waits for the next periodic keyframe. `lost` in `MacCapture`.
- `PlatformPipeline::start` on macOS drains neither the queue nor the encoder when the session does
  not run after `start_running` (capture's lib.rs:300). The model takes such a session to have delivered
  nothing. `complete_all`'s result is ignored (capture's lib.rs:358): the model takes it to have waited.

## What is only model-checked and what is not modelled

Only model-checked, on the bounds above: the liveness of every component, and that there is no deadlock.

Abstracted in what is modelled: pictures, timestamps, header and SDP text, credentials' hashes
(an answer is right, wrong or absent), the sizes of packets, status texts and notifications.
`RtspSession` reads a request whole or not at all: `RequestFraming` says why it may. Mutexes are never poisoned: no critical section of the code panics except on a lock that
already is.

`RtspWire` explores media and requests apart, since the thread serves them in turn and they
share nothing but the end of the connection. A UDP client cannot know whether its first packet is
the first one sent (the server sends no RTP-Info), so it may miss the first unit.

Not modelled: the choice of formats, presets and frame rates, which are calls into the
operating system; the sync frame `CameraEncoder` requests of MediaCodec; the `devices` subcommand
and a Ctrl+C before the loop listens for it; the counters and the clock of RTCP reports; the
static `isStreaming` of two successive Android services (StreamService.kt:148); camrtsp-codec,
which nothing uses; the user interface and the website. The components list gives the reason for each.
