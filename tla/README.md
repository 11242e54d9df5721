# Stem Studio in TLA+

Stem Studio separates music into stems on a local GPU: whole files, or live,
from a music player or an AirPlay sender, with a few seconds of delay. The live
path is a pipeline of processes that share only files, and of threads that share
only a ring, a queue and some atomics. This directory models that pipeline,
model-checks it with TLC and proves part of it with TLAPS.

## The system

| Part | Code | State it keeps | Operations |
|---|---|---|---|
| App | `src/stemstudio/app.py`, `live_control.py` | `_LIVE_RESERVATION`, the coordinator; writes `command.json`, `mixer-control-N.tsv` | start, stop, watch, fader moves, file separation |
| Coordinator | `gpu_work.py` | `_file_tasks`, `_live_reserved` | reserve and release, for a file or for a session |
| Controller | `scripts/HostController.ps1` | last command, host processes, `musicWatch` | polls `command.json` every 2 s, resets a session, starts and stops hosts, writes automatic commands |
| Audio host | `host/src/main.cpp` and what it calls | sequence counters, the ring, targets of the mixer | captures windows into `inbox`, loads separated windows from `outbox`, plays |
| Ring | `stem_stream_buffer.cpp` | per stem a ring of frames, counters | `try_push`, `pop`, `stats` |
| Renderer and mixer | `wasapi_stem_renderer.cpp`, `stem_mixer.cpp` | target gains, applied gains, ramps | render one block, recover a lost device |
| Device queue and sender | `device_audio_queue.cpp`, `device_udp_sender.cpp` | packet slots, counters, numbers | `try_submit`, `try_pop`, send |
| Worker | `live_worker.py`, `live.py` | applied command, session, last sequence, processor | adopts a session, prunes, separates or falls back, publishes |
| Inference process | `inference_process.py` | child process, pending request | warm-up, separate with a deadline, kill and restart |
| Caches | `track_cache.py`, `song_cache.py` | entries on disk, the page's number of songs | look up and align, store, validate, evict, count |
| Song assembly | `live_worker.py`, `song_cache.py` | builder of the song at hand, stitcher, the last hops | one window after another: continue, recover a start, finish |
| AirPlay | `third_party/UxPlay`, `airplay_*_state.cpp`, `airplay_timeline.py` | stream and track state, anchors between them | events, mapped on the stream's timeline; a sidecar per window |
| Lyrics service | `lyrics.py` | cached lyrics, `lyrics-status.json`, tokens and a retry time | looks up the track that plays, retries |
| Acceptance service | `acceptance.py`, `acceptance_service.py` | a recorder: segments of activity, their counters | polls the status files, gives a verdict |
| Dashboard | `live_control.py`, `app.py` | none of its own | snapshot of all status files, HTML |

How they interact: the app writes `command.json`; controller and worker both poll
it and agree on a session through `capture-session.json`, which the controller
writes around emptying the directories. The host numbers its windows
`capture-N.wav`; the worker answers each with `result-N-<stem>.wav` and then the
manifest `result-N.json`; the host plays them strictly in order and tells the
worker, through `playback-status.json`, what may be deleted. With a phone as the
source a window comes with the anchors of the songs in it, and the worker serves it
from a stored song or a stored window when it can, and stores the songs it has
separated from their start to their end. Lyrics and acceptance are threads of the app
that only read the status files of the others. Inside the host the
loader thread pushes into the ring, the render thread pops, mixes, and submits
a copy to the device queue, from which a third thread sends; a control thread
turns fader snapshots into gain targets, a status thread reports.

What makes it hard: a file may be replaced before one of its two readers has
seen it; an inference outlasts the session it was begun for; a process restarts
and rebuilds what it knows from files; copies into the ring run without its
mutex; the render thread may not wait for anybody and drops instead; the device
disappears at any call; page handlers overlap with each other and with the
controller's own commands; songs are announced late, by a side channel, and lie
across windows at any phase; counters are read from processes that are replaced in
between; a lookup on the network outlives its track. `PROJECT.json` lists each hazard at its line, with the
properties that cover it or the reason why none does yet.

## Modules

| Module | Models | State and actions |
|---|---|---|
| `StemStream` | what the player promises of a session: one timeline for all stems, whole blocks in, the next frames or silence out | abstract; `AppendBlock`, `Resume`, `Play`, `StaySilent` |
| `StemBuffer` | `SynchronizedStemBuffer` | the fields of the class, plus the push and the pop in flight. `PushReserve`/`PushCopy`/`PushCommit` are the two critical sections of `try_push` and the unlocked copies between them, one stem at a time; `PopPrebuffering`, `PopUnderrun`, `PopBegin`/`PopCopy`/`PopEnd` are the exits of `pop`, the last holding the mutex throughout |
| `MCStemBuffer` | the ring's instance for TLC | |
| `StemBufferProofs` | proofs about `StemBuffer` | |
| `LivePipeline` | a Windows session across app, controller, host and worker | the files as variables; one action per file operation of each process |
| `LivePipelineProofs` | proofs about `LivePipeline` | |
| `MixerGains` | a fader from the page to the ramp | snapshot file, control thread, atomics, render thread, mixer; `DeviceLost` at any point of a block |
| `DeviceQueue` | packet queue and sender | critical sections of the render, sender and status threads on one mutex |
| `HostAudioProofs` | proofs about `MixerGains` and `DeviceQueue` | |
| `InferenceProcess` | the worker and the process that holds the model | the separator's fields, both directions of its pipe, the state of every child ever started, how each window was answered. The worker's steps are cut where the other side may act: before a message is read, a request sent, an answer waited for; the child may do anything, or nothing |
| `InferenceProcessProofs` | proofs about `InferenceProcess` | |
| `GpuReservation` | who may use the GPU | page and file handlers as threads cut at their critical sections and file writes; controller, worker and the restart of the app |
| `GpuReservationProofs` | proofs about `GpuReservation` | |
| `AirPlayTimeline` | anchors of the host, the segments that the worker cuts a window into | operators only |
| `SongAssembly` | the worker's song builder, stitcher and history | operators: `Assembled` is `_update_song_assembly` of one window |
| `SongWorker` | phone, AirPlay host, worker and both caches | composes the two modules above. The phone plays frame by frame and is announced in time, late or wrongly; the worker serves a window from a song, from a window or by separation and then performs its disk operations one at a time; crashes between them and within a deletion |
| `MCSongWorker` | its instance for TLC: the songs' lengths | |
| `SongWorkerProofs` | proofs about `SongWorker` and the operators of the two modules below it; its last sections say what the loop over the segments of a window does | |
| `WholePlayProofs` | proof that a song heard whole is stored | |
| `Lyrics` | the lyrics service between host, provider, disk and page | `refresh` cut at every request and file operation; the page's decision `Shown`; restarts of host and app |
| `Acceptance` | recorder and verdict of the acceptance service | one sample is one action, `Observe` and `Passed`/`Failed` its pure part; the environment is every process whose file it reads |
| `AppThreadsProofs` | proofs about `Acceptance` and `Lyrics` | |

Abstractions worth knowing. A frame of the ring is its position on the stream.
A window of the pipeline is the session whose sound it is and whether it was
separated or is the fallback mix. A stitched window is pushed into the ring
whole; waiting for room is the loader taking its time. A gain in the middle of a
ramp is any value between the two ends. Socket pacing is left to the scheduler.
Argument errors that throw before changing anything are not actions. Definitions
marked MUTANT are not part of any specification: each is a plausible mistake in
the definition that follows it, kept to show that some property notices it.

`InferenceProcess` takes from the operating system that a killed process is dead
when `close()` has waited for it (`terminate`, then `kill`, half a second each), and
leaves out the handshake of a Windows session (in `LivePipeline`), the end of the
worker itself, and exceptions in reading a command. Profiles that share a model
file share the separator, so only a change of the file is an action ("switch").
Beyond `MaxModels` starting a process fails, which it may do at any time anyway.

`LivePipeline` makes one assumption about time, `TwelveSecondsPassed`: a first
window takes 12 s of sound, so by the time it is published the status thread has
reported once, the worker has finished any cycle it was in, and an inference of
the previous session has met its hard deadline (2.8 s) and failed. Without such
an assumption the numbering of two sessions, which both begin at 1, does not keep
them apart; with it, the races that remain are the ones within the reset.

`SongWorker` counts frames of a good second: a hop is two, the overlap of a window
one, a song three or two. A window is its stable range, from its own first frame on;
the context that only the analysis reads is left out. A frame is the song and the place
in it that it comes from, and a stem frame is a frame and the profile that separated it,
so a stem that belongs to something else is seen to. Two pieces of PCM are alike when
they are equal: the correlation thresholds of the alignment are left out, and so is the
32-bit wrap of RTP time. All songs carry one title, which is the hard case (only
their sound tells them apart) and makes the refresh of metadata within a song
invisible. The phone plays while the worker is idle: the two share windows and nothing
else, and a slow worker only meets them later. Entries used at the same time may be
evicted in either order. A `Surprise` is everything that is not plain playing of
announced songs: a late or wrong announcement, a correction, a skip, a failed window, a
sidecar that cannot be read, a profile switched, a stop, a restart of worker or host.
The ghosts `right`, `begun` and `owed` say since when the timeline is true, where the
song at hand began, and which song has been heard whole by an undisturbed worker.
`missed` says that once a host was replaced and the worker could not be aware of it
(`Unaware`): the next window's number and its frame are what they would be without it.

`Lyrics` takes a title and artist for one name, leaves the album out, and lets the
provider answer a search with any set of recordings. Parsing of LRC text and the choice
of the line that is due are not in it. `Acceptance` reads a continuity counter by its
name and treats them alike; the first window that is separated stands for one that
completes a song. Its ghosts follow an interruption from its counting to the next sample:
`pending` while the host that counted it is there, `gone` once that host was replaced; at
a sample that finds the session active as the last one did they become `heard` and `lost`.
The replacement of a host and the first status of the new one are one step: until that
status is written, a sample reads what the old host left, as it would before the step.

## Runs

| Run | Bounds | Shows |
|---|---|---|
| `StemBuffer` | 2 stems, ring 7, prebuffer 5, pushes of 2, pops of 1 and 3, 18 frames | ring invariant, intact frames, stems in step, underrun episodes; refinement of `StemStream`; sound resumes after every underrun. Pushes and pops straddle the end of the ring and the stream goes round it more than twice |
| `LivePipeline` | 2 commands, start and stop; 2 windows; 1 restart of the worker; keep 1 | no sound of an earlier session is queued, whole windows, pruning never takes what is still to be played, a started host gets its session adopted, every captured window is consumed |
| `MixerGains` | 2 stems, 3 gain steps, ramps of 2 blocks, 2 snapshots, 1 lost device | reported snapshots are whole, ramps end on their targets, a fader below full reaches the sound for good |
| `MixerGainsRaised` (violation) | 2 gain steps | a fader raised to full while the device is away does not reach the mixer |
| `DeviceQueue` | 4 slots of 2 frames, blocks of 3 and 5 frames, numbers modulo 4, 18 frames | gaps are told and timelines never shift, whole blocks, every frame accounted for, the render thread never waits, the queue drains |
| `InferenceProcess` | 2 commands (start, switch to another model, stop), 3 windows, 3 model processes | one process alive at most, answers only to their own request, no model costs two windows, the status shows no error of a working model, every window answered whatever the model does |
| `InferenceProcessStop` (violation) | 1 window, 2 model processes | a window published after the worker applied a stop starts a model that stays |
| `GpuReservation` | 2 pages, 2 files, capacity 1, 4 requests, 1 change of the player, 1 restart of the app | capacity, exclusion, token and coordinator agree, nothing leaks; a session that plays is reserved unless handlers overlapped, the watch spoke or the app was restarted |
| `GpuReservationTogether` (violation) | 1 page, start and stop | an inference of a stopped session runs beside a file task |
| `Acceptance` | 1 continuity counter and 1 interruption, 3 changes of phone or host state, 2 windows, 1 command, 1 fader update per host | a verdict of passed is clean and earned by this session's windows, pauses cost nothing, a failure is final |
| `Lyrics` | 2 titles, 2 lengths further apart than a candidate may differ, 4 changes, 1 fault, retry after 1 tick | no other song's lyrics are shown, a failed lookup waits its time, the status settles on the track there is |
| `SongWorker` | songs of 3 and 2 frames, hops of 2, 4 windows, 2 surprises, 2 profiles, room for 5 frames of songs and 1 window | what a cache serves is the separation of the frames in the window, but for frames of a song garbled when the worker was not aware of a new host; a song heard whole is stored, the number of songs is true, replays are not separated again. A host may be replaced after any number of windows |

Why the bounds are enough: two sessions are what a leftover needs to be mistaken,
two windows with one kept are what pruning needs to delete the wrong one, and two
stems are what being out of step needs. The ring's instance is one frame short of
the player's four hops on purpose: at exactly four hops a push never straddles the
end of the ring. Blocks of 3 and 5 frames leave short last packets and need two or
three of the four slots, so that both the full queue and the partial fit occur,
and the packet numbers wrap twice. Four requests allow a start, a join, a stop and
one more, which is what every interleaving of the handlers that we know of takes.
In `SongWorker` a song spans windows at either phase, a window can hold the end of one
song and the start of the next, both songs fit the cache in one profile and not in
two, and four windows let a song be heard, stored and heard again at the other phase.
Two surprises are what it takes to spoil a song and notice it, such as a wrong
announcement and its correction. In `Acceptance` one command lets a recorder be
replaced, three changes make a segment, a pause and another segment, and a host may
have counted before the service started. The counters are treated alike, so one is
enough; `AppThreadsProofs` covers all of them. Four changes in `Lyrics` are a track, its
metadata, a restart and another track.

Type invariants are not a question of a run: those of `StemBuffer`, `LivePipeline`,
`MixerGains`, `DeviceQueue`, `GpuReservation`, `InferenceProcess`, `Acceptance` and `Lyrics`
are proved.

Deadlock is checked except in `Lyrics` and `SongWorker`: a lookup that is settled has
nothing to do until something changes, and the worker nothing after the last window,
and changes and windows are bounded. In the other runs commands, windows
and device failures run out too, but polling, sampling, rendering or reading a status
always remains possible.

The three violations are disagreements of the code with its own documents or
tests; `PROJECT.json` quotes them under "findings".


### Fairness

Threads and processes of the system that poll in a loop are weakly fair: render
thread, loader, worker, controller, control thread. A thread that waits with
`lock()` for a mutex others take and release again and again is strongly fair in
that step (`PushReserve`, `PushCommit`, `SenderLocks`): the mutex is free between
any two of those uses for most of a device period. The worker of `InferenceProcess`
polls, and `poll(timeout)` returns when its deadline has passed, so `WF(Worker)`
covers the deadline; the model process gets no fairness at all, since it may hang. `MixerGains` assumes sound
again and again (`SF(RenderAudio)`), because a ramp stands still while nothing is
rendered. In `Lyrics` the service polls for ever, every request has a timeout, and time
passes: `WF(Service)` and `WF(Tick)`. `Acceptance` and `SongWorker` claim safety only and
state no fairness. Nothing is assumed of the environment: nobody has to issue a command,
capture a window, restart a process, push a fader, lose a device, or submit a
block.

### Limits of the properties

What follows is excepted by a property or assumed by it, and so not shown.

`WholeWindow` makes no claim once the worker has restarted: a restarted worker may
publish a window again while the loader is reading its stems one by one, and nothing
covers that. For `EveryWindowConsumed` a window that the loader skips is consumed: it says
that the loader goes on, not that all is heard. `QueueDrains` rests on the strong fairness
of `SenderLocks`, which a mutex does not promise.
`PlaybackResumes` rests on a hop fitting above the prebuffer mark
(3 + 1 hops in a ring of 4); a ring that is too small for that can wedge.
`LiveIsReserved` is claimed as long as no two handlers were under way together, the
controller gave no word of its own and the app was not restarted: with two pages a stop
may release what a start has just joined, and with the watch an automatic start may
replace a stop that was already paid for. After a restart of the app the properties of
`GpuReservation` speak of the fresh coordinator.

`PassedMeansClean` is about interruptions counted by a host that is still there at the
next sample. What a host counts just before it is replaced is lost on the recorder, which
then compares the new host's zero with an old one (see the known divergences); and a
replacement in the middle of an active segment leaves no trace either when the counters
were zero before it.

`FailureIsFinal` needs an active sample: before the first one a window from the window
cache can read as a failure that a later sample takes back. `IdleNeverCounts` excepts a
host that was replaced between two active samples and one found recovering: the first
resets its counters, the second is an interruption by itself. `RetryLimited` excepts a
service without a status file, which asks again at every poll (the first write failed).
`ShownLyricsBelong` lets the length be wrong while the status is that of an earlier
host process with the same revision and title, until the lookup that is under way has
written. `ServedIsOwnSeparation` excepts frames of stored songs that are a crossfade of two
streams, once a host was replaced without the worker being aware of it (see the known
divergences). `CountIsTrue` says nothing after a deletion that was cut
short, so lookups that remove its remains are not covered. `FullPlayIsStored`
is claimed for a song that was announced before the history of `HistoryHops` hops can have
lost its start, and heard to its end by a worker that saw all of it; not for one that began
while an anchor at hand had no title or a corrected length, since its first hop may then be
dropped (see below), nor for one that began in the first hop of a host that the worker is
not aware of, since its start might be recovered out of the old host's hop (TLC's instance
finds no such case). It excepts songs that are `Spoiled` in one of the two ways described
there. `ReplaysNeedNoGpu` is claimed from
the frame on at which the timeline has become true, for windows with songs only.

## Proofs

`StemBufferProofs` needs `StemBufferAssumption` only: at least one stem, a
positive capacity, a prebuffer and requests that fit in it, and a silence that is
no frame number. The properties are not inductive as they stand. That a pop
reads the right frames depends on where the push in flight writes, so the
inductive invariant `IInv` adds to the type invariant the geometry of the ring
(one interval: readable, then reserved, ending at `write_frame`), the contents of
the readable slots, and, for a push or a pop in flight, what it has copied so far.
The ring index is handled once, by lemmas that turn `%` into one subtraction, and
`FilledContents`/`ExtractContents` say what the two-part copies leave in each slot.
Then there is one lemma per action. From `IInv` follow `TypeCorrect`,
`RingStaysWhole`, `FramesIntact`, `InStep` and `Episodes`. `Refinement` uses it
again: a commit is `AppendBlock`, `PopBegin` on a stopped stream is `Resume`,
`PopEnd` is `Play`, silent answers are `StaySilent`, and every copy is a stutter.

`GpuReservationProofs` needs the set of file threads to be finite and the capacity
positive. Types, the count of running files and the agreement of token and
coordinator are each inductive given the ones before. `NoLeakedReservation` is
not: it says nothing while handlers are under way. Its strengthening
`HeldForAReason` says that a reservation that is held although the last word of
the pages is "stop" has a holder: a stop that has not released yet, or the start that
created it and has not written its command yet. Steps of the controller, the
worker and the host leave the reservation alone, so they are disposed of
together. `LiveIsReserved` follows a word from its writing to the host: a session goes on
with the controller's last word only if that word opened it (`LiveOnWord`), and with one
handler at a time an opening word is written under its reservation, which only a stop
takes away, after its own word has replaced it (`OpenIsReserved`).

`LivePipelineProofs` has three arguments. For `OwnSession` the invariant says what may be
left of earlier sessions while the directories are emptied and after. A window that the
worker took from the old inbox is `Stale`; once the inbox is empty nothing is captured
until the worker is rid of it, once the outbox is empty too it is alone with its stems and
never announced with them, because the capture file is looked at in between
(`InboxFollows`, `OutboxFollows`, `DoneFollows`). So a loader reads only what is of its
session, and no stale window is published under its hands (`LoaderFollows`). For
`PruneOnlyQueued` sessions are numbered in the order of their commands (`Ages`): before a
host has reported there is nothing of its session to delete (`Untouched`), and afterwards
`playback-status.json` is its own and behind its loader (`Reporting`). For `WholeWindow`
a second invariant, `WholeInv`, is inductive given the first. A worker that has not taken
up the session has done nothing for it (`Adoption`: windows are captured only when it has
looked for commands, and the session is ready by then), so from its adoption on it goes
through the numbers upwards (`Upwards`) and stems of the session are only where it has
been (`BeenThrough`); those of another session are only where it is about to take them
away (`LeftOver`). So a number is empty when its publication begins (`OnePublication`), and
the publication is over before the loader finds all the stems there (`WholeRead`). Most of
it is under `restarts = 0`, as the property is.

`InferenceProcessProofs` needs the bounds to be numbers, no more. `PipeInStep` alone
is not inductive: whether a message may be in the pipe depends on what the child
has done, and what the child may still do on who knows it. `IInv` adds that
processes are numbered in the order they start (`Numbered`), that a separator is
there and ready where it is used (`InUse`), that what was read or can be read of
the warm-up is what the child did (`Settled`), that the model in use has cost no
window yet (`Unspoilt`), and that an error belongs to a process on its way out or
about to be discarded (`Fading`). The building blocks of the worker
(`Discard`, `Spawn`, `wait_until_ready`) have one lemma each, used by the actions
that call them; then there is one lemma per action.

`AppThreadsProofs` holds two arguments. That of `Acceptance` needs the counters and bounds to be what they are called. The
properties speak of what was heard, which the recorder never sees. `IInv` ties the two:
while a segment is open and no host was replaced, the counters on disk differ from those
of the last sample exactly where something is `pending` (`Tracked`); what is pending was
counted by the present host (`PendingIsCounted`); what the recorder charges was heard or
is the replacement of a host (`HeardIsCharged`); and growth over the initial counts was
published under this recorder (`GrowthIsMine`). One lemma says what a sample does to a
segment that continues, opens or closes, and one lemma per action follows.

That of `Lyrics` needs only that names and tokens are told apart and the numbers are
numbers. Its invariant, `LyricsInv`, follows a document from where it was found to where it is shown:
what a lookup holds, what the cache holds under a key, and what the status says all fit
the key they are filed under (`LookupFits`, `CacheFits`, `StatusFits`), and a status of the
present host with its present revision has the present length, because revisions only
grow in a host's life (`TracksKnown`). `WaitCovers` is what `RetryLimited` needs.

`HostAudioProofs` holds two arguments. That of `MixerGains` is for any stems, scale,
smoothing time and block length. `AppliedSnapshotIsWhole` speaks of the moment nobody is applying anything; the invariant
adds what the control thread holds while it does (`SnapshotOfThePage`) and that the
targets follow it as far as it has got (`TargetsFollow`).

That of `DeviceQueue` is for any capacity, packet length, block sizes and sequence
span. `GapsAreTold` relates neighbours on the way to the device, and a step may make
neighbours of any two packets, so the invariant orders all pairs: of what was sent last,
what the sender holds, what is queued and the block in hand or the next one, the later
is the next by number exactly when it is the next by sound (`Before`). The wrapped
sequence is the number modulo the span (`ModSum`, `ModNear`), and the packets of a block
are cut by a lemma of their own (`PacketIs`, `PacketsFollow`). `FramesAccounted` is inductive
as soon as it is known what the recursive `QueuedFrames` does when a packet leaves at the
front (`SumsOfTail`) or the packets of a block come in behind (`SumsOfLonger`,
`SumsOfBlock`). The function's existence and these lemmas are inductions over the length
of the queue; the provers cannot instantiate the library's induction theorem, so each is
stated as a set of numbers that has 0 and with every number the next (`UpTo`, by the
smallest counterexample).

`SongWorkerProofs` is for any songs and lengths, hop, overlap, history, radius, quotas and
bounds. `ServedIsOwnSeparation` speaks of what is published; it holds because nothing else is
ever stored. The invariant (`ServeInv`) follows stem frames through the worker: a hop of the
history, a builder and an entry of either cache hold the separation of their own source
(`Hops`, `Builders`, `SongEntries`, `WindowEntries`), and an operation on the disk that waits
for its turn does so too (`TodoOK`, `StoresOut`). "The separation" is by a profile and, once
the worker was not aware of a new host, up to garbled frames: an `Imprint` is the two
together. A window that is stored was separated as a whole and is never garbled. Three
things keep it so.

- *The crossfade.* A hop is the separation of its frames only if the tail faded into it is
  of the same frames. `TailOK` says when a next window would take the tail at all: then the
  tail is of the very frames that window begins with, or the window is seen to be of
  another stream, or the worker has been `missed`. The step that makes this subtle is
  `HostRestarts`: sequences go on while stream frames begin at zero. The worker sees a frame
  number that fell, but the first window of a stream has number zero itself, so a host that
  is replaced after one window is not noticed. From that step on stem frames may be garbled
  (`Garble`), and never anything worse: not another frame's, nor another profile's.
- *The cut of songs.* What a builder takes, it takes out of the history, and only frames
  the history has (`SliceOK`). This needs the segments of a window to lie inside it, which
  follows for any anchors in the order of their frames (`SegmentsInside`); corrected, late
  and wrong announcements keep that order (`AnchorTold`, `AnchorsKept`) and no more.
- *The lookup.* The segments of a window that are chained cover it, the groups of joined
  segments do too (`ChainReaches`, `GroupsReach`), an aligned place of a song has the frames
  of the group (`NearestIsPlace`), so every frame that is cut is the window's own
  (`CutIsSeparation`).

`Assembled` works through the segments of a hop with a recursive function, and
`OutputSegments` flattens a sequence of sequences: that such a function exists and has
values of its type is proved once (`Iterated`, `FlattenTyped`), by induction as above.
`CountIsTrue` has an invariant of its own, `CountInv`: entries differ in their content, and
the number is behind the cache only while a song that was stored waits for its pruning.

`ReplaysNeedNoGpu` is about completeness: a lookup must find what is there. Its invariant
(`PlayInv`) is about the host. The timeline is true of all frames from `right` on: the
anchor that tells a frame says its place, its song's length, and has a title
(`TimelineTrue`); frames told by one revision are of one song (`OneSong`), because revisions
grow (`RevisionsOK`). It has one lemma per action. A window of such frames is covered by
its segments, however many anchors lie in it (`SegmentsCover`), each group of joined segments
is a run of one song (`GroupGoesOn`), and an entry of that song is found at the very place
that was announced (`HeldIsFound`), which is within any radius. That the entries are whole
songs, frame by frame, is `ServeInv` again; garbled stems do not matter to a lookup, which
compares the source. The bounds
`MaxWindows` and `MaxSurprises` are assumed to be numbers. The proof found a mistake in the
model that no run had shown: the ghost `right` took the timeline for true when a title
arrived for a song that had been announced with a wrong length. The ghost now asks whether
the anchor is true (`Truthful`).

`WholePlayProofs` proves `FullPlayIsStored`, for all values of the constants. It is the property about the longest way: the phone begins a song, announces it
now or some hops later, plays on, and several windows later the worker must have an entry
for it. Its invariant, `WholeInv`, given `ServeInv`, `PlayInv` and `CountInv`, puts every song
heard well since `begun` (and the one that is `owed`) into one of four places (`PlayedWell`):

- `Waiting`: its start is foretold. An anchor tells of it, or the worker has not come so
  far that the history could forget its first hop before one does (`Foretold`).
- `Building`: the builder has all of it from its first frame to the end of the last window,
  and the next one goes on there.
- `Pending`: the builder was complete, and the entry waits for its turn to be written.
- `Kept`: an entry of the song is on disk, or the song is `Spoiled`. (An eviction ends
  what is `owed`.)

The rest of it says why a builder is never torn between two windows. `AssemblyFollows` ties
builder and history to the timeline that later anchors can still add to: the history ends
where the next window begins (`HistoryFollows`), but for hops of frame 0 that a host played
before one that the worker was not aware of, which are behind every song that counts
(`Behind`), and what an anchor of the builder's own
number can say continues it (`Fits`); `Timeline` says in what order anchors come. A song that
is kept while it is still playing, as in a replay, is neither evicted nor built again before
its end (`Harmless`). `Assembled` is a loop over segments, and the loop lemmas say what each segment
of the run does: it starts the builder (`BuildsAt`) or leaves the song waiting (`Waits`), and
`LoopOf` carries that from segment to segment. Then there is one lemma per action.

The proof found mistakes of the model that the run is too small to show. The ghost
`begun` must be given up once a song has played unannounced for as long as the history
reaches, not only when it ends, and when a song begins beside one whose length was corrected,
because such a correction can make `append` raise and cost the hop (a divergence of the
code, listed below). `Appended` had two cases that overlapped there. All are corrected.

Left to TLC: liveness (`PlaybackResumes`, `SessionAdopted`, `EveryWindowConsumed`, `EveryWindowAnswered`,
`LoweredFadersTakeEffect`, `QueueDrains`, `StatusSettles`) and `RendererNeverWaits`, because the
prover handles neither fairness nor ENABLED. Every other property of the passing runs is
proved.

## Known divergences

Three are runs of their own (`MixerGainsRaised`, `InferenceProcessStop`,
`GpuReservationTogether`). The following were met while modelling. The first five below are stated in the modules, and a configuration with the given bounds finds them; the
others are why the properties above have the exceptions they have.

- `NoSequenceSkipped` of `LivePipeline` (two commands, no restart): a session that is
  reset while the worker is in an inference gets an empty manifest under a number of its
  own (`live_worker.py:449`), and its loader skips that number, against
  `docs/product-audio-acceptance.md:10`.
- `SessionAdopted` of `LivePipeline`, when `open_audio_settings` replaces a start that
  the worker has not read: the worker waits for a start (`live_worker.py:276`) although
  the controller has carried it out, against the intent of
  `tests/test_live_worker.py:345`.
- `HistoryNeverCounts` of `Acceptance`: a host that is replaced within a segment leaves
  its reset behind as a failure (`acceptance.py:168`), although what happened before is
  said not to count (`docs/product-audio-acceptance.md:11`).
- `ServedIsSeparation` of `SongWorker`, checked as an invariant under `SongWorker.cfg`: a
  host that is replaced after exactly one window, by a `start_airplay` with the same
  profile, begins at frame 0 again, where its predecessor's only window began, and the
  comparison is strict (`live_worker.py:907`). The tail of the old stream is faded into the
  first hop of the new one, and a song stored with that hop is served with it, against
  “100 ms 同时间轴交叉淡化” (`README.md:18`). What does hold, `ServedIsOwnSeparation`, is
  a property of the run.
- `PassedMeansUninterrupted` of `Acceptance`, checked as an invariant under
  `Acceptance.cfg`: the recorder notices a replaced host only by a counter that fell
  (`acceptance.py:166`). What the old host counted after the last sample is lost, and the
  session passes, against `docs/product-audio-acceptance.md:10`, which has every such
  interruption fail it.
- A song that is resumed within its first seconds after another song takes the other
  song's last frames for its own start (`live_worker.py:654`). The entry is complete by
  its length and wrong by its content, and the song is not stored right afterwards,
  because a lookup finds the entry; `product-audio-acceptance.md:25` expects a replay to
  be served whole.
- A deletion that is interrupted after the manifest (`song_cache.py:876`) leaves a
  directory that no listing shows and no store replaces.
- The page's number of songs is not renewed when a lookup removes damaged entries
  (`live_worker.py:774`, README.md:101).
- Entries of the window cache that are `building` when the worker ends are never
  pruned (`track_cache.py:354`).
- Damage to a song on disk during a worker's life goes unnoticed: an entry is validated
  once.
- `run` of the worker uses `results` before it is assigned when the first cycle
  raises (`live_worker.py:1342`).
- A song that starts in the hop in which one without a title ends loses that hop
  and is not stored.
- A correction of the length that arrives after a song's stated end finds the builder at
  that end, and the next segment of the same song begins some frames later: `append` raises
  (`live_worker.py:1082`, `song_cache.py:965`), and the handler (`live_worker.py:1097`) drops
  builder, crossfade and history. A song that starts in that hop loses its start and is
  not stored.

## Not modelled

Vendored UxPlay, installers and migration scripts, hardware detection, HTML and
byte formats (WAV, UDP packets, TSV, LRC): third-party, one-shot or pure formatting.
Sample arithmetic of stitching, centre suppression, alignment and mixing: numeric code
with unit tests and no interleaving. The tuning of shifts is part of a warm-up. Capture
failures (a window file that cannot be written) and the COM capture are left out; so is
the loop around the worker's cycle.

## Plan

1. `CommandFile`: the two writers of `command.json` with their clocks and locks,
   the AirPlay start plan of the controller, and a stop lost to an automatic
   command; composed with `GpuReservation`.
2. `Playback`: `LivePipeline`'s loader, the ring and a render thread that loses
   its device between pop and release; what `played_sequence` then reports.
3. `WorkerLoop`: survival of the poll loop under exceptions, and a capture that fails
   to write a window.
