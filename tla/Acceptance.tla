----------------------------- MODULE Acceptance -----------------------------
(***************************************************************************)
(* The acceptance service that the desktop app embeds: a recorder polls    *)
(* the status files of the pipeline and says whether a phone's session has *)
(* been played without a gap (acceptance.py, acceptance_service.py).  The  *)
(* files come from other processes, which the controller restarts: their   *)
(* counters go back to zero while the recorder looks on, and a host that   *)
(* was stopped leaves the status it wrote last.                            *)
(***************************************************************************)
EXTENDS Naturals

CONSTANTS
    Continuity,     \* the counters of audible interruptions
    MaxEvents,      \* bound: underruns, recoveries and skips of the run
    MaxUpdates,     \* bound: fader updates of one host
    MaxChanges,     \* bound: changes of the phone's and the host's state
    MaxWindows,     \* bound: windows of the run
    MaxCommands     \* bound: commands the page writes

ASSUME ContinuityAssumption ==
    Continuity \subseteq {"underruns", "device_recoveries", "skipped_sequence"}
ASSUME BoundsAssumption ==
    {MaxEvents, MaxUpdates, MaxChanges, MaxWindows, MaxCommands} \subseteq Nat

VARIABLES
    command,    \* command.json: its sequence and action
    obeyed,     \* the sequence of the command the controller has carried out
    alive,      \* whether a playback host runs
    playback,   \* playback-status.json
    stream,     \* whether the input status reads as streaming, and fresh
    worker,     \* gpu-status.json, the newest capture and the newest manifest
    known,      \* _command_sequence of the service
    rec,        \* its LiveAcceptanceRecorder
    events,     \* ghost: interruptions so far
    changes,    \* ghost: changes of the phone's and the host's state so far
    pending,    \* ghost: what the host has counted since the last sample
    gone,       \* ghost: what a host that is replaced by now had counted since then
    heard,      \* ghost: what was pending at the second of two active samples of rec
    lost,       \* ghost: what was gone at the second of two active samples of rec
    cut,        \* ghost: the host was replaced between two active samples of rec
    replaced,   \* ghost: the host was replaced since the last sample
    mine        \* ghost: the kinds of windows published since rec was new

host == <<alive, playback, stream, worker>>
ghosts == <<events, changes, pending, gone, heard, lost, cut, replaced, mine>>
vars == <<command, obeyed, host, known, rec, ghosts>>

Counted == Continuity \cup {"mixer_updates"}
Actions == {"start", "start_airplay", "stop", "open_audio_settings"}
WindowKinds == {"miss", "window", "song"}
States == {"prebuffering", "playing", "recovering"}

\* What a host writes before it has played anything, over the counters of its own life.
Zeros == [c \in Counted |-> 0]
FreshPlayback == [state |-> "prebuffering", slow |-> FALSE, count |-> Zeros]

FreshWorker == [captured |-> 0, hits |-> 0, misses |-> 0, songHit |-> FALSE]

\* What observe calls active: streaming, or playing.
Active == stream \/ playback.state = "playing"
Recovering == playback.state = "recovering"

\* _new_recorder
NewRecorder ==
    [started |-> FALSE,
     initial |-> FreshWorker, grown |-> {}, songs |-> FALSE,
     streamed |-> FALSE, open |-> FALSE, active |-> FALSE,
     base |-> Zeros, top |-> Zeros, done |-> Zeros, previous |-> Zeros,
     resetSeen |-> {}, recovering |-> FALSE, slow |-> FALSE, songHit |-> FALSE]

\* songs_cached: the first window that is separated completes a song here.
SongsCached == worker.misses > 0

Larger(a, b) == IF a > b THEN a ELSE b

\* A segment that goes on: the counters may have grown, or been reset.
Continue(r) ==
    LET seen == playback.count
        newer == seen["mixer_updates"] > r.previous["mixer_updates"]
    IN [r EXCEPT !.top = [c \in Counted |-> Larger(@[c], seen[c])],
                 !.previous = seen,
                 !.resetSeen = @ \cup {c \in Continuity : seen[c] < r.previous[c]},
                 !.recovering = @ \/ Recovering,
                 !.slow = @ \/ (newer /\ playback.slow)]

\* Mutants of Open: the history of the host is charged; a reset is forgotten.
Open_NoBaseline(r) ==
    [r EXCEPT !.open = TRUE, !.active = TRUE, !.top = playback.count,
              !.previous = playback.count, !.recovering = @ \/ Recovering]
Open_ForgetsReset(r) ==
    [r EXCEPT !.open = TRUE, !.active = TRUE, !.base = playback.count, !.top = playback.count,
              !.resetSeen = {}, !.previous = playback.count, !.recovering = @ \/ Recovering]

\* A segment that opens takes what it sees as its baseline.
Open(r) ==
    [r EXCEPT !.open = TRUE, !.active = TRUE, !.base = playback.count, !.top = playback.count,
              !.previous = playback.count, !.recovering = @ \/ Recovering]

\* Mutant: what the segment saw is not kept.
Close_Forgets(r) ==
    [r EXCEPT !.open = FALSE, !.base = Zeros, !.top = Zeros, !.previous = Zeros]

\* A segment that closes adds what it saw, without the sample that closes it.
\* Between segments base, top and previous are not looked at, and are zero here.
Close(r) ==
    [r EXCEPT !.open = FALSE, !.base = Zeros, !.top = Zeros, !.previous = Zeros,
              !.done = [c \in Counted |-> @[c] + (r.top[c] - r.base[c])]]

\* The part of observe that follows the counters through segments of activity.
FollowSegment(r) ==
    CASE Active /\ r.open -> Continue(r)
      [] Active /\ ~r.open -> Open(r)
      [] ~Active /\ r.open -> Close(r)
      [] OTHER -> r

\* Mutant: the counts that the session begins with are not taken down.
NoteWindows_NoInitial(r) ==
    [r EXCEPT
            !.started = TRUE,
            !.streamed = @ \/ stream,
            !.grown = @ \cup {n \in {"captured", "hits", "misses"} : worker[n] > r.initial[n]},
            !.songs = SongsCached,
            !.songHit = @ \/ (worker.songHit /\ worker.hits > r.initial.hits)]

\* The part of observe that counts windows, cache hits and misses: grown are the
\* counts that a sample has shown above their initial value.
NoteWindows(r) ==
    LET first == IF r.started THEN r.initial ELSE worker
    IN [r EXCEPT
            !.started = TRUE,
            !.initial = first,
            !.streamed = @ \/ stream,
            !.grown = @ \cup {n \in {"captured", "hits", "misses"} : worker[n] > first[n]},
            !.songs = SongsCached,
            !.songHit = @ \/ (worker.songHit /\ worker.hits > first.hits)]

Observe(r) == FollowSegment(NoteWindows(r))

(*************************** report ****************************************)
Delta(r, c) == r.done[c] + (IF r.open THEN r.top[c] - r.base[c] ELSE 0)

\* zero_active_underruns, zero_active_device_recoveries, zero_active_skipped_sequences
Zero(r, c) ==
    /\ r.active
    /\ Delta(r, c) = 0
    /\ c \notin r.resetSeen
    /\ c = "device_recoveries" => ~r.recovering

StreamReceived(r) == r.streamed /\ "captured" \in r.grown
GpuFirstPlay(r) == {"misses", "captured"} \subseteq r.grown
MixerAdjusted(r) == Delta(r, "mixer_updates") > 0
MixerBelowLimit(r) == MixerAdjusted(r) /\ ~r.slow

Passed(r) ==
    /\ StreamReceived(r) /\ GpuFirstPlay(r)
    /\ r.songs /\ r.songHit
    /\ \A c \in Continuity : Zero(r, c)
    /\ MixerBelowLimit(r)

Failed(r) ==
    /\ r.songHit
    /\ \/ \E c \in Continuity : ~Zero(r, c)
       \/ MixerAdjusted(r) /\ ~MixerBelowLimit(r)

(*************************** the service ***********************************)
\* sample: a command the service has not seen yet brings a new recorder
\* (_sync_session), which then makes its first observation; report is a function of rec.
Sample ==
    LET fresh == /\ command.sequence # known
                 /\ command.action # "open_audio_settings"
        current == IF fresh THEN NewRecorder ELSE rec
        next == Observe(current)
        between == current.open /\ Active
    IN /\ known' = command.sequence
       /\ rec' = next
       /\ heard' = (IF fresh THEN {} ELSE heard) \cup (IF between THEN pending ELSE {})
       /\ lost' = (IF fresh THEN {} ELSE lost) \cup (IF between THEN gone ELSE {})
       /\ cut' = ((~fresh /\ cut) \/ (between /\ replaced))
       /\ pending' = {} /\ gone' = {}
       /\ replaced' = FALSE
       /\ mine' = IF fresh THEN {} ELSE mine
       /\ UNCHANGED <<command, obeyed, host, events, changes>>

(*************************** page and controller ***************************)
\* The page writes a command, over one that nobody has read yet if need be.
Command ==
    \E action \in Actions :
        /\ command.sequence < MaxCommands
        /\ command' = [sequence |-> command.sequence + 1, action |-> action]
        /\ UNCHANGED <<obeyed, host, known, rec, ghosts>>

\* A host that starts overwrites the status of the one before it, and with it
\* whatever that one counted that the service has not seen yet.
StartHost ==
    /\ alive' = TRUE
    /\ playback' = FreshPlayback
    /\ replaced' = TRUE
    /\ gone' = gone \cup pending
    /\ pending' = {}

KeepHost == UNCHANGED <<alive, playback, replaced, pending, gone>>

\* The controller carries a command out.  start empties the directories and
\* restarts everything; start_airplay restarts the receiver, only the playback
\* host, or nothing; stop leaves the last playback status in place.
Obey ==
    /\ obeyed # command.sequence
    /\ obeyed' = command.sequence
    /\ CASE command.action = "start" ->
              /\ StartHost
              /\ stream' = FALSE
              /\ worker' = [worker EXCEPT !.captured = 0, !.songHit = FALSE]
         [] command.action = "start_airplay" ->
              /\ \/ StartHost /\ stream' \in {stream, FALSE}
                 \/ alive /\ KeepHost /\ stream' = stream
              /\ UNCHANGED worker
         [] command.action = "stop" ->
              /\ alive' = FALSE
              /\ stream' = FALSE
              /\ UNCHANGED <<playback, worker, replaced, pending, gone>>
         [] OTHER -> KeepHost /\ UNCHANGED <<stream, worker>>
    /\ UNCHANGED <<command, known, rec, events, changes, heard, lost, cut, mine>>

(*************************** phone, worker and host ************************)
Change ==
    /\ changes < MaxChanges
    /\ changes' = changes + 1
    /\ UNCHANGED <<events, pending, gone, heard, lost, cut, replaced, mine>>

\* The phone plays or pauses, or its status becomes stale or fresh.
Phone ==
    /\ alive
    /\ stream' = ~stream
    /\ Change
    /\ UNCHANGED <<command, obeyed, alive, playback, worker, known, rec>>

\* A window is captured and separated, taken from the window cache, or from a
\* song.
Window ==
    \E kind \in WindowKinds :
        /\ alive /\ worker.hits + worker.misses < MaxWindows
        /\ worker' = [captured |-> worker.captured + 1,
                      hits |-> worker.hits + (IF kind = "miss" THEN 0 ELSE 1),
                      misses |-> worker.misses + (IF kind = "miss" THEN 1 ELSE 0),
                      songHit |-> kind = "song"]
        /\ mine' = mine \cup ({kind} \ {"window"})
        /\ UNCHANGED <<command, obeyed, alive, playback, stream, known, rec,
                       events, changes, pending, gone, heard, lost, cut, replaced>>

\* The host starts or ends playing, or a device is lost or found again; while
\* one is looked for nothing plays.
PlaybackState ==
    /\ alive
    /\ \E state \in States \ {playback.state} : playback' = [playback EXCEPT !.state = state]
    /\ Change
    /\ UNCHANGED <<command, obeyed, alive, stream, worker, known, rec>>

\* An underrun, a recovery or a skip is counted.  A host that has just started
\* prebuffers for seconds, so the service has seen its zero counters before.
Interruption ==
    \E c \in Continuity :
        /\ alive /\ ~replaced
        /\ events < MaxEvents
        /\ events' = events + 1
        /\ playback' = [playback EXCEPT !.count[c] = @ + 1]
        /\ pending' = pending \cup {c}
        /\ UNCHANGED <<command, obeyed, alive, stream, worker, known, rec,
                       changes, gone, heard, lost, cut, replaced, mine>>

\* A fader reaches the mixer, soon enough or too late.
MixerUpdate ==
    /\ alive
    /\ playback.count["mixer_updates"] < MaxUpdates
    /\ \E slow \in BOOLEAN :
         playback' = [playback EXCEPT !.count["mixer_updates"] = @ + 1, !.slow = slow]
    /\ UNCHANGED <<command, obeyed, alive, stream, worker, known, rec, ghosts>>

\* The service starts beside a host that runs and may have been interrupted before.
Init ==
    /\ command = [sequence |-> 0, action |-> "stop"]
    /\ obeyed = 0 /\ known = 0
    /\ alive = TRUE /\ stream = FALSE
    /\ \E past \in {0, MaxEvents} : playback = [FreshPlayback EXCEPT !.count = [c \in Counted |-> past]]
    /\ worker = FreshWorker
    /\ rec = NewRecorder
    /\ events = 0 /\ changes = 0
    /\ pending = {} /\ gone = {} /\ heard = {} /\ lost = {}
    /\ cut = FALSE /\ replaced = FALSE /\ mine = {}

Next ==
    \/ Sample \/ Command \/ Obey
    \/ Phone \/ Window \/ PlaybackState \/ Interruption \/ MixerUpdate

Spec == Init /\ [][Next]_vars

(*************************** properties ************************************)
Count == [Counted -> Nat]
WorkerState == [captured : Nat, hits : Nat, misses : Nat, songHit : BOOLEAN]

RecorderState ==
    [started : BOOLEAN, initial : WorkerState,
     grown : SUBSET {"captured", "hits", "misses"}, songs : BOOLEAN,
     streamed : BOOLEAN, open : BOOLEAN, active : BOOLEAN,
     base : Count, top : Count, done : Count, previous : Count,
     resetSeen : SUBSET Continuity, recovering : BOOLEAN, slow : BOOLEAN, songHit : BOOLEAN]

\* Type correctness of the service and of the files it reads.
TypeOK ==
    /\ command \in [sequence : Nat, action : Actions]
    /\ obeyed \in Nat /\ known \in Nat /\ events \in Nat /\ changes \in Nat
    /\ alive \in BOOLEAN /\ stream \in BOOLEAN /\ cut \in BOOLEAN /\ replaced \in BOOLEAN
    /\ playback \in [state : States, slow : BOOLEAN, count : Count]
    /\ worker \in WorkerState
    /\ rec \in RecorderState
    /\ {pending, gone, heard, lost} \subseteq SUBSET Continuity
    /\ mine \subseteq {"miss", "song"}

\* A session that is told to have passed had no interruption between two samples that
\* both found it active, in any segment, that a host counted which was still there at
\* the second of them.  What a host counted just before it was replaced is excepted
\* (PassedMeansUninterrupted), and so is the replacement itself.
PassedMeansClean == Passed(rec) => heard = {}

\* The acceptance document says that every interruption during active playback is a
\* failure of continuity: also one counted by a host that is replaced before the next
\* sample, which compares the new host's zero with an old one and finds no reset.
PassedMeansUninterrupted == Passed(rec) => heard \cup lost = {}

\* A session passes on what was done for it: a window that the GPU separated and
\* a song taken from the cache under its recorder, not those of the session before,
\* whose counters and newest manifest the first sample finds.
PassedMeansPlayed == Passed(rec) => {"miss", "song"} \subseteq mine

\* What happened in a pause or before the session's first active sample never
\* counts: an interruption is charged only when it fell between two active samples,
\* when the device was found recovering, or when the host was replaced in between.
IdleNeverCounts ==
    \A c \in Continuity :
        rec.active /\ ~Zero(rec, c) => c \in heard \/ rec.recovering \/ cut

\* A session that has failed stays failed until another command brings a new
\* recorder, however often it pauses and however its counters are reset.  (Before
\* the first active sample a cached window can read as failed and no longer do so.)
FailureIsFinal ==
    [][Failed(rec) /\ rec.active /\ known' = known => Failed(rec')]_vars

\* The acceptance document says that the interruptions of the past do not count
\* in the next active segment.
HistoryNeverCounts ==
    rec.active /\ heard = {} /\ ~rec.recovering => \A c \in Continuity : Zero(rec, c)
=============================================================================
