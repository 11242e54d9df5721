---------------------------- MODULE LivePipeline ----------------------------
(***************************************************************************)
(* A Windows live session, from the captured window to the ring: four      *)
(* processes that share nothing but the files of data/live.                *)
(*                                                                         *)
(*   app         writes command.json (live_control.py write_command)       *)
(*   controller  HostController.ps1: empties the directories of the        *)
(*               previous session, writes capture-session.json, runs the   *)
(*               audio host                                                *)
(*   host        main.cpp: publishes captured windows in inbox, loads      *)
(*               separated windows from outbox in sequence order, reports  *)
(*               the last one it queued in playback-status.json            *)
(*   worker      live_worker.py: adopts the session, prunes, separates,    *)
(*               publishes stem by stem and then the manifest              *)
(*                                                                         *)
(* The contents of a window are the session whose sound it is and whether  *)
(* it was separated or is the original mix of a fallback.  A push that     *)
(* waits for room in the ring (StemBuffer) is a loader that takes its time.*)
(* Windows sessions bypass both caches (_windows_capture_active, and no    *)
(* annotation), so every window is separated or falls back.                *)
(***************************************************************************)
EXTENDS Integers, FiniteSets

CONSTANTS Stems,            \* stems of the profile
          Actions,          \* commands the app issues
          Keep,             \* _artifact_retention_sequences
          MaxCommands,      \* bound: commands ever written
          MaxWindow,        \* bound: sequences of one directory
          MaxRestarts       \* bound: restarts of the worker

ASSUME LivePipelineAssumption ==
    /\ Stems # {}
    /\ Actions \subseteq {"start", "stop", "open_audio_settings"}
    /\ Keep \in Nat \ {0}
    /\ MaxCommands \in Nat /\ MaxWindow \in Nat /\ MaxRestarts \in Nat

VARIABLES command,          \* command.json
          session,          \* capture-session.json
          inbox,            \* capture-N.wav: the session it was captured in
          stems,            \* result-N-stem.wav: what it sounds like
          manifest,         \* result-N.json: does it name stems or none
          playback_status,  \* queued_sequence of playback-status.json
          controller, host, loader, worker,
          heard,            \* the last window pushed into the ring
          restarts

vars == <<command, session, inbox, stems, manifest, playback_status,
          controller, host, loader, worker, heard, restarts>>
outbox == <<stems, manifest>>

Windows == 1..MaxWindow
Sessions == 1..MaxCommands
Kinds == {"separated", "original"}
Sounds == [session : Sessions, kind : Kinds]
NoFile == 0
NoSound == [session |-> 0, kind |-> "none"]

HostDown == [up |-> FALSE, session |-> 0, capture |-> 1, next |-> 1,
             queued |-> 0, skipped |-> 0, reported |-> FALSE]
LoaderIdle == [phase |-> "probe", read |-> [s \in Stems |-> NoSound]]

Largest(S) == IF S = {} THEN 0 ELSE CHOOSE n \in S : \A m \in S : m <= n
Smallest(S) == CHOOSE n \in S : \A m \in S : n <= m

Captures == {n \in Windows : inbox[n] # NoFile}
Results == {n \in Windows : manifest[n] # "absent"
                            \/ \E s \in Stems : stems[n][s] # NoSound}

\* A worker process that has just started (LiveWorker.__init__).
FreshWorker(last) ==
    [phase |-> "sync", applied |-> 0, active |-> FALSE, last |-> last,
     chunk |-> 0, sound |-> NoSound, done |-> {}]

Init ==
    /\ command = [sequence |-> 0, action |-> "none"]
    /\ session = [state |-> "none", sequence |-> 0]
    /\ inbox = [n \in Windows |-> NoFile]
    /\ stems = [n \in Windows |-> [s \in Stems |-> NoSound]]
    /\ manifest = [n \in Windows |-> "absent"]
    /\ playback_status = 0
    /\ controller = [phase |-> "poll", last |-> 0]
    /\ host = HostDown
    /\ loader = LoaderIdle
    /\ worker = FreshWorker(0)
    /\ heard = [s \in Stems |-> NoSound]
    /\ restarts = 0

-----------------------------------------------------------------------------
(* The app and the controller *)

\* command.json is replaced whether or not anyone has read the previous one.
WriteCommand(a) ==
    /\ command.sequence < MaxCommands
    /\ command' = [sequence |-> command.sequence + 1, action |-> a]
    /\ UNCHANGED <<session, inbox, outbox, playback_status, controller, host,
                   loader, worker, heard, restarts>>

NewCommand == controller.phase = "poll" /\ command.sequence > controller.last

\* "stop", and the commands that leave the pipeline alone.
ControllerObeys ==
    /\ NewCommand /\ command.action # "start"
    /\ controller' = [controller EXCEPT !.last = command.sequence]
    /\ IF command.action = "stop" THEN host' = HostDown /\ loader' = LoaderIdle
                                  ELSE UNCHANGED <<host, loader>>
    /\ UNCHANGED <<command, session, inbox, outbox, playback_status, worker,
                   heard, restarts>>

\* "start": Stop-Capture, then the marker that a reset has begun.
ControllerResets ==
    /\ NewCommand /\ command.action = "start"
    /\ controller' = [phase |-> "clear inbox", last |-> command.sequence]
    /\ host' = HostDown /\ loader' = LoaderIdle
    /\ session' = [state |-> "resetting", sequence |-> command.sequence]
    /\ UNCHANGED <<command, inbox, outbox, playback_status, worker, heard, restarts>>

ControllerClearsInbox ==
    /\ controller.phase = "clear inbox"
    /\ inbox' = [n \in Windows |-> NoFile]
    /\ controller' = [controller EXCEPT !.phase = "clear outbox"]
    /\ UNCHANGED <<command, session, outbox, playback_status, host, loader,
                   worker, heard, restarts>>

ControllerClearsOutbox ==
    /\ controller.phase = "clear outbox"
    /\ stems' = [n \in Windows |-> [s \in Stems |-> NoSound]]
    /\ manifest' = [n \in Windows |-> "absent"]
    /\ controller' = [controller EXCEPT !.phase = "ready"]
    /\ UNCHANGED <<command, session, inbox, playback_status, host, loader,
                   worker, heard, restarts>>

ControllerMarksReady ==
    /\ controller.phase = "ready"
    /\ session' = [session EXCEPT !.state = "ready"]
    /\ controller' = [controller EXCEPT !.phase = "start host"]
    /\ UNCHANGED <<command, inbox, outbox, playback_status, host, loader,
                   worker, heard, restarts>>

\* next_capture_sequence: one past everything in the two directories.
NextCaptureSequence == Largest(Captures \cup Results) + 1

ControllerStartsHost ==
    /\ controller.phase = "start host"
    /\ controller' = [controller EXCEPT !.phase = "poll"]
    /\ host' = [HostDown EXCEPT !.up = TRUE, !.session = session.sequence,
                                !.capture = NextCaptureSequence,
                                !.next = NextCaptureSequence]
    /\ UNCHANGED <<command, session, inbox, outbox, playback_status, loader,
                   worker, heard, restarts>>

-----------------------------------------------------------------------------
(* The audio host *)

\* Timing: a first window takes window_seconds (12 s) of sound, longer than the
\* first report of the status thread (at once), than the files of one polling
\* cycle of the worker, and than what is left of an inference begun for the
\* previous session (the hard deadline of the child).
TwelveSecondsPassed ==
    /\ host.reported
    /\ worker.phase \in {"prune", "discover"} => worker.applied >= host.session
    /\ worker.chunk # 0 => worker.sound.session \in {0, host.session}
                           /\ inbox[worker.chunk] # NoFile

CaptureWindow ==
    /\ host.up /\ host.capture \in Windows
    /\ TwelveSecondsPassed
    /\ inbox' = [inbox EXCEPT ![host.capture] = host.session]
    /\ host' = [host EXCEPT !.capture = @ + 1]
    /\ UNCHANGED <<command, session, outbox, playback_status, controller, loader,
                   worker, heard, restarts>>

HostReports ==
    /\ host.up
    /\ playback_status' = host.queued
    /\ host' = [host EXCEPT !.reported = TRUE]
    /\ UNCHANGED <<command, session, inbox, outbox, controller, loader, worker,
                   heard, restarts>>

\* load_stem_sequence: a manifest announces the window.  Then every stem file
\* must be there (the window is read stem by stem) or the window is skipped.
Announced == host.up /\ host.next \in Windows /\ manifest[host.next] # "absent"
AllStemsThere == \A s \in Stems : stems[host.next][s] # NoSound

LoaderFinds ==
    /\ Announced /\ loader.phase = "probe" /\ AllStemsThere
    /\ loader' = [loader EXCEPT !.phase = "read"]
    /\ UNCHANGED <<command, session, inbox, outbox, playback_status, controller,
                   host, worker, heard, restarts>>

LoaderSkips ==
    /\ Announced /\ loader.phase = "probe" /\ ~AllStemsThere
    /\ host' = [host EXCEPT !.skipped = host.next, !.next = @ + 1]
    /\ UNCHANGED <<command, session, inbox, outbox, playback_status, controller,
                   loader, worker, heard, restarts>>

\* A stem that has gone since the probe throws, and the error stops the host.
LoaderReads(s) ==
    /\ loader.phase = "read" /\ loader.read[s] = NoSound
    /\ IF stems[host.next][s] = NoSound
       THEN host' = HostDown /\ loader' = LoaderIdle
       ELSE /\ loader' = [loader EXCEPT !.read = [@ EXCEPT ![s] = stems[host.next][s]]]
            /\ UNCHANGED host
    /\ UNCHANGED <<command, session, inbox, outbox, playback_status, controller,
                   worker, heard, restarts>>

LoaderQueues ==
    /\ loader.phase = "read" /\ \A s \in Stems : loader.read[s] # NoSound
    /\ heard' = loader.read
    /\ host' = [host EXCEPT !.queued = host.next, !.next = @ + 1]
    /\ loader' = LoaderIdle
    /\ UNCHANGED <<command, session, inbox, outbox, playback_status, controller,
                   worker, restarts>>

-----------------------------------------------------------------------------
(* The worker *)

WorkerOnly == UNCHANGED <<command, session, playback_status, controller, host,
                          loader, heard, restarts>>

\* The command is for a capture session that the controller has made ready.
SessionReady == session.state = "ready" /\ session.sequence = command.sequence

Seen == [worker EXCEPT !.phase = "prune", !.applied = command.sequence]

\* MUTANT: the numbering of the previous session goes on.
Adopted_KeepsLast == [Seen EXCEPT !.active = TRUE]

\* A session numbers its windows from 1.
Adopted == [Seen EXCEPT !.active = TRUE, !.last = 0]

\* MUTANT: a start that cannot be taken up yet is taken as seen.
Pending_Forgets == [Seen EXCEPT !.active = FALSE]

\* A start waits, unapplied, for its session.
Pending == [worker EXCEPT !.phase = "prune", !.active = FALSE]

\* MUTANT: the command last applied is applied again.
Unseen_Again == command.sequence >= worker.applied

Unseen == command.sequence > worker.applied

\* _sync_requested_profile
WorkerSyncs ==
    /\ worker.phase = "sync"
    /\ worker' = CASE ~Unseen -> [worker EXCEPT !.phase = "prune"]
                   [] Unseen /\ command.action = "start" ->
                        IF SessionReady THEN Adopted ELSE Pending
                   [] Unseen /\ command.action = "stop" -> [Seen EXCEPT !.active = FALSE]
                   [] OTHER -> Seen
    /\ UNCHANGED <<inbox, outbox>> /\ WorkerOnly

Prunes(cutoff) ==
    /\ worker.phase = "prune"
    /\ worker' = [worker EXCEPT !.phase = "discover"]
    /\ inbox' = [n \in Windows |-> IF n <= cutoff THEN NoFile ELSE inbox[n]]
    /\ manifest' = [n \in Windows |-> IF n <= cutoff THEN "absent" ELSE manifest[n]]
    /\ stems' = [n \in Windows |-> IF n <= cutoff THEN [s \in Stems |-> NoSound]
                                                  ELSE stems[n]]
    /\ WorkerOnly

\* MUTANT: pruning by what was published instead of what was queued.
WorkerPrunes_Published == Prunes(worker.last - Keep)

\* prune_live_artifacts: everything older than the last Keep queued windows.
WorkerPrunes == Prunes(playback_status - Keep)

WorkerDiscovers ==
    /\ worker.phase = "discover"
    /\ LET ready == {n \in Captures : n > worker.last}
       IN  worker' = IF ready = {} THEN [worker EXCEPT !.phase = "sync"]
                     ELSE [worker EXCEPT !.phase = "separate", !.chunk = Smallest(ready)]
    /\ UNCHANGED <<inbox, outbox>> /\ WorkerOnly

CaptureThere == inbox[worker.chunk] # NoFile
Publishing(kind) == [worker EXCEPT !.phase = "publish", !.done = {},
                        !.sound = [session |-> inbox[worker.chunk], kind |-> kind]]

WorkerSeparates ==
    /\ worker.phase = "separate" /\ CaptureThere
    /\ worker' = Publishing("separated")
    /\ UNCHANGED <<inbox, outbox>> /\ WorkerOnly

\* _quarantine after a deadline, a warming model, a backlog or a capture file
\* that is gone: the original mix if it can be read, else a manifest without stems.
WorkerFallsBack ==
    /\ worker.phase = "separate"
    /\ worker' = IF CaptureThere THEN Publishing("original")
                                 ELSE [worker EXCEPT !.phase = "unlink"]
    /\ UNCHANGED <<inbox, outbox>> /\ WorkerOnly

WorkerPublishesStem(s) ==
    /\ worker.phase = "publish" /\ s \notin worker.done
    /\ stems' = [stems EXCEPT ![worker.chunk] = [@ EXCEPT ![s] = worker.sound]]
    /\ worker' = [worker EXCEPT !.done = @ \cup {s}]
    /\ UNCHANGED <<inbox, manifest>> /\ WorkerOnly

\* MUTANT: the manifest no longer depends on the capture file.
WorkerChecksCapture_Not ==
    /\ worker.phase = "publish" /\ worker.done = Stems
    /\ worker' = [worker EXCEPT !.phase = "announce"]
    /\ UNCHANGED <<inbox, outbox>> /\ WorkerOnly

\* The latency is taken from the capture file: it throws if the file is gone,
\* and then there is nothing to fall back on either.
WorkerChecksCapture ==
    /\ worker.phase = "publish" /\ worker.done = Stems
    /\ worker' = [worker EXCEPT !.phase = IF CaptureThere THEN "announce" ELSE "unlink"]
    /\ UNCHANGED <<inbox, outbox>> /\ WorkerOnly

\* MUTANT: the window stays in hand.
Finished_KeepsChunk == [worker EXCEPT !.phase = "sync", !.last = worker.chunk,
                                      !.sound = NoSound, !.done = {}]

Finished == [worker EXCEPT !.phase = "sync", !.last = worker.chunk, !.chunk = 0,
                           !.sound = NoSound, !.done = {}]

WorkerAnnounces ==
    /\ worker.phase = "announce"
    /\ manifest' = [manifest EXCEPT ![worker.chunk] = "stems"]
    /\ worker' = IF worker.sound.kind = "separated"
                 THEN Finished ELSE [worker EXCEPT !.phase = "quarantine"]
    /\ UNCHANGED <<inbox, stems>> /\ WorkerOnly

WorkerUnlinks ==
    /\ worker.phase = "unlink"
    /\ stems' = [stems EXCEPT ![worker.chunk] = [s \in Stems |-> NoSound]]
    /\ worker' = [worker EXCEPT !.phase = "announce none"]
    /\ UNCHANGED <<inbox, manifest>> /\ WorkerOnly

WorkerAnnouncesNone ==
    /\ worker.phase = "announce none"
    /\ manifest' = [manifest EXCEPT ![worker.chunk] = "empty"]
    /\ worker' = [worker EXCEPT !.phase = "quarantine"]
    /\ UNCHANGED <<inbox, stems>> /\ WorkerOnly

\* The capture moves to failed, and the worker to the next window.
WorkerQuarantines ==
    /\ worker.phase = "quarantine"
    /\ inbox' = [inbox EXCEPT ![worker.chunk] = NoFile]
    /\ worker' = Finished
    /\ UNCHANGED outbox /\ WorkerOnly

\* The container is replaced: what it knew is gone, the files stay.
WorkerRestarts ==
    /\ restarts < MaxRestarts
    /\ restarts' = restarts + 1
    /\ worker' = FreshWorker(Largest({n \in Windows : manifest[n] # "absent"}))
    /\ UNCHANGED <<command, session, inbox, outbox, playback_status, controller,
                   host, loader, heard>>

-----------------------------------------------------------------------------
Controller == \/ ControllerObeys \/ ControllerResets
              \/ ControllerClearsInbox \/ ControllerClearsOutbox
              \/ ControllerMarksReady \/ ControllerStartsHost

Loader == \/ LoaderFinds \/ LoaderSkips \/ LoaderQueues
          \/ \E s \in Stems : LoaderReads(s)

WorkerCycle == WorkerSyncs \/ WorkerPrunes \/ WorkerDiscovers

WorkerChunk == \/ WorkerSeparates \/ WorkerFallsBack
               \/ \E s \in Stems : WorkerPublishesStem(s)
               \/ WorkerChecksCapture \/ WorkerAnnounces
               \/ WorkerUnlinks \/ WorkerAnnouncesNone \/ WorkerQuarantines

Next == \/ \E a \in Actions : WriteCommand(a)
        \/ Controller
        \/ CaptureWindow \/ HostReports \/ Loader
        \/ WorkerCycle \/ WorkerChunk \/ WorkerRestarts

Spec == Init /\ [][Next]_vars

\* Each process keeps polling; nobody is obliged to issue a command, to
\* restart the worker or to play music.
FairSpec == /\ Spec
            /\ WF_vars(Controller) /\ WF_vars(HostReports) /\ WF_vars(Loader)
            /\ WF_vars(WorkerCycle) /\ WF_vars(WorkerChunk)

-----------------------------------------------------------------------------
(* Properties *)

CommandFiles == [sequence : 0..MaxCommands, action : Actions \cup {"none"}]
SessionFiles == [state : {"none", "resetting", "ready"}, sequence : 0..MaxCommands]
Contents == {NoSound} \cup Sounds
ControllerStates ==
    [phase : {"poll", "clear inbox", "clear outbox", "ready", "start host"},
     last : 0..MaxCommands]
HostStates ==
    [up : BOOLEAN, session : 0..MaxCommands, capture : 1..(MaxWindow + 1),
     next : 1..(MaxWindow + 1), queued : 0..MaxWindow, skipped : 0..MaxWindow,
     reported : BOOLEAN]
LoaderStates == [phase : {"probe", "read"}, read : [Stems -> Contents]]
WorkerStates ==
    [phase : {"sync", "prune", "discover", "separate", "publish", "announce",
              "unlink", "announce none", "quarantine"},
     applied : 0..MaxCommands, active : BOOLEAN, last : 0..MaxWindow,
     chunk : 0..MaxWindow, sound : Contents, done : SUBSET Stems]

\* Type invariant: the files hold what their writers put there, a sequence the
\* loader waits for is at most one past the last one captured, and the worker
\* has a window in hand exactly outside its polling cycle.
TypeOK ==
    /\ command \in CommandFiles
    /\ session \in SessionFiles
    /\ inbox \in [Windows -> {NoFile} \cup Sessions]
    /\ stems \in [Windows -> [Stems -> Contents]]
    /\ manifest \in [Windows -> {"absent", "empty", "stems"}]
    /\ playback_status \in 0..MaxWindow
    /\ controller \in ControllerStates
    /\ host \in HostStates
    /\ loader \in LoaderStates
    /\ heard \in [Stems -> Contents]
    /\ worker \in WorkerStates
    /\ restarts \in 0..MaxRestarts
    /\ worker.chunk = 0 <=> worker.phase \in {"sync", "prune", "discover"}

\* A session plays its own sound: whatever the worker was doing when the
\* directories were reset, no window of an earlier session is ever queued.
\* Rests on the order inbox, outbox of the reset and on the worker looking at
\* the capture file after the stems and before the manifest.
OwnSession ==
    host.queued > 0 => \A s \in Stems : heard[s].session = host.session

\* The stems of one queued window come from one publication, never the voice
\* of a separated window over the full mix of its fallback.  A worker that is
\* restarted may publish again what the loader is reading: no claim then.
WholeWindow == restarts = 0 => \A s, t \in Stems : heard[s] = heard[t]

\* "Remove only complete artifacts already copied into the playback queue":
\* while a host runs, pruning deletes nothing of its session that its loader
\* has not passed.
PruneOnlyQueued ==
    [][host.up /\ worker.phase = "prune" /\ worker'.phase = "discover" =>
         \A n \in host.next..MaxWindow :
            /\ inbox[n] = host.session => inbox'[n] = inbox[n]
            /\ \A s \in Stems : stems[n][s].session = host.session
                                   => stems'[n][s] = stems[n][s]]_vars

\* A started host is not left alone: unless it is stopped, the worker takes up
\* its session.
SessionAdopted ==
    host.up ~> (host.up => worker.applied >= host.session /\ worker.active)

\* The timeline goes on: every window the host has captured is queued or
\* skipped in the end, or the host is stopped.
EveryWindowConsumed ==
    \A n \in Windows :
        (host.up /\ n \in host.next..(host.capture - 1)) ~> (host.up => host.next > n)

\* No result sequence is skipped while a session plays.
NoSequenceSkipped == host.skipped = 0
=============================================================================
