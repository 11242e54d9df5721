--------------------------- MODULE GpuReservation ---------------------------
(***************************************************************************)
(* Who may use the GPU: GpuWorkCoordinator (gpu_work.py), the page         *)
(* handlers that reserve and release it (app.py), and the controller and   *)
(* worker that use it for a live session on the word of command.json,      *)
(* which the handlers write between reserving and returning.  The          *)
(* controller writes command.json too: automatic words of its own, when    *)
(* the player it watches goes or comes.                                    *)
(*                                                                         *)
(* Handlers run in threads of their own: each step below is one of their   *)
(* critical sections or one file operation.                                *)
(***************************************************************************)
EXTENDS Integers, FiniteSets

CONSTANTS Pages,          \* threads that run start/stop/watch handlers
          Files,          \* threads that run run_separation
          Requests,       \* handlers the pages call
          FileCapacity,   \* file_capacity
          MaxRequests,    \* bound: handlers called
          MaxPlayer,      \* bound: times the watched player goes or comes
          MaxRestarts     \* bound: restarts of the app

ASSUME GpuReservationAssumption ==
    /\ IsFiniteSet(Files)
    /\ Requests \subseteq {"start", "start_airplay", "stop", "watch"}
    /\ FileCapacity \in Nat \ {0}
    /\ MaxRequests \in Nat /\ MaxPlayer \in Nat /\ MaxRestarts \in Nat

VARIABLES file_tasks, live_reserved,    \* the coordinator
          LIVE_RESERVATION,             \* does the app hold the live reservation
          page, file,                   \* per thread, where its handler is
          command,                      \* command.json
          asked,                        \* handlers called, the last word of a page, whether two overlapped
          controller,                   \* what the controller has made of it
          player,                       \* times the watched player went or came
          worker,                       \* windows waiting, inference under way
          restarts

vars == <<file_tasks, live_reserved, LIVE_RESERVATION, page, file, command, asked,
          controller, player, worker, restarts>>
coordinator == <<file_tasks, live_reserved>>
app == <<coordinator, LIVE_RESERVATION, page, file, asked>>
windows == <<controller, player, worker, restarts>>

Idle == [at |-> "idle", created |-> FALSE]

Init ==
    /\ file_tasks = 0 /\ live_reserved = FALSE /\ LIVE_RESERVATION = FALSE
    /\ page = [p \in Pages |-> Idle]
    /\ file = [f \in Files |-> "idle"]
    /\ command = [sequence |-> 0, action |-> "none", automatic |-> FALSE]
    /\ asked = [times |-> 0, last |-> "none", together |-> FALSE]
    /\ controller = [last |-> 0, live |-> FALSE, watch |-> FALSE, settling |-> FALSE]
    /\ player = 0
    /\ worker = [windows |-> FALSE, inferring |-> FALSE]
    /\ restarts = 0

-----------------------------------------------------------------------------
(* start_live_capture, stop_live_capture, enable_music_auto_monitor *)

Goto(p, at) == page' = [page EXCEPT ![p].at = at]

AllIdle == \A p \in Pages : page[p].at = "idle"

\* A handler is called, beside others or alone; asked keeps the word it ends on.
Called(last) ==
    /\ asked.times < MaxRequests
    /\ asked' = [times |-> asked.times + 1, last |-> last, together |-> asked.together \/ ~AllIdle]

Written(action, by_controller) ==
    [sequence |-> command.sequence + 1, action |-> action, automatic |-> by_controller]

\* write_command: the word replaces one the controller may not have read.
Writes(action) == command' = Written(action, FALSE)

\* MUTANT: live work is reserved whatever files are being separated.
CanReserveLive_Anyway == ~live_reserved

CanReserveLive == ~live_reserved /\ file_tasks = 0

Starts == Requests \cap {"start", "start_airplay"}

\* Under _RESERVATION_LOCK: reserve, or join a session that is reserved.
StartReserves(p) ==
    /\ Starts # {} /\ page[p].at = "idle" /\ Called(asked.last)
    /\ \/ /\ ~LIVE_RESERVATION /\ CanReserveLive
          /\ live_reserved' = TRUE /\ LIVE_RESERVATION' = TRUE
          /\ page' = [page EXCEPT ![p] = [at |-> "start", created |-> TRUE]]
       \/ /\ LIVE_RESERVATION
          /\ page' = [page EXCEPT ![p] = [at |-> "start", created |-> FALSE]]
          /\ UNCHANGED <<live_reserved, LIVE_RESERVATION>>
    /\ UNCHANGED <<file_tasks, file, command, windows>>

StartWrites(p) ==
    /\ page[p].at = "start"
    /\ \E action \in Starts : Writes(action)
    /\ asked' = [asked EXCEPT !.last = "start"]
    /\ page' = [page EXCEPT ![p] = Idle]
    /\ UNCHANGED <<coordinator, LIVE_RESERVATION, file, windows>>

\* MUTANT: the reservation outlives a start that failed.
StartFails_Keeps(p) ==
    /\ page[p].at = "start"
    /\ page' = [page EXCEPT ![p] = Idle]
    /\ UNCHANGED <<coordinator, LIVE_RESERVATION, file, command, asked, windows>>

\* MUTANT: a handler that joined a session gives its reservation back.
StartFails_JoinerReleases(p) ==
    /\ page[p].at = "start"
    /\ page' = [page EXCEPT ![p] = Idle]
    /\ live_reserved' = (live_reserved /\ ~LIVE_RESERVATION)
    /\ LIVE_RESERVATION' = FALSE
    /\ UNCHANGED <<file_tasks, file, command, asked, windows>>

\* The mixer or command file cannot be written: the handler that created the
\* reservation gives back whatever the app holds by now.
StartFails(p) ==
    /\ page[p].at = "start"
    /\ page' = [page EXCEPT ![p] = Idle]
    /\ IF page[p].created /\ LIVE_RESERVATION
       THEN live_reserved' = FALSE /\ LIVE_RESERVATION' = FALSE
       ELSE UNCHANGED <<live_reserved, LIVE_RESERVATION>>
    /\ UNCHANGED <<file_tasks, file, command, asked, windows>>

StopWrites(p) ==
    /\ "stop" \in Requests /\ page[p].at = "idle"
    /\ Called("stop")
    /\ Writes("stop")
    /\ Goto(p, "stop")
    /\ UNCHANGED <<coordinator, LIVE_RESERVATION, file, windows>>

\* MUTANT: the coordinator is released, the app believes it still holds it.
StopReleases_KeepsToken(p) ==
    /\ page[p].at = "stop"
    /\ Goto(p, "idle")
    /\ live_reserved' = (live_reserved /\ ~LIVE_RESERVATION)
    /\ UNCHANGED <<LIVE_RESERVATION, file_tasks, file, command, asked, windows>>

StopReleases(p) ==
    /\ page[p].at = "stop"
    /\ Goto(p, "idle")
    /\ live_reserved' = (live_reserved /\ ~LIVE_RESERVATION)
    /\ LIVE_RESERVATION' = FALSE
    /\ UNCHANGED <<file_tasks, file, command, asked, windows>>

\* The watch is asked for without a reservation.
WatchWrites(p) ==
    /\ "watch" \in Requests /\ page[p].at = "idle"
    /\ Called("watch")
    /\ Writes("watch")
    /\ UNCHANGED <<coordinator, LIVE_RESERVATION, page, file, windows>>

-----------------------------------------------------------------------------
(* run_separation *)

FileChecks(f) ==
    /\ file[f] = "idle" /\ ~controller.live
    /\ file' = [file EXCEPT ![f] = "checked"]
    /\ UNCHANGED <<coordinator, LIVE_RESERVATION, page, command, asked, windows>>

\* MUTANT: one more task than the hardware tier allows.
CanReserveFile_OneMore == ~live_reserved /\ file_tasks <= FileCapacity

CanReserveFile == ~live_reserved /\ file_tasks < FileCapacity

FileReserves(f) ==
    /\ file[f] = "checked"
    /\ IF CanReserveFile
       THEN file_tasks' = file_tasks + 1 /\ file' = [file EXCEPT ![f] = "separating"]
       ELSE UNCHANGED file_tasks /\ file' = [file EXCEPT ![f] = "idle"]
    /\ UNCHANGED <<live_reserved, LIVE_RESERVATION, page, command, asked, windows>>

FileReleases(f) ==
    /\ file[f] = "separating"
    /\ file_tasks' = IF file_tasks > 0 THEN file_tasks - 1 ELSE 0
    /\ file' = [file EXCEPT ![f] = "idle"]
    /\ UNCHANGED <<live_reserved, LIVE_RESERVATION, page, command, asked, windows>>

-----------------------------------------------------------------------------
(* The controller and the worker *)

Obeys(live, watch) ==
    controller' = [last |-> command.sequence, live |-> live, watch |-> watch,
                   settling |-> command.action = "watch"]

\* A start remembers its player for the watch, or fails: the player has gone, or
\* the host does not start.  An automatic stop goes on watching.
ControllerPolls ==
    /\ ~controller.settling /\ command.sequence > controller.last
    /\ LET goes_on == controller.watch /\ command.automatic
       IN  \/ command.action = "start" /\ (Obeys(TRUE, TRUE) \/ Obeys(FALSE, goes_on))
           \/ command.action = "start_airplay" /\ \E ok \in BOOLEAN : Obeys(ok, FALSE)
           \/ command.action = "stop" /\ Obeys(FALSE, goes_on)
           \/ command.action = "watch" /\ Obeys(FALSE, TRUE)
    /\ UNCHANGED <<app, command, player, worker, restarts>>

\* Write-AutomaticCommand, the last step of taking up a watch.
ControllerSettles ==
    /\ controller.settling
    /\ command' = Written("stop", TRUE)
    /\ controller' = [controller EXCEPT !.settling = FALSE]
    /\ UNCHANGED <<app, player, worker, restarts>>

\* The watched player goes, or comes back: an automatic word, over whatever a
\* page may have written since the controller last read.
PlayerChanges ==
    /\ controller.watch /\ ~controller.settling /\ player < MaxPlayer
    /\ player' = player + 1
    /\ command' = Written(IF controller.live THEN "stop" ELSE "start", TRUE)
    /\ UNCHANGED <<app, controller, worker, restarts>>

\* The audio host exits of itself.
HostExits ==
    /\ controller.live /\ ~controller.settling
    /\ controller' = [controller EXCEPT !.live = FALSE]
    /\ UNCHANGED <<app, command, player, worker, restarts>>

WindowArrives ==
    /\ controller.live /\ ~worker.windows
    /\ worker' = [worker EXCEPT !.windows = TRUE]
    /\ UNCHANGED <<app, command, controller, player, restarts>>

\* Windows left by a session that was stopped are separated all the same.
WorkerInfers ==
    /\ worker.windows /\ ~worker.inferring
    /\ worker' = [windows |-> FALSE, inferring |-> TRUE]
    /\ UNCHANGED <<app, command, controller, player, restarts>>

WorkerFinishes ==
    /\ worker.inferring
    /\ worker' = [worker EXCEPT !.inferring = FALSE]
    /\ UNCHANGED <<app, command, controller, player, restarts>>

\* The container is replaced; the session on the Windows side goes on.
AppRestarts ==
    /\ restarts < MaxRestarts
    /\ restarts' = restarts + 1
    /\ file_tasks' = 0 /\ live_reserved' = FALSE /\ LIVE_RESERVATION' = FALSE
    /\ page' = [p \in Pages |-> Idle]
    /\ file' = [f \in Files |-> "idle"]
    /\ worker' = [worker EXCEPT !.inferring = FALSE]
    /\ UNCHANGED <<command, asked, controller, player>>

-----------------------------------------------------------------------------
Page(p) == \/ StartReserves(p) \/ StartWrites(p) \/ StartFails(p)
           \/ StopWrites(p) \/ StopReleases(p) \/ WatchWrites(p)

File(f) == FileChecks(f) \/ FileReserves(f) \/ FileReleases(f)

Windows == \/ ControllerPolls \/ ControllerSettles \/ PlayerChanges \/ HostExits
           \/ WindowArrives \/ WorkerInfers \/ WorkerFinishes

Next == (\E p \in Pages : Page(p)) \/ (\E f \in Files : File(f)) \/ Windows \/ AppRestarts

Spec == Init /\ [][Next]_vars

-----------------------------------------------------------------------------
(* Properties *)

Separating == {f \in Files : file[f] = "separating"}

PageState == [at : {"idle", "start", "stop"}, created : BOOLEAN]
FileState == {"idle", "checked", "separating"}
Words == {"none", "start", "start_airplay", "stop", "watch"}
Command == [sequence : Nat, action : Words, automatic : BOOLEAN]

\* Type invariant: within it, no more files than the hardware tier allows.
TypeOK ==
    /\ file_tasks \in 0..FileCapacity
    /\ live_reserved \in BOOLEAN /\ LIVE_RESERVATION \in BOOLEAN
    /\ page \in [Pages -> PageState]
    /\ file \in [Files -> FileState]
    /\ command \in Command
    /\ asked \in [times : Nat, last : {"none", "start", "stop", "watch"}, together : BOOLEAN]
    /\ controller \in [last : Nat, live : BOOLEAN, watch : BOOLEAN, settling : BOOLEAN]
    /\ worker \in [windows : BOOLEAN, inferring : BOOLEAN]

\* The coordinator counts exactly the file tasks that run, and no file runs
\* while the GPU is reserved for a live session.
FilesOrLive ==
    /\ file_tasks = Cardinality(Separating)
    /\ live_reserved => Separating = {}

\* The token the app holds and the flag of the coordinator never part: else a
\* start would be refused with nothing running, or join what is not reserved.
TokenIsReservation == LIVE_RESERVATION = live_reserved

\* Whatever starts, failed starts and stops overlap: once the handlers have
\* returned and their last word is "stop", files are not locked out.
NoLeakedReservation == AllIdle /\ asked.last = "stop" => ~live_reserved

\* As long as no two handlers ran at once, the app was not restarted and the controller
\* gave no word of its own, a session the controller runs is a session that is reserved:
\* a stop releases after its word is written, and a start that joined and failed leaves
\* the reservation with its session.
LiveIsReserved ==
    /\ AllIdle /\ ~asked.together /\ player = 0 /\ restarts = 0
    /\ controller.live /\ controller.last = command.sequence
    => live_reserved

\* README: "Realtime inference always has the GPU to itself and is never
\* concurrent with file tasks."
NeverTogether == worker.inferring => Separating = {}
=============================================================================
