--------------------------- MODULE InferenceProcess ---------------------------
(***************************************************************************)
(* The worker thread and the process that holds the model: live_worker.py  *)
(* decides per window whether the model is asked, inference_process.py     *)
(* asks it over a pipe with a hard deadline and kills it when it does not  *)
(* answer.                                                                 *)
(*                                                                         *)
(* A model process is known by its number, in the order they are started.  *)
(* It may warm up, fail to warm up, answer, refuse, crash, or do nothing   *)
(* ever again: nothing is assumed of it.  Only the deadline of the parent  *)
(* and the operating system's word that a process is dead are relied upon. *)
(* A session is started for a profile of the model in use or of another    *)
(* one ("switch"); the handshake of a Windows session is in LivePipeline.  *)
(***************************************************************************)
EXTENDS Integers, Sequences

CONSTANTS MaxCommands,      \* bound: commands ever written
          MaxWindows,       \* bound: windows ever captured
          MaxModels         \* bound: model processes ever started

ASSUME InferenceProcessAssumption ==
    MaxCommands \in Nat /\ MaxWindows \in Nat /\ MaxModels \in Nat

VARIABLES command,          \* command.json
          capturing, arrived,           \* the host, and its windows so far
          phase, reason,                \* where the worker is; how it answers the window
          applied, session_active,      \* _profile_command_sequence, _session_active
          done,                         \* _last_sequence
          separator,                    \* the processor's separator, or NoSeparator
          requests, answers,            \* the two directions of its pipe
          children, started,            \* the model processes
          outcome                       \* how each window was answered, by which model

environment == <<command, capturing, arrived>>
pipe == <<requests, answers>>
models == <<children, started>>
vars == <<environment, phase, reason, applied, session_active, done, separator,
          pipe, models, outcome>>

Windows == 1..MaxWindows
Models == 1..MaxModels
Actions == {"start", "switch", "stop"}
Failures == {"processing_failure", "inference_deadline"}
Kinds == {"result", "inference_error"}
Reasons == {"none", "separated", "aside", "model_warmup"} \cup Failures

\* Messages of the child; only answers carry the number of a request.
Ready == [kind |-> "ready", request |-> 0]
StartupError == [kind |-> "startup_error", request |-> 0]
Answer(kind, id) == [kind |-> kind, request |-> id]

Fresh(g) == [model |-> g, ready |-> FALSE, closed |-> FALSE, error |-> FALSE, request |-> 0]
NoSeparator == Fresh(0)

Init ==
    /\ command = [sequence |-> 0, action |-> "none"]
    /\ capturing = FALSE /\ arrived = 0
    /\ phase = "sync" /\ reason = "none"
    /\ applied = 0 /\ session_active = FALSE /\ done = 0
    /\ separator = NoSeparator
    /\ requests = <<>> /\ answers = <<>>
    /\ children = [g \in Models |-> "none"] /\ started = 0
    /\ outcome = [w \in Windows |-> [reason |-> "none", model |-> 0]]

-----------------------------------------------------------------------------
(* The app and the host *)

WriteCommand(a) ==
    /\ command.sequence < MaxCommands
    /\ command' = [sequence |-> command.sequence + 1, action |-> a]
    /\ UNCHANGED <<capturing, arrived, phase, reason, applied, session_active, done,
                   separator, pipe, models, outcome>>

\* The controller starts and stops the host when it next polls.
HostObeys ==
    /\ capturing # (command.action \in {"start", "switch"})
    /\ capturing' = ~capturing
    /\ UNCHANGED <<command, arrived, phase, reason, applied, session_active, done,
                   separator, pipe, models, outcome>>

WindowArrives ==
    /\ capturing /\ arrived < MaxWindows
    /\ arrived' = arrived + 1
    /\ UNCHANGED <<command, capturing, phase, reason, applied, session_active, done,
                   separator, pipe, models, outcome>>

-----------------------------------------------------------------------------
(* The model process *)

Child(g, from, to) ==
    /\ children[g] = from
    /\ children' = [children EXCEPT ![g] = to]
    /\ UNCHANGED <<environment, phase, reason, applied, session_active, done,
                   separator, started, outcome>>

\* _prepare_persistent_separator: the model has run a whole window.
ChildReady(g) ==
    /\ Child(g, "warming", "ready")
    /\ answers' = Append(answers, Ready)
    /\ UNCHANGED requests

\* It could not: the child says so, and exits.
ChildFailsToStart(g) ==
    /\ Child(g, "warming", "exiting")
    /\ answers' = Append(answers, StartupError)
    /\ UNCHANGED requests

\* MUTANT: an error is reported without the request it answers.
ChildAnswers_NoId(g, kind) ==
    /\ Child(g, "ready", "ready") /\ requests # <<>>
    /\ answers' = Append(answers, Answer(kind, IF kind = "result" THEN Head(requests) ELSE -1))
    /\ requests' = Tail(requests)

ChildAnswers(g, kind) ==
    /\ Child(g, "ready", "ready") /\ requests # <<>>
    /\ answers' = Append(answers, Answer(kind, Head(requests)))
    /\ requests' = Tail(requests)

\* The driver or the memory limit takes it, or it exits after a startup error.
ChildDies(g) ==
    /\ children[g] \in {"warming", "ready", "exiting"}
    /\ Child(g, children[g], "dead")
    /\ UNCHANGED pipe

-----------------------------------------------------------------------------
(* The parent's side of a separator *)

\* close(): shutdown, terminate, kill; afterwards the child is dead.
Closed == [separator EXCEPT !.closed = TRUE]
Killed == [g \in Models |-> IF g = separator.model THEN "dead" ELSE children[g]]
DropPipe == requests' = <<>> /\ answers' = <<>>

\* MUTANT: the processor is forgotten, its process is not closed.
Discard_Forgets == separator' = NoSeparator /\ DropPipe /\ UNCHANGED models

\* _discard_processor
Discard == separator' = NoSeparator /\ DropPipe /\ children' = Killed /\ UNCHANGED started

Spawn ==
    /\ started < MaxModels
    /\ started' = started + 1
    /\ separator' = Fresh(started + 1)
    /\ children' = [children EXCEPT ![started + 1] = "warming"]
    /\ UNCHANGED pipe

Told(verdict, s, rest) == [verdict |-> verdict, separator |-> s, answers |-> rest]

Dead == children[separator.model] = "dead"

\* MUTANT: a process that is alive is taken to be ready.
Polled_Alive ==
    CASE answers # <<>> /\ Head(answers) = Ready ->
            {Told("ready", [separator EXCEPT !.ready = TRUE], Tail(answers))}
      [] answers # <<>> /\ Head(answers) # Ready ->
            {Told("error", [separator EXCEPT !.error = TRUE], Tail(answers))}
      [] answers = <<>> /\ Dead -> {Told("error", Closed, <<>>)}
      [] OTHER -> {Told("ready", [separator EXCEPT !.ready = TRUE], answers)}

\* poll(0.0): a message, the end of the pipe, or nothing.
Polled ==
    CASE answers # <<>> /\ Head(answers) = Ready ->
            {Told("ready", [separator EXCEPT !.ready = TRUE], Tail(answers))}
      [] answers # <<>> /\ Head(answers) # Ready ->
            {Told("error", [separator EXCEPT !.error = TRUE], Tail(answers))}
      [] answers = <<>> /\ Dead -> {Told("error", Closed, <<>>)}
      [] OTHER -> {Told("warming", separator, answers)}

\* A child that has died since the poll is noticed by is_alive, whatever it had
\* sent in between.
DeadSincePoll ==
    IF Dead THEN {Told("error", [separator EXCEPT !.error = TRUE], answers)} ELSE {}

\* wait_until_ready(0.0): what it may say, and the separator it leaves.
WaitUntilReady ==
    CASE separator.ready -> {Told("ready", separator, answers)}
      [] ~separator.ready /\ separator.closed -> {Told("error", separator, answers)}
      [] OTHER -> Polled \cup DeadSincePoll

-----------------------------------------------------------------------------
(* The worker thread *)

WorkerOnly == UNCHANGED environment

\* _sync_requested_profile: a stop and a profile of another model release the
\* model, a start keeps it.
WorkerSyncs ==
    /\ phase = "sync" /\ phase' = "prewarm"
    /\ IF command.sequence > applied
       THEN /\ applied' = command.sequence
            /\ session_active' = (command.action # "stop")
            /\ IF command.action = "start" THEN UNCHANGED <<separator, pipe, models>> ELSE Discard
       ELSE UNCHANGED <<applied, session_active, separator, pipe, models>>
    /\ UNCHANGED <<reason, done, outcome>> /\ WorkerOnly

\* _prewarm_processor: an error in starting the process is put in the status.
WorkerPrewarms ==
    /\ phase = "prewarm" /\ phase' = "discover"
    /\ \/ session_active /\ separator = NoSeparator /\ Spawn
       \/ UNCHANGED <<separator, pipe, models>>
          \* ... not active, there is one already, or it cannot be started
    /\ UNCHANGED <<reason, applied, session_active, done, outcome>> /\ WorkerOnly

WorkerDiscovers ==
    /\ phase = "discover"
    /\ phase' = IF arrived > done THEN "take" ELSE "status"
    /\ UNCHANGED <<reason, applied, session_active, done, separator, pipe, models, outcome>>
    /\ WorkerOnly

AnswersWith(why) == phase' = "publish" /\ reason' = why

\* A cache answers, or the window is given up for a backlog or for silence;
\* or the window, its annotation or a cache cannot be read.
WorkerTurnsAside ==
    /\ phase = "take"
    /\ \E why \in {"aside", "processing_failure"} : AnswersWith(why)
    /\ UNCHANGED <<applied, session_active, done, separator, pipe, models, outcome>>
    /\ WorkerOnly

\* _ensure_processor
WorkerEnsures ==
    /\ phase = "take"
    /\ IF separator = NoSeparator
       THEN \/ Spawn /\ phase' = "separate" /\ UNCHANGED reason
            \/ AnswersWith("processing_failure") /\ UNCHANGED <<separator, pipe, models>>
       ELSE phase' = "separate" /\ UNCHANGED <<reason, separator, pipe, models>>
    /\ UNCHANGED <<applied, session_active, done, outcome>> /\ WorkerOnly

\* _separate_staged, up to the request.
WorkerRequests ==
    /\ phase = "separate"
    /\ \E told \in WaitUntilReady :
          /\ answers' = told.answers
          /\ CASE told.verdict = "ready" ->
                    /\ separator' = [told.separator EXCEPT !.request = @ + 1]
                    /\ requests' = Append(requests, separator.request + 1)
                    /\ phase' = "await" /\ UNCHANGED reason
               [] told.verdict = "warming" ->
                    separator' = told.separator /\ UNCHANGED requests /\ AnswersWith("model_warmup")
               [] told.verdict = "error" ->
                    separator' = told.separator /\ UNCHANGED requests
                    /\ AnswersWith("processing_failure")
    /\ UNCHANGED <<applied, session_active, done, models, outcome>> /\ WorkerOnly

\* The worker gives the model up for this window.
Closes(why) ==
    /\ DropPipe /\ children' = Killed /\ AnswersWith(why)
    /\ UNCHANGED <<applied, session_active, done, started, outcome>> /\ WorkerOnly

\* A result may still fail to be published.
WorkerReceives ==
    /\ phase = "await" /\ answers # <<>>
    /\ LET message == Head(answers)
           kept == UNCHANGED <<requests, applied, session_active, done, models, outcome>>
                   /\ answers' = Tail(answers) /\ WorkerOnly
       IN  IF message.request # separator.request
           THEN separator' = Closed /\ Closes("processing_failure")
           ELSE IF message.kind = "result"
           THEN /\ \E why \in {"separated", "processing_failure"} : AnswersWith(why)
                /\ kept /\ UNCHANGED separator
           ELSE /\ AnswersWith("processing_failure")
                /\ kept /\ separator' = [separator EXCEPT !.error = TRUE]

WorkerFindsEof ==
    /\ phase = "await" /\ answers = <<>> /\ Dead
    /\ separator' = Closed /\ Closes("processing_failure")

\* MUTANT: a process that is alive is waited for.
WorkerTimesOut_Dead ==
    /\ phase = "await" /\ answers = <<>> /\ Dead
    /\ separator' = [Closed EXCEPT !.error = TRUE] /\ Closes("inference_deadline")

\* The hard deadline of poll(inference_timeout_seconds).
WorkerTimesOut ==
    /\ phase = "await" /\ answers = <<>>
    /\ separator' = [Closed EXCEPT !.error = TRUE] /\ Closes("inference_deadline")

\* MUTANT: a model that missed a deadline is kept.
Harmless_Deadline == {"separated", "aside", "model_warmup", "inference_deadline"}

\* MUTANT: only a deadline costs the model its process.
Harmless_Errors == {"separated", "aside", "model_warmup", "processing_failure"}

\* After anything else the processor is discarded.
Harmless == {"separated", "aside", "model_warmup"}

\* The window is published, or its original mix in its place (_quarantine).
WorkerPublishes ==
    /\ phase = "publish" /\ phase' = "status" /\ reason' = "none"
    /\ done' = done + 1
    /\ outcome' = [outcome EXCEPT ![done + 1] =
                      [reason |-> reason, model |-> separator.model]]
    /\ IF reason \in Harmless THEN UNCHANGED <<separator, pipe, models>> ELSE Discard
    /\ UNCHANGED <<applied, session_active>> /\ WorkerOnly

\* status_snapshot: until it is settled, the state of the model is asked for,
\* and the message it has sent is taken out of the pipe.
WorkerReports ==
    /\ phase = "status" /\ phase' = "sync"
    /\ IF separator # NoSeparator /\ ~separator.closed /\ ~separator.ready /\ ~separator.error
       THEN \E told \in WaitUntilReady :
               /\ answers' = told.answers
               /\ separator' = [told.separator EXCEPT !.error = @ \/ told.verdict = "error"]
       ELSE UNCHANGED <<separator, answers>>
    /\ UNCHANGED <<reason, applied, session_active, done, requests, models, outcome>>
    /\ WorkerOnly

-----------------------------------------------------------------------------
Model == \E g \in Models : \/ ChildReady(g) \/ ChildFailsToStart(g) \/ ChildDies(g)
                           \/ \E kind \in Kinds : ChildAnswers(g, kind)

Worker == \/ WorkerSyncs \/ WorkerPrewarms \/ WorkerDiscovers
          \/ WorkerTurnsAside \/ WorkerEnsures \/ WorkerRequests
          \/ WorkerReceives \/ WorkerFindsEof \/ WorkerTimesOut
          \/ WorkerPublishes \/ WorkerReports

Next == (\E a \in Actions : WriteCommand(a)) \/ HostObeys \/ WindowArrives \/ Model \/ Worker

Spec == Init /\ [][Next]_vars

\* The worker polls, and its deadline passes; nothing is assumed of the model.
FairSpec == Spec /\ WF_vars(Worker)

-----------------------------------------------------------------------------
(* Properties *)

Phases == {"sync", "prewarm", "discover", "take", "separate", "await", "publish", "status"}
Separators == [model : 0..MaxModels, ready : BOOLEAN, closed : BOOLEAN,
               error : BOOLEAN, request : Nat]
Messages == [kind : Kinds \cup {"ready", "startup_error"}, request : Nat]

\* Type invariant.
TypeOK ==
    /\ command \in [sequence : 0..MaxCommands, action : Actions \cup {"none"}]
    /\ capturing \in BOOLEAN /\ arrived \in 0..MaxWindows
    /\ phase \in Phases /\ reason \in Reasons
    /\ applied \in 0..MaxCommands /\ session_active \in BOOLEAN
    /\ done \in 0..MaxWindows
    /\ separator \in Separators
    /\ requests \in Seq(Nat) /\ answers \in Seq(Messages)
    /\ children \in [Models -> {"none", "warming", "ready", "exiting", "dead"}]
    /\ started \in 0..MaxModels
    /\ outcome \in [Windows -> [reason : Reasons, model : 0..MaxModels]]

Alive(g) == children[g] \in {"warming", "ready", "exiting"}

\* The only model process alive is the one of the processor in use: the card is
\* never held by one that was given up, replaced or stopped.
OnlyOwnModelRuns ==
    \A g \in Models : Alive(g) => g = separator.model /\ ~separator.closed

\* What is in the pipe belongs to what the worker is doing: at most one message about
\* the warm-up while none has been read, the request under way or its answer while
\* it is waited for, and nothing otherwise.  So no window is ever given the
\* answer of another, and the warm-up message is never taken for an answer.
PipeInStep ==
    IF ~separator.ready
    THEN requests = <<>> /\ answers \in {<<>>, <<Ready>>, <<StartupError>>}
    ELSE IF phase = "await"
    THEN \/ requests = <<separator.request>> /\ answers = <<>>
         \/ requests = <<>> /\ \E kind \in Kinds : answers = <<Answer(kind, separator.request)>>
    ELSE requests = <<>> /\ answers = <<>>

\* "Recreate it for the next window so one bad output cannot poison the session":
\* no model process costs two windows.
OneFailurePerModel ==
    \A v, w \in Windows :
        /\ outcome[v].reason \in Failures /\ outcome[w].reason \in Failures
        /\ outcome[v].model = outcome[w].model /\ outcome[v].model # 0
        => v = w

\* The error in the status is never that of a model that works: between windows
\* a separator with an error has a process that is dead or on its way out.
ErrorsAreCurrent ==
    separator.error /\ phase # "publish" => children[separator.model] \in {"exiting", "dead"}

\* Every captured window is answered, separated or with its original mix,
\* however the model behaves.
EveryWindowAnswered ==
    \A w \in Windows : (arrived >= w) ~> (outcome[w].reason # "none")

\* test_live_worker_stop_command_releases_preheated_model_process: a stop that
\* has been applied leaves no model process behind.
StopReleasesModel ==
    command.action = "stop" /\ applied = command.sequence => \A g \in Models : ~Alive(g)
=============================================================================
