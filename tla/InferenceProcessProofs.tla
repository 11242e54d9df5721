----------------------- MODULE InferenceProcessProofs -----------------------
(***************************************************************************)
(* Proofs about InferenceProcess, for any number of commands, windows and  *)
(* model processes.                                                        *)
(***************************************************************************)
EXTENDS InferenceProcess, TLAPS

\* Processes are numbered in the order they are started.
Numbered ==
    /\ separator.model <= started
    /\ \A g \in Models : g > started <=> children[g] = "none"
    /\ \A w \in Windows : outcome[w].model <= started

\* A separator is there when the worker uses one, and ready while it is waited for;
\* a window in hand has been captured.
InUse ==
    /\ separator.model = 0 => separator = NoSeparator /\ answers = <<>>
    /\ phase \in {"separate", "await"} => separator.model # 0
    /\ phase = "await" => separator.ready
    /\ phase \in {"take", "separate", "await", "publish"} => done < arrived

\* What the parent has read, or can read, of the warm-up is what the child did.
Settled ==
    /\ separator.ready => children[separator.model] \in {"ready", "dead"}
    /\ answers = <<Ready>> => children[separator.model] \in {"ready", "dead"}
    /\ answers = <<StartupError>> => children[separator.model] \in {"exiting", "dead"}

\* The model in use has cost no window yet.
Unspoilt ==
    \A w \in Windows :
        outcome[w].reason \in Failures => outcome[w].model \in {0} \cup (Models \ {separator.model})

\* An error is that of a process on its way out, or about to be discarded with it.
Fading ==
    separator.error /\ (phase = "publish" => reason \in Harmless)
    => children[separator.model] \in {"exiting", "dead"}

IInv == /\ TypeOK /\ OnlyOwnModelRuns /\ PipeInStep /\ OneFailurePerModel
        /\ Numbered /\ InUse /\ Settled /\ Unspoilt /\ Fading
Commands == [sequence : 0..MaxCommands, action : Actions \cup {"none"}]
States == {"none", "warming", "ready", "exiting", "dead"}
Answered == [reason : Reasons, model : 0..MaxModels]

-----------------------------------------------------------------------------
\* No separator at all is a separator of the type.
LEMMA FreshIsSeparator == \A g \in 0..MaxModels : Fresh(g) \in Separators
  BY DEF Fresh, Separators

\* The messages of a child are messages of the type.
LEMMA MessagesTyped ==
    /\ Ready \in Messages /\ StartupError \in Messages /\ Ready # StartupError
    /\ \A kind \in Kinds, id \in Nat : /\ Answer(kind, id) \in Messages
                                       /\ Answer(kind, id) \notin {Ready, StartupError}
  BY DEF Ready, StartupError, Answer, Kinds, Messages

\* Sequences of at most one element, all the pipe ever holds.
LEMMA Singles ==
    ASSUME NEW x
    PROVE  /\ Append(<<>>, x) = <<x>> /\ Tail(<<x>>) = <<>> /\ Head(<<x>>) = x
           /\ <<x>> # <<>>
           /\ \A y : <<x>> = <<y>> => x = y
  <1>1. Append(<<>>, x) = <<x>> /\ Tail(<<x>>) = <<>> /\ Head(<<x>>) = x /\ <<x>> # <<>>
    OBVIOUS
  <1>2. ASSUME NEW y, <<x>> = <<y>> PROVE x = y
    <2>1. <<x>>[1] = <<y>>[1]
      BY <1>2
    <2>2. QED
      BY <2>1
  <1>3. QED
    BY <1>1, <1>2

-----------------------------------------------------------------------------
\* At the start there is no model and nothing to answer.
LEMMA Begins == Init => IInv
  <1> SUFFICES ASSUME Init PROVE IInv
    OBVIOUS
  <1> USE InferenceProcessAssumption
  <1>1. NoSeparator \in Separators /\ NoSeparator.model = 0 /\ ~NoSeparator.ready
        /\ ~NoSeparator.error
    BY FreshIsSeparator DEF NoSeparator, Fresh
  <1>2. TypeOK
    <2>1. command \in Commands /\ phase \in Phases /\ reason \in Reasons
      BY DEF Init, Commands, Phases, Reasons
    <2>2. capturing \in BOOLEAN /\ session_active \in BOOLEAN
      BY Zenon DEF Init
    <2>3. children \in [Models -> States] /\ outcome \in [Windows -> Answered]
      BY DEF Init, States, Answered, Reasons
    <2>4. QED
      BY <1>1, <2>1, <2>2, <2>3 DEF Init, TypeOK, Commands, States, Answered
  <1>3. OnlyOwnModelRuns /\ PipeInStep /\ OneFailurePerModel
    BY <1>1 DEF Init, OnlyOwnModelRuns, Alive, PipeInStep, OneFailurePerModel, Failures
  <1>4. Numbered /\ InUse /\ Settled /\ Unspoilt /\ Fading
    BY <1>1, Singles DEF Init, Numbered, InUse, Settled, Unspoilt, Fading, Models, Failures
  <1>5. QED
    BY <1>2, <1>3, <1>4 DEF IInv

\* Nothing else depends on how many windows there are, as long as they do not go.
LEMMA MoreWindows ==
    ASSUME IInv, TypeOK', arrived' >= arrived,
           UNCHANGED <<phase, reason, done, separator, requests, answers, children, started,
                       outcome>>
    PROVE  IInv'
  <1>1. InUse'
    <2>1. done \in Int /\ arrived \in Int /\ arrived' \in Int
      BY InferenceProcessAssumption DEF IInv, TypeOK
    <2>2. QED
      BY <2>1 DEF IInv, InUse
  <1>2. OnlyOwnModelRuns' /\ PipeInStep' /\ OneFailurePerModel' /\ Numbered' /\ Settled'
        /\ Unspoilt' /\ Fading'
    BY DEF IInv, OnlyOwnModelRuns, Alive, PipeInStep, OneFailurePerModel, Numbered,
           Settled, Unspoilt, Fading
  <1>3. QED
    BY <1>1, <1>2 DEF IInv

\* The app and the host touch nothing the worker keeps of the model.
LEMMA EnvironmentKeeps ==
    ASSUME IInv, (\E a \in Actions : WriteCommand(a)) \/ HostObeys \/ WindowArrives
           \/ UNCHANGED vars
    PROVE  IInv'
  <1> USE DEF environment, pipe, models
  <1>1. /\ UNCHANGED <<phase, reason, applied, session_active, done, separator, requests,
                       answers, children, started, outcome>>
        /\ arrived' >= arrived
    BY DEF IInv, TypeOK, WriteCommand, HostObeys, WindowArrives, vars
  <1>2. TypeOK'
    <2>1. command' \in Commands
      BY InferenceProcessAssumption
         DEF IInv, TypeOK, Commands, Actions, WriteCommand, HostObeys, WindowArrives, vars
    <2>2. capturing' \in BOOLEAN
      BY Zenon DEF IInv, TypeOK, WriteCommand, HostObeys, WindowArrives, vars
    <2>3. arrived' \in 0..MaxWindows
      BY InferenceProcessAssumption
         DEF IInv, TypeOK, WriteCommand, HostObeys, WindowArrives, vars
    <2>4. QED
      BY <1>1, <2>1, <2>2, <2>3, Zenon DEF IInv, TypeOK, Commands
  <1>3. QED
    BY <1>1, <1>2, MoreWindows

-----------------------------------------------------------------------------
(* The model process *)

\* Whatever a child that runs does, it is the worker's own, and what the worker
\* keeps for itself is not disturbed.
LEMMA ChildKeeps ==
    ASSUME IInv, NEW g \in Models, NEW from \in States, NEW to \in States \ {"none"},
           from \in {"warming", "ready", "exiting"}, Child(g, from, to)
    PROVE  /\ g = separator.model /\ ~separator.closed
           /\ children[g] = from /\ children' = [children EXCEPT ![g] = to]
           /\ children'[separator.model] = to
           /\ UNCHANGED <<phase, reason, done, arrived, separator, started, outcome>>
           /\ requests' \in Seq(Nat) /\ answers' \in Seq(Messages) => TypeOK'
           /\ OnlyOwnModelRuns' /\ OneFailurePerModel' /\ Numbered' /\ InUse' /\ Unspoilt'
  <1>1. /\ children[g] = from /\ children' = [children EXCEPT ![g] = to]
        /\ UNCHANGED <<environment, phase, reason, applied, session_active, done,
                       separator, started, outcome>>
    BY DEF Child
  <1>2. g = separator.model /\ ~separator.closed
    BY <1>1 DEF IInv, OnlyOwnModelRuns, Alive
  <1>3. children \in [Models -> States] /\ children' \in [Models -> States]
    BY <1>1 DEF IInv, TypeOK, States
  <1>4. children'[separator.model] = to
    BY <1>1, <1>2, <1>3
  <1>5. requests' \in Seq(Nat) /\ answers' \in Seq(Messages) => TypeOK'
    BY <1>1, <1>3, Zenon DEF IInv, TypeOK, States, environment
  <1>6. OnlyOwnModelRuns'
    BY <1>1, <1>2, <1>3 DEF IInv, OnlyOwnModelRuns, Alive
  <1>7. Numbered'
    <2>1. \A h \in Models : children'[h] = "none" <=> children[h] = "none"
      BY <1>1, <1>3
    <2>2. QED
      BY <1>1, <2>1 DEF IInv, Numbered
  <1>8. OneFailurePerModel' /\ InUse' /\ Unspoilt'
    <2>1. separator.model # 0
      BY <1>2, InferenceProcessAssumption DEF Models
    <2>2. QED
      BY <1>1, <2>1 DEF IInv, OneFailurePerModel, InUse, Unspoilt, environment
  <1>9. QED
    BY <1>1, <1>2, <1>4, <1>5, <1>6, <1>7, <1>8 DEF environment

\* A child that is warming up has sent nothing yet.
LEMMA NothingSentYet ==
    ASSUME IInv, children[separator.model] = "warming"
    PROVE  ~separator.ready /\ requests = <<>> /\ answers = <<>>
  BY DEF IInv, Settled, PipeInStep

\* The word that the warm-up has ended is the only message in the pipe.
LEMMA ChildSettles ==
    ASSUME IInv, NEW g \in Models, ChildReady(g) \/ ChildFailsToStart(g)
    PROVE  IInv'
  <1>1. PICK to \in {"ready", "exiting"}, message \in {Ready, StartupError} :
            /\ Child(g, "warming", to) /\ answers' = Append(answers, message)
            /\ requests' = requests
            /\ to = "ready" <=> message = Ready
    BY MessagesTyped DEF ChildReady, ChildFailsToStart
  <1>2. /\ g = separator.model /\ children[g] = "warming" /\ children'[separator.model] = to
        /\ UNCHANGED <<phase, reason, separator>>
        /\ requests' \in Seq(Nat) /\ answers' \in Seq(Messages) => TypeOK'
        /\ OnlyOwnModelRuns' /\ OneFailurePerModel' /\ Numbered' /\ InUse' /\ Unspoilt'
    <2>1. "warming" \in States /\ to \in States \ {"none"}
      BY DEF States
    <2>2. QED
      BY <1>1, <2>1, ChildKeeps
  <1>3. ~separator.ready /\ requests = <<>> /\ answers = <<>>
    BY <1>2, NothingSentYet
  <1>4. requests' = <<>> /\ answers' = <<message>>
    BY <1>1, <1>3, Singles
  <1>5. TypeOK'
    BY <1>2, <1>4, MessagesTyped
  <1>6. PipeInStep'
    BY <1>2, <1>3, <1>4 DEF PipeInStep
  <1>7. Settled'
    BY <1>1, <1>2, <1>3, <1>4, Singles, MessagesTyped DEF Settled
  <1>8. Fading'
    BY <1>2, <1>3, <1>1 DEF IInv, Fading
  <1>9. QED
    BY <1>2, <1>5, <1>6, <1>7, <1>8 DEF IInv

\* An answer replaces the request it is the answer of.
LEMMA ChildAnswered ==
    ASSUME IInv, NEW g \in Models, NEW kind \in Kinds, ChildAnswers(g, kind)
    PROVE  IInv'
  <1>1. /\ g = separator.model /\ children'[separator.model] = "ready"
        /\ children[separator.model] = "ready"
        /\ UNCHANGED <<phase, reason, separator>>
        /\ requests' \in Seq(Nat) /\ answers' \in Seq(Messages) => TypeOK'
        /\ OnlyOwnModelRuns' /\ OneFailurePerModel' /\ Numbered' /\ InUse' /\ Unspoilt'
    BY ChildKeeps DEF ChildAnswers, States
  <1>2. separator.ready /\ phase = "await" /\ requests = <<separator.request>> /\ answers = <<>>
    BY DEF ChildAnswers, IInv, PipeInStep
  <1>3. requests' = <<>> /\ answers' = <<Answer(kind, separator.request)>>
    BY <1>2, Singles DEF ChildAnswers
  <1>4. separator.request \in Nat
    BY DEF IInv, TypeOK, Separators
  <1>5. TypeOK'
    BY <1>1, <1>3, <1>4, MessagesTyped
  <1>6. PipeInStep'
    BY <1>1, <1>2, <1>3 DEF PipeInStep
  <1>7. Settled'
    BY <1>1, <1>2, <1>3, <1>4, Singles, MessagesTyped DEF Settled
  <1>8. Fading'
    BY <1>1 DEF IInv, Fading
  <1>9. QED
    BY <1>1, <1>5, <1>6, <1>7, <1>8 DEF IInv

\* A dead child leaves the pipe as it was.
LEMMA ChildGone ==
    ASSUME IInv, NEW g \in Models, ChildDies(g)
    PROVE  IInv'
  <1> USE DEF pipe
  <1>1. /\ g = separator.model /\ children'[separator.model] = "dead"
        /\ UNCHANGED <<phase, reason, separator>>
        /\ requests' \in Seq(Nat) /\ answers' \in Seq(Messages) => TypeOK'
        /\ OnlyOwnModelRuns' /\ OneFailurePerModel' /\ Numbered' /\ InUse' /\ Unspoilt'
    BY ChildKeeps DEF ChildDies, States
  <1>2. TypeOK'
    BY <1>1 DEF ChildDies, IInv, TypeOK
  <1>3. PipeInStep' /\ Settled' /\ Fading'
    BY <1>1 DEF ChildDies, IInv, PipeInStep, Settled, Fading
  <1>4. QED
    BY <1>1, <1>2, <1>3 DEF IInv

-----------------------------------------------------------------------------
(* The worker: what its building blocks do to the model *)

\* Killing the model of the separator kills the only one that is alive.
LEMMA KilledAll ==
    ASSUME TypeOK, OnlyOwnModelRuns, Numbered
    PROVE  /\ Killed \in [Models -> States]
           /\ \A g \in Models : Killed[g] \notin {"warming", "ready", "exiting"}
           /\ \A g \in Models : g > started <=> Killed[g] = "none"
           /\ separator.model # 0 => separator.model \in Models /\ Killed[separator.model] = "dead"
  <1>1. children \in [Models -> States] /\ started \in 0..MaxModels
        /\ separator.model \in 0..MaxModels
    BY DEF TypeOK, States, Separators
  <1>2. Killed \in [Models -> States]
    BY <1>1 DEF Killed, States
  <1>3. \A g \in Models : Killed[g] \notin {"warming", "ready", "exiting"}
    BY <1>1 DEF Killed, OnlyOwnModelRuns, Alive, States
  <1>4. \A g \in Models : g > started <=> Killed[g] = "none"
    BY <1>1, InferenceProcessAssumption DEF Killed, Numbered, Models
  <1>5. separator.model # 0 => separator.model \in Models /\ Killed[separator.model] = "dead"
    BY <1>1, InferenceProcessAssumption DEF Killed, Models
  <1>6. QED
    BY <1>2, <1>3, <1>4, <1>5

\* No separator: whatever is asked of one is so.
LEMMA WithoutSeparator ==
    /\ NoSeparator \in Separators /\ NoSeparator.model = 0
    /\ ~NoSeparator.ready /\ ~NoSeparator.closed /\ ~NoSeparator.error
  BY FreshIsSeparator, InferenceProcessAssumption DEF NoSeparator, Fresh

\* A discarded processor leaves no process and no message behind, and what it cost is
\* not held against the next.
LEMMA Discards ==
    ASSUME IInv, Discard, phase' \notin {"take", "separate", "await", "publish"},
           outcome' \in [Windows -> Answered], \A w \in Windows : outcome'[w].model <= started
    PROVE  /\ separator' \in Separators /\ children' \in [Models -> States]
           /\ UNCHANGED started
           /\ requests' \in Seq(Nat) /\ answers' \in Seq(Messages)
           /\ OnlyOwnModelRuns' /\ PipeInStep' /\ InUse' /\ Settled' /\ Fading'
           /\ Numbered' /\ Unspoilt'
  <1>1. /\ separator' = NoSeparator /\ requests' = <<>> /\ answers' = <<>>
        /\ children' = Killed /\ started' = started
    BY DEF Discard, DropPipe
  <1>2. /\ Killed \in [Models -> States]
        /\ \A g \in Models : Killed[g] \notin {"warming", "ready", "exiting"}
        /\ \A g \in Models : g > started <=> Killed[g] = "none"
    BY KilledAll DEF IInv
  <1>3. OnlyOwnModelRuns'
    BY <1>1, <1>2 DEF OnlyOwnModelRuns, Alive
  <1>4. PipeInStep' /\ InUse' /\ Settled' /\ Fading'
    BY <1>1, WithoutSeparator, Singles DEF PipeInStep, InUse, Settled, Fading
  <1>5. Numbered'
    <2>1. started \in 0..MaxModels
      BY DEF IInv, TypeOK
    <2>2. QED
      BY <1>1, <1>2, <2>1, WithoutSeparator, InferenceProcessAssumption DEF Numbered
  <1>6. Unspoilt'
    <2>1. \A w \in Windows : outcome'[w].model \in 0..MaxModels
      BY DEF Answered
    <2>2. \A w \in Windows : outcome'[w].model \in {0} \cup (Models \ {0})
      BY <2>1, InferenceProcessAssumption DEF Models
    <2>3. QED
      BY <1>1, <2>2, WithoutSeparator DEF Unspoilt
  <1>7. QED
    BY <1>1, <1>2, <1>3, <1>4, <1>5, <1>6, WithoutSeparator

\* A model process is started only when there is none.
LEMMA Spawns ==
    ASSUME IInv, Spawn, separator = NoSeparator,
           phase' # "await", phase' \in {"take", "separate", "publish"} => done' < arrived',
           UNCHANGED outcome
    PROVE  /\ separator' \in Separators /\ children' \in [Models -> States]
           /\ started' \in 0..MaxModels /\ UNCHANGED pipe
           /\ OnlyOwnModelRuns' /\ PipeInStep' /\ Numbered' /\ InUse' /\ Settled'
           /\ Unspoilt' /\ Fading'
  <1> DEFINE g == started + 1
  <1>1. /\ started \in 0..MaxModels /\ started < MaxModels /\ started' = g
        /\ separator' = Fresh(g) /\ children' = [children EXCEPT ![g] = "warming"]
        /\ requests' = requests /\ answers' = answers
        /\ children \in [Models -> States]
    BY DEF Spawn, IInv, TypeOK, States, pipe
  <1>2. g \in Models /\ g \in 0..MaxModels /\ g > started /\ g # 0
    BY <1>1, InferenceProcessAssumption DEF Models
  <1>3. Fresh(g) \in Separators /\ Fresh(g).model = g /\ ~Fresh(g).ready /\ ~Fresh(g).closed
        /\ ~Fresh(g).error
    BY <1>2, FreshIsSeparator DEF Fresh
  <1>4. children' \in [Models -> States] /\ children'[g] = "warming"
        /\ \A h \in Models : h # g => children'[h] = children[h]
    BY <1>1, <1>2 DEF States
  <1>5. \A h \in Models : children[h] \notin {"warming", "ready", "exiting"}
    <2>1. \A h \in Models : h # 0
      BY InferenceProcessAssumption DEF Models
    <2>2. QED
      BY <2>1, WithoutSeparator DEF IInv, OnlyOwnModelRuns, Alive
  <1>6. requests = <<>> /\ answers \in {<<>>, <<Ready>>, <<StartupError>>}
    BY WithoutSeparator DEF IInv, PipeInStep
  <1>7. answers = <<>>
    BY WithoutSeparator DEF IInv, InUse
  <1>8. OnlyOwnModelRuns'
    BY <1>1, <1>3, <1>4, <1>5 DEF OnlyOwnModelRuns, Alive
  <1>9. PipeInStep' /\ Settled' /\ Fading'
    BY <1>1, <1>3, <1>6, <1>7, Singles DEF PipeInStep, Settled, Fading
  <1>10. InUse'
    BY <1>1, <1>2, <1>3 DEF InUse
  <1>11. Numbered'
    <2>1. \A h \in Models : h > g <=> children'[h] = "none"
      BY <1>1, <1>2, <1>4, InferenceProcessAssumption DEF IInv, Numbered, Models
    <2>2. \A w \in Windows : outcome[w].model \in 0..MaxModels /\ outcome[w].model <= g
      BY <1>1, InferenceProcessAssumption DEF IInv, TypeOK, Numbered
    <2>3. QED
      BY <1>1, <1>3, <1>2, <2>1, <2>2 DEF Numbered
  <1>12. Unspoilt'
    <2>1. \A w \in Windows : outcome[w].model \in 0..MaxModels /\ outcome[w].model <= started
      BY DEF IInv, TypeOK, Numbered
    <2>2. \A w \in Windows : outcome[w].model \in {0} \cup (Models \ {g})
      BY <1>1, <1>2, <2>1, InferenceProcessAssumption DEF Models
    <2>3. QED
      BY <1>1, <1>3, <2>2 DEF Unspoilt
  <1>13. QED
    BY <1>1, <1>3, <1>4, <1>2, <1>8, <1>9, <1>10, <1>11, <1>12 DEF pipe

\* A step of the worker that leaves the model, and the answers given, alone.
LEMMA ModelUntouched ==
    ASSUME IInv, UNCHANGED <<separator, pipe, models, outcome>>,
           phase \notin {"await", "publish"}, phase' # "await",
           phase' = "separate" => separator.model # 0,
           phase' \in {"take", "separate", "publish"} => done' < arrived'
    PROVE  /\ OnlyOwnModelRuns' /\ PipeInStep' /\ OneFailurePerModel'
           /\ Numbered' /\ InUse' /\ Settled' /\ Unspoilt' /\ Fading'
  <1> USE DEF pipe, models
  <1>1. OnlyOwnModelRuns' /\ OneFailurePerModel' /\ Numbered' /\ Settled' /\ Unspoilt'
    BY DEF IInv, OnlyOwnModelRuns, Alive, OneFailurePerModel, Numbered, Settled, Unspoilt
  <1>2. PipeInStep' /\ Fading'
    BY DEF IInv, PipeInStep, Fading
  <1>3. InUse'
    BY DEF IInv, InUse
  <1>4. QED
    BY <1>1, <1>2, <1>3

-----------------------------------------------------------------------------
(* The worker: its actions *)

\* A stop or another model releases the processor, in the step that applies it.
LEMMA SyncKeeps == ASSUME IInv, WorkerSyncs PROVE IInv'
  <1> USE DEF environment, pipe, models
  <1>1. /\ phase = "sync" /\ phase' = "prewarm"
        /\ UNCHANGED <<reason, done, outcome, environment>>
        /\ \/ Discard
           \/ UNCHANGED <<separator, pipe, models>>
    BY DEF WorkerSyncs, WorkerOnly
  <1>2. applied' \in 0..MaxCommands
    BY InferenceProcessAssumption DEF WorkerSyncs, IInv, TypeOK
  <1>3. session_active' \in BOOLEAN
    <2>1. session_active \in BOOLEAN
      BY Zenon DEF IInv, TypeOK
    <2>2. session_active' = (command.action # "stop") \/ session_active' = session_active
      BY Zenon DEF WorkerSyncs
    <2>3. QED
      BY <2>1, <2>2, Zenon
  <1>4. outcome \in [Windows -> Answered] /\ \A w \in Windows : outcome[w].model <= started
    BY DEF IInv, TypeOK, Answered, Numbered
  <1>5. /\ OnlyOwnModelRuns' /\ PipeInStep'
        /\ Numbered' /\ InUse' /\ Settled' /\ Unspoilt' /\ Fading'
        /\ separator' \in Separators /\ children' \in [Models -> States] /\ started' \in 0..MaxModels
        /\ requests' \in Seq(Nat) /\ answers' \in Seq(Messages)
    <2>1. CASE Discard
      <3>1. outcome' \in [Windows -> Answered] /\ \A w \in Windows : outcome'[w].model <= started
        BY <1>1, <1>4
      <3>2. started \in 0..MaxModels
        BY DEF IInv, TypeOK
      <3>3. QED
        BY <1>1, <2>1, <3>1, <3>2, Discards
    <2>2. CASE UNCHANGED <<separator, pipe, models>>
      BY <1>1, <2>2, ModelUntouched DEF IInv, TypeOK, States
    <2>3. QED
      BY <1>1, <2>1, <2>2
  <1>6. OneFailurePerModel'
    BY <1>1 DEF IInv, OneFailurePerModel
  <1>7. TypeOK'
    <2>1. phase' \in Phases
      BY <1>1 DEF Phases
    <2>2. QED
      BY <1>1, <1>2, <1>3, <1>5, <2>1, Zenon DEF IInv, TypeOK, States
  <1>8. QED
    BY <1>5, <1>6, <1>7 DEF IInv

\* A processor is created where there is none.
LEMMA PrewarmKeeps == ASSUME IInv, WorkerPrewarms PROVE IInv'
  <1> USE DEF environment, pipe, models
  <1>1. /\ phase = "prewarm" /\ phase' = "discover"
        /\ UNCHANGED <<reason, applied, session_active, done, outcome, environment>>
        /\ \/ separator = NoSeparator /\ Spawn
           \/ UNCHANGED <<separator, pipe, models>>
    BY DEF WorkerPrewarms, WorkerOnly
  <1>2. /\ OnlyOwnModelRuns' /\ PipeInStep'
        /\ Numbered' /\ InUse' /\ Settled' /\ Unspoilt' /\ Fading'
        /\ separator' \in Separators /\ children' \in [Models -> States] /\ started' \in 0..MaxModels
        /\ requests' \in Seq(Nat) /\ answers' \in Seq(Messages)
    <2>1. CASE separator = NoSeparator /\ Spawn
      BY <1>1, <2>1, Spawns DEF IInv, TypeOK
    <2>2. CASE UNCHANGED <<separator, pipe, models>>
      BY <1>1, <2>2, ModelUntouched DEF IInv, TypeOK, States
    <2>3. QED
      BY <1>1, <2>1, <2>2
  <1>3. OneFailurePerModel'
    BY <1>1 DEF IInv, OneFailurePerModel
  <1>4. TypeOK'
    <2>1. phase' \in Phases
      BY <1>1 DEF Phases
    <2>2. QED
      BY <1>1, <1>2, <2>1, Zenon DEF IInv, TypeOK, States
  <1>5. QED
    BY <1>2, <1>3, <1>4 DEF IInv

\* A window is taken up only if there is one, and turning aside touches no model.
LEMMA TakeKeeps == ASSUME IInv, WorkerDiscovers \/ WorkerTurnsAside PROVE IInv'
  <1> USE DEF environment, pipe, models
  <1>1. /\ UNCHANGED <<applied, session_active, done, separator, pipe, models, outcome,
                       environment>>
        /\ phase \in {"discover", "take"} /\ phase' \in {"take", "status", "publish"}
        /\ reason' \in Reasons
        /\ phase' = "publish" => phase = "take"
        /\ phase' = "take" => arrived > done
    BY DEF WorkerDiscovers, WorkerTurnsAside, WorkerOnly, AnswersWith, IInv, TypeOK,
           Reasons, Failures
  <1>2. phase' \in {"take", "separate", "publish"} => done' < arrived'
    <2>1. done \in Int /\ arrived \in Int
      BY InferenceProcessAssumption DEF IInv, TypeOK
    <2>2. QED
      BY <1>1, <2>1 DEF IInv, InUse
  <1>3. /\ OnlyOwnModelRuns' /\ PipeInStep' /\ OneFailurePerModel'
        /\ Numbered' /\ InUse' /\ Settled' /\ Unspoilt' /\ Fading'
    BY <1>1, <1>2, ModelUntouched
  <1>4. TypeOK'
    <2>1. phase' \in Phases
      BY <1>1 DEF Phases
    <2>2. QED
      BY <1>1, <2>1, Zenon DEF IInv, TypeOK
  <1>5. QED
    BY <1>3, <1>4 DEF IInv

\* A processor is there before it is used, or the window has failed without one.
LEMMA EnsureKeeps == ASSUME IInv, WorkerEnsures PROVE IInv'
  <1> USE DEF environment, pipe, models
  <1>1. /\ phase = "take" /\ phase' \in {"separate", "publish"} /\ reason' \in Reasons
        /\ UNCHANGED <<applied, session_active, done, outcome, environment>>
        /\ \/ separator = NoSeparator /\ Spawn
           \/ /\ UNCHANGED <<separator, pipe, models>>
              /\ phase' = "separate" => separator # NoSeparator
    BY DEF WorkerEnsures, WorkerOnly, AnswersWith, IInv, TypeOK, Reasons, Failures
  <1>2. phase' \in {"take", "separate", "publish"} => done' < arrived'
    BY <1>1 DEF IInv, InUse
  <1>3. /\ OnlyOwnModelRuns' /\ PipeInStep'
        /\ Numbered' /\ InUse' /\ Settled' /\ Unspoilt' /\ Fading'
        /\ separator' \in Separators /\ children' \in [Models -> States] /\ started' \in 0..MaxModels
        /\ requests' \in Seq(Nat) /\ answers' \in Seq(Messages)
    <2>1. CASE separator = NoSeparator /\ Spawn
      BY <1>1, <1>2, <2>1, Spawns DEF IInv, TypeOK
    <2>2. CASE /\ UNCHANGED <<separator, pipe, models>>
               /\ phase' = "separate" => separator # NoSeparator
      <3>1. phase' = "separate" => separator.model # 0
        BY <2>2 DEF IInv, InUse
      <3>2. QED
        BY <1>1, <1>2, <2>2, <3>1, ModelUntouched DEF IInv, TypeOK, States
    <2>3. QED
      BY <1>1, <2>1, <2>2
  <1>4. OneFailurePerModel'
    BY <1>1 DEF IInv, OneFailurePerModel
  <1>5. TypeOK'
    <2>1. phase' \in Phases
      BY <1>1 DEF Phases
    <2>2. QED
      BY <1>1, <1>3, <2>1, Zenon DEF IInv, TypeOK, States
  <1>6. QED
    BY <1>3, <1>4, <1>5 DEF IInv

\* What wait_until_ready may say while nothing is waited for, and what it leaves.
LEMMA Waited ==
    ASSUME IInv, separator.model # 0, phase # "await", NEW told \in WaitUntilReady
    PROVE  /\ told.verdict \in {"ready", "warming", "error"}
           /\ requests = <<>>
           /\ told.separator \in Separators
           /\ told.separator.model = separator.model
           /\ told.separator.request = separator.request
           /\ told.answers \in {<<>>, answers}
           /\ told.separator.ready => told.answers = <<>>
                                      /\ children[separator.model] \in {"ready", "dead"}
           /\ told.verdict = "ready" => told.separator.ready
           /\ told.verdict = "error" =>
                \/ separator.ready \/ separator.closed
                \/ children[separator.model] \in {"exiting", "dead"}
           /\ told.separator.error =>
                separator.error \/ children[separator.model] \in {"exiting", "dead"}
           /\ told.separator.closed => separator.closed \/ Dead
  <1>1. /\ separator \in Separators /\ requests = <<>>
        /\ separator.ready => answers = <<>> /\ children[separator.model] \in {"ready", "dead"}
        /\ ~separator.ready => answers \in {<<>>, <<Ready>>, <<StartupError>>}
    BY DEF IInv, TypeOK, PipeInStep, Settled
  <1>2. CASE told = Told("ready", separator, answers) /\ separator.ready
    BY <1>1, <1>2 DEF Told
  <1>3. CASE told = Told("error", separator, answers) /\ ~separator.ready /\ separator.closed
    BY <1>1, <1>3 DEF Told
  <1>4. CASE told \in Polled /\ ~separator.ready
    <2>1. CASE answers = <<>> /\ Dead
      <3>1. told = Told("error", Closed, <<>>)
        BY <1>4, <2>1 DEF Polled
      <3>2. children[separator.model] = "dead"
        BY <2>1 DEF Dead
      <3>3. QED
        BY <1>1, <1>4, <2>1, <3>1, <3>2 DEF Told, Closed, Separators
    <2>2. CASE answers = <<>> /\ ~Dead
      BY <1>1, <1>4, <2>2, Singles DEF Polled, Told
    <2>3. CASE answers = <<Ready>>
      <3>1. /\ Head(answers) = Ready /\ answers # <<>> /\ Tail(answers) = <<>>
        BY <2>3, Singles
      <3>2. told = Told("ready", [separator EXCEPT !.ready = TRUE], <<>>)
        BY <1>4, <3>1 DEF Polled
      <3>3. children[separator.model] \in {"ready", "dead"}
        BY <2>3 DEF IInv, Settled
      <3>4. QED
        BY <1>1, <3>2, <3>3 DEF Told, Separators
    <2>4. CASE answers = <<StartupError>>
      <3>1. /\ Head(answers) # Ready /\ answers # <<>> /\ Tail(answers) = <<>>
        BY <2>4, Singles, MessagesTyped
      <3>2. told = Told("error", [separator EXCEPT !.error = TRUE], <<>>)
        BY <1>4, <3>1 DEF Polled
      <3>3. children[separator.model] \in {"exiting", "dead"}
        BY <2>4 DEF IInv, Settled
      <3>4. QED
        BY <1>1, <1>4, <3>2, <3>3 DEF Told, Separators
    <2>5. QED
      BY <1>1, <1>4, <2>1, <2>2, <2>3, <2>4
  <1>5. CASE told \in DeadSincePoll /\ ~separator.ready
    <2>1. Dead /\ told = Told("error", [separator EXCEPT !.error = TRUE], answers)
      BY <1>5 DEF DeadSincePoll
    <2>2. QED
      BY <1>1, <1>5, <2>1 DEF Told, Separators, Dead
  <1>6. QED
    BY <1>2, <1>3, <1>4, <1>5 DEF WaitUntilReady

\* The separator that waiting leaves, with what the worker adds to it.
LEMMA WaitKeeps ==
    ASSUME IInv, separator.model # 0, phase # "await", NEW told \in WaitUntilReady,
           UNCHANGED <<models, outcome>>, answers' = told.answers,
           separator' \in Separators, separator'.model = separator.model,
           separator'.ready = told.separator.ready, separator'.closed = told.separator.closed,
           phase' = "await" => separator'.ready,
           phase' \in {"take", "separate", "await", "publish"} => done' < arrived'
    PROVE  /\ answers' \in Seq(Messages) /\ requests = <<>>
           /\ phase' # "await" /\ requests' = <<>> => PipeInStep'
           /\ phase' = "await" /\ requests' = <<separator'.request>> => PipeInStep'
           /\ OnlyOwnModelRuns' /\ OneFailurePerModel' /\ Numbered' /\ InUse' /\ Settled'
           /\ Unspoilt'
  <1> USE DEF models
  <1>1. /\ requests = <<>>
        /\ told.answers \in {<<>>, answers}
        /\ told.separator.ready => told.answers = <<>>
                                   /\ children[separator.model] \in {"ready", "dead"}
        /\ told.separator.closed => separator.closed \/ Dead
    BY Waited
  <1>2. answers' \in Seq(Messages)
    <2>1. answers \in Seq(Messages) /\ <<>> \in Seq(Messages)
      BY DEF IInv, TypeOK
    <2>2. QED
      BY <1>1, <2>1
  <1>3. ~separator'.ready => answers' \in {<<>>, <<Ready>>, <<StartupError>>}
    <2>1. ~separator.ready => answers \in {<<>>, <<Ready>>, <<StartupError>>}
      BY DEF IInv, PipeInStep
    <2>2. separator.ready => answers = <<>>
      BY DEF IInv, PipeInStep
    <2>3. QED
      BY <1>1, <2>1, <2>2
  <1>4. phase' # "await" /\ requests' = <<>> => PipeInStep'
    BY <1>1, <1>3 DEF PipeInStep
  <1>5. phase' = "await" /\ requests' = <<separator'.request>> => PipeInStep'
    BY <1>1 DEF PipeInStep
  <1>6. OnlyOwnModelRuns'
    <2>1. separator'.closed => separator.closed \/ Dead
      BY <1>1
    <2>2. QED
      BY <2>1 DEF IInv, OnlyOwnModelRuns, Alive, Dead
  <1>7. OneFailurePerModel' /\ Numbered' /\ Unspoilt'
    BY DEF IInv, OneFailurePerModel, Numbered, Unspoilt
  <1>8. InUse'
    BY DEF InUse
  <1>9. Settled'
    <2>1. answers' = <<Ready>> => answers = <<Ready>>
      BY <1>1, Singles
    <2>2. answers' = <<StartupError>> => answers = <<StartupError>>
      BY <1>1, Singles
    <2>3. QED
      BY <1>1, <2>1, <2>2 DEF IInv, Settled
  <1>10. QED
    BY <1>1, <1>2, <1>4, <1>5, <1>6, <1>7, <1>8, <1>9

\* A request goes to a model that is ready, into an empty pipe.
LEMMA RequestKeeps == ASSUME IInv, WorkerRequests PROVE IInv'
  <1> USE DEF environment, pipe, models
  <1>1. PICK told \in WaitUntilReady :
          /\ answers' = told.answers
          /\ CASE told.verdict = "ready" ->
                    /\ separator' = [told.separator EXCEPT !.request = @ + 1]
                    /\ requests' = Append(requests, separator.request + 1)
                    /\ phase' = "await" /\ UNCHANGED reason
               [] told.verdict = "warming" ->
                    separator' = told.separator /\ UNCHANGED requests /\ AnswersWith("model_warmup")
               [] told.verdict = "error" ->
                    separator' = told.separator /\ UNCHANGED requests
                    /\ AnswersWith("processing_failure")
    BY DEF WorkerRequests
  <1>2. /\ phase = "separate" /\ separator.model # 0 /\ done < arrived
        /\ UNCHANGED <<applied, session_active, done, models, outcome, environment>>
    BY DEF WorkerRequests, WorkerOnly, IInv, InUse
  <1>3. /\ told.verdict \in {"ready", "warming", "error"}
        /\ requests = <<>>
        /\ told.separator \in Separators
        /\ told.separator.model = separator.model
        /\ told.separator.request = separator.request
        /\ told.verdict = "ready" => told.separator.ready
        /\ told.separator.error =>
             separator.error \/ children[separator.model] \in {"exiting", "dead"}
    BY <1>2, Waited
  <1>4. /\ separator' \in Separators /\ separator'.model = separator.model
        /\ separator'.ready = told.separator.ready /\ separator'.closed = told.separator.closed
        /\ separator'.error = told.separator.error
        /\ phase' \in {"await", "publish"} /\ reason' \in Reasons
        /\ phase' = "await" => separator'.ready /\ requests' = <<separator'.request>>
        /\ phase' # "await" => requests' = <<>>
    <2>1. CASE told.verdict = "ready"
      <3>1. /\ separator' = [told.separator EXCEPT !.request = @ + 1]
            /\ requests' = Append(requests, separator.request + 1)
            /\ phase' = "await" /\ reason' = reason
        BY <1>1, <2>1
      <3>2. requests' = <<separator.request + 1>>
        BY <1>3, <3>1, Singles
      <3>3. QED
        BY <1>3, <2>1, <3>1, <3>2, SMTT(20) DEF IInv, TypeOK, Separators
    <2>2. CASE told.verdict # "ready"
      <3>1. /\ separator' = told.separator /\ requests' = requests /\ phase' = "publish"
            /\ reason' \in {"model_warmup", "processing_failure"}
        BY <1>1, <1>3, <2>2 DEF AnswersWith
      <3>2. QED
        BY <1>3, <3>1 DEF Reasons, Failures
    <2>3. QED
      BY <2>1, <2>2
  <1>5. /\ answers' \in Seq(Messages) /\ PipeInStep'
        /\ OnlyOwnModelRuns' /\ OneFailurePerModel' /\ Numbered' /\ InUse' /\ Settled'
        /\ Unspoilt'
    BY <1>1, <1>2, <1>4, WaitKeeps
  <1>6. Fading'
    <2>1. separator.error => children[separator.model] \in {"exiting", "dead"}
      BY <1>2 DEF IInv, Fading
    <2>2. QED
      BY <1>2, <1>3, <1>4, <2>1 DEF Fading
  <1>7. requests' \in Seq(Nat)
    <2>1. separator'.request \in Nat
      BY <1>4 DEF Separators
    <2>2. <<>> \in Seq(Nat) /\ <<separator'.request>> \in Seq(Nat)
      BY <2>1
    <2>3. QED
      BY <1>4, <2>2
  <1>8. TypeOK'
    <2>1. phase' \in Phases
      BY <1>4 DEF Phases
    <2>2. QED
      BY <1>2, <1>4, <1>5, <1>7, <2>1, Zenon DEF IInv, TypeOK
  <1>9. QED
    BY <1>5, <1>6, <1>8 DEF IInv

\* A closed separator has no process and an empty pipe.
LEMMA CloseKeeps == ASSUME IInv, WorkerFindsEof \/ WorkerTimesOut PROVE IInv'
  <1> USE DEF environment, pipe, models
  <1>1. /\ phase = "await" /\ phase' = "publish" /\ reason' \in Failures
        /\ UNCHANGED <<applied, session_active, done, started, outcome, environment>>
        /\ requests' = <<>> /\ answers' = <<>> /\ children' = Killed
        /\ \E e \in BOOLEAN : separator' = [Closed EXCEPT !.error = e]
    <2>1. separator.error \in BOOLEAN /\ Closed = [Closed EXCEPT !.error = separator.error]
      BY DEF IInv, TypeOK, Separators, Closed
    <2>2. QED
      BY <2>1 DEF WorkerFindsEof, WorkerTimesOut, Closes, DropPipe, AnswersWith, WorkerOnly,
                  Failures
  <1>2. /\ separator' \in Separators /\ separator'.model = separator.model
        /\ separator'.ready /\ separator.ready /\ separator.model # 0
    BY <1>1 DEF IInv, TypeOK, Separators, Closed, InUse
  <1>3. /\ Killed \in [Models -> States]
        /\ \A g \in Models : Killed[g] \notin {"warming", "ready", "exiting"}
        /\ \A g \in Models : g > started <=> Killed[g] = "none"
        /\ Killed[separator.model] = "dead"
    BY <1>2, KilledAll DEF IInv
  <1>4. OnlyOwnModelRuns'
    BY <1>1, <1>3 DEF OnlyOwnModelRuns, Alive
  <1>5. PipeInStep' /\ Settled' /\ Fading'
    BY <1>1, <1>2, <1>3, Singles DEF PipeInStep, Settled, Fading
  <1>6. OneFailurePerModel' /\ Unspoilt'
    BY <1>1, <1>2 DEF IInv, OneFailurePerModel, Unspoilt
  <1>7. Numbered'
    BY <1>1, <1>2, <1>3 DEF IInv, Numbered
  <1>8. InUse'
    BY <1>1, <1>2 DEF IInv, InUse
  <1>9. TypeOK'
    <2>1. phase' \in Phases /\ reason' \in Reasons
      BY <1>1 DEF Phases, Reasons
    <2>2. requests' \in Seq(Nat) /\ answers' \in Seq(Messages)
      BY <1>1
    <2>3. QED
      BY <1>1, <1>2, <1>3, <2>1, <2>2, Zenon DEF IInv, TypeOK, States
  <1>10. QED
    BY <1>4, <1>5, <1>6, <1>7, <1>8, <1>9 DEF IInv

\* The answer received is that of the request; an error is remembered, and is no
\* longer the model's once the window is published.
LEMMA ReceiveKeeps == ASSUME IInv, WorkerReceives PROVE IInv'
  <1> USE DEF environment, pipe, models
  <1>1. phase = "await" /\ answers # <<>> /\ separator.ready /\ separator.model # 0
        /\ done < arrived /\ separator \in Separators
    BY DEF WorkerReceives, IInv, InUse, TypeOK
  <1>2. PICK kind \in Kinds : requests = <<>> /\ answers = <<Answer(kind, separator.request)>>
    BY <1>1 DEF IInv, PipeInStep
  <1>3. Head(answers) = Answer(kind, separator.request) /\ Tail(answers) = <<>>
    BY <1>2, Singles
  <1>4. Head(answers).request = separator.request /\ Head(answers).kind = kind
    BY <1>3 DEF Answer
  <1>5. /\ phase' = "publish" /\ requests' = <<>> /\ answers' = <<>>
        /\ UNCHANGED <<applied, session_active, done, models, outcome, environment>>
        /\ \/ separator' = separator /\ reason' \in {"separated", "processing_failure"}
           \/ separator' = [separator EXCEPT !.error = TRUE] /\ reason' = "processing_failure"
    BY <1>2, <1>3, <1>4 DEF WorkerReceives, AnswersWith, WorkerOnly
  <1>6. /\ separator' \in Separators /\ separator'.model = separator.model
        /\ separator'.ready /\ separator'.closed = separator.closed
        /\ reason' \in Harmless => separator' = separator
    BY <1>1, <1>5 DEF Separators, Harmless
  <1>7. OnlyOwnModelRuns'
    BY <1>5, <1>6 DEF IInv, OnlyOwnModelRuns, Alive
  <1>8. PipeInStep' /\ Settled'
    BY <1>1, <1>5, <1>6, Singles DEF IInv, PipeInStep, Settled
  <1>9. Fading'
    <2>1. separator.error => children[separator.model] \in {"exiting", "dead"}
      BY <1>1 DEF IInv, Fading
    <2>2. QED
      BY <1>5, <1>6, <2>1 DEF Fading
  <1>10. OneFailurePerModel' /\ Unspoilt' /\ Numbered'
    BY <1>5, <1>6 DEF IInv, OneFailurePerModel, Unspoilt, Numbered
  <1>11. InUse'
    BY <1>1, <1>5, <1>6 DEF InUse
  <1>12. TypeOK'
    <2>1. phase' \in Phases /\ reason' \in Reasons
      BY <1>5 DEF Phases, Reasons, Failures
    <2>2. requests' \in Seq(Nat) /\ answers' \in Seq(Messages)
      BY <1>5
    <2>3. QED
      BY <1>5, <1>6, <2>1, <2>2, Zenon DEF IInv, TypeOK
  <1>13. QED
    BY <1>7, <1>8, <1>9, <1>10, <1>11, <1>12 DEF IInv

\* A model that fails a window is discarded in the step that says so, and no window
\* has failed by it before.
LEMMA PublishKeeps == ASSUME IInv, WorkerPublishes PROVE IInv'
  <1> USE DEF environment, pipe, models
  <1> DEFINE n == done + 1
             new == [reason |-> reason, model |-> separator.model]
  <1>1. /\ phase = "publish" /\ phase' = "status" /\ reason' = "none" /\ done' = n
        /\ outcome' = [outcome EXCEPT ![n] = new]
        /\ UNCHANGED <<applied, session_active, environment>>
        /\ \/ reason \in Harmless /\ UNCHANGED <<separator, pipe, models>>
           \/ Discard
    BY DEF WorkerPublishes, WorkerOnly
  <1>2. n \in Windows /\ n \in 0..MaxWindows
    BY <1>1, InferenceProcessAssumption DEF IInv, TypeOK, InUse, Windows
  <1>3. outcome \in [Windows -> Answered] /\ new \in Answered
    BY DEF IInv, TypeOK, Answered, Separators
  <1>4. /\ outcome' \in [Windows -> Answered] /\ outcome'[n] = new
        /\ \A w \in Windows : w # n => outcome'[w] = outcome[w]
    BY <1>1, <1>2, <1>3
  <1>5. new.reason = reason /\ new.model = separator.model
    OBVIOUS
  <1>6. \A w \in Windows : outcome'[w].model <= started
    BY <1>4, <1>5 DEF IInv, Numbered
  <1>7. OneFailurePerModel'
    <2>1. \A w \in Windows : w # n /\ outcome'[w].reason \in Failures
                             /\ outcome'[w].model = separator.model => separator.model = 0
      BY <1>4 DEF IInv, Unspoilt
    <2>2. \A v, w \in Windows : v # n /\ w # n
            /\ outcome'[v].reason \in Failures /\ outcome'[w].reason \in Failures
            /\ outcome'[v].model = outcome'[w].model /\ outcome'[v].model # 0 => v = w
      BY <1>4 DEF IInv, OneFailurePerModel
    <2>3. QED
      BY <1>4, <1>5, <2>1, <2>2 DEF OneFailurePerModel
  <1>8. /\ OnlyOwnModelRuns' /\ PipeInStep'
        /\ Numbered' /\ InUse' /\ Settled' /\ Unspoilt' /\ Fading'
        /\ separator' \in Separators /\ children' \in [Models -> States] /\ started' \in 0..MaxModels
        /\ requests' \in Seq(Nat) /\ answers' \in Seq(Messages)
    <2>1. CASE Discard
      BY <1>1, <1>4, <1>6, <2>1, Discards DEF IInv, TypeOK
    <2>2. CASE reason \in Harmless /\ UNCHANGED <<separator, pipe, models>>
      <3>1. reason \notin Failures
        BY <2>2 DEF Harmless, Failures
      <3>2. Unspoilt'
        BY <1>4, <1>5, <2>2, <3>1 DEF IInv, Unspoilt
      <3>3. Numbered'
        BY <1>6, <2>2 DEF IInv, Numbered
      <3>4. OnlyOwnModelRuns' /\ Settled' /\ PipeInStep'
        BY <1>1, <2>2 DEF IInv, OnlyOwnModelRuns, Alive, Settled, PipeInStep
      <3>5. InUse' /\ Fading'
        BY <1>1, <2>2 DEF IInv, InUse, Fading
      <3>6. QED
        BY <2>2, <3>2, <3>3, <3>4, <3>5 DEF IInv, TypeOK, States
    <2>3. QED
      BY <1>1, <2>1, <2>2
  <1>9. TypeOK'
    <2>1. phase' \in Phases /\ reason' \in Reasons
      BY <1>1 DEF Phases, Reasons
    <2>2. QED
      BY <1>1, <1>2, <1>4, <1>8, <2>1, Zenon DEF IInv, TypeOK, States, Answered
  <1>10. QED
    BY <1>7, <1>8, <1>9 DEF IInv

\* Asking for the status reads what wait_until_ready reads, and no more.
LEMMA ReportKeeps == ASSUME IInv, WorkerReports PROVE IInv'
  <1> USE DEF environment, pipe, models
  <1> DEFINE Asks == separator # NoSeparator /\ ~separator.closed /\ ~separator.ready
                     /\ ~separator.error
  <1>1. /\ phase = "status" /\ phase' = "sync"
        /\ UNCHANGED <<reason, applied, session_active, done, requests, models, outcome,
                       environment>>
    BY DEF WorkerReports, WorkerOnly
  <1>2. phase' \in Phases
    BY <1>1 DEF Phases
  <1>3. CASE ~Asks
    <2>1. UNCHANGED <<separator, answers>>
      BY <1>3 DEF WorkerReports
    <2>2. /\ OnlyOwnModelRuns' /\ PipeInStep' /\ OneFailurePerModel'
          /\ Numbered' /\ InUse' /\ Settled' /\ Unspoilt' /\ Fading'
      BY <1>1, <2>1, ModelUntouched
    <2>3. TypeOK'
      BY <1>1, <1>2, <2>1, Zenon DEF IInv, TypeOK
    <2>4. QED
      BY <2>2, <2>3 DEF IInv
  <1>4. CASE Asks
    <2>1. PICK told \in WaitUntilReady :
            /\ answers' = told.answers
            /\ separator' = [told.separator EXCEPT !.error = @ \/ told.verdict = "error"]
      BY <1>4 DEF WorkerReports
    <2>2. separator.model # 0
      BY <1>4 DEF IInv, InUse
    <2>3. /\ requests = <<>>
          /\ told.separator \in Separators
          /\ told.separator.model = separator.model
          /\ told.verdict = "error" => children[separator.model] \in {"exiting", "dead"}
          /\ told.separator.error => children[separator.model] \in {"exiting", "dead"}
      BY <1>1, <1>4, <2>2, Waited
    <2>4. /\ separator' \in Separators /\ separator'.model = separator.model
          /\ separator'.ready = told.separator.ready
          /\ separator'.closed = told.separator.closed
          /\ separator'.error => told.separator.error \/ told.verdict = "error"
      <3>1. (told.separator.error \/ told.verdict = "error") \in BOOLEAN
        BY Zenon
      <3>2. QED
        BY <2>1, <2>3, <3>1 DEF Separators
    <2>5. /\ answers' \in Seq(Messages) /\ PipeInStep'
          /\ OnlyOwnModelRuns' /\ OneFailurePerModel' /\ Numbered' /\ InUse' /\ Settled'
          /\ Unspoilt'
      BY <1>1, <2>1, <2>2, <2>3, <2>4, WaitKeeps
    <2>6. Fading'
      BY <1>1, <2>3, <2>4 DEF Fading
    <2>7. TypeOK'
      BY <1>1, <1>2, <2>4, <2>5, Zenon DEF IInv, TypeOK
    <2>8. QED
      BY <2>5, <2>6, <2>7 DEF IInv
  <1>5. QED
    BY <1>3, <1>4

-----------------------------------------------------------------------------
(* The theorems *)

\* Every step of the system keeps the inductive invariant.
LEMMA Inductive == IInv /\ [Next]_vars => IInv'
  <1> SUFFICES ASSUME IInv, [Next]_vars PROVE IInv'
    OBVIOUS
  <1>1. ASSUME NEW g \in Models, ChildReady(g) \/ ChildFailsToStart(g) PROVE IInv'
    BY <1>1, ChildSettles
  <1>2. ASSUME NEW g \in Models, ChildDies(g) PROVE IInv'
    BY <1>2, ChildGone
  <1>3. ASSUME NEW g \in Models, NEW kind \in Kinds, ChildAnswers(g, kind) PROVE IInv'
    BY <1>3, ChildAnswered
  <1>4. ASSUME Worker PROVE IInv'
    BY <1>4, SyncKeeps, PrewarmKeeps, TakeKeeps, EnsureKeeps, RequestKeeps, ReceiveKeeps,
       CloseKeeps, PublishKeeps, ReportKeeps DEF Worker
  <1>5. QED
    BY <1>1, <1>2, <1>3, <1>4, EnvironmentKeeps DEF Next, Model

\* The inductive invariant holds in every behaviour.
LEMMA Invariant == Spec => []IInv
  BY Begins, Inductive, PTL DEF Spec

\* Type correctness.
THEOREM TypeCorrect == Spec => []TypeOK
  <1>1. IInv => TypeOK
    BY DEF IInv
  <1>2. QED
    BY <1>1, Invariant, PTL

\* No model process outlives its processor: close() comes before every replacement.
THEOREM NoOrphans == Spec => []OnlyOwnModelRuns
  <1>1. IInv => OnlyOwnModelRuns
    BY DEF IInv
  <1>2. QED
    BY <1>1, Invariant, PTL

\* A window is never given the answer of another, however late answers are.
THEOREM OwnAnswers == Spec => []PipeInStep
  <1>1. IInv => PipeInStep
    BY DEF IInv
  <1>2. QED
    BY <1>1, Invariant, PTL

\* One bad output costs one window: a failed model is never asked again.
THEOREM NoPoisoning == Spec => []OneFailurePerModel
  <1>1. IInv => OneFailurePerModel
    BY DEF IInv
  <1>2. QED
    BY <1>1, Invariant, PTL

\* The status never shows the error of a model that works.
THEOREM NoStaleErrors == Spec => []ErrorsAreCurrent
  <1>1. IInv => ErrorsAreCurrent
    BY DEF IInv, Fading, ErrorsAreCurrent
  <1>2. QED
    BY <1>1, Invariant, PTL
=============================================================================
