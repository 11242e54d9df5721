------------------------- MODULE LivePipelineProofs -------------------------
(***************************************************************************)
(* Proofs about LivePipeline, for any number of commands, windows and      *)
(* restarts: the files hold what they should, a session plays its own      *)
(* sound, pruning takes nothing that it has yet to play, and the windows   *)
(* of a session are whole as long as its worker is not restarted.          *)
(***************************************************************************)
EXTENDS LivePipeline, TLAPS, FiniteSetTheorems

\* Of the session the directories were last emptied for.
Fresh(x) == x = NoSound \/ x.session = session.sequence

\* The worker has a window of an earlier session in hand.
Stale == ~Fresh(worker.sound)

InHand ==
    /\ worker.sound # NoSound => worker.chunk # 0
    /\ worker.phase \in {"publish", "announce"} => worker.sound # NoSound

HostFollows ==
    /\ host.up => /\ controller.phase = "poll"
                  /\ host.session = session.sequence /\ session.sequence \in Sessions
    /\ controller.phase # "poll" => session.sequence \in Sessions
    /\ ~host.up => host.queued = 0
    /\ loader.phase = "read" => host.up /\ host.next \in Windows

\* Once the inbox is emptied nothing of an earlier session gets into it, and
\* nothing at all while the worker still holds a window of one.
InboxFollows ==
    controller.phase # "clear inbox" =>
        \A n \in Windows : /\ inbox[n] \in {NoFile, session.sequence}
                           /\ Stale => inbox[n] = NoFile

\* Once the outbox is emptied too, only stems of this session are announced: a
\* stale window in the middle of its publication is alone with its stems, and
\* one that is past them has lost them.
OutboxFollows ==
    controller.phase \notin {"clear inbox", "clear outbox"} =>
        \A n \in Windows, s \in Stems :
            /\ manifest[n] # "absent" => Fresh(stems[n][s])
            /\ Stale /\ worker.phase = "publish" => manifest[n] = "absent"
            /\ Stale /\ worker.phase = "announce" => stems[n][s] = NoSound

\* What the worker has put under the number it works on.
DoneFollows ==
    /\ worker.phase \in {"publish", "announce"} =>
        \A s \in worker.done : stems[worker.chunk][s] \in {NoSound, worker.sound}
    /\ worker.phase = "announce" => worker.done = Stems
    /\ worker.phase = "announce none" =>
        \A s \in Stems : stems[worker.chunk][s] = NoSound

\* What the loader reads is of this session, and stays so while it reads.
LoaderFollows ==
    /\ loader.phase = "read" =>
        /\ ~(Stale /\ worker.phase = "publish")
        /\ \A s \in Stems : Fresh(stems[host.next][s])
    /\ \A s \in Stems : Fresh(loader.read[s])

\* Sessions are numbered in the order of their commands, so that nothing that is left of
\* earlier ones has the number of the one that is being prepared.
Ages ==
    /\ session.sequence <= controller.last
    /\ worker.sound.session <= session.sequence
    /\ \A n \in Windows : inbox[n] <= session.sequence
    /\ controller.phase = "clear inbox" => \A n \in Windows : inbox[n] < session.sequence

\* A host that has reported has overwritten what the one before it had queued.
Reporting ==
    /\ host.queued < host.next
    /\ host.up /\ host.reported => playback_status < host.next

\* A session whose host has not started, or has started and not reported yet.
Waiting == controller.phase # "poll" \/ (host.up /\ ~host.reported)
Older(x) == x = NoSound \/ ~Fresh(x)

\* Until then there is nothing of it that pruning could take.
Untouched ==
    Waiting =>
        /\ Older(worker.sound)
        /\ controller.phase # "clear inbox" => \A n \in Windows : inbox[n] = NoFile
        /\ controller.phase \notin {"clear inbox", "clear outbox"} =>
              \A n \in Windows, s \in Stems : Older(stems[n][s])

IInv == TypeOK /\ InHand /\ HostFollows /\ InboxFollows /\ OutboxFollows
        /\ DoneFollows /\ LoaderFollows /\ OwnSession /\ Ages /\ Reporting /\ Untouched

-----------------------------------------------------------------------------
(* Numbers of windows: the prefixes up to them, and the ranges from them on, *)
(* are finite sets ordered by inclusion.                                     *)

LEMMA InclusionHasMinimum ==
    ASSUME NEW T \in SUBSET SUBSET Windows, T # {}
    PROVE  \E x \in T : \A y \in T : ~(y \subseteq x /\ y # x)
<1>1. IsFiniteSet(Windows)
  BY LivePipelineAssumption, FS_Interval DEF Windows
<1>2. IsWellFoundedOn(StrictSubsetOrdering(Windows), SUBSET Windows)
  BY <1>1, FS_FiniteSubsetsOfFinite, FS_StrictSubsetOrderingWellFounded
<1>3. PICK x \in T : \A y \in T : <<y, x>> \notin StrictSubsetOrdering(Windows)
  BY <1>2, WFMin
<1>4. ASSUME NEW y \in T PROVE ~(y \subseteq x /\ y # x)
  <2>1. <<y, x>> \in (SUBSET Windows) \X (SUBSET Windows)  BY <1>3
  <2> QED BY <1>3, <2>1 DEF StrictSubsetOrdering
<1> QED BY <1>3, <1>4

\* A set of windows has a first one.
LEMMA SmallestIsThere ==
    ASSUME NEW W \in SUBSET Windows, W # {}
    PROVE  Smallest(W) \in W
<1> DEFINE T == {1..n : n \in W}
<1>0. MaxWindow \in Nat  BY LivePipelineAssumption
<1>1. T \in SUBSET SUBSET Windows /\ T # {}
  <2>1. ASSUME NEW n \in W PROVE 1..n \subseteq Windows  BY <1>0 DEF Windows
  <2> QED BY <2>1
<1>2. PICK x \in T : \A y \in T : ~(y \subseteq x /\ y # x)
  <2> HIDE DEF T
  <2> QED BY <1>1, InclusionHasMinimum
<1>3. PICK n \in W : x = 1..n  BY <1>2
<1>4. ASSUME NEW m \in W PROVE n <= m
  <2>1. n \in Nat /\ m \in Nat /\ 1 <= m /\ 1 <= n  BY <1>0 DEF Windows
  <2>2. 1..m \in T  OBVIOUS
  <2>3. SUFFICES ASSUME m < n PROVE FALSE  BY <2>1
  <2>4. 1..m \subseteq 1..n  BY <2>1, <2>3
  <2>5. n \in 1..n /\ n \notin 1..m  BY <2>1, <2>3
  <2> QED BY <1>2, <1>3, <2>2, <2>4, <2>5
<1> QED BY <1>3, <1>4 DEF Smallest

\* The number of the last of some windows is one of theirs, or none.
LEMMA LargestIsThere ==
    ASSUME NEW W \in SUBSET Windows
    PROVE  Largest(W) \in 0..MaxWindow
<1> DEFINE T == {n..MaxWindow : n \in W}
<1>0. MaxWindow \in Nat  BY LivePipelineAssumption
<1>1. CASE W = {}  BY <1>0, <1>1 DEF Largest
<1>2. CASE W # {}
  <2>1. T \in SUBSET SUBSET Windows /\ T # {}
    <3>1. ASSUME NEW n \in W PROVE n..MaxWindow \subseteq Windows  BY <1>0 DEF Windows
    <3> QED BY <1>2, <3>1
  <2>2. PICK x \in T : \A y \in T : ~(y \subseteq x /\ y # x)
    <3> HIDE DEF T
    <3> QED BY <2>1, InclusionHasMinimum
  <2>3. PICK n \in W : x = n..MaxWindow  BY <2>2
  <2>4. ASSUME NEW m \in W PROVE m <= n
    <3>1. n \in Nat /\ m \in Nat /\ m <= MaxWindow /\ n <= MaxWindow  BY <1>0 DEF Windows
    <3>2. m..MaxWindow \in T  OBVIOUS
    <3>3. SUFFICES ASSUME n < m PROVE FALSE  BY <3>1
    <3>4. m..MaxWindow \subseteq n..MaxWindow  BY <1>0, <3>1, <3>3
    <3>5. n \in n..MaxWindow /\ n \notin m..MaxWindow  BY <1>0, <3>1, <3>3
    <3> QED BY <2>2, <2>3, <3>2, <3>4, <3>5
  <2>5. Largest(W) \in W  BY <2>3, <2>4, <1>2 DEF Largest
  <2>6. Windows \subseteq 0..MaxWindow  BY <1>0 DEF Windows
  <2> QED BY <2>5, <2>6
<1> QED BY <1>1, <1>2

-----------------------------------------------------------------------------
(* What a step of one process leaves of the others' agreements. *)

\* A host that is stopped plays nothing, and its loader reads nothing.
LEMMA Down ==
    /\ HostDown \in HostStates /\ ~HostDown.up /\ HostDown.queued = 0 /\ HostDown.next = 1
    /\ LoaderIdle \in LoaderStates /\ LoaderIdle.phase = "probe"
    /\ \A s \in Stems : LoaderIdle.read[s] = NoSound
<1>1. HostDown \in HostStates /\ ~HostDown.up /\ HostDown.queued = 0 /\ HostDown.next = 1
  BY LivePipelineAssumption DEF HostDown, HostStates
<1>2. LoaderIdle \in LoaderStates /\ LoaderIdle.phase = "probe"
      /\ \A s \in Stems : LoaderIdle.read[s] = NoSound
  BY DEF LoaderIdle, LoaderStates, Contents
<1> QED BY <1>1, <1>2

\* What is announced stays as it was if no file is written and the worker is not
\* put in charge of a stale window.
LEMMA OutboxUntouched ==
    ASSUME OutboxFollows, UNCHANGED <<stems, manifest>>, session'.sequence = session.sequence,
           controller.phase \in {"clear inbox", "clear outbox"}
               => controller'.phase \in {"clear inbox", "clear outbox"},
           \/ worker'.phase \notin {"publish", "announce"}
           \/ controller'.phase \in {"clear inbox", "clear outbox"}
           \/ Fresh(worker'.sound)
           \/ worker'.sound = worker.sound /\ worker'.phase = worker.phase
    PROVE  OutboxFollows'
BY DEF OutboxFollows, Stale, Fresh

\* What the loader has under way stays of this session.
LEMMA LoaderUntouched ==
    ASSUME LoaderFollows, UNCHANGED <<stems, loader, host>>, session'.sequence = session.sequence,
           \/ loader.phase # "read"
           \/ worker'.phase # "publish" \/ Fresh(worker'.sound)
           \/ worker'.sound = worker.sound /\ worker'.phase = worker.phase
    PROVE  LoaderFollows'
BY DEF LoaderFollows, Stale, Fresh

\* A worker that works on a window has its number.
LEMMA ChunkIsWindow ==
    ASSUME TypeOK, worker.phase \notin {"sync", "prune", "discover"}
    PROVE  worker.chunk \in Windows
<1>1. worker.chunk \in 0..MaxWindow /\ worker.chunk # 0  BY DEF TypeOK, WorkerStates
<1> QED BY <1>1, LivePipelineAssumption DEF Windows

\* A stem has the session it was captured in.
LEMMA SoundsAreOfSessions ==
    ASSUME NEW x \in Contents, x # NoSound
    PROVE  x.session \in Sessions /\ x.session # 0
<1>1. x.session \in Sessions  BY DEF Contents, Sounds
<1> QED BY <1>1, LivePipelineAssumption DEF Sessions

\* What is counted is counted in numbers.
LEMMA NumbersAreNatural ==
    ASSUME TypeOK, HostFollows
    PROVE  /\ session.sequence \in Nat /\ controller.last \in Nat /\ worker.sound.session \in Nat
           /\ \A n \in Windows : inbox[n] \in Nat
           /\ controller.phase # "poll" => session.sequence > 0
           /\ command.sequence \in Nat
           /\ host.next \in Nat /\ host.queued \in Nat /\ playback_status \in Nat
<1>1. session.sequence \in 0..MaxCommands /\ controller.last \in 0..MaxCommands
      /\ command.sequence \in 0..MaxCommands
  BY DEF TypeOK, SessionFiles, ControllerStates, CommandFiles
<1>2. \A n \in Windows : inbox[n] \in {NoFile} \cup Sessions  BY DEF TypeOK
<1>3. worker.sound.session \in {0} \cup Sessions
  <2>1. CASE worker.sound = NoSound  BY <2>1 DEF NoSound
  <2>2. CASE worker.sound # NoSound
    BY <2>2, SoundsAreOfSessions DEF TypeOK, WorkerStates
  <2> QED BY <2>1, <2>2
<1>4. host.next \in 1..(MaxWindow + 1) /\ host.queued \in 0..MaxWindow
      /\ playback_status \in 0..MaxWindow
  BY DEF TypeOK, HostStates
<1>5. controller.phase # "poll" => session.sequence \in Sessions  BY DEF HostFollows
<1> QED BY <1>1, <1>2, <1>3, <1>4, <1>5, LivePipelineAssumption DEF Sessions, NoFile

\* The worker brings nothing younger into the directories than it found there.
LEMMA AgesKept ==
    ASSUME TypeOK, HostFollows, Ages, UNCHANGED <<session, controller>>,
           worker'.sound \in {worker.sound, NoSound},
           \A n \in Windows : inbox'[n] \in {inbox[n], NoFile}
    PROVE  Ages'
<1>1. session.sequence \in Nat /\ (controller.phase # "poll" => session.sequence > 0)
  BY NumbersAreNatural
<1>2. worker'.sound.session <= session.sequence
  <2>1. CASE worker'.sound = worker.sound  BY <2>1 DEF Ages
  <2>2. CASE worker'.sound = NoSound  BY <1>1, <2>2 DEF NoSound
  <2> QED BY <2>1, <2>2
<1>3. \A n \in Windows : inbox'[n] <= session.sequence
  <2>1. \A n \in Windows : inbox'[n] \in {inbox[n], 0}  BY DEF NoFile
  <2>2. \A n \in Windows : inbox[n] <= session.sequence  BY DEF Ages
  <2> QED BY <1>1, <2>1, <2>2
<1>4. controller.phase = "clear inbox" => \A n \in Windows : inbox'[n] < session.sequence
  <2>1. \A n \in Windows : inbox'[n] \in {inbox[n], 0}  BY DEF NoFile
  <2>2. controller.phase = "clear inbox" => \A n \in Windows : inbox[n] < session.sequence
    BY DEF Ages
  <2> QED BY <1>1, <2>1, <2>2
<1>5. session.sequence <= controller.last  BY DEF Ages
<1> QED BY <1>2, <1>3, <1>4, <1>5 DEF Ages

LEMMA UntouchedKept ==
    ASSUME Untouched, UNCHANGED <<session, controller, host>>,
           worker'.sound \in {worker.sound, NoSound},
           \A n \in Windows : inbox'[n] \in {inbox[n], NoFile},
           \A n \in Windows, s \in Stems : stems'[n][s] \in {stems[n][s], worker.sound, NoSound}
    PROVE  Untouched'
<1> SUFFICES ASSUME Waiting PROVE Untouched'
  BY DEF Untouched, Waiting
<1>2. Older(worker'.sound)
  BY DEF Untouched, Older
<1>3. controller.phase \notin {"clear inbox", "clear outbox"} =>
         \A n \in Windows, s \in Stems : Older(stems'[n][s])
  BY DEF Untouched, Older
<1>4. controller.phase # "clear inbox" => \A n \in Windows : inbox'[n] = NoFile
  BY DEF Untouched
<1>5. Older(worker.sound)' <=> Older(worker'.sound)  BY DEF Older, Fresh
<1>6. \A n \in Windows, s \in Stems : Older(stems'[n][s]) => Older(stems[n][s])'
  BY DEF Older, Fresh
<1> QED BY <1>2, <1>3, <1>4, <1>5, <1>6 DEF Untouched

\* A worker that is done with a window has nothing in hand.
LEMMA FinishedIsTyped ==
    ASSUME TypeOK
    PROVE  /\ Finished \in WorkerStates /\ Finished.phase = "sync"
           /\ Finished.chunk = 0 /\ Finished.sound = NoSound
<1>1. worker \in WorkerStates /\ 0 \in 0..MaxWindow
  BY LivePipelineAssumption DEF TypeOK
<1> QED BY <1>1 DEF Finished, WorkerStates, Contents

-----------------------------------------------------------------------------
(* One lemma for each action. *)

LEMMA WriteCommandKeeps ==
    ASSUME IInv, NEW a \in Actions, WriteCommand(a) PROVE IInv'
<1>0. TypeOK /\ InHand /\ HostFollows /\ InboxFollows /\ OutboxFollows /\ DoneFollows
      /\ LoaderFollows /\ OwnSession /\ Ages /\ Reporting /\ Untouched
  BY DEF IInv
<1>u. UNCHANGED <<session, inbox, stems, manifest, playback_status, controller, host, loader,
                  heard, worker, restarts>>
  BY DEF WriteCommand, outbox
<1>1. command' \in CommandFiles
  BY <1>0, LivePipelineAssumption DEF TypeOK, CommandFiles, WriteCommand
<1>2. TypeOK'
  BY <1>0, <1>u, <1>1 DEF TypeOK
<1>3. InHand'
  BY <1>0, <1>u DEF InHand
<1>4. HostFollows'
  BY <1>0, <1>u DEF HostFollows
<1>5. InboxFollows'
  BY <1>0, <1>u DEF InboxFollows, Stale, Fresh
<1>6. OutboxFollows'
  BY <1>0, <1>u DEF OutboxFollows, Stale, Fresh
<1>7. DoneFollows'
  BY <1>0, <1>u DEF DoneFollows
<1>8. LoaderFollows'
  BY <1>0, <1>u DEF LoaderFollows, Stale, Fresh
<1>9. OwnSession'
  BY <1>0, <1>u DEF OwnSession
<1>10. Ages'
  BY <1>0, <1>u DEF Ages
<1>11. Reporting'
  BY <1>0, <1>u DEF Reporting
<1>12. Untouched'
  BY <1>0, <1>u DEF Untouched, Waiting, Older, Fresh
<1> QED
  BY <1>2, <1>3, <1>4, <1>5, <1>6, <1>7, <1>8, <1>9, <1>10, <1>11, <1>12 DEF IInv

LEMMA ControllerObeysKeeps ==
    ASSUME IInv, ControllerObeys PROVE IInv'
<1>0. TypeOK /\ InHand /\ HostFollows /\ InboxFollows /\ OutboxFollows /\ DoneFollows
      /\ LoaderFollows /\ OwnSession /\ Ages /\ Reporting /\ Untouched
  BY DEF IInv
<1>u. UNCHANGED <<command, session, inbox, stems, manifest, playback_status, heard, worker,
                  restarts>>
  BY DEF ControllerObeys, outbox
<1>f. controller.phase = "poll" /\ controller'.phase = "poll"
      /\ \/ host' = host /\ loader' = loader
         \/ host' = HostDown /\ loader' = LoaderIdle
  <2>1. controller.phase = "poll" /\ controller'.phase = "poll"
    BY <1>0 DEF ControllerObeys, NewCommand, TypeOK, ControllerStates
  <2>2. (host' = host /\ loader' = loader) \/ (host' = HostDown /\ loader' = LoaderIdle)
    <3>1. CASE command.action = "stop"  BY <3>1 DEF ControllerObeys
    <3>2. CASE command.action # "stop"  BY <3>2 DEF ControllerObeys
    <3> QED BY <3>1, <3>2
  <2> QED BY <2>1, <2>2
<1>1. controller' \in ControllerStates
  BY <1>0, LivePipelineAssumption DEF TypeOK, CommandFiles, ControllerStates, ControllerObeys,
     NewCommand
<1>2. host' \in HostStates
  BY <1>0, <1>f, Down DEF TypeOK
<1>3. loader' \in LoaderStates
  BY <1>0, <1>f, Down DEF TypeOK
<1>4. TypeOK'
  BY <1>0, <1>u, <1>1, <1>2, <1>3 DEF TypeOK
<1>5. InHand'
  BY <1>0, <1>u DEF InHand
<1>6. HostFollows'
  BY <1>0, <1>u, <1>f, Down DEF HostFollows
<1>7. InboxFollows'
  BY <1>0, <1>u, <1>f DEF InboxFollows, Stale, Fresh
<1>8. OutboxFollows'
  BY <1>0, <1>u, <1>f, OutboxUntouched
<1>9. DoneFollows'
  BY <1>0, <1>u DEF DoneFollows
<1>10. LoaderFollows'
  <2>1. CASE UNCHANGED <<host, loader>>
    BY <1>0, <1>u, <2>1, LoaderUntouched
  <2>2. CASE loader' = LoaderIdle
    BY <2>2, Down DEF LoaderFollows, Fresh
  <2> QED BY <1>f, <2>1, <2>2
<1>11. OwnSession'
  BY <1>0, <1>u, <1>f, Down DEF OwnSession
<1>12. Ages'
  <2>1. session.sequence \in Nat /\ controller.last \in Nat /\ worker.sound.session \in Nat
        /\ \A n \in Windows : inbox[n] \in Nat
    BY <1>0, NumbersAreNatural
  <2>2. command.sequence \in Nat  BY <1>0, NumbersAreNatural
  <2>3. controller.last < command.sequence  BY DEF ControllerObeys, NewCommand
  <2>4. controller'.last = command.sequence  BY <1>0 DEF TypeOK, ControllerStates,
   ControllerObeys
  <2> QED BY <1>0, <1>u, <1>f, <2>1, <2>2, <2>3, <2>4 DEF Ages
<1>13. Reporting'
  BY <1>0, <1>u, <1>f, Down DEF Reporting
<1>14. Untouched'
  BY <1>0, <1>u, <1>f, Down DEF Untouched, Waiting, Older, Fresh
<1> QED
  BY <1>4, <1>5, <1>6, <1>7, <1>8, <1>9, <1>10, <1>11, <1>12, <1>13, <1>14 DEF IInv

LEMMA ControllerResetsKeeps ==
    ASSUME IInv, ControllerResets PROVE IInv'
<1>0. TypeOK /\ InHand /\ HostFollows /\ InboxFollows /\ OutboxFollows /\ DoneFollows
      /\ LoaderFollows /\ OwnSession /\ Ages /\ Reporting /\ Untouched
  BY DEF IInv
<1>u. UNCHANGED <<command, inbox, stems, manifest, playback_status, heard, worker, restarts>>
  BY DEF ControllerResets, outbox
<1>f. controller'.phase = "clear inbox" /\ host' = HostDown /\ loader' = LoaderIdle
      /\ session'.sequence = command.sequence /\ command.sequence \in Sessions
  <2>1. command.sequence \in 0..MaxCommands /\ controller.last \in 0..MaxCommands
        /\ command.sequence > controller.last
    BY <1>0 DEF TypeOK, CommandFiles, ControllerStates, ControllerResets, NewCommand
  <2>2. command.sequence \in Sessions  BY <2>1, LivePipelineAssumption DEF Sessions
  <2>3. session'.sequence = command.sequence
    BY DEF ControllerResets
  <2> QED BY <2>2, <2>3 DEF ControllerResets
<1>1. controller' \in ControllerStates
  BY <1>0, LivePipelineAssumption DEF TypeOK, CommandFiles, ControllerStates, ControllerResets
<1>2. host' \in HostStates
  BY <1>f, Down
<1>3. loader' \in LoaderStates
  BY <1>f, Down
<1>4. session' \in SessionFiles
  BY <1>0 DEF TypeOK, CommandFiles, SessionFiles, ControllerResets
<1>5. TypeOK'
  BY <1>0, <1>u, <1>1, <1>2, <1>3, <1>4 DEF TypeOK
<1>6. InHand'
  BY <1>0, <1>u DEF InHand
<1>7. HostFollows'
  BY <1>f, Down DEF HostFollows
<1>8. InboxFollows'
  BY <1>f DEF InboxFollows
<1>9. OutboxFollows'
  BY <1>f DEF OutboxFollows
<1>10. DoneFollows'
  BY <1>0, <1>u DEF DoneFollows
<1>11. LoaderFollows'
  BY <1>f, Down DEF LoaderFollows, Fresh
<1>12. OwnSession'
  <2>1. host'.queued = 0  BY <1>f, Down
  <2> QED BY <2>1 DEF OwnSession
<1>13. Ages'
  <2>1. session.sequence \in Nat /\ controller.last \in Nat /\ worker.sound.session \in Nat
        /\ \A n \in Windows : inbox[n] \in Nat
    BY <1>0, NumbersAreNatural
  <2>2. command.sequence \in Nat  BY <1>0, NumbersAreNatural
  <2>3. controller.last < command.sequence  BY DEF ControllerResets, NewCommand
  <2>4. controller'.last = command.sequence  BY <1>0 DEF TypeOK, ControllerStates,
   ControllerResets
  <2>5. session'.sequence = command.sequence  BY <1>f
  <2>6. session.sequence <= controller.last /\ worker.sound.session <= session.sequence
        /\ \A n \in Windows : inbox[n] <= session.sequence
    BY <1>0 DEF Ages
  <2>7. session'.sequence <= controller'.last  BY <2>2, <2>4, <2>5
  <2>8. worker'.sound.session <= session'.sequence
    BY <1>u, <2>1, <2>2, <2>3, <2>5, <2>6
  <2>9. \A n \in Windows : inbox'[n] < session'.sequence
    BY <1>u, <2>1, <2>2, <2>3, <2>5, <2>6
  <2>10. \A n \in Windows : inbox'[n] <= session'.sequence
    BY <1>u, <2>1, <2>2, <2>5, <2>9
  <2> QED BY <2>7, <2>8, <2>9, <2>10 DEF Ages
<1>14. Reporting'
  <2>1. host'.queued = 0 /\ host'.next = 1 /\ ~host'.up  BY <1>f, Down
  <2> QED BY <2>1 DEF Reporting
<1>15. Untouched'
  <2>1. session.sequence \in Nat /\ controller.last \in Nat /\ worker.sound.session \in Nat
        /\ \A n \in Windows : inbox[n] \in Nat
    BY <1>0, NumbersAreNatural
  <2>2. command.sequence \in Nat  BY <1>0, NumbersAreNatural
  <2>3. controller.last < command.sequence  BY DEF ControllerResets, NewCommand
  <2>5. session'.sequence = command.sequence  BY <1>f
  <2>6. session.sequence <= controller.last /\ worker.sound.session <= session.sequence
        /\ \A n \in Windows : inbox[n] <= session.sequence
    BY <1>0 DEF Ages
  <2>4. worker.sound.session < session'.sequence  BY <2>1, <2>2, <2>3, <2>5, <2>6
  <2>7. Older(worker.sound)'  BY <1>u, <2>1, <2>4 DEF Older, Fresh
  <2> QED BY <1>u, <1>f, <2>7 DEF Untouched
<1> QED
  BY <1>5, <1>6, <1>7, <1>8, <1>9, <1>10, <1>11, <1>12, <1>13, <1>14, <1>15 DEF IInv

LEMMA ControllerClearsInboxKeeps ==
    ASSUME IInv, ControllerClearsInbox PROVE IInv'
<1>0. TypeOK /\ InHand /\ HostFollows /\ InboxFollows /\ OutboxFollows /\ DoneFollows
      /\ LoaderFollows /\ OwnSession /\ Ages /\ Reporting /\ Untouched
  BY DEF IInv
<1>u. UNCHANGED <<command, session, stems, manifest, playback_status, host, loader, heard,
                  worker, restarts>>
  BY DEF ControllerClearsInbox, outbox
<1>f. controller.phase = "clear inbox" /\ controller'.phase = "clear outbox"
      /\ \A n \in Windows : inbox'[n] = NoFile
  BY <1>0 DEF ControllerClearsInbox, TypeOK, ControllerStates
<1>1. inbox' \in [Windows -> {NoFile} \cup Sessions]
  BY <1>0 DEF TypeOK, ControllerClearsInbox, outbox, NoFile
<1>2. controller' \in ControllerStates
  BY <1>0 DEF TypeOK, ControllerClearsInbox, ControllerStates, outbox, NoFile
<1>3. TypeOK'
  BY <1>0, <1>u, <1>1, <1>2 DEF TypeOK
<1>4. InHand'
  BY <1>0, <1>u DEF InHand
<1>5. HostFollows'
  BY <1>0, <1>u, <1>f DEF HostFollows
<1>6. InboxFollows'
  BY <1>f DEF InboxFollows
<1>7. OutboxFollows'
  BY <1>f DEF OutboxFollows
<1>8. DoneFollows'
  BY <1>0, <1>u DEF DoneFollows
<1>9. LoaderFollows'
  BY <1>0, <1>u DEF LoaderFollows, Stale, Fresh
<1>10. OwnSession'
  BY <1>0, <1>u DEF OwnSession
<1>11. Ages'
  <2>1. session.sequence \in Nat /\ controller.last \in Nat /\ worker.sound.session \in Nat
        /\ \A n \in Windows : inbox[n] \in Nat
    BY <1>0, NumbersAreNatural
  <2>2. controller'.last = controller.last
    BY <1>0 DEF ControllerClearsInbox, TypeOK, ControllerStates
  <2>3. \A n \in Windows : inbox'[n] = 0  BY <1>f DEF NoFile
  <2>4. session.sequence <= controller.last /\ worker.sound.session <= session.sequence
    BY <1>0 DEF Ages
  <2>5. \A n \in Windows : inbox'[n] <= session.sequence  BY <2>1, <2>3
  <2> QED BY <1>u, <1>f, <2>2, <2>4, <2>5 DEF Ages
<1>12. Reporting'
  BY <1>0, <1>u DEF Reporting
<1>13. Untouched'
  BY <1>0, <1>u, <1>f DEF Untouched, Waiting, Older, Fresh
<1> QED
  BY <1>3, <1>4, <1>5, <1>6, <1>7, <1>8, <1>9, <1>10, <1>11, <1>12, <1>13 DEF IInv

LEMMA ControllerClearsOutboxKeeps ==
    ASSUME IInv, ControllerClearsOutbox PROVE IInv'
<1>0. TypeOK /\ InHand /\ HostFollows /\ InboxFollows /\ OutboxFollows /\ DoneFollows
      /\ LoaderFollows /\ OwnSession /\ Ages /\ Reporting /\ Untouched
  BY DEF IInv
<1>u. UNCHANGED <<command, session, inbox, playback_status, host, loader, heard, worker,
                  restarts>>
  BY DEF ControllerClearsOutbox, outbox
<1>f. controller.phase = "clear outbox" /\ controller'.phase = "ready"
      /\ \A n \in Windows : manifest'[n] = "absent" /\ \A s \in Stems : stems'[n][s] = NoSound
  BY <1>0 DEF ControllerClearsOutbox, TypeOK, ControllerStates
<1>1. stems' \in [Windows -> [Stems -> Contents]]
  BY <1>0 DEF TypeOK, ControllerClearsOutbox, Contents, NoFile
<1>2. manifest' \in [Windows -> {"absent", "empty", "stems"}]
  BY <1>0 DEF TypeOK, ControllerClearsOutbox, NoFile
<1>3. controller' \in ControllerStates
  BY <1>0 DEF TypeOK, ControllerClearsOutbox, ControllerStates, NoFile
<1>4. TypeOK'
  BY <1>0, <1>u, <1>1, <1>2, <1>3 DEF TypeOK
<1>5. InHand'
  BY <1>0, <1>u DEF InHand
<1>6. HostFollows'
  BY <1>0, <1>u, <1>f DEF HostFollows
<1>7. InboxFollows'
  BY <1>0, <1>u, <1>f DEF InboxFollows, Stale, Fresh
<1>8. OutboxFollows'
  BY <1>f DEF OutboxFollows, Fresh
<1>9. DoneFollows'
  <2>1. worker.phase \in {"publish", "announce", "announce none"} =>
          worker.chunk \in Windows /\ worker.done \subseteq Stems
    BY <1>0, ChunkIsWindow DEF TypeOK, WorkerStates
  <2> QED BY <1>0, <1>u, <1>f, <2>1 DEF DoneFollows
<1>10. LoaderFollows'
  <2>1. loader.phase # "read"  BY <1>0, <1>f DEF HostFollows
  <2> QED BY <1>0, <1>u, <2>1 DEF LoaderFollows, Fresh
<1>11. OwnSession'
  BY <1>0, <1>u DEF OwnSession
<1>12. Ages'
  <2>1. controller'.last = controller.last  BY <1>0 DEF ControllerClearsOutbox, TypeOK,
   ControllerStates
  <2> QED BY <1>0, <1>u, <1>f, <2>1 DEF Ages
<1>13. Reporting'
  BY <1>0, <1>u DEF Reporting
<1>14. Untouched'
  BY <1>0, <1>u, <1>f DEF Untouched, Waiting, Older, Fresh
<1> QED
  BY <1>4, <1>5, <1>6, <1>7, <1>8, <1>9, <1>10, <1>11, <1>12, <1>13, <1>14 DEF IInv

LEMMA ControllerMarksReadyKeeps ==
    ASSUME IInv, ControllerMarksReady PROVE IInv'
<1>0. TypeOK /\ InHand /\ HostFollows /\ InboxFollows /\ OutboxFollows /\ DoneFollows
      /\ LoaderFollows /\ OwnSession /\ Ages /\ Reporting /\ Untouched
  BY DEF IInv
<1>u. UNCHANGED <<command, inbox, stems, manifest, playback_status, host, loader, heard,
                  worker, restarts>>
  BY DEF ControllerMarksReady, outbox
<1>f. controller.phase = "ready" /\ controller'.phase = "start host"
      /\ session'.sequence = session.sequence
  BY <1>0 DEF ControllerMarksReady, TypeOK, ControllerStates, SessionFiles
<1>1. session' \in SessionFiles
  BY <1>0 DEF TypeOK, ControllerMarksReady, SessionFiles, outbox
<1>2. controller' \in ControllerStates
  BY <1>0 DEF TypeOK, ControllerMarksReady, ControllerStates, outbox
<1>3. TypeOK'
  BY <1>0, <1>u, <1>1, <1>2 DEF TypeOK
<1>4. InHand'
  BY <1>0, <1>u DEF InHand
<1>5. HostFollows'
  BY <1>0, <1>u, <1>f DEF HostFollows
<1>6. InboxFollows'
  BY <1>0, <1>u, <1>f DEF InboxFollows, Stale, Fresh
<1>7. OutboxFollows'
  BY <1>0, <1>u, <1>f, OutboxUntouched
<1>8. DoneFollows'
  BY <1>0, <1>u DEF DoneFollows
<1>9. LoaderFollows'
  BY <1>0, <1>u, <1>f, LoaderUntouched
<1>10. OwnSession'
  BY <1>0, <1>u DEF OwnSession
<1>11. Ages'
  <2>1. controller'.last = controller.last  BY <1>0 DEF ControllerMarksReady, TypeOK,
   ControllerStates
  <2> QED BY <1>0, <1>u, <1>f, <2>1 DEF Ages
<1>12. Reporting'
  BY <1>0, <1>u DEF Reporting
<1>13. Untouched'
  BY <1>0, <1>u, <1>f DEF Untouched, Waiting, Older, Fresh
<1> QED
  BY <1>3, <1>4, <1>5, <1>6, <1>7, <1>8, <1>9, <1>10, <1>11, <1>12, <1>13 DEF IInv

LEMMA ControllerStartsHostKeeps ==
    ASSUME IInv, ControllerStartsHost PROVE IInv'
<1>0. TypeOK /\ InHand /\ HostFollows /\ InboxFollows /\ OutboxFollows /\ DoneFollows
      /\ LoaderFollows /\ OwnSession /\ Ages /\ Reporting /\ Untouched
  BY DEF IInv
<1>u. UNCHANGED <<command, session, inbox, stems, manifest, playback_status, loader, heard,
                  worker, restarts>>
  BY DEF ControllerStartsHost, outbox
<1>f. controller.phase = "start host" /\ controller'.phase = "poll"
      /\ host'.up /\ host'.session = session.sequence /\ host'.queued = 0
  BY <1>0 DEF ControllerStartsHost, HostDown, TypeOK, ControllerStates
<1>1. controller' \in ControllerStates
  BY <1>0 DEF TypeOK, ControllerStartsHost, ControllerStates, outbox, HostDown
<1>2. host' \in HostStates
  <2>1. NextCaptureSequence \in 1..(MaxWindow + 1)
    <3>1. Captures \cup Results \subseteq Windows  BY DEF Captures, Results
    <3>2. Largest(Captures \cup Results) \in 0..MaxWindow  BY <3>1, LargestIsThere
    <3> QED BY <3>2, LivePipelineAssumption DEF NextCaptureSequence
  <2>2. session.sequence \in 0..MaxCommands  BY <1>0 DEF TypeOK, SessionFiles
  <2>3. HostDown \in HostStates  BY Down
  <2> QED BY <2>1, <2>2, <2>3 DEF ControllerStartsHost, HostStates
<1>3. TypeOK'
  BY <1>0, <1>u, <1>1, <1>2 DEF TypeOK
<1>4. InHand'
  BY <1>0, <1>u DEF InHand
<1>5. HostFollows'
  BY <1>0, <1>u, <1>f DEF HostFollows
<1>6. InboxFollows'
  BY <1>0, <1>u, <1>f DEF InboxFollows, Stale, Fresh
<1>7. OutboxFollows'
  BY <1>0, <1>u, <1>f, OutboxUntouched
<1>8. DoneFollows'
  BY <1>0, <1>u DEF DoneFollows
<1>9. LoaderFollows'
  <2>1. loader.phase # "read"  BY <1>0, <1>f DEF HostFollows
  <2> QED BY <1>0, <1>u, <2>1 DEF LoaderFollows, Fresh
<1>10. OwnSession'
  <2>1. host'.queued = 0  BY <1>f
  <2> QED BY <2>1 DEF OwnSession
<1>11. Ages'
  <2>1. controller'.last = controller.last  BY <1>0 DEF ControllerStartsHost, TypeOK,
   ControllerStates
  <2> QED BY <1>0, <1>u, <1>f, <2>1 DEF Ages
<1>12. Reporting'
  <2>1. host'.next \in Nat /\ host'.next >= 1  BY <1>2, LivePipelineAssumption DEF HostStates
  <2>2. host'.reported = FALSE  BY <1>0 DEF ControllerStartsHost, HostDown
  <2>3. host'.queued < host'.next
    <3>1. host'.queued = 0  BY <1>f
    <3> QED BY <2>1, <3>1
  <2> QED BY <2>2, <2>3 DEF Reporting
<1>13. Untouched'
  BY <1>0, <1>u, <1>f DEF Untouched, Waiting, Older, Fresh
<1> QED
  BY <1>3, <1>4, <1>5, <1>6, <1>7, <1>8, <1>9, <1>10, <1>11, <1>12, <1>13 DEF IInv

LEMMA CaptureWindowKeeps ==
    ASSUME IInv, CaptureWindow PROVE IInv'
<1>0. TypeOK /\ InHand /\ HostFollows /\ InboxFollows /\ OutboxFollows /\ DoneFollows
      /\ LoaderFollows /\ OwnSession /\ Ages /\ Reporting /\ Untouched
  BY DEF IInv
<1>u. UNCHANGED <<command, session, stems, manifest, playback_status, controller, loader,
                  heard, worker, restarts>>
  BY DEF CaptureWindow, outbox
<1>f. host.up /\ host.capture \in Windows /\ host.session = session.sequence
      /\ session.sequence \in Sessions /\ controller.phase = "poll"
      /\ host'.up /\ host'.session = host.session /\ host'.next = host.next
      /\ host'.queued = host.queued
      /\ inbox' = [inbox EXCEPT ![host.capture] = session.sequence]
      /\ host.reported /\ host'.reported
  BY <1>0 DEF CaptureWindow, TwelveSecondsPassed, TypeOK, HostStates, HostFollows
<1>1. inbox' \in [Windows -> {NoFile} \cup Sessions]
  BY <1>0, <1>f DEF TypeOK
<1>2. host' \in HostStates
  <2>1. host.capture + 1 \in 1..(MaxWindow + 1)  BY <1>f, LivePipelineAssumption DEF Windows
  <2> QED BY <1>0, <2>1 DEF TypeOK, HostStates, CaptureWindow
<1>3. TypeOK'
  BY <1>0, <1>u, <1>1, <1>2 DEF TypeOK
<1>4. InHand'
  BY <1>0, <1>u DEF InHand
<1>5. HostFollows'
  BY <1>0, <1>u, <1>f DEF HostFollows
<1>6. InboxFollows'
  <2>1. ~Stale
    <3>1. worker.chunk # 0 => worker.sound.session \in {0, session.sequence}
      BY <1>f DEF CaptureWindow, TwelveSecondsPassed
    <3>2. worker.sound # NoSound => worker.sound.session # 0
      BY <1>0, SoundsAreOfSessions DEF TypeOK, WorkerStates
    <3> QED BY <1>0, <3>1, <3>2 DEF InHand, Stale, Fresh
  <2>2. ~Stale'  BY <1>u, <2>1 DEF Stale, Fresh
  <2>3. \A n \in Windows : inbox'[n] \in {inbox[n], session.sequence}
    BY <1>0, <1>f DEF TypeOK
  <2> QED BY <1>0, <1>u, <1>f, <2>2, <2>3 DEF InboxFollows
<1>7. OutboxFollows'
  BY <1>0, <1>u DEF OutboxFollows, Stale, Fresh
<1>8. DoneFollows'
  BY <1>0, <1>u DEF DoneFollows
<1>9. LoaderFollows'
  BY <1>0, <1>u, <1>f DEF LoaderFollows, Stale, Fresh
<1>10. OwnSession'
  BY <1>0, <1>u, <1>f DEF OwnSession
<1>11. Ages'
  <2>1. \A n \in Windows : inbox'[n] \in {inbox[n], session.sequence}
    BY <1>0, <1>f DEF TypeOK
  <2>2. session.sequence \in Nat  BY <1>0, NumbersAreNatural
  <2> QED BY <1>0, <1>u, <1>f, <2>1, <2>2 DEF Ages
<1>12. Reporting'
  BY <1>0, <1>u, <1>f DEF Reporting
<1>13. Untouched'
  BY <1>u, <1>f DEF Untouched, Waiting
<1> QED
  BY <1>3, <1>4, <1>5, <1>6, <1>7, <1>8, <1>9, <1>10, <1>11, <1>12, <1>13 DEF IInv

LEMMA HostReportsKeeps ==
    ASSUME IInv, HostReports PROVE IInv'
<1>0. TypeOK /\ InHand /\ HostFollows /\ InboxFollows /\ OutboxFollows /\ DoneFollows
      /\ LoaderFollows /\ OwnSession /\ Ages /\ Reporting /\ Untouched
  BY DEF IInv
<1>u. UNCHANGED <<command, session, inbox, stems, manifest, controller, loader, heard, worker,
                  restarts>>
  BY DEF HostReports, outbox
<1>f. host'.up = host.up /\ host'.session = host.session /\ host'.next = host.next
      /\ host'.queued = host.queued
      /\ host.up /\ host'.reported /\ playback_status' = host.queued
  BY <1>0 DEF HostReports, TypeOK, HostStates
<1>1. playback_status' \in 0..MaxWindow
  BY <1>0 DEF TypeOK, HostStates, HostReports
<1>2. host' \in HostStates
  BY <1>0 DEF TypeOK, HostReports, HostStates, outbox
<1>3. TypeOK'
  BY <1>0, <1>u, <1>1, <1>2 DEF TypeOK
<1>4. InHand'
  BY <1>0, <1>u DEF InHand
<1>5. HostFollows'
  BY <1>0, <1>u, <1>f DEF HostFollows
<1>6. InboxFollows'
  BY <1>0, <1>u DEF InboxFollows, Stale, Fresh
<1>7. OutboxFollows'
  BY <1>0, <1>u DEF OutboxFollows, Stale, Fresh
<1>8. DoneFollows'
  BY <1>0, <1>u DEF DoneFollows
<1>9. LoaderFollows'
  BY <1>0, <1>u, <1>f DEF LoaderFollows, Stale, Fresh
<1>10. OwnSession'
  BY <1>0, <1>u, <1>f DEF OwnSession
<1>11. Ages'
  BY <1>0, <1>u DEF Ages
<1>12. Reporting'
  BY <1>0, <1>u, <1>f DEF Reporting
<1>13. Untouched'
  BY <1>0, <1>u, <1>f DEF Untouched, Waiting, HostFollows
<1> QED
  BY <1>3, <1>4, <1>5, <1>6, <1>7, <1>8, <1>9, <1>10, <1>11, <1>12, <1>13 DEF IInv

LEMMA LoaderFindsKeeps ==
    ASSUME IInv, LoaderFinds PROVE IInv'
<1>0. TypeOK /\ InHand /\ HostFollows /\ InboxFollows /\ OutboxFollows /\ DoneFollows
      /\ LoaderFollows /\ OwnSession /\ Ages /\ Reporting /\ Untouched
  BY DEF IInv
<1>u. UNCHANGED <<command, session, inbox, stems, manifest, playback_status, controller, host,
                  heard, worker, restarts>>
  BY DEF LoaderFinds, outbox
<1>f. host.up /\ host.next \in Windows /\ manifest[host.next] # "absent"
      /\ loader'.phase = "read" /\ loader'.read = loader.read
  BY <1>0 DEF LoaderFinds, Announced, TypeOK, LoaderStates
<1>1. loader' \in LoaderStates
  BY <1>0 DEF TypeOK, LoaderFinds, LoaderStates, Contents, outbox, Announced, AllStemsThere
<1>2. TypeOK'
  BY <1>0, <1>u, <1>1 DEF TypeOK
<1>3. InHand'
  BY <1>0, <1>u DEF InHand
<1>4. HostFollows'
  BY <1>0, <1>u, <1>f DEF HostFollows
<1>5. InboxFollows'
  BY <1>0, <1>u DEF InboxFollows, Stale, Fresh
<1>6. OutboxFollows'
  BY <1>0, <1>u DEF OutboxFollows, Stale, Fresh
<1>7. DoneFollows'
  BY <1>0, <1>u DEF DoneFollows
<1>8. LoaderFollows'
  <2>1. controller.phase = "poll"  BY <1>0, <1>f DEF HostFollows
  <2>2. \A s \in Stems : /\ Fresh(stems[host.next][s])
                         /\ ~(Stale /\ worker.phase = "publish")
    BY <1>0, <1>f, <2>1 DEF OutboxFollows
  <2>3. ~(Stale /\ worker.phase = "publish")
    BY <2>2, LivePipelineAssumption
  <2> QED BY <1>0, <1>u, <1>f, <2>2, <2>3 DEF LoaderFollows, Stale, Fresh
<1>9. OwnSession'
  BY <1>0, <1>u DEF OwnSession
<1>10. Ages'
  BY <1>0, <1>u DEF Ages
<1>11. Reporting'
  BY <1>0, <1>u DEF Reporting
<1>12. Untouched'
  BY <1>0, <1>u DEF Untouched, Waiting, Older, Fresh
<1> QED
  BY <1>2, <1>3, <1>4, <1>5, <1>6, <1>7, <1>8, <1>9, <1>10, <1>11, <1>12 DEF IInv

LEMMA LoaderSkipsKeeps ==
    ASSUME IInv, LoaderSkips PROVE IInv'
<1>0. TypeOK /\ InHand /\ HostFollows /\ InboxFollows /\ OutboxFollows /\ DoneFollows
      /\ LoaderFollows /\ OwnSession /\ Ages /\ Reporting /\ Untouched
  BY DEF IInv
<1>u. UNCHANGED <<command, session, inbox, stems, manifest, playback_status, controller,
                  loader, heard, worker, restarts>>
  BY DEF LoaderSkips, outbox
<1>f. host'.up = host.up /\ host'.session = host.session /\ host'.queued = host.queued
      /\ loader.phase = "probe"
      /\ host'.next = host.next + 1 /\ host'.reported = host.reported
  BY <1>0 DEF LoaderSkips, TypeOK, HostStates
<1>1. host' \in HostStates
  <2>1. host.next + 1 \in 1..(MaxWindow + 1) /\ host.next \in 0..MaxWindow
    BY LivePipelineAssumption DEF Windows, LoaderSkips, Announced
  <2> QED BY <1>0, <2>1 DEF TypeOK, HostStates, LoaderSkips
<1>2. TypeOK'
  BY <1>0, <1>u, <1>1 DEF TypeOK
<1>3. InHand'
  BY <1>0, <1>u DEF InHand
<1>4. HostFollows'
  BY <1>0, <1>u, <1>f DEF HostFollows
<1>5. InboxFollows'
  BY <1>0, <1>u DEF InboxFollows, Stale, Fresh
<1>6. OutboxFollows'
  BY <1>0, <1>u DEF OutboxFollows, Stale, Fresh
<1>7. DoneFollows'
  BY <1>0, <1>u DEF DoneFollows
<1>8. LoaderFollows'
  BY <1>0, <1>u, <1>f DEF LoaderFollows, Stale, Fresh
<1>9. OwnSession'
  BY <1>0, <1>u, <1>f DEF OwnSession
<1>10. Ages'
  BY <1>0, <1>u DEF Ages
<1>11. Reporting'
  <2>1. host.next \in Nat /\ host.queued \in Nat /\ playback_status \in Nat
    BY <1>0, NumbersAreNatural
  <2> QED BY <1>0, <1>u, <1>f, <2>1 DEF Reporting
<1>12. Untouched'
  BY <1>0, <1>u, <1>f DEF Untouched, Waiting, Older, Fresh
<1> QED
  BY <1>2, <1>3, <1>4, <1>5, <1>6, <1>7, <1>8, <1>9, <1>10, <1>11, <1>12 DEF IInv

LEMMA LoaderReadsKeeps ==
    ASSUME IInv, NEW r \in Stems, LoaderReads(r) PROVE IInv'
<1>0. TypeOK /\ InHand /\ HostFollows /\ InboxFollows /\ OutboxFollows /\ DoneFollows
      /\ LoaderFollows /\ OwnSession /\ Ages /\ Reporting /\ Untouched
  BY DEF IInv
<1>u. UNCHANGED <<command, session, inbox, stems, manifest, playback_status, controller,
                  heard, worker, restarts>>
  BY DEF LoaderReads, outbox
<1>f. loader.phase = "read" /\ host.up /\ host.next \in Windows
      /\ \/ host' = HostDown /\ loader' = LoaderIdle
         \/ /\ host' = host /\ loader'.phase = "read"
            /\ loader'.read = [loader.read EXCEPT ![r] = stems[host.next][r]]
            /\ loader' \in LoaderStates
  <2>1. loader.phase = "read" /\ host.up /\ host.next \in Windows
    BY <1>0 DEF LoaderReads, HostFollows
  <2>2. loader \in LoaderStates /\ stems[host.next][r] \in Contents
    BY <1>0, <2>1 DEF TypeOK
  <2>3. CASE stems[host.next][r] = NoSound
    BY <2>1, <2>3 DEF LoaderReads
  <2>4. CASE stems[host.next][r] # NoSound
    <3>1. host' = host
          /\ loader' = [loader EXCEPT !.read = [@ EXCEPT ![r] = stems[host.next][r]]]
      BY <2>4 DEF LoaderReads
    <3> QED BY <2>1, <2>2, <3>1 DEF LoaderStates
  <2> QED BY <2>3, <2>4
<1>1. host' \in HostStates
  BY <1>0, <1>f, Down DEF TypeOK
<1>2. loader' \in LoaderStates
  BY <1>0, <1>f, Down
<1>3. TypeOK'
  BY <1>0, <1>u, <1>1, <1>2 DEF TypeOK
<1>4. InHand'
  BY <1>0, <1>u DEF InHand
<1>5. HostFollows'
  BY <1>0, <1>u, <1>f, Down DEF HostFollows
<1>6. InboxFollows'
  BY <1>0, <1>u DEF InboxFollows, Stale, Fresh
<1>7. OutboxFollows'
  BY <1>0, <1>u DEF OutboxFollows, Stale, Fresh
<1>8. DoneFollows'
  BY <1>0, <1>u DEF DoneFollows
<1>9. LoaderFollows'
  <2>1. CASE loader' = LoaderIdle
    BY <1>u, <2>1, Down DEF LoaderFollows, Fresh
  <2>2. CASE host' = host /\ loader'.read = [loader.read EXCEPT ![r] = stems[host.next][r]]
    <3>1. \A s \in Stems : loader'.read[s] \in {loader.read[s], stems[host.next][s]}
      BY <1>0, <2>2 DEF TypeOK, LoaderStates
    <3> QED BY <1>0, <1>u, <1>f, <2>2, <3>1 DEF LoaderFollows, Stale, Fresh
  <2> QED BY <1>f, <2>1, <2>2
<1>10. OwnSession'
  BY <1>0, <1>u, <1>f, Down DEF OwnSession
<1>11. Ages'
  BY <1>0, <1>u DEF Ages
<1>12. Reporting'
  BY <1>0, <1>u, <1>f, Down DEF Reporting
<1>13. Untouched'
  BY <1>0, <1>u, <1>f, Down DEF Untouched, Waiting, Older, Fresh
<1> QED
  BY <1>3, <1>4, <1>5, <1>6, <1>7, <1>8, <1>9, <1>10, <1>11, <1>12, <1>13 DEF IInv

LEMMA LoaderQueuesKeeps ==
    ASSUME IInv, LoaderQueues PROVE IInv'
<1>0. TypeOK /\ InHand /\ HostFollows /\ InboxFollows /\ OutboxFollows /\ DoneFollows
      /\ LoaderFollows /\ OwnSession /\ Ages /\ Reporting /\ Untouched
  BY DEF IInv
<1>u. UNCHANGED <<command, session, inbox, stems, manifest, playback_status, controller,
                  worker, restarts>>
  BY DEF LoaderQueues, outbox
<1>f. loader.phase = "read" /\ host.up /\ host.next \in Windows /\ heard' = loader.read
      /\ (\A s \in Stems : loader.read[s] # NoSound) /\ loader' = LoaderIdle
      /\ host'.up /\ host'.session = host.session /\ host.session = session.sequence
      /\ host'.next = host.next + 1 /\ host'.queued = host.next
      /\ host'.reported = host.reported
  BY <1>0 DEF LoaderQueues, HostFollows, TypeOK, HostStates
<1>1. heard' \in [Stems -> Contents]
  BY <1>0, <1>f DEF TypeOK, LoaderStates
<1>2. host' \in HostStates
  <2>1. host.next + 1 \in 1..(MaxWindow + 1) /\ host.next \in 0..MaxWindow
    BY <1>f, LivePipelineAssumption DEF Windows
  <2> QED BY <1>0, <2>1 DEF TypeOK, HostStates, LoaderQueues
<1>3. loader' \in LoaderStates
  BY <1>f, Down
<1>4. TypeOK'
  BY <1>0, <1>u, <1>1, <1>2, <1>3 DEF TypeOK
<1>5. InHand'
  BY <1>0, <1>u DEF InHand
<1>6. HostFollows'
  BY <1>0, <1>u, <1>f, Down DEF HostFollows
<1>7. InboxFollows'
  BY <1>0, <1>u DEF InboxFollows, Stale, Fresh
<1>8. OutboxFollows'
  BY <1>0, <1>u DEF OutboxFollows, Stale, Fresh
<1>9. DoneFollows'
  BY <1>0, <1>u DEF DoneFollows
<1>10. LoaderFollows'
  BY <1>u, <1>f, Down DEF LoaderFollows, Fresh
<1>11. OwnSession'
  BY <1>0, <1>u, <1>f DEF OwnSession, LoaderFollows, Fresh
<1>12. Ages'
  BY <1>0, <1>u DEF Ages
<1>13. Reporting'
  <2>1. host.next \in Nat /\ host.queued \in Nat /\ playback_status \in Nat
    BY <1>0, NumbersAreNatural
  <2> QED BY <1>0, <1>u, <1>f, <2>1 DEF Reporting
<1>14. Untouched'
  BY <1>0, <1>u, <1>f DEF Untouched, Waiting, Older, Fresh
<1> QED
  BY <1>4, <1>5, <1>6, <1>7, <1>8, <1>9, <1>10, <1>11, <1>12, <1>13, <1>14 DEF IInv

LEMMA WorkerSyncsKeeps ==
    ASSUME IInv, WorkerSyncs PROVE IInv'
<1>0. TypeOK /\ InHand /\ HostFollows /\ InboxFollows /\ OutboxFollows /\ DoneFollows
      /\ LoaderFollows /\ OwnSession /\ Ages /\ Reporting /\ Untouched
  BY DEF IInv
<1>u. UNCHANGED <<command, session, inbox, stems, manifest, playback_status, controller, host,
                  loader, heard, restarts>>
  BY DEF WorkerSyncs, outbox, WorkerOnly
<1>f. worker.phase = "sync" /\ worker'.phase = "prune" /\ worker'.chunk = worker.chunk
      /\ worker'.sound = worker.sound /\ worker'.done = worker.done /\ worker' \in WorkerStates
  <2>1. worker.phase = "sync"
        /\ worker' \in {[worker EXCEPT !.phase = "prune"], Adopted, Pending,
                        [Seen EXCEPT !.active = FALSE], Seen}
    BY DEF WorkerSyncs
  <2>2. worker \in WorkerStates /\ command.sequence \in 0..MaxCommands /\ 0 \in 0..MaxWindow
    BY <1>0, LivePipelineAssumption DEF TypeOK, CommandFiles
  <2>3. CASE worker' = [worker EXCEPT !.phase = "prune"]
    BY <2>1, <2>2, <2>3 DEF WorkerStates
  <2>4. CASE worker' = Adopted
    BY <2>1, <2>2, <2>4 DEF WorkerStates, Adopted, Seen
  <2>5. CASE worker' = Pending
    BY <2>1, <2>2, <2>5 DEF WorkerStates, Pending
  <2>6. CASE worker' = [Seen EXCEPT !.active = FALSE]
    BY <2>1, <2>2, <2>6 DEF WorkerStates, Seen
  <2>7. CASE worker' = Seen
    BY <2>1, <2>2, <2>7 DEF WorkerStates, Seen
  <2> QED BY <2>1, <2>3, <2>4, <2>5, <2>6, <2>7
<1>1. worker' \in WorkerStates
  BY <1>f
<1>2. worker'.chunk = 0 <=> worker'.phase \in {"sync", "prune", "discover"}
  BY <1>0, <1>f DEF TypeOK
<1>3. TypeOK'
  BY <1>0, <1>u, <1>1, <1>2 DEF TypeOK
<1>4. InHand'
  BY <1>0, <1>f DEF InHand
<1>5. HostFollows'
  BY <1>0, <1>u DEF HostFollows
<1>6. InboxFollows'
  BY <1>0, <1>u, <1>f DEF InboxFollows, Stale, Fresh
<1>7. OutboxFollows'
  BY <1>0, <1>u, <1>f, OutboxUntouched
<1>8. DoneFollows'
  BY <1>0, <1>u, <1>f DEF DoneFollows
<1>9. LoaderFollows'
  BY <1>0, <1>u, <1>f, LoaderUntouched
<1>10. OwnSession'
  BY <1>0, <1>u DEF OwnSession
<1>11. Ages'
  BY <1>0, <1>u, <1>f, AgesKept
<1>12. Reporting'
  BY <1>0, <1>u DEF Reporting
<1>13. Untouched'
  BY <1>0, <1>u, <1>f, UntouchedKept
<1> QED
  BY <1>3, <1>4, <1>5, <1>6, <1>7, <1>8, <1>9, <1>10, <1>11, <1>12, <1>13 DEF IInv

LEMMA PrunesKeeps ==
    ASSUME IInv, NEW cutoff \in Int, Prunes(cutoff) PROVE IInv'
<1>0. TypeOK /\ InHand /\ HostFollows /\ InboxFollows /\ OutboxFollows /\ DoneFollows
      /\ LoaderFollows /\ OwnSession /\ Ages /\ Reporting /\ Untouched
  BY DEF IInv
<1>u. UNCHANGED <<command, session, playback_status, controller, host, loader, heard, restarts>>
  BY DEF Prunes, outbox, WorkerOnly
<1>f. worker.phase = "prune" /\ worker'.phase = "discover" /\ worker'.chunk = worker.chunk
      /\ worker'.sound = worker.sound
      /\ \A n \in Windows : /\ inbox'[n] \in {inbox[n], NoFile}
                            /\ manifest'[n] \in {manifest[n], "absent"}
                            /\ \A s \in Stems : stems'[n][s] \in {stems[n][s], NoSound}
  BY <1>0 DEF Prunes, TypeOK, WorkerStates
<1>1. worker' \in WorkerStates
  BY <1>0 DEF TypeOK, Prunes, WorkerStates, outbox, WorkerOnly
<1>2. inbox' \in [Windows -> {NoFile} \cup Sessions]
  BY <1>0 DEF TypeOK, Prunes, outbox, WorkerOnly
<1>3. manifest' \in [Windows -> {"absent", "empty", "stems"}]
  BY <1>0 DEF TypeOK, Prunes, outbox, WorkerOnly
<1>4. stems' \in [Windows -> [Stems -> Contents]]
  BY <1>0 DEF TypeOK, Prunes, Contents, outbox, WorkerOnly
<1>5. worker'.chunk = 0 <=> worker'.phase \in {"sync", "prune", "discover"}
  BY <1>0 DEF TypeOK, WorkerStates, Prunes, outbox, WorkerOnly
<1>6. TypeOK'
  BY <1>0, <1>u, <1>1, <1>2, <1>3, <1>4, <1>5 DEF TypeOK
<1>7. InHand'
  BY <1>0, <1>u DEF TypeOK, InHand, Prunes, outbox, WorkerOnly, WorkerStates
<1>8. HostFollows'
  BY <1>0, <1>u DEF HostFollows
<1>9. InboxFollows'
  BY <1>0, <1>u DEF TypeOK, InboxFollows, Stale, Fresh, Prunes, outbox, WorkerOnly,
     ControllerStates, SessionFiles, WorkerStates
<1>10. OutboxFollows'
  <2>1. controller.phase \notin {"clear inbox", "clear outbox"} =>
           \A n \in Windows, s \in Stems : manifest'[n] # "absent" => Fresh(stems'[n][s])
    <3>1. \A n \in Windows : manifest'[n] # "absent" => manifest[n] # "absent"
      BY <1>f
    <3>2. \A n \in Windows, s \in Stems : Fresh(stems[n][s]) => Fresh(stems'[n][s])
      BY <1>f DEF Fresh
    <3> QED BY <1>0, <3>1, <3>2 DEF OutboxFollows
  <2> QED BY <1>u, <1>f, <2>1 DEF OutboxFollows, Fresh
<1>11. DoneFollows'
  BY <1>0, <1>u DEF TypeOK, DoneFollows, Prunes, outbox, WorkerOnly, WorkerStates, Contents
<1>12. LoaderFollows'
  <2>1. loader.phase = "read" => host.next \in Windows  BY <1>0 DEF HostFollows
  <2> QED BY <1>0, <1>u, <1>f, <2>1 DEF LoaderFollows, Stale, Fresh
<1>13. OwnSession'
  BY <1>0, <1>u DEF OwnSession
<1>14. Ages'
  BY <1>0, <1>u, <1>f, AgesKept
<1>15. Reporting'
  BY <1>0, <1>u DEF Reporting
<1>16. Untouched'
  BY <1>0, <1>u, <1>f, UntouchedKept
<1> QED
  BY <1>6, <1>7, <1>8, <1>9, <1>10, <1>11, <1>12, <1>13, <1>14, <1>15, <1>16 DEF IInv

LEMMA WorkerDiscoversKeeps ==
    ASSUME IInv, WorkerDiscovers PROVE IInv'
<1>0. TypeOK /\ InHand /\ HostFollows /\ InboxFollows /\ OutboxFollows /\ DoneFollows
      /\ LoaderFollows /\ OwnSession /\ Ages /\ Reporting /\ Untouched
  BY DEF IInv
<1>u. UNCHANGED <<command, session, inbox, stems, manifest, playback_status, controller, host,
                  loader, heard, restarts>>
  BY DEF WorkerDiscovers, outbox, WorkerOnly
<1>f. worker.phase = "discover" /\ worker'.sound = worker.sound
      /\ worker' \in WorkerStates /\ worker'.phase \in {"sync", "separate"}
      /\ (worker'.phase = "sync" <=> worker'.chunk = 0) /\ worker.chunk = 0
  <2> DEFINE ready == {n \in Captures : n > worker.last}
  <2>1. worker \in WorkerStates /\ worker.phase = "discover" /\ worker.chunk = 0
    BY <1>0 DEF TypeOK, WorkerDiscovers
  <2>2. CASE ready = {}
    <3>1. worker' = [worker EXCEPT !.phase = "sync"]  BY <2>2 DEF WorkerDiscovers
    <3> QED BY <2>1, <3>1 DEF WorkerStates
  <2>3. CASE ready # {}
    <3>1. worker' = [worker EXCEPT !.phase = "separate", !.chunk = Smallest(ready)]
      BY <2>3 DEF WorkerDiscovers
    <3>2. Smallest(ready) \in ready
      <4>1. ready \subseteq Windows  BY DEF Captures
      <4> HIDE DEF ready
      <4> QED BY <2>3, <4>1, SmallestIsThere
    <3>3. Smallest(ready) \in 0..MaxWindow /\ Smallest(ready) # 0
      BY <3>2, LivePipelineAssumption DEF Captures, Windows
    <3> HIDE DEF ready
    <3> QED BY <2>1, <3>1, <3>3 DEF WorkerStates
  <2> QED BY <2>2, <2>3
<1>1. worker' \in WorkerStates
  BY <1>f
<1>2. worker'.chunk = 0 <=> worker'.phase \in {"sync", "prune", "discover"}
  BY <1>f
<1>3. TypeOK'
  BY <1>0, <1>u, <1>1, <1>2 DEF TypeOK
<1>4. InHand'
  BY <1>0, <1>f DEF InHand
<1>5. HostFollows'
  BY <1>0, <1>u DEF HostFollows
<1>6. InboxFollows'
  BY <1>0, <1>u, <1>f DEF InboxFollows, Stale, Fresh
<1>7. OutboxFollows'
  BY <1>0, <1>u, <1>f, OutboxUntouched
<1>8. DoneFollows'
  BY <1>0, <1>u, <1>f DEF DoneFollows
<1>9. LoaderFollows'
  BY <1>0, <1>u, <1>f, LoaderUntouched
<1>10. OwnSession'
  BY <1>0, <1>u DEF OwnSession
<1>11. Ages'
  BY <1>0, <1>u, <1>f, AgesKept
<1>12. Reporting'
  BY <1>0, <1>u DEF Reporting
<1>13. Untouched'
  BY <1>0, <1>u, <1>f, UntouchedKept
<1> QED
  BY <1>3, <1>4, <1>5, <1>6, <1>7, <1>8, <1>9, <1>10, <1>11, <1>12, <1>13 DEF IInv

LEMMA PublishingKeeps ==
    ASSUME IInv, NEW kind \in Kinds, worker.phase = "separate", CaptureThere,
           worker' = Publishing(kind), UNCHANGED <<inbox, outbox>>, WorkerOnly PROVE IInv'
<1>0. TypeOK /\ InHand /\ HostFollows /\ InboxFollows /\ OutboxFollows /\ DoneFollows
      /\ LoaderFollows /\ OwnSession /\ Ages /\ Reporting /\ Untouched
  BY DEF IInv
<1>u. UNCHANGED <<command, session, inbox, stems, manifest, playback_status, controller, host,
                  loader, heard, restarts>>
  BY DEF outbox, WorkerOnly
<1>f. worker' \in WorkerStates /\ worker.phase = "separate" /\ worker'.phase = "publish"
      /\ worker'.chunk = worker.chunk /\ worker.chunk # 0 /\ worker'.done = {}
      /\ worker'.sound # NoSound
      /\ (controller.phase # "clear inbox" => Fresh(worker'.sound))
      /\ worker'.sound.session = inbox[worker.chunk] /\ worker.chunk \in Windows
  <2>1. worker \in WorkerStates /\ worker.chunk # 0  BY <1>0 DEF TypeOK
  <2>2. worker.chunk \in Windows  BY <1>0, ChunkIsWindow
  <2>3. inbox[worker.chunk] \in Sessions
    BY <1>0, <2>2 DEF TypeOK, CaptureThere
  <2>4. worker'.sound = [session |-> inbox[worker.chunk], kind |-> kind]
        /\ worker'.phase = "publish" /\ worker'.done = {} /\ worker'.chunk = worker.chunk
    BY <2>1 DEF Publishing, WorkerStates
  <2>5. worker'.sound \in Sounds /\ worker'.sound # NoSound
    <3>1. worker'.sound \in Sounds  BY <2>3, <2>4 DEF Sounds
    <3>2. worker'.sound.session # NoSound.session
      BY <2>3, <2>4, LivePipelineAssumption DEF Sessions, NoSound
    <3> QED BY <3>1, <3>2
  <2>6. worker' \in WorkerStates
    BY <2>1, <2>4, <2>5 DEF Publishing, WorkerStates, Contents
  <2>7. controller.phase # "clear inbox" => inbox[worker.chunk] = session.sequence
    <3>1. controller.phase # "clear inbox" => inbox[worker.chunk] \in {NoFile, session.sequence}
      BY <1>0, <2>2 DEF InboxFollows
    <3> QED BY <3>1 DEF CaptureThere, NoFile
  <2>8. worker'.sound.session = inbox[worker.chunk]  BY <2>4
  <2>9. controller.phase # "clear inbox" => Fresh(worker'.sound)  BY <2>7, <2>8 DEF Fresh
  <2> QED BY <2>1, <2>2, <2>4, <2>5, <2>6, <2>8, <2>9
<1>1. worker' \in WorkerStates
  BY <1>f
<1>2. worker'.chunk = 0 <=> worker'.phase \in {"sync", "prune", "discover"}
  BY <1>0, <1>f DEF TypeOK
<1>3. TypeOK'
  BY <1>0, <1>u, <1>1, <1>2 DEF TypeOK
<1>4. InHand'
  BY <1>0, <1>f DEF InHand
<1>5. HostFollows'
  BY <1>0, <1>u DEF HostFollows
<1>6. InboxFollows'
  BY <1>0, <1>u, <1>f DEF InboxFollows, Stale, Fresh
<1>7. OutboxFollows'
  BY <1>0, <1>u, <1>f, OutboxUntouched
<1>8. DoneFollows'
  BY <1>0, <1>u, <1>f DEF DoneFollows
<1>9. LoaderFollows'
  <2>1. loader.phase = "read" => controller.phase = "poll"  BY <1>0 DEF HostFollows
  <2> QED BY <1>0, <1>u, <1>f, <2>1, LoaderUntouched
<1>10. OwnSession'
  BY <1>0, <1>u DEF OwnSession
<1>11. Ages'
  BY <1>0, <1>u, <1>f DEF Ages
<1>12. Reporting'
  BY <1>0, <1>u DEF Reporting
<1>13. Untouched'
  <2>1. Waiting => controller.phase = "clear inbox"
    BY <1>0, <1>f DEF Untouched, CaptureThere
  <2>2. session.sequence \in Nat /\ inbox[worker.chunk] \in Nat  BY <1>0, <1>f, NumbersAreNatural
  <2>3. controller.phase = "clear inbox" => inbox[worker.chunk] # session.sequence
    <3>1. controller.phase = "clear inbox" => inbox[worker.chunk] < session.sequence
      BY <1>0, <1>f DEF Ages
    <3>2. \A i, j \in Nat : i < j => i # j  OBVIOUS
    <3> QED BY <2>2, <3>1, <3>2
  <2>4. Waiting => Older(worker'.sound)
    <3>1. Waiting => worker'.sound.session # session.sequence  BY <1>f, <2>1, <2>3
    <3> QED BY <1>f, <3>1 DEF Older, Fresh
  <2>5. Waiting' = Waiting /\ Older(worker'.sound) = Older(worker.sound)'
    BY <1>u DEF Waiting, Older, Fresh
  <2> QED BY <1>u, <2>1, <2>4, <2>5 DEF Untouched
<1> QED
  BY <1>3, <1>4, <1>5, <1>6, <1>7, <1>8, <1>9, <1>10, <1>11, <1>12, <1>13 DEF IInv

LEMMA WorkerSeparatesKeeps ==
    ASSUME IInv, WorkerSeparates PROVE IInv'
BY PublishingKeeps DEF WorkerSeparates, Kinds

LEMMA WorkerFallsBackKeeps ==
    ASSUME IInv, WorkerFallsBack PROVE IInv'
<1>0. TypeOK /\ InHand /\ HostFollows /\ InboxFollows /\ OutboxFollows /\ DoneFollows
      /\ LoaderFollows /\ OwnSession /\ Ages /\ Reporting /\ Untouched
  BY DEF IInv
<1>p. CASE CaptureThere
  BY <1>p, PublishingKeeps DEF WorkerFallsBack, Kinds
<1> SUFFICES ASSUME ~CaptureThere PROVE IInv'
  BY <1>p
<1>c. ~CaptureThere  OBVIOUS
<1>u. UNCHANGED <<command, session, inbox, stems, manifest, playback_status, controller, host,
                  loader, heard, restarts>>
  BY <1>c DEF WorkerFallsBack, outbox, WorkerOnly
<1>f. worker.phase = "separate" /\ worker' \in WorkerStates /\ worker'.phase = "unlink"
      /\ worker'.chunk = worker.chunk /\ worker'.sound = worker.sound
  BY <1>0, <1>c DEF TypeOK, WorkerStates, WorkerFallsBack
<1>1. worker' \in WorkerStates
  BY <1>f
<1>2. worker'.chunk = 0 <=> worker'.phase \in {"sync", "prune", "discover"}
  BY <1>0, <1>f DEF TypeOK
<1>3. TypeOK'
  BY <1>0, <1>u, <1>1, <1>2 DEF TypeOK
<1>4. InHand'
  BY <1>0, <1>f DEF InHand
<1>5. HostFollows'
  BY <1>0, <1>u DEF HostFollows
<1>6. InboxFollows'
  BY <1>0, <1>u, <1>f DEF InboxFollows, Stale, Fresh
<1>7. OutboxFollows'
  BY <1>0, <1>u, <1>f, OutboxUntouched
<1>8. DoneFollows'
  BY <1>0, <1>u, <1>f DEF DoneFollows
<1>9. LoaderFollows'
  BY <1>0, <1>u, <1>f, LoaderUntouched
<1>10. OwnSession'
  BY <1>0, <1>u DEF OwnSession
<1>11. Ages'
  BY <1>0, <1>u, <1>f, AgesKept
<1>12. Reporting'
  BY <1>0, <1>u DEF Reporting
<1>13. Untouched'
  BY <1>0, <1>u, <1>f, UntouchedKept
<1> QED
  BY <1>3, <1>4, <1>5, <1>6, <1>7, <1>8, <1>9, <1>10, <1>11, <1>12, <1>13 DEF IInv

LEMMA WorkerPublishesStemKeeps ==
    ASSUME IInv, NEW r \in Stems, WorkerPublishesStem(r) PROVE IInv'
<1>0. TypeOK /\ InHand /\ HostFollows /\ InboxFollows /\ OutboxFollows /\ DoneFollows
      /\ LoaderFollows /\ OwnSession /\ Ages /\ Reporting /\ Untouched
  BY DEF IInv
<1>u. UNCHANGED <<command, session, inbox, manifest, playback_status, controller, host,
                  loader, heard, restarts>>
  BY DEF WorkerPublishesStem, outbox, WorkerOnly
<1>f. worker.phase = "publish" /\ worker.chunk \in Windows /\ worker' \in WorkerStates
      /\ worker'.phase = "publish" /\ worker'.chunk = worker.chunk
      /\ worker'.sound = worker.sound /\ worker'.done = worker.done \cup {r}
      /\ \A n \in Windows, s \in Stems :
            stems'[n][s] = IF n = worker.chunk /\ s = r THEN worker.sound ELSE stems[n][s]
  <2>1. worker.phase = "publish" /\ worker \in WorkerStates
    BY <1>0 DEF TypeOK, WorkerPublishesStem
  <2>2. worker.chunk \in Windows  BY <1>0, <2>1, ChunkIsWindow
  <2>3. \A n \in Windows, s \in Stems :
           stems'[n][s] = IF n = worker.chunk /\ s = r THEN worker.sound ELSE stems[n][s]
    BY <1>0, <2>2 DEF TypeOK, WorkerPublishesStem
  <2> QED BY <2>1, <2>2, <2>3 DEF WorkerStates, WorkerPublishesStem
<1>1. stems' \in [Windows -> [Stems -> Contents]]
  <2>1. worker.sound \in Contents  BY <1>0 DEF TypeOK, WorkerStates
  <2> QED BY <1>0, <1>f, <2>1 DEF TypeOK, WorkerPublishesStem
<1>2. worker' \in WorkerStates
  BY <1>f
<1>3. worker'.chunk = 0 <=> worker'.phase \in {"sync", "prune", "discover"}
  BY <1>0, <1>f DEF TypeOK
<1>4. TypeOK'
  BY <1>0, <1>u, <1>1, <1>2, <1>3 DEF TypeOK
<1>5. InHand'
  BY <1>0, <1>f DEF InHand
<1>6. HostFollows'
  BY <1>0, <1>u DEF HostFollows
<1>7. InboxFollows'
  BY <1>0, <1>u, <1>f DEF InboxFollows, Stale, Fresh
<1>8. OutboxFollows'
  <2>1. CASE controller.phase \in {"clear inbox", "clear outbox"}
    BY <1>u, <2>1 DEF OutboxFollows
  <2>2. CASE controller.phase \notin {"clear inbox", "clear outbox"}
    <3> SUFFICES ASSUME NEW n \in Windows, NEW s \in Stems
                 PROVE  /\ manifest[n] # "absent" => Fresh(stems'[n][s])
                        /\ Stale => manifest[n] = "absent"
      BY <1>u, <1>f DEF OutboxFollows, Stale, Fresh
    <3>1. Stale => manifest[n] = "absent"  BY <1>0, <1>f, <2>2 DEF OutboxFollows
    <3>2. manifest[n] # "absent" => Fresh(stems[n][s])  BY <1>0, <2>2 DEF OutboxFollows
    <3>3. stems'[n][s] \in {stems[n][s], worker.sound}  BY <1>f
    <3> QED BY <3>1, <3>2, <3>3 DEF Stale
  <2> QED BY <2>1, <2>2
<1>9. DoneFollows'
  <2>1. worker.done \subseteq Stems  BY <1>0 DEF TypeOK, WorkerStates
  <2> QED BY <1>0, <1>f, <2>1 DEF DoneFollows
<1>10. LoaderFollows'
  <2>1. loader.phase = "read" => host.next \in Windows  BY <1>0 DEF HostFollows
  <2> QED BY <1>0, <1>u, <1>f, <2>1 DEF LoaderFollows, Stale, Fresh
<1>11. OwnSession'
  BY <1>0, <1>u DEF OwnSession
<1>12. Ages'
  BY <1>0, <1>u, <1>f, AgesKept
<1>13. Reporting'
  BY <1>0, <1>u DEF Reporting
<1>14. Untouched'
  BY <1>0, <1>u, <1>f, UntouchedKept
<1> QED
  BY <1>4, <1>5, <1>6, <1>7, <1>8, <1>9, <1>10, <1>11, <1>12, <1>13, <1>14 DEF IInv

LEMMA WorkerChecksCaptureKeeps ==
    ASSUME IInv, WorkerChecksCapture PROVE IInv'
<1>0. TypeOK /\ InHand /\ HostFollows /\ InboxFollows /\ OutboxFollows /\ DoneFollows
      /\ LoaderFollows /\ OwnSession /\ Ages /\ Reporting /\ Untouched
  BY DEF IInv
<1>u. UNCHANGED <<command, session, inbox, stems, manifest, playback_status, controller, host,
                  loader, heard, restarts>>
  BY DEF WorkerChecksCapture, outbox, WorkerOnly
<1>f. worker.phase = "publish" /\ worker.done = Stems /\ worker.chunk \in Windows
      /\ worker' \in WorkerStates /\ worker'.chunk = worker.chunk
      /\ worker'.sound = worker.sound /\ worker'.done = worker.done
      /\ worker'.phase = IF CaptureThere THEN "announce" ELSE "unlink"
  <2>1. worker.phase = "publish" /\ worker \in WorkerStates
    BY <1>0 DEF TypeOK, WorkerChecksCapture
  <2>2. worker.chunk \in Windows  BY <1>0, <2>1, ChunkIsWindow
  <2> QED BY <2>1, <2>2 DEF WorkerStates, WorkerChecksCapture
<1>1. worker' \in WorkerStates
  BY <1>f
<1>2. worker'.chunk = 0 <=> worker'.phase \in {"sync", "prune", "discover"}
  BY <1>0, <1>f DEF TypeOK
<1>3. TypeOK'
  BY <1>0, <1>u, <1>1, <1>2 DEF TypeOK
<1>4. InHand'
  BY <1>0, <1>f DEF InHand
<1>5. HostFollows'
  BY <1>0, <1>u DEF HostFollows
<1>6. InboxFollows'
  BY <1>0, <1>u, <1>f DEF InboxFollows, Stale, Fresh
<1>7. OutboxFollows'
  <2>1. CASE controller.phase \in {"clear inbox", "clear outbox"} \/ Fresh(worker.sound)
    BY <1>0, <1>u, <1>f, <2>1, OutboxUntouched
  <2>2. CASE controller.phase \notin {"clear inbox", "clear outbox"} /\ ~Fresh(worker.sound)
    <3>1. ~CaptureThere  BY <1>0, <1>f, <2>2 DEF InboxFollows, CaptureThere, Stale
    <3> QED BY <1>0, <1>u, <1>f, <3>1, OutboxUntouched
  <2> QED BY <2>1, <2>2
<1>8. DoneFollows'
  BY <1>0, <1>u, <1>f DEF DoneFollows
<1>9. LoaderFollows'
  BY <1>0, <1>u, <1>f, LoaderUntouched
<1>10. OwnSession'
  BY <1>0, <1>u DEF OwnSession
<1>11. Ages'
  BY <1>0, <1>u, <1>f, AgesKept
<1>12. Reporting'
  BY <1>0, <1>u DEF Reporting
<1>13. Untouched'
  BY <1>0, <1>u, <1>f, UntouchedKept
<1> QED
  BY <1>3, <1>4, <1>5, <1>6, <1>7, <1>8, <1>9, <1>10, <1>11, <1>12, <1>13 DEF IInv

LEMMA WorkerAnnouncesKeeps ==
    ASSUME IInv, WorkerAnnounces PROVE IInv'
<1>0. TypeOK /\ InHand /\ HostFollows /\ InboxFollows /\ OutboxFollows /\ DoneFollows
      /\ LoaderFollows /\ OwnSession /\ Ages /\ Reporting /\ Untouched
  BY DEF IInv
<1>u. UNCHANGED <<command, session, inbox, stems, playback_status, controller, host, loader,
                  heard, restarts>>
  BY DEF WorkerAnnounces, outbox, WorkerOnly
<1>f. worker.phase = "announce" /\ worker.chunk \in Windows /\ worker' \in WorkerStates
      /\ worker'.phase \in {"sync", "quarantine"}
      /\ (worker'.phase = "sync" => worker'.sound = NoSound /\ worker'.chunk = 0)
      /\ (worker'.phase = "quarantine" => /\ worker'.sound = worker.sound
                                          /\ worker'.chunk = worker.chunk)
      /\ \A n \in Windows : manifest'[n] = IF n = worker.chunk THEN "stems" ELSE manifest[n]
  <2>1. worker.phase = "announce" /\ worker \in WorkerStates
    BY <1>0 DEF TypeOK, WorkerAnnounces
  <2>2. worker.chunk \in Windows  BY <1>0, <2>1, ChunkIsWindow
  <2>3. worker' \in {Finished, [worker EXCEPT !.phase = "quarantine"]}
    BY DEF WorkerAnnounces
  <2>4. CASE worker' = Finished
    BY <2>1, <2>4, FinishedIsTyped, <1>0, <2>2 DEF TypeOK, WorkerAnnounces
  <2>5. CASE worker' = [worker EXCEPT !.phase = "quarantine"]
    BY <1>0, <2>1, <2>2, <2>5 DEF TypeOK, WorkerStates, WorkerAnnounces
  <2> QED BY <2>3, <2>4, <2>5
<1>1. manifest' \in [Windows -> {"absent", "empty", "stems"}]
  BY <1>0, <1>f DEF TypeOK, WorkerAnnounces
<1>2. worker' \in WorkerStates
  BY <1>f
<1>3. worker'.chunk = 0 <=> worker'.phase \in {"sync", "prune", "discover"}
  <2>1. worker.chunk # 0  BY <1>0, <1>f DEF TypeOK
  <2> QED BY <1>f, <2>1
<1>4. TypeOK'
  BY <1>0, <1>u, <1>1, <1>2, <1>3 DEF TypeOK
<1>5. InHand'
  BY <1>0, <1>f DEF InHand
<1>6. HostFollows'
  BY <1>0, <1>u DEF HostFollows
<1>7. InboxFollows'
  BY <1>0, <1>u, <1>f DEF InboxFollows, Stale, Fresh
<1>8. OutboxFollows'
  <2>1. controller.phase \notin {"clear inbox", "clear outbox"} =>
           \A s \in Stems : Fresh(stems[worker.chunk][s])
    <3>1. \A s \in Stems : stems[worker.chunk][s] \in {NoSound, worker.sound}
      BY <1>0, <1>f DEF DoneFollows
    <3>2. controller.phase \notin {"clear inbox", "clear outbox"} /\ Stale =>
             \A s \in Stems : stems[worker.chunk][s] = NoSound
      BY <1>0, <1>f DEF OutboxFollows
    <3> QED BY <3>1, <3>2 DEF Stale, Fresh
  <2>2. controller.phase \notin {"clear inbox", "clear outbox"} =>
           \A n \in Windows, s \in Stems : manifest'[n] # "absent" => Fresh(stems[n][s])
    BY <1>0, <1>f, <2>1 DEF OutboxFollows
  <2> QED BY <1>u, <1>f, <2>2 DEF OutboxFollows, Stale, Fresh
<1>9. DoneFollows'
  BY <1>0, <1>u, <1>f DEF DoneFollows
<1>10. LoaderFollows'
  BY <1>0, <1>u, <1>f, LoaderUntouched
<1>11. OwnSession'
  BY <1>0, <1>u DEF OwnSession
<1>12. Ages'
  BY <1>0, <1>u, <1>f, AgesKept
<1>13. Reporting'
  BY <1>0, <1>u DEF Reporting
<1>14. Untouched'
  BY <1>0, <1>u, <1>f, UntouchedKept
<1> QED
  BY <1>4, <1>5, <1>6, <1>7, <1>8, <1>9, <1>10, <1>11, <1>12, <1>13, <1>14 DEF IInv

LEMMA WorkerUnlinksKeeps ==
    ASSUME IInv, WorkerUnlinks PROVE IInv'
<1>0. TypeOK /\ InHand /\ HostFollows /\ InboxFollows /\ OutboxFollows /\ DoneFollows
      /\ LoaderFollows /\ OwnSession /\ Ages /\ Reporting /\ Untouched
  BY DEF IInv
<1>u. UNCHANGED <<command, session, inbox, manifest, playback_status, controller, host,
                  loader, heard, restarts>>
  BY DEF WorkerUnlinks, outbox, WorkerOnly
<1>f. worker.phase = "unlink" /\ worker.chunk \in Windows /\ worker' \in WorkerStates
      /\ worker'.phase = "announce none" /\ worker'.chunk = worker.chunk
      /\ worker'.sound = worker.sound
      /\ \A n \in Windows, s \in Stems :
            stems'[n][s] = IF n = worker.chunk THEN NoSound ELSE stems[n][s]
  <2>1. worker.phase = "unlink" /\ worker \in WorkerStates
    BY <1>0 DEF TypeOK, WorkerUnlinks
  <2>2. worker.chunk \in Windows  BY <1>0, <2>1, ChunkIsWindow
  <2>3. \A n \in Windows, s \in Stems :
           stems'[n][s] = IF n = worker.chunk THEN NoSound ELSE stems[n][s]
    BY <1>0, <2>2 DEF TypeOK, WorkerUnlinks
  <2> QED BY <2>1, <2>2, <2>3 DEF WorkerStates, WorkerUnlinks
<1>1. stems' \in [Windows -> [Stems -> Contents]]
  BY <1>0 DEF TypeOK, WorkerUnlinks, Contents, outbox, WorkerOnly
<1>2. worker' \in WorkerStates
  BY <1>f
<1>3. worker'.chunk = 0 <=> worker'.phase \in {"sync", "prune", "discover"}
  BY <1>0, <1>f DEF TypeOK
<1>4. TypeOK'
  BY <1>0, <1>u, <1>1, <1>2, <1>3 DEF TypeOK
<1>5. InHand'
  BY <1>0, <1>f DEF InHand
<1>6. HostFollows'
  BY <1>0, <1>u DEF HostFollows
<1>7. InboxFollows'
  BY <1>0, <1>u, <1>f DEF InboxFollows, Stale, Fresh
<1>8. OutboxFollows'
  <2>1. CASE controller.phase \in {"clear inbox", "clear outbox"}
    BY <1>u, <2>1 DEF OutboxFollows
  <2>2. CASE controller.phase \notin {"clear inbox", "clear outbox"}
    <3> SUFFICES ASSUME NEW n \in Windows, NEW s \in Stems
                 PROVE  manifest[n] # "absent" => Fresh(stems'[n][s])
      BY <1>u, <1>f DEF OutboxFollows, Stale, Fresh
    <3>1. manifest[n] # "absent" => Fresh(stems[n][s])  BY <1>0, <2>2 DEF OutboxFollows
    <3>2. stems'[n][s] \in {stems[n][s], NoSound}  BY <1>f
    <3> QED BY <3>1, <3>2 DEF Fresh
  <2> QED BY <2>1, <2>2
<1>9. DoneFollows'
  BY <1>0, <1>u, <1>f DEF DoneFollows
<1>10. LoaderFollows'
  <2>1. loader.phase = "read" => host.next \in Windows  BY <1>0 DEF HostFollows
  <2> QED BY <1>0, <1>u, <1>f, <2>1 DEF LoaderFollows, Stale, Fresh
<1>11. OwnSession'
  BY <1>0, <1>u DEF OwnSession
<1>12. Ages'
  BY <1>0, <1>u, <1>f, AgesKept
<1>13. Reporting'
  BY <1>0, <1>u DEF Reporting
<1>14. Untouched'
  BY <1>0, <1>u, <1>f, UntouchedKept
<1> QED
  BY <1>4, <1>5, <1>6, <1>7, <1>8, <1>9, <1>10, <1>11, <1>12, <1>13, <1>14 DEF IInv

LEMMA WorkerAnnouncesNoneKeeps ==
    ASSUME IInv, WorkerAnnouncesNone PROVE IInv'
<1>0. TypeOK /\ InHand /\ HostFollows /\ InboxFollows /\ OutboxFollows /\ DoneFollows
      /\ LoaderFollows /\ OwnSession /\ Ages /\ Reporting /\ Untouched
  BY DEF IInv
<1>u. UNCHANGED <<command, session, inbox, stems, playback_status, controller, host, loader,
                  heard, restarts>>
  BY DEF WorkerAnnouncesNone, outbox, WorkerOnly
<1>f. worker.phase = "announce none" /\ worker.chunk \in Windows /\ worker' \in WorkerStates
      /\ worker'.phase = "quarantine" /\ worker'.chunk = worker.chunk
      /\ worker'.sound = worker.sound
      /\ \A n \in Windows : manifest'[n] = IF n = worker.chunk THEN "empty" ELSE manifest[n]
  <2>1. worker.phase = "announce none" /\ worker \in WorkerStates
    BY <1>0 DEF TypeOK, WorkerAnnouncesNone
  <2>2. worker.chunk \in Windows  BY <1>0, <2>1, ChunkIsWindow
  <2> QED BY <1>0, <2>1, <2>2 DEF TypeOK, WorkerStates, WorkerAnnouncesNone
<1>1. manifest' \in [Windows -> {"absent", "empty", "stems"}]
  BY <1>0, <1>f DEF TypeOK, WorkerAnnouncesNone
<1>2. worker' \in WorkerStates
  BY <1>f
<1>3. worker'.chunk = 0 <=> worker'.phase \in {"sync", "prune", "discover"}
  BY <1>0, <1>f DEF TypeOK
<1>4. TypeOK'
  BY <1>0, <1>u, <1>1, <1>2, <1>3 DEF TypeOK
<1>5. InHand'
  BY <1>0, <1>f DEF InHand
<1>6. HostFollows'
  BY <1>0, <1>u DEF HostFollows
<1>7. InboxFollows'
  BY <1>0, <1>u, <1>f DEF InboxFollows, Stale, Fresh
<1>8. OutboxFollows'
  BY <1>0, <1>u, <1>f DEF OutboxFollows, DoneFollows, Stale, Fresh
<1>9. DoneFollows'
  BY <1>0, <1>u, <1>f DEF DoneFollows
<1>10. LoaderFollows'
  BY <1>0, <1>u, <1>f, LoaderUntouched
<1>11. OwnSession'
  BY <1>0, <1>u DEF OwnSession
<1>12. Ages'
  BY <1>0, <1>u, <1>f, AgesKept
<1>13. Reporting'
  BY <1>0, <1>u DEF Reporting
<1>14. Untouched'
  BY <1>0, <1>u, <1>f, UntouchedKept
<1> QED
  BY <1>4, <1>5, <1>6, <1>7, <1>8, <1>9, <1>10, <1>11, <1>12, <1>13, <1>14 DEF IInv

LEMMA WorkerQuarantinesKeeps ==
    ASSUME IInv, WorkerQuarantines PROVE IInv'
<1>0. TypeOK /\ InHand /\ HostFollows /\ InboxFollows /\ OutboxFollows /\ DoneFollows
      /\ LoaderFollows /\ OwnSession /\ Ages /\ Reporting /\ Untouched
  BY DEF IInv
<1>u. UNCHANGED <<command, session, stems, manifest, playback_status, controller, host,
                  loader, heard, restarts>>
  BY DEF WorkerQuarantines, outbox, WorkerOnly
<1>f. worker' \in WorkerStates /\ worker'.phase = "sync" /\ worker'.chunk = 0
      /\ worker'.sound = NoSound
      /\ \A n \in Windows : inbox'[n] \in {inbox[n], NoFile}
  BY <1>0, FinishedIsTyped DEF TypeOK, WorkerQuarantines
<1>1. inbox' \in [Windows -> {NoFile} \cup Sessions]
  BY <1>0 DEF TypeOK, WorkerQuarantines, outbox, WorkerOnly, Finished
<1>2. worker' \in WorkerStates
  BY <1>f
<1>3. worker'.chunk = 0 <=> worker'.phase \in {"sync", "prune", "discover"}
  BY <1>f
<1>4. TypeOK'
  BY <1>0, <1>u, <1>1, <1>2, <1>3 DEF TypeOK
<1>5. InHand'
  BY <1>0, <1>f DEF InHand
<1>6. HostFollows'
  BY <1>0, <1>u DEF HostFollows
<1>7. InboxFollows'
  BY <1>0, <1>u, <1>f DEF InboxFollows, Stale, Fresh
<1>8. OutboxFollows'
  BY <1>0, <1>u, <1>f, OutboxUntouched
<1>9. DoneFollows'
  BY <1>0, <1>u, <1>f DEF DoneFollows
<1>10. LoaderFollows'
  BY <1>0, <1>u, <1>f, LoaderUntouched
<1>11. OwnSession'
  BY <1>0, <1>u DEF OwnSession
<1>12. Ages'
  BY <1>0, <1>u, <1>f, AgesKept
<1>13. Reporting'
  BY <1>0, <1>u DEF Reporting
<1>14. Untouched'
  BY <1>0, <1>u, <1>f, UntouchedKept
<1> QED
  BY <1>4, <1>5, <1>6, <1>7, <1>8, <1>9, <1>10, <1>11, <1>12, <1>13, <1>14 DEF IInv

LEMMA WorkerRestartsKeeps ==
    ASSUME IInv, WorkerRestarts PROVE IInv'
<1>0. TypeOK /\ InHand /\ HostFollows /\ InboxFollows /\ OutboxFollows /\ DoneFollows
      /\ LoaderFollows /\ OwnSession /\ Ages /\ Reporting /\ Untouched
  BY DEF IInv
<1>u. UNCHANGED <<command, session, inbox, stems, manifest, playback_status, controller, host,
                  loader, heard>>
  BY DEF WorkerRestarts, outbox
<1>f. worker' \in WorkerStates /\ worker'.phase = "sync" /\ worker'.chunk = 0
      /\ worker'.sound = NoSound
  <2>1. Largest({n \in Windows : manifest[n] # "absent"}) \in 0..MaxWindow
    BY LargestIsThere
  <2> QED BY <2>1, LivePipelineAssumption DEF WorkerRestarts, FreshWorker, WorkerStates,
   Contents
<1>1. restarts' \in 0..MaxRestarts
  BY <1>0, LivePipelineAssumption DEF TypeOK, WorkerRestarts
<1>2. worker' \in WorkerStates
  BY <1>f
<1>3. worker'.chunk = 0 <=> worker'.phase \in {"sync", "prune", "discover"}
  BY <1>f
<1>4. TypeOK'
  BY <1>0, <1>u, <1>1, <1>2, <1>3 DEF TypeOK
<1>5. InHand'
  BY <1>0, <1>f DEF InHand
<1>6. HostFollows'
  BY <1>0, <1>u DEF HostFollows
<1>7. InboxFollows'
  BY <1>0, <1>u, <1>f DEF InboxFollows, Stale, Fresh
<1>8. OutboxFollows'
  BY <1>0, <1>u, <1>f, OutboxUntouched
<1>9. DoneFollows'
  BY <1>0, <1>u, <1>f DEF DoneFollows
<1>10. LoaderFollows'
  BY <1>0, <1>u, <1>f, LoaderUntouched
<1>11. OwnSession'
  BY <1>0, <1>u DEF OwnSession
<1>12. Ages'
  BY <1>0, <1>u, <1>f, AgesKept
<1>13. Reporting'
  BY <1>0, <1>u DEF Reporting
<1>14. Untouched'
  BY <1>0, <1>u, <1>f, UntouchedKept
<1> QED
  BY <1>4, <1>5, <1>6, <1>7, <1>8, <1>9, <1>10, <1>11, <1>12, <1>13, <1>14 DEF IInv

-----------------------------------------------------------------------------
(* The theorems. *)

LEMMA Inductive == IInv /\ [Next]_vars => IInv'
<1> SUFFICES ASSUME IInv, [Next]_vars PROVE IInv'
  OBVIOUS
<1>1. CASE \E a \in Actions : WriteCommand(a)
  BY <1>1, WriteCommandKeeps
<1>2. CASE Controller
  BY <1>2, ControllerObeysKeeps, ControllerResetsKeeps, ControllerClearsInboxKeeps,
     ControllerClearsOutboxKeeps, ControllerMarksReadyKeeps, ControllerStartsHostKeeps
     DEF Controller
<1>3. CASE CaptureWindow \/ HostReports
  BY <1>3, CaptureWindowKeeps, HostReportsKeeps
<1>4. CASE Loader
  BY <1>4, LoaderFindsKeeps, LoaderSkipsKeeps, LoaderReadsKeeps, LoaderQueuesKeeps DEF Loader
<1>5. CASE WorkerCycle
  <2>1. CASE WorkerPrunes
    <3>1. playback_status - Keep \in Int
      BY LivePipelineAssumption DEF IInv, TypeOK
    <3> QED BY <2>1, <3>1, PrunesKeeps DEF WorkerPrunes
  <2> QED BY <1>5, <2>1, WorkerSyncsKeeps, WorkerDiscoversKeeps DEF WorkerCycle
<1>6. CASE WorkerChunk
  BY <1>6, WorkerSeparatesKeeps, WorkerFallsBackKeeps, WorkerPublishesStemKeeps,
     WorkerChecksCaptureKeeps, WorkerAnnouncesKeeps, WorkerUnlinksKeeps,
     WorkerAnnouncesNoneKeeps, WorkerQuarantinesKeeps DEF WorkerChunk
<1>7. CASE WorkerRestarts
  BY <1>7, WorkerRestartsKeeps
<1>8. CASE UNCHANGED vars
  <2>1. UNCHANGED <<command, session, inbox, stems, manifest, playback_status, controller,
                    host, loader, worker, heard, restarts>>
    BY <1>8 DEF vars
  <2>2. TypeOK'  BY <2>1 DEF IInv, TypeOK
  <2>3. InHand' /\ HostFollows' /\ DoneFollows' /\ OwnSession'
    BY <2>1 DEF IInv, InHand, HostFollows, DoneFollows, OwnSession
  <2>4. InboxFollows' /\ OutboxFollows' /\ LoaderFollows'
    BY <2>1 DEF IInv, InboxFollows, OutboxFollows, LoaderFollows, Stale, Fresh
  <2>5. Ages' /\ Reporting' /\ Untouched'
    BY <2>1 DEF IInv, Ages, Reporting, Untouched, Waiting, Older, Fresh
  <2> QED BY <2>2, <2>3, <2>4, <2>5 DEF IInv
<1> QED BY <1>1, <1>2, <1>3, <1>4, <1>5, <1>6, <1>7, <1>8 DEF Next

LEMMA Initial == Init => IInv
<1> SUFFICES ASSUME Init PROVE IInv
  OBVIOUS
<1>1. worker = FreshWorker(0) /\ host = HostDown /\ loader = LoaderIdle
      /\ controller.phase = "poll" /\ session.sequence = 0
      /\ \A n \in Windows : /\ inbox[n] = NoFile /\ manifest[n] = "absent"
                            /\ \A s \in Stems : stems[n][s] = NoSound
  BY DEF Init
<1>2. TypeOK
  <2>0. 0 \in 0..MaxCommands /\ 0 \in 0..MaxWindow /\ 0 \in 0..MaxRestarts
    BY LivePipelineAssumption
  <2>1. command \in CommandFiles /\ session \in SessionFiles
    BY <2>0 DEF Init, CommandFiles, SessionFiles
  <2>2. inbox \in [Windows -> {NoFile} \cup Sessions]
        /\ manifest \in [Windows -> {"absent", "empty", "stems"}]
    BY DEF Init
  <2>3. stems \in [Windows -> [Stems -> Contents]] /\ heard \in [Stems -> Contents]
    BY DEF Init, Contents
  <2>4. controller \in ControllerStates /\ playback_status \in 0..MaxWindow
        /\ restarts \in 0..MaxRestarts
    BY <2>0 DEF Init, ControllerStates
  <2>5. worker \in WorkerStates /\ worker.chunk = 0 /\ worker.phase = "sync"
    BY <1>1, <2>0 DEF FreshWorker, WorkerStates, Contents
  <2> QED BY <1>1, <2>1, <2>2, <2>3, <2>4, <2>5, Down DEF TypeOK
<1>3. worker.phase = "sync" /\ worker.sound = NoSound
  BY <1>1 DEF FreshWorker
<1>4. InHand /\ HostFollows /\ DoneFollows
  BY <1>1, <1>3, Down DEF InHand, HostFollows, DoneFollows
<1>5. InboxFollows /\ OutboxFollows /\ LoaderFollows
  <2>1. InboxFollows
    <3>1. \A n \in Windows : inbox[n] = NoFile  BY <1>1
    <3> QED BY <3>1 DEF InboxFollows
  <2>2. OutboxFollows  BY <1>1, <1>3 DEF OutboxFollows, Stale, Fresh
  <2>3. LoaderFollows  BY <1>1, Down DEF LoaderFollows, Fresh
  <2> QED BY <2>1, <2>2, <2>3
<1>6. OwnSession
  <2>1. host.queued = 0  BY <1>1, Down
  <2> QED BY <2>1 DEF OwnSession
<1>7. Ages
  <2>1. controller.last = 0 /\ worker.sound.session = 0  BY <1>3 DEF Init, NoSound
  <2> QED BY <1>1, <2>1 DEF Ages, NoFile
<1>8. Reporting
  BY <1>1, Down DEF Reporting
<1>9. Untouched
  BY <1>1, Down DEF Untouched, Waiting
<1> QED BY <1>2, <1>4, <1>5, <1>6, <1>7, <1>8, <1>9 DEF IInv

\* The inductive invariant: what each process finds in the files is of the session they
\* were last emptied for, whatever the worker was doing when they were.
THEOREM Invariance == Spec => []IInv
BY Initial, Inductive, PTL DEF Spec

\* The files and the state of the four processes stay within their types.
THEOREM TypeCorrect == Spec => []TypeOK
<1>1. IInv => TypeOK  BY DEF IInv
<1> QED BY <1>1, Invariance, PTL

\* A session plays its own sound: no window of an earlier session is ever queued, for any
\* number of commands, windows and restarts of the worker, and whatever it was doing when
\* the controller emptied the directories.
THEOREM OwnSound == Spec => []OwnSession
<1>1. IInv => OwnSession  BY DEF IInv
<1> QED BY <1>1, Invariance, PTL

\* While a host runs, pruning deletes nothing of its session that its loader has not
\* passed: what is reported as queued is of this host or, before its first report, of an
\* earlier one, and then there is nothing to delete.
THEOREM PruningIsSafe == Spec => PruneOnlyQueued
<1> DEFINE Kept == host.up /\ worker.phase = "prune" /\ worker'.phase = "discover" =>
                     \A n \in host.next..MaxWindow :
                        /\ inbox[n] = host.session => inbox'[n] = inbox[n]
                        /\ \A s \in Stems : stems[n][s].session = host.session
                                               => stems'[n][s] = stems[n][s]
<1>1. ASSUME IInv, [Next]_vars PROVE Kept
  <2>0. TypeOK /\ HostFollows /\ Reporting /\ Untouched  BY <1>1 DEF IInv
  <2> SUFFICES ASSUME host.up, worker.phase = "prune", worker'.phase = "discover",
                      NEW n \in host.next..MaxWindow
               PROVE  /\ inbox[n] = host.session => inbox'[n] = inbox[n]
                      /\ \A s \in Stems : stems[n][s].session = host.session
                                             => stems'[n][s] = stems[n][s]
    OBVIOUS
  <2>1. n \in Windows /\ host.next \in Nat /\ playback_status \in Nat
    BY <2>0, NumbersAreNatural, LivePipelineAssumption DEF TypeOK, HostStates, Windows
  <2>2. CASE ~WorkerPrunes
    <3>1. worker' # worker  OBVIOUS
    <3>2. CASE WorkerCycle \/ WorkerChunk
      BY <2>2, <3>2 DEF WorkerCycle, WorkerSyncs, WorkerDiscovers, WorkerChunk, WorkerSeparates,
         WorkerFallsBack, WorkerPublishesStem, WorkerChecksCapture, WorkerAnnounces,
         WorkerUnlinks, WorkerAnnouncesNone, WorkerQuarantines
    <3>3. CASE WorkerRestarts
      BY <3>3 DEF WorkerRestarts, FreshWorker
    <3>4. CASE Controller
      BY <3>1, <3>4 DEF Controller, ControllerObeys, ControllerResets, ControllerClearsInbox,
         ControllerClearsOutbox, ControllerMarksReady, ControllerStartsHost
    <3>5. CASE CaptureWindow \/ HostReports \/ Loader \/ \E a \in Actions : WriteCommand(a)
      BY <3>1, <3>5 DEF CaptureWindow, HostReports, Loader, LoaderFinds, LoaderSkips,
         LoaderReads, LoaderQueues, WriteCommand
    <3>6. CASE UNCHANGED vars
      BY <3>1, <3>6 DEF vars
    <3> QED BY <1>1, <3>2, <3>3, <3>4, <3>5, <3>6 DEF Next
  <2>3. CASE WorkerPrunes /\ host.reported
    <3>1. ~(n <= playback_status - Keep)
      BY <2>0, <2>1, <2>3, LivePipelineAssumption DEF Reporting
    <3> QED BY <2>1, <2>3, <3>1 DEF WorkerPrunes, Prunes
  <2>4. CASE WorkerPrunes /\ ~host.reported
    <3>1. controller.phase = "poll" /\ host.session = session.sequence
          /\ host.session \in Sessions
      BY <2>0 DEF HostFollows
    <3>2. inbox[n] = NoFile /\ \A s \in Stems : Older(stems[n][s])
      BY <2>0, <2>1, <2>4, <3>1 DEF Untouched, Waiting
    <3>3. host.session # 0  BY <3>1, LivePipelineAssumption DEF Sessions
    <3> QED BY <3>1, <3>2, <3>3 DEF Older, Fresh, NoFile, NoSound
  <2> QED BY <2>2, <2>3, <2>4
<1>2. IInv /\ [Next]_vars => [Kept]_vars
  BY <1>1
<1> QED BY <1>2, Invariance, PTL DEF Spec, PruneOnlyQueued

-----------------------------------------------------------------------------
(* Whole windows: every number is published once, by a worker that knows the  *)
(* session, and is not written any more when the loader reads it.              *)

\* The command that opened a session is a start, and the controller has marked the session
\* it is done preparing.
Commands ==
    /\ controller.last <= command.sequence
    /\ command.sequence = session.sequence /\ session.sequence > 0 => command.action = "start"
    /\ controller.phase \in {"poll", "start host"} /\ session.sequence > 0
          => session.state = "ready"

\* The worker goes through the numbers upwards.
Upwards ==
    /\ worker.chunk # 0 => worker.chunk > worker.last
    /\ worker.phase \in {"sync", "prune", "discover", "separate"} => worker.done = {}

Emptied == controller.phase \notin {"clear inbox", "clear outbox"}

\* The worker has not taken up the session yet, and it will.
Unadopted == worker.applied < session.sequence /\ command.sequence = session.sequence

\* Until it does, it has done nothing for it: it finds windows of the session only when it
\* has looked for commands first.
Adoption ==
    restarts = 0 /\ Unadopted =>
        /\ Older(worker.sound)
        /\ loader.phase # "read"
        /\ controller.phase # "clear inbox" /\ worker.phase # "sync" =>
              \A n \in Windows : inbox[n] = NoFile
        /\ Emptied => \A n \in Windows, s \in Stems : Older(stems[n][s])

\* Stems of the session are under numbers the worker has been through or is at.
BeenThrough ==
    restarts = 0 /\ Emptied =>
        \A n \in Windows, s \in Stems :
            stems[n][s] # NoSound /\ Fresh(stems[n][s]) => n <= worker.last \/ n = worker.chunk

\* Stems of another session are where the worker is about to take them away.
LeftOver ==
    restarts = 0 /\ Emptied =>
        \A n \in Windows, s \in Stems :
            Fresh(stems[n][s]) \/ (n = worker.chunk /\ worker.phase \in {"publish", "unlink"})

\* A number is empty when its publication begins, and comes from one publication.
OnePublication ==
    restarts = 0 /\ Emptied =>
        /\ worker.phase \in {"separate", "publish"} =>
              \A s \in Stems \ worker.done : stems[worker.chunk][s] = NoSound
        /\ \A n \in Windows, s, t \in Stems :
              stems[n][s] = NoSound \/ stems[n][t] = NoSound \/ stems[n][s] = stems[n][t]

\* What the loader reads is not written any more, and from one publication.
WholeRead ==
    /\ loader.phase = "probe" => \A s \in Stems : loader.read[s] = NoSound
    /\ restarts = 0 /\ loader.phase = "read" =>
        /\ host.next <= worker.last \/ host.next = worker.chunk
        /\ host.next = worker.chunk =>
              worker.phase # "separate" /\ (worker.phase = "publish" => worker.done = Stems)
        /\ \A s, t \in Stems :
              /\ loader.read[s] = NoSound \/ loader.read[t] = NoSound
                    \/ loader.read[s] = loader.read[t]
              /\ loader.read[s] = NoSound \/ stems[host.next][t] = NoSound
                    \/ loader.read[s] = stems[host.next][t]

\* What makes the windows whole, on top of IInv: it is inductive given IInv.
WholeInv == /\ Commands /\ Upwards /\ Adoption /\ BeenThrough /\ LeftOver
            /\ OnePublication /\ WholeRead /\ WholeWindow

\* The fields of the worker, and the fields that are compared as numbers.
LEMMA WorkerFields ==
    ASSUME TypeOK
    PROVE  /\ worker = [phase |-> worker.phase, applied |-> worker.applied,
                        active |-> worker.active, last |-> worker.last, chunk |-> worker.chunk,
                        sound |-> worker.sound, done |-> worker.done]
           /\ worker.applied \in Nat /\ worker.last \in Nat /\ worker.chunk \in Nat
           /\ command.sequence \in Nat /\ session.sequence \in Nat /\ controller.last \in Nat
           /\ worker.chunk = 0 <=> worker.phase \in {"sync", "prune", "discover"}
<1>1. worker \in WorkerStates /\ command \in CommandFiles /\ session \in SessionFiles
      /\ controller \in ControllerStates
  BY DEF TypeOK
<1>2. worker.applied \in 0..MaxCommands /\ worker.last \in 0..MaxWindow
      /\ worker.chunk \in 0..MaxWindow /\ command.sequence \in 0..MaxCommands
      /\ session.sequence \in 0..MaxCommands /\ controller.last \in 0..MaxCommands
  BY <1>1 DEF WorkerStates, CommandFiles, SessionFiles, ControllerStates
<1>3. worker = [phase |-> worker.phase, applied |-> worker.applied,
                active |-> worker.active, last |-> worker.last, chunk |-> worker.chunk,
                sound |-> worker.sound, done |-> worker.done]
  BY <1>1 DEF WorkerStates
<1> QED BY <1>2, <1>3, LivePipelineAssumption DEF TypeOK

\* A worker that has not taken up the session does nothing for it while it takes files
\* away, or works on what it has in hand.
LEMMA AdoptionKept ==
    ASSUME Adoption, UNCHANGED <<restarts, command, session, controller, loader>>,
           worker'.applied = worker.applied,
           worker'.sound \in {worker.sound, NoSound},
           worker'.phase = "sync" \/ worker.phase # "sync",
           \A n \in Windows : inbox'[n] \in {inbox[n], NoFile},
           \A n \in Windows, s \in Stems : stems'[n][s] \in {stems[n][s], worker.sound, NoSound}
    PROVE  Adoption'
<1> SUFFICES ASSUME restarts = 0, Unadopted PROVE Adoption'
  BY DEF Adoption, Unadopted
<1>1. Older(worker'.sound) /\ loader.phase # "read"
  BY DEF Adoption, Older
<1>2. controller.phase # "clear inbox" /\ worker'.phase # "sync"
         => \A n \in Windows : inbox'[n] = NoFile
  BY DEF Adoption
<1>3. Emptied => \A n \in Windows, s \in Stems : Older(stems'[n][s])
  BY DEF Adoption, Older
<1> QED BY <1>1, <1>2, <1>3 DEF Adoption, Older, Fresh, Emptied

LEMMA WriteCommandKeepsWhole ==
    ASSUME IInv, WholeInv, NEW a \in Actions, WriteCommand(a) PROVE WholeInv'
<1>0. Commands /\ Upwards /\ Adoption /\ BeenThrough /\ LeftOver /\ OnePublication
      /\ WholeRead /\ WholeWindow
  BY DEF WholeInv
<1>u. UNCHANGED <<session, inbox, stems, manifest, playback_status, controller, host, loader,
                  heard, worker, restarts>>
  BY DEF WriteCommand, outbox
<1>n. session.sequence <= controller.last /\ session.sequence \in Nat /\ controller.last \in Nat
      /\ command.sequence \in Nat
  BY WorkerFields DEF IInv, Ages
<1>f. command'.sequence = command.sequence + 1
  BY DEF WriteCommand
<1>m. controller.last <= command'.sequence /\ session.sequence # command'.sequence
  <2>1. controller.last <= command.sequence  BY <1>0 DEF Commands
  <2> QED BY <1>f, <1>n, <2>1
<1>1. Commands'
  BY <1>0, <1>u, <1>m DEF Commands
<1>2. Upwards'
  BY <1>0, <1>u DEF Upwards
<1>3. Adoption'
  BY <1>0, <1>u, <1>m DEF Adoption, Unadopted
<1>4. BeenThrough'
  BY <1>0, <1>u DEF BeenThrough, Fresh, Emptied
<1>5. LeftOver'
  BY <1>0, <1>u DEF LeftOver, Fresh, Emptied
<1>6. OnePublication'
  BY <1>0, <1>u DEF OnePublication, Emptied
<1>7. WholeRead'
  BY <1>0, <1>u DEF WholeRead
<1>8. WholeWindow'
  BY <1>0, <1>u DEF WholeWindow
<1> QED
  BY <1>1, <1>2, <1>3, <1>4, <1>5, <1>6, <1>7, <1>8 DEF WholeInv

LEMMA ControllerObeysKeepsWhole ==
    ASSUME IInv, WholeInv, ControllerObeys PROVE WholeInv'
<1>0. Commands /\ Upwards /\ Adoption /\ BeenThrough /\ LeftOver /\ OnePublication
      /\ WholeRead /\ WholeWindow
  BY DEF WholeInv
<1>u. UNCHANGED <<command, session, inbox, stems, manifest, playback_status, heard, worker,
                  restarts>>
  BY DEF ControllerObeys, outbox
<1>n. session.sequence <= controller.last /\ session.sequence \in Nat /\ controller.last \in Nat
      /\ command.sequence \in Nat
  BY WorkerFields DEF IInv, Ages
<1>t. TypeOK /\ HostFollows /\ Ages  BY DEF IInv
<1>f. /\ controller.phase = "poll" /\ controller'.phase = "poll"
      /\ controller'.last = command.sequence /\ command.sequence > controller.last
      /\ \/ UNCHANGED <<host, loader>>
         \/ host' = HostDown /\ loader' = LoaderIdle
  BY <1>t DEF ControllerObeys, NewCommand, TypeOK, ControllerStates
<1>1. Commands'
  BY <1>0, <1>u, <1>f, <1>n DEF Commands
<1>2. Upwards'
  BY <1>0, <1>u DEF Upwards
<1>3. Adoption'
  BY <1>0, <1>u, <1>f, <1>n DEF Adoption, Unadopted
<1>4. BeenThrough'
  BY <1>0, <1>u, <1>f DEF BeenThrough, Fresh, Emptied
<1>5. LeftOver'
  BY <1>0, <1>u, <1>f DEF LeftOver, Fresh, Emptied
<1>6. OnePublication'
  BY <1>0, <1>u, <1>f DEF OnePublication, Emptied
<1>7. WholeRead'
  BY <1>0, <1>u, <1>f, <1>t, Down DEF WholeRead
<1>8. WholeWindow'
  BY <1>0, <1>u DEF WholeWindow
<1> QED
  BY <1>1, <1>2, <1>3, <1>4, <1>5, <1>6, <1>7, <1>8 DEF WholeInv

LEMMA ControllerResetsKeepsWhole ==
    ASSUME IInv, WholeInv, ControllerResets PROVE WholeInv'
<1>0. Commands /\ Upwards /\ Adoption /\ BeenThrough /\ LeftOver /\ OnePublication
      /\ WholeRead /\ WholeWindow
  BY DEF WholeInv
<1>u. UNCHANGED <<command, inbox, stems, manifest, playback_status, heard, worker, restarts>>
  BY DEF ControllerResets, outbox
<1>n. session.sequence <= controller.last /\ session.sequence \in Nat /\ controller.last \in Nat
      /\ command.sequence \in Nat
  BY WorkerFields DEF IInv, Ages
<1>t. TypeOK /\ HostFollows /\ Ages  BY DEF IInv
<1>f. /\ controller'.phase = "clear inbox" /\ controller'.last = command.sequence
      /\ host' = HostDown /\ loader' = LoaderIdle
      /\ command.sequence > controller.last /\ command.action = "start"
      /\ session'.sequence = command.sequence
  BY DEF ControllerResets, NewCommand
<1>m. controller'.last <= command.sequence
  <2>1. command.sequence <= command.sequence  BY <1>n
  <2> QED BY <1>f, <2>1
<1>1. Commands'
  BY <1>u, <1>f, <1>m DEF Commands
<1>2. Upwards'
  BY <1>0, <1>u DEF Upwards
<1>3. Adoption'
  <2>1. worker.sound.session <= session.sequence
    BY <1>t DEF Ages
  <2>2. worker.sound.session \in Nat
    BY <1>t, NumbersAreNatural
  <2>3. controller.last < command.sequence
    BY DEF ControllerResets, NewCommand
  <2>4. worker.sound.session # command.sequence
    BY <1>n, <2>1, <2>2, <2>3
  <2> QED BY <1>u, <1>f, <2>4, Down DEF Adoption, Older, Fresh, Emptied
<1>4. BeenThrough'
  BY <1>0, <1>u, <1>f DEF BeenThrough, Fresh, Emptied
<1>5. LeftOver'
  BY <1>0, <1>u, <1>f DEF LeftOver, Fresh, Emptied
<1>6. OnePublication'
  BY <1>0, <1>u, <1>f DEF OnePublication, Emptied
<1>7. WholeRead'
  BY <1>0, <1>u, <1>f, <1>t, Down DEF WholeRead
<1>8. WholeWindow'
  BY <1>0, <1>u DEF WholeWindow
<1> QED
  BY <1>1, <1>2, <1>3, <1>4, <1>5, <1>6, <1>7, <1>8 DEF WholeInv

LEMMA ControllerClearsInboxKeepsWhole ==
    ASSUME IInv, WholeInv, ControllerClearsInbox PROVE WholeInv'
<1>0. Commands /\ Upwards /\ Adoption /\ BeenThrough /\ LeftOver /\ OnePublication
      /\ WholeRead /\ WholeWindow
  BY DEF WholeInv
<1>u. UNCHANGED <<command, session, stems, manifest, playback_status, host, loader, heard,
                  worker, restarts>>
  BY DEF ControllerClearsInbox, outbox
<1>t. TypeOK /\ HostFollows /\ Ages  BY DEF IInv
<1>f. /\ controller.phase = "clear inbox" /\ controller'.phase = "clear outbox"
      /\ controller'.last = controller.last
      /\ inbox' = [n \in Windows |-> NoFile]
  BY <1>t DEF ControllerClearsInbox, TypeOK, ControllerStates
<1>r. loader.phase # "read"
  BY <1>f, <1>t DEF HostFollows
<1>1. Commands'
  BY <1>0, <1>u, <1>f DEF Commands
<1>2. Upwards'
  BY <1>0, <1>u DEF Upwards
<1>3. Adoption'
  BY <1>0, <1>u, <1>f DEF Adoption, Unadopted, Older, Fresh, Emptied
<1>4. BeenThrough'
  BY <1>0, <1>u, <1>f DEF BeenThrough, Fresh, Emptied
<1>5. LeftOver'
  BY <1>0, <1>u, <1>f DEF LeftOver, Fresh, Emptied
<1>6. OnePublication'
  BY <1>0, <1>u, <1>f DEF OnePublication, Emptied
<1>7. WholeRead'
  BY <1>0, <1>u DEF WholeRead
<1>8. WholeWindow'
  BY <1>0, <1>u DEF WholeWindow
<1> QED
  BY <1>1, <1>2, <1>3, <1>4, <1>5, <1>6, <1>7, <1>8 DEF WholeInv

LEMMA ControllerClearsOutboxKeepsWhole ==
    ASSUME IInv, WholeInv, ControllerClearsOutbox PROVE WholeInv'
<1>0. Commands /\ Upwards /\ Adoption /\ BeenThrough /\ LeftOver /\ OnePublication
      /\ WholeRead /\ WholeWindow
  BY DEF WholeInv
<1>u. UNCHANGED <<command, session, inbox, playback_status, host, loader, heard, worker,
                  restarts>>
  BY DEF ControllerClearsOutbox, outbox
<1>t. TypeOK /\ HostFollows /\ Ages  BY DEF IInv
<1>f. /\ controller.phase = "clear outbox" /\ controller'.phase = "ready"
      /\ controller'.last = controller.last
      /\ stems' = [n \in Windows |-> [s \in Stems |-> NoSound]]
  BY <1>t DEF ControllerClearsOutbox, TypeOK, ControllerStates
<1>r. loader.phase # "read"
  BY <1>f, <1>t DEF HostFollows
<1>1. Commands'
  BY <1>0, <1>u, <1>f DEF Commands
<1>2. Upwards'
  BY <1>0, <1>u DEF Upwards
<1>3. Adoption'
  BY <1>0, <1>u, <1>f DEF Adoption, Unadopted, Older, Fresh, Emptied
<1>4. BeenThrough'
  BY <1>0, <1>u, <1>f DEF BeenThrough, Fresh, Emptied
<1>5. LeftOver'
  BY <1>0, <1>u, <1>f DEF LeftOver, Fresh, Emptied
<1>6. OnePublication'
  <2>1. worker.phase \in {"separate", "publish"} => worker.chunk \in Windows
    BY <1>t, ChunkIsWindow
  <2>2. \A n \in Windows, s \in Stems : stems'[n][s] = NoSound
    BY <1>f
  <2> QED BY <1>u, <2>1, <2>2 DEF OnePublication
<1>7. WholeRead'
  BY <1>0, <1>u, <1>f, <1>r DEF WholeRead
<1>8. WholeWindow'
  BY <1>0, <1>u DEF WholeWindow
<1> QED
  BY <1>1, <1>2, <1>3, <1>4, <1>5, <1>6, <1>7, <1>8 DEF WholeInv

LEMMA ControllerMarksReadyKeepsWhole ==
    ASSUME IInv, WholeInv, ControllerMarksReady PROVE WholeInv'
<1>0. Commands /\ Upwards /\ Adoption /\ BeenThrough /\ LeftOver /\ OnePublication
      /\ WholeRead /\ WholeWindow
  BY DEF WholeInv
<1>u. UNCHANGED <<command, inbox, stems, manifest, playback_status, host, loader, heard,
                  worker, restarts>>
  BY DEF ControllerMarksReady, outbox
<1>t. TypeOK /\ HostFollows /\ Ages  BY DEF IInv
<1>f. /\ controller.phase = "ready" /\ controller'.phase = "start host"
      /\ controller'.last = controller.last
      /\ session'.sequence = session.sequence /\ session'.state = "ready"
  BY <1>t DEF ControllerMarksReady, TypeOK, ControllerStates, SessionFiles
<1>r. loader.phase # "read"
  BY <1>f, <1>t DEF HostFollows
<1>1. Commands'
  BY <1>0, <1>u, <1>f DEF Commands
<1>2. Upwards'
  BY <1>0, <1>u DEF Upwards
<1>3. Adoption'
  BY <1>0, <1>u, <1>f DEF Adoption, Unadopted, Older, Fresh, Emptied
<1>4. BeenThrough'
  BY <1>0, <1>u, <1>f DEF BeenThrough, Fresh, Emptied
<1>5. LeftOver'
  BY <1>0, <1>u, <1>f DEF LeftOver, Fresh, Emptied
<1>6. OnePublication'
  BY <1>0, <1>u, <1>f DEF OnePublication, Emptied
<1>7. WholeRead'
  BY <1>0, <1>u DEF WholeRead
<1>8. WholeWindow'
  BY <1>0, <1>u DEF WholeWindow
<1> QED
  BY <1>1, <1>2, <1>3, <1>4, <1>5, <1>6, <1>7, <1>8 DEF WholeInv

LEMMA ControllerStartsHostKeepsWhole ==
    ASSUME IInv, WholeInv, ControllerStartsHost PROVE WholeInv'
<1>0. Commands /\ Upwards /\ Adoption /\ BeenThrough /\ LeftOver /\ OnePublication
      /\ WholeRead /\ WholeWindow
  BY DEF WholeInv
<1>u. UNCHANGED <<command, session, inbox, stems, manifest, playback_status, loader, heard,
                  worker, restarts>>
  BY DEF ControllerStartsHost, outbox
<1>t. TypeOK /\ HostFollows /\ Ages  BY DEF IInv
<1>f. /\ controller.phase = "start host" /\ controller'.phase = "poll"
      /\ controller'.last = controller.last
  BY <1>t DEF ControllerStartsHost, TypeOK, ControllerStates
<1>r. loader.phase # "read"
  BY <1>f, <1>t DEF HostFollows
<1>1. Commands'
  BY <1>0, <1>u, <1>f DEF Commands
<1>2. Upwards'
  BY <1>0, <1>u DEF Upwards
<1>3. Adoption'
  BY <1>0, <1>u, <1>f DEF Adoption, Unadopted, Older, Fresh, Emptied
<1>4. BeenThrough'
  BY <1>0, <1>u, <1>f DEF BeenThrough, Fresh, Emptied
<1>5. LeftOver'
  BY <1>0, <1>u, <1>f DEF LeftOver, Fresh, Emptied
<1>6. OnePublication'
  BY <1>0, <1>u, <1>f DEF OnePublication, Emptied
<1>7. WholeRead'
  BY <1>0, <1>u, <1>f, <1>r DEF WholeRead
<1>8. WholeWindow'
  BY <1>0, <1>u DEF WholeWindow
<1> QED
  BY <1>1, <1>2, <1>3, <1>4, <1>5, <1>6, <1>7, <1>8 DEF WholeInv

LEMMA CaptureWindowKeepsWhole ==
    ASSUME IInv, WholeInv, CaptureWindow PROVE WholeInv'
<1>0. Commands /\ Upwards /\ Adoption /\ BeenThrough /\ LeftOver /\ OnePublication
      /\ WholeRead /\ WholeWindow
  BY DEF WholeInv
<1>u. UNCHANGED <<command, session, stems, manifest, playback_status, controller, loader,
                  heard, worker, restarts>>
  BY DEF CaptureWindow, outbox
<1>t. TypeOK /\ HostFollows /\ Ages  BY DEF IInv
<1>f. /\ host.up /\ host'.next = host.next /\ host.session = session.sequence
      /\ \A n \in Windows : n # host.capture => inbox'[n] = inbox[n]
  BY <1>t DEF CaptureWindow, TypeOK, HostStates, HostFollows
<1>1. Commands'
  BY <1>0, <1>u DEF Commands
<1>2. Upwards'
  BY <1>0, <1>u DEF Upwards
<1>3. Adoption'
  <2>1. ~(restarts = 0 /\ Unadopted /\ worker.phase # "sync")
    <3> SUFFICES ASSUME restarts = 0, Unadopted, worker.phase # "sync" PROVE FALSE
      OBVIOUS
    <3>1. controller.phase = "poll" /\ \A n \in Windows : inbox[n] = NoFile
      BY <1>0, <1>f, <1>t DEF Adoption, HostFollows
    <3>2. worker.phase \notin {"prune", "discover"}
      BY <1>f, WorkerFields, <1>t DEF Unadopted, CaptureWindow, TwelveSecondsPassed
    <3>3. worker.chunk \in Windows /\ worker.chunk # 0
      BY <3>2, <1>t, ChunkIsWindow DEF TypeOK
    <3> QED BY <3>1, <3>3 DEF CaptureWindow, TwelveSecondsPassed
  <2> QED BY <1>0, <1>u, <2>1 DEF Adoption, Unadopted, Older, Fresh, Emptied
<1>4. BeenThrough'
  BY <1>0, <1>u DEF BeenThrough, Fresh, Emptied
<1>5. LeftOver'
  BY <1>0, <1>u DEF LeftOver, Fresh, Emptied
<1>6. OnePublication'
  BY <1>0, <1>u DEF OnePublication, Emptied
<1>7. WholeRead'
  BY <1>0, <1>u, <1>f DEF WholeRead
<1>8. WholeWindow'
  BY <1>0, <1>u DEF WholeWindow
<1> QED
  BY <1>1, <1>2, <1>3, <1>4, <1>5, <1>6, <1>7, <1>8 DEF WholeInv

LEMMA HostReportsKeepsWhole ==
    ASSUME IInv, WholeInv, HostReports PROVE WholeInv'
<1>0. Commands /\ Upwards /\ Adoption /\ BeenThrough /\ LeftOver /\ OnePublication
      /\ WholeRead /\ WholeWindow
  BY DEF WholeInv
<1>u. UNCHANGED <<command, session, inbox, stems, manifest, controller, loader, heard, worker,
                  restarts>>
  BY DEF HostReports, outbox
<1>t. TypeOK /\ HostFollows /\ Ages  BY DEF IInv
<1>f. host'.next = host.next
  BY <1>t DEF HostReports, TypeOK, HostStates
<1>1. Commands'
  BY <1>0, <1>u DEF Commands
<1>2. Upwards'
  BY <1>0, <1>u DEF Upwards
<1>3. Adoption'
  BY <1>0, <1>u DEF Adoption, Unadopted, Older, Fresh, Emptied
<1>4. BeenThrough'
  BY <1>0, <1>u DEF BeenThrough, Fresh, Emptied
<1>5. LeftOver'
  BY <1>0, <1>u DEF LeftOver, Fresh, Emptied
<1>6. OnePublication'
  BY <1>0, <1>u DEF OnePublication, Emptied
<1>7. WholeRead'
  BY <1>0, <1>u, <1>f DEF WholeRead
<1>8. WholeWindow'
  BY <1>0, <1>u DEF WholeWindow
<1> QED
  BY <1>1, <1>2, <1>3, <1>4, <1>5, <1>6, <1>7, <1>8 DEF WholeInv

LEMMA LoaderFindsKeepsWhole ==
    ASSUME IInv, WholeInv, LoaderFinds PROVE WholeInv'
<1>0. Commands /\ Upwards /\ Adoption /\ BeenThrough /\ LeftOver /\ OnePublication
      /\ WholeRead /\ WholeWindow
  BY DEF WholeInv
<1>u. UNCHANGED <<command, session, inbox, stems, manifest, playback_status, controller, host,
                  heard, worker, restarts>>
  BY DEF LoaderFinds, outbox
<1>t. TypeOK /\ HostFollows /\ Ages  BY DEF IInv
<1>f. /\ host.up /\ host.next \in Windows /\ loader.phase = "probe"
      /\ loader'.phase = "read" /\ loader'.read = loader.read
      /\ \A s \in Stems : stems[host.next][s] # NoSound /\ Fresh(stems[host.next][s])
      /\ Emptied
  <2>1. loader'.phase = "read" /\ loader'.read = loader.read
    BY <1>t DEF LoaderFinds, TypeOK, LoaderStates
  <2>2. Emptied /\ host.next \in Windows
    BY <1>t DEF LoaderFinds, Announced, HostFollows, Emptied
  <2>3. \A s \in Stems : Fresh(stems[host.next][s])
    BY <2>2 DEF LoaderFinds, Announced, IInv, OutboxFollows, Emptied
  <2> QED BY <2>1, <2>2, <2>3 DEF LoaderFinds, Announced, AllStemsThere
<1>1. Commands'
  BY <1>0, <1>u DEF Commands
<1>2. Upwards'
  BY <1>0, <1>u DEF Upwards
<1>3. Adoption'
  <2>1. ~(restarts = 0 /\ Unadopted)
    BY <1>0, <1>f, LivePipelineAssumption DEF Adoption, Older
  <2> QED BY <1>u, <2>1 DEF Adoption, Unadopted
<1>4. BeenThrough'
  BY <1>0, <1>u DEF BeenThrough, Fresh, Emptied
<1>5. LeftOver'
  BY <1>0, <1>u DEF LeftOver, Fresh, Emptied
<1>6. OnePublication'
  BY <1>0, <1>u DEF OnePublication, Emptied
<1>7. WholeRead'
  <2>1. \A s \in Stems : loader.read[s] = NoSound
    BY <1>0, <1>f DEF WholeRead
  <2>2. restarts = 0 => host.next <= worker.last \/ host.next = worker.chunk
    BY <1>0, <1>f, LivePipelineAssumption DEF BeenThrough
  <2>3. restarts = 0 /\ host.next = worker.chunk =>
           worker.phase # "separate" /\ (worker.phase = "publish" => worker.done = Stems)
    <3>1. worker.done \subseteq Stems
      BY <1>t DEF TypeOK, WorkerStates
    <3>2. restarts = 0 /\ host.next = worker.chunk /\ worker.phase \in {"separate", "publish"}
             => Stems \ worker.done = {}
      BY <1>0, <1>f DEF OnePublication
    <3>3. worker.phase = "separate" => worker.done = {}
      BY <1>0 DEF Upwards
    <3> QED BY <3>1, <3>2, <3>3, LivePipelineAssumption
  <2> QED BY <1>f, <1>u, <2>1, <2>2, <2>3 DEF WholeRead
<1>8. WholeWindow'
  BY <1>0, <1>u DEF WholeWindow
<1> QED
  BY <1>1, <1>2, <1>3, <1>4, <1>5, <1>6, <1>7, <1>8 DEF WholeInv

LEMMA LoaderSkipsKeepsWhole ==
    ASSUME IInv, WholeInv, LoaderSkips PROVE WholeInv'
<1>0. Commands /\ Upwards /\ Adoption /\ BeenThrough /\ LeftOver /\ OnePublication
      /\ WholeRead /\ WholeWindow
  BY DEF WholeInv
<1>u. UNCHANGED <<command, session, inbox, stems, manifest, playback_status, controller,
                  loader, heard, worker, restarts>>
  BY DEF LoaderSkips, outbox
<1>t. TypeOK /\ HostFollows /\ Ages  BY DEF IInv
<1>f. loader.phase = "probe"
  BY DEF LoaderSkips
<1>1. Commands'
  BY <1>0, <1>u DEF Commands
<1>2. Upwards'
  BY <1>0, <1>u DEF Upwards
<1>3. Adoption'
  BY <1>0, <1>u DEF Adoption, Unadopted, Older, Fresh, Emptied
<1>4. BeenThrough'
  BY <1>0, <1>u DEF BeenThrough, Fresh, Emptied
<1>5. LeftOver'
  BY <1>0, <1>u DEF LeftOver, Fresh, Emptied
<1>6. OnePublication'
  BY <1>0, <1>u DEF OnePublication, Emptied
<1>7. WholeRead'
  BY <1>0, <1>u, <1>f DEF WholeRead
<1>8. WholeWindow'
  BY <1>0, <1>u DEF WholeWindow
<1> QED
  BY <1>1, <1>2, <1>3, <1>4, <1>5, <1>6, <1>7, <1>8 DEF WholeInv

LEMMA LoaderReadsKeepsWhole ==
    ASSUME IInv, WholeInv, NEW r \in Stems, LoaderReads(r) PROVE WholeInv'
<1>0. Commands /\ Upwards /\ Adoption /\ BeenThrough /\ LeftOver /\ OnePublication
      /\ WholeRead /\ WholeWindow
  BY DEF WholeInv
<1>u. UNCHANGED <<command, session, inbox, stems, manifest, playback_status, controller,
                  heard, worker, restarts>>
  BY DEF LoaderReads, outbox
<1>t. TypeOK /\ HostFollows /\ Ages  BY DEF IInv
<1>f. /\ loader.phase = "read"
      /\ \/ host' = HostDown /\ loader' = LoaderIdle
         \/ /\ UNCHANGED host /\ loader'.phase = "read" /\ loader.read[r] = NoSound
            /\ loader'.read = [loader.read EXCEPT ![r] = stems[host.next][r]]
            /\ stems[host.next][r] # NoSound
  BY <1>t DEF LoaderReads, TypeOK, LoaderStates
<1>1. Commands'
  BY <1>0, <1>u DEF Commands
<1>2. Upwards'
  BY <1>0, <1>u DEF Upwards
<1>3. Adoption'
  BY <1>0, <1>u, <1>f DEF Adoption, Unadopted, Older, Fresh, Emptied
<1>4. BeenThrough'
  BY <1>0, <1>u DEF BeenThrough, Fresh, Emptied
<1>5. LeftOver'
  BY <1>0, <1>u DEF LeftOver, Fresh, Emptied
<1>6. OnePublication'
  BY <1>0, <1>u DEF OnePublication, Emptied
<1>7. WholeRead'
  <2>1. CASE host' = HostDown /\ loader' = LoaderIdle
    BY <2>1, Down DEF WholeRead
  <2>2. CASE ~(host' = HostDown /\ loader' = LoaderIdle)
    <3>1. Emptied /\ host.next \in Windows
      BY <1>f, <1>t DEF HostFollows, Emptied
    <3>2. \A s \in Stems : loader'.read[s] = IF s = r THEN stems[host.next][r] ELSE loader.read[s]
      BY <1>f, <1>t, <2>2 DEF TypeOK, LoaderStates
    <3>3. loader'.phase = "read" /\ UNCHANGED host
      BY <1>f, <2>2
    <3>4. restarts = 0 => \A s, t \in Stems :
             stems[host.next][s] = NoSound \/ stems[host.next][t] = NoSound
                \/ stems[host.next][s] = stems[host.next][t]
      BY <1>0, <3>1 DEF OnePublication
    <3> QED BY <1>0, <1>f, <1>u, <3>2, <3>3, <3>4 DEF WholeRead
  <2> QED BY <2>1, <2>2
<1>8. WholeWindow'
  BY <1>0, <1>u DEF WholeWindow
<1> QED
  BY <1>1, <1>2, <1>3, <1>4, <1>5, <1>6, <1>7, <1>8 DEF WholeInv

LEMMA LoaderQueuesKeepsWhole ==
    ASSUME IInv, WholeInv, LoaderQueues PROVE WholeInv'
<1>0. Commands /\ Upwards /\ Adoption /\ BeenThrough /\ LeftOver /\ OnePublication
      /\ WholeRead /\ WholeWindow
  BY DEF WholeInv
<1>u. UNCHANGED <<command, session, inbox, stems, manifest, playback_status, controller,
                  worker, restarts>>
  BY DEF LoaderQueues, outbox
<1>f. /\ loader.phase = "read" /\ loader' = LoaderIdle /\ heard' = loader.read
      /\ \A s \in Stems : loader.read[s] # NoSound
  BY DEF LoaderQueues
<1>1. Commands'
  BY <1>0, <1>u DEF Commands
<1>2. Upwards'
  BY <1>0, <1>u DEF Upwards
<1>3. Adoption'
  BY <1>0, <1>u, <1>f DEF Adoption, Unadopted
<1>4. BeenThrough'
  BY <1>0, <1>u DEF BeenThrough, Fresh, Emptied
<1>5. LeftOver'
  BY <1>0, <1>u DEF LeftOver, Fresh, Emptied
<1>6. OnePublication'
  BY <1>0, <1>u DEF OnePublication, Emptied
<1>7. WholeRead'
  BY <1>f, Down DEF WholeRead
<1>8. WholeWindow'
  BY <1>0, <1>u, <1>f DEF WholeRead, WholeWindow
<1> QED
  BY <1>1, <1>2, <1>3, <1>4, <1>5, <1>6, <1>7, <1>8 DEF WholeInv

LEMMA WorkerSyncsKeepsWhole ==
    ASSUME IInv, WholeInv, WorkerSyncs PROVE WholeInv'
<1>0. Commands /\ Upwards /\ Adoption /\ BeenThrough /\ LeftOver /\ OnePublication
      /\ WholeRead /\ WholeWindow
  BY DEF WholeInv
<1>u. UNCHANGED <<command, session, inbox, stems, manifest, playback_status, controller, host,
                  loader, heard, restarts>>
  BY DEF WorkerSyncs, outbox, WorkerOnly
<1>t. TypeOK /\ HostFollows /\ Ages  BY DEF IInv
<1>w. worker.applied \in Nat /\ worker.last \in Nat /\ worker.chunk \in Nat
      /\ (worker.chunk = 0 <=> worker.phase \in {"sync", "prune", "discover"})
  BY <1>t, WorkerFields
<1>f. /\ worker.phase = "sync" /\ worker'.phase = "prune"
      /\ worker'.chunk = worker.chunk /\ worker'.sound = worker.sound /\ worker'.done = worker.done
      /\ worker'.last = worker.last \/ worker' = Adopted
      /\ worker'.applied = worker.applied \/ worker'.applied = command.sequence
  BY <1>t, WorkerFields DEF WorkerSyncs, Adopted, Seen, Pending
<1>a. worker'.last = worker.last \/ (worker' = Adopted /\ worker'.last = 0 /\ Unadopted)
  <2>1. worker'.last = worker.last \/ (worker' = Adopted /\ Unseen /\ SessionReady)
    BY <1>t, WorkerFields DEF WorkerSyncs, Seen, Pending
  <2>2. Adopted.last = 0
    BY <1>t, WorkerFields DEF Adopted, Seen
  <2> QED BY <2>1, <2>2 DEF Unseen, SessionReady, Unadopted
<1>1. Commands'
  BY <1>0, <1>u DEF Commands
<1>2. Upwards'
  BY <1>0, <1>u, <1>f, <1>w, <1>a DEF Upwards
<1>3. Adoption'
  <2>1. CASE worker' = Pending /\ command.action = "start" /\ ~SessionReady
    <3> SUFFICES ASSUME restarts = 0, Unadopted PROVE Adoption'
      BY <1>u, <2>1, <1>t, WorkerFields DEF Adoption, Unadopted, Pending
    <3>0. session.sequence > 0
      BY <1>w, <1>t, WorkerFields DEF Unadopted
    <3>1. controller.phase # "poll"
      BY <1>0, <2>1, <3>0 DEF Commands, SessionReady, Unadopted
    <3>2. controller.phase # "clear inbox" => \A n \in Windows : inbox[n] = NoFile
      BY <3>1 DEF IInv, Untouched, Waiting
    <3> QED BY <1>0, <1>u, <1>f, <3>2 DEF Adoption, Unadopted, Older, Fresh, Emptied
  <2>2. CASE ~(worker' = Pending /\ command.action = "start" /\ ~SessionReady)
    <3>1. worker'.applied = command.sequence \/ ~Unseen
      BY <1>t, <2>2, WorkerFields DEF WorkerSyncs, Seen, Adopted
    <3>2. ~Unseen => command.sequence <= worker.applied
      BY <1>t, WorkerFields DEF Unseen
    <3>3. ~Unseen => worker'.applied = worker.applied
      BY <1>f, <3>2, <1>t, WorkerFields DEF WorkerSyncs
    <3>4. worker'.applied \in Nat /\ command.sequence <= worker'.applied
      BY <1>f, <3>1, <3>2, <3>3, <1>t, WorkerFields
    <3>5. ~(worker'.applied < session.sequence /\ command.sequence = session.sequence)
      BY <3>4, <1>t, WorkerFields
    <3> QED BY <1>u, <3>5 DEF Adoption, Unadopted
  <2> QED BY <2>1, <2>2
<1>4. BeenThrough'
  <2>1. CASE worker'.last = worker.last
    BY <1>0, <1>u, <1>f, <2>1 DEF BeenThrough, Fresh, Emptied
  <2>2. CASE worker' = Adopted /\ Unadopted
    BY <1>0, <1>u, <1>f, <2>2 DEF BeenThrough, Fresh, Emptied, Adoption, Older
  <2> QED BY <1>a, <2>1, <2>2
<1>5. LeftOver'
  BY <1>0, <1>u, <1>f, <1>w DEF LeftOver, Fresh, Emptied
<1>6. OnePublication'
  BY <1>0, <1>u, <1>f, <1>w DEF OnePublication, Emptied
<1>7. WholeRead'
  <2>1. CASE worker'.last = worker.last
    BY <1>0, <1>u, <1>f, <2>1 DEF WholeRead
  <2>2. CASE worker' = Adopted /\ Unadopted
    BY <1>0, <1>u, <1>f, <2>2 DEF WholeRead, Adoption, Older
  <2> QED BY <1>a, <2>1, <2>2
<1>8. WholeWindow'
  BY <1>0, <1>u DEF WholeWindow
<1> QED
  BY <1>1, <1>2, <1>3, <1>4, <1>5, <1>6, <1>7, <1>8 DEF WholeInv

LEMMA PrunesKeepsWhole ==
    ASSUME IInv, WholeInv, NEW cutoff \in Int, Prunes(cutoff) PROVE WholeInv'
<1>0. Commands /\ Upwards /\ Adoption /\ BeenThrough /\ LeftOver /\ OnePublication
      /\ WholeRead /\ WholeWindow
  BY DEF WholeInv
<1>u. UNCHANGED <<command, session, playback_status, controller, host, loader, heard, restarts>>
  BY DEF Prunes, outbox, WorkerOnly
<1>t. TypeOK /\ HostFollows /\ Ages  BY DEF IInv
<1>w. worker.applied \in Nat /\ worker.last \in Nat /\ worker.chunk \in Nat
      /\ (worker.chunk = 0 <=> worker.phase \in {"sync", "prune", "discover"})
  BY <1>t, WorkerFields
<1>f. /\ worker.phase = "prune" /\ worker'.phase = "discover"
      /\ worker'.applied = worker.applied /\ worker'.last = worker.last
      /\ worker'.chunk = worker.chunk /\ worker'.sound = worker.sound
      /\ worker'.done = worker.done
      /\ \A n \in Windows : inbox'[n] \in {inbox[n], NoFile}
      /\ \A n \in Windows : stems'[n] \in {stems[n], [s \in Stems |-> NoSound]}
      /\ \A n \in Windows, s \in Stems : stems'[n][s] \in {stems[n][s], worker.sound, NoSound}
  <2>1. worker.phase = "prune" /\ worker'.phase = "discover"
        /\ worker'.applied = worker.applied /\ worker'.last = worker.last
        /\ worker'.chunk = worker.chunk /\ worker'.sound = worker.sound
        /\ worker'.done = worker.done
    BY <1>t, WorkerFields DEF Prunes
  <2>2. \A n \in Windows : inbox'[n] \in {inbox[n], NoFile}
    BY DEF Prunes
  <2>3. \A n \in Windows : stems'[n] \in {stems[n], [s \in Stems |-> NoSound]}
    BY DEF Prunes
  <2> QED BY <2>1, <2>2, <2>3
<1>1. Commands'
  BY <1>0, <1>u DEF Commands
<1>2. Upwards'
  BY <1>0, <1>u, <1>f, <1>w DEF Upwards
<1>3. Adoption'
  BY <1>0, <1>u, <1>f, AdoptionKept
<1>4. BeenThrough'
  <2>1. \A n \in Windows, s \in Stems : stems'[n][s] = stems[n][s] \/ stems'[n][s] = NoSound
    BY <1>f
  <2>2. restarts = 0 /\ Emptied =>
           \A n \in Windows, s \in Stems :
              stems'[n][s] # NoSound /\ Fresh(stems'[n][s])
                 => n <= worker.last \/ n = worker.chunk
    BY <1>0, <2>1 DEF BeenThrough
  <2> QED BY <1>u, <1>f, <2>2 DEF BeenThrough, Fresh, Emptied
<1>5. LeftOver'
  <2>1. \A n \in Windows, s \in Stems : stems'[n][s] = stems[n][s] \/ stems'[n][s] = NoSound
    BY <1>f
  <2>2. restarts = 0 /\ Emptied => \A n \in Windows, s \in Stems : Fresh(stems'[n][s])
    BY <1>0, <1>f, <2>1 DEF LeftOver, Fresh
  <2> QED BY <1>u, <1>f, <2>2 DEF LeftOver, Fresh, Emptied
<1>6. OnePublication'
  <2>1. \A n \in Windows : stems'[n] = stems[n] \/ \A s \in Stems : stems'[n][s] = NoSound
    BY <1>f
  <2>2. restarts = 0 /\ Emptied =>
           \A n \in Windows, s, t \in Stems :
              stems'[n][s] = NoSound \/ stems'[n][t] = NoSound \/ stems'[n][s] = stems'[n][t]
    BY <1>0, <2>1 DEF OnePublication
  <2> QED BY <1>u, <1>f, <2>2 DEF OnePublication, Emptied
<1>7. WholeRead'
  <2>1. \A n \in Windows : stems'[n] = stems[n] \/ \A s \in Stems : stems'[n][s] = NoSound
    BY <1>f
  <2>2. loader.phase = "read" => host.next \in Windows
    BY <1>t DEF HostFollows
  <2> QED BY <1>0, <1>u, <1>f, <2>1, <2>2 DEF WholeRead
<1>8. WholeWindow'
  BY <1>0, <1>u DEF WholeWindow
<1> QED
  BY <1>1, <1>2, <1>3, <1>4, <1>5, <1>6, <1>7, <1>8 DEF WholeInv

LEMMA WorkerDiscoversKeepsWhole ==
    ASSUME IInv, WholeInv, WorkerDiscovers PROVE WholeInv'
<1>0. Commands /\ Upwards /\ Adoption /\ BeenThrough /\ LeftOver /\ OnePublication
      /\ WholeRead /\ WholeWindow
  BY DEF WholeInv
<1>u. UNCHANGED <<command, session, inbox, stems, manifest, playback_status, controller, host,
                  loader, heard, restarts>>
  BY DEF WorkerDiscovers, outbox, WorkerOnly
<1>t. TypeOK /\ HostFollows /\ Ages  BY DEF IInv
<1>w. worker.applied \in Nat /\ worker.last \in Nat /\ worker.chunk \in Nat
      /\ (worker.chunk = 0 <=> worker.phase \in {"sync", "prune", "discover"})
  BY <1>t, WorkerFields
<1>f. /\ worker.phase = "discover" /\ worker'.phase \in {"sync", "separate"}
      /\ worker'.applied = worker.applied /\ worker'.last = worker.last
      /\ worker'.sound = worker.sound /\ worker'.done = worker.done
      /\ worker'.phase = "sync" => worker'.chunk = 0
      /\ worker'.phase = "separate" => worker'.chunk > worker.last /\ worker'.chunk \in Windows
  <2> DEFINE ready == {n \in Captures : n > worker.last}
  <2>1. ready = {} \/ (Smallest(ready) \in ready /\ Smallest(ready) \in Windows)
    BY SmallestIsThere DEF Captures
  <2> HIDE DEF ready
  <2>2. worker' = IF ready = {} THEN [worker EXCEPT !.phase = "sync"]
                  ELSE [worker EXCEPT !.phase = "separate", !.chunk = Smallest(ready)]
    BY DEF WorkerDiscovers, ready
  <2>3. Smallest(ready) \in ready => Smallest(ready) > worker.last
    BY DEF ready
  <2>4. worker.phase = "discover"
    BY DEF WorkerDiscovers
  <2> QED BY <2>1, <2>2, <2>3, <2>4, <1>t, <1>w, WorkerFields
<1>1. Commands'
  BY <1>0, <1>u DEF Commands
<1>2. Upwards'
  BY <1>0, <1>u, <1>f, <1>w DEF Upwards
<1>3. Adoption'
  BY <1>0, <1>u, <1>f, AdoptionKept
<1>4. BeenThrough'
  <2>1. \A n \in Windows : n # worker.chunk
    BY <1>f, <1>w, LivePipelineAssumption DEF Windows
  <2> QED BY <1>0, <1>u, <1>f, <2>1 DEF BeenThrough, Fresh, Emptied
<1>5. LeftOver'
  BY <1>0, <1>u, <1>f, <1>w DEF LeftOver, Fresh, Emptied
<1>6. OnePublication'
  <2>1. \A s \in Stems : restarts = 0 /\ Emptied /\ worker'.phase = "separate"
                             => stems[worker'.chunk][s] = NoSound
    BY <1>0, <1>f, <1>w, LivePipelineAssumption DEF LeftOver, BeenThrough, Windows
  <2> QED BY <1>0, <1>u, <1>f, <2>1 DEF OnePublication, Emptied
<1>7. WholeRead'
  BY <1>0, <1>u, <1>f, <1>w, <1>t, LivePipelineAssumption DEF WholeRead, Windows, HostFollows
<1>8. WholeWindow'
  BY <1>0, <1>u DEF WholeWindow
<1> QED
  BY <1>1, <1>2, <1>3, <1>4, <1>5, <1>6, <1>7, <1>8 DEF WholeInv

LEMMA WorkerSeparatesKeepsWhole ==
    ASSUME IInv, WholeInv, WorkerSeparates PROVE WholeInv'
<1>0. Commands /\ Upwards /\ Adoption /\ BeenThrough /\ LeftOver /\ OnePublication
      /\ WholeRead /\ WholeWindow
  BY DEF WholeInv
<1>u. UNCHANGED <<command, session, inbox, stems, manifest, playback_status, controller, host,
                  loader, heard, restarts>>
  BY DEF WorkerSeparates, outbox, WorkerOnly
<1>t. TypeOK /\ HostFollows /\ Ages  BY DEF IInv
<1>w. worker.applied \in Nat /\ worker.last \in Nat /\ worker.chunk \in Nat
      /\ (worker.chunk = 0 <=> worker.phase \in {"sync", "prune", "discover"})
  BY <1>t, WorkerFields
<1>f. /\ worker.phase = "separate" /\ worker'.phase = "publish" /\ worker'.done = {}
      /\ worker'.applied = worker.applied /\ worker'.last = worker.last
      /\ worker'.chunk = worker.chunk
      /\ CaptureThere /\ worker'.sound.session = inbox[worker.chunk]
  BY <1>t, WorkerFields DEF WorkerSeparates, Publishing
<1>n. worker.chunk \in Windows /\ inbox[worker.chunk] \in Nat /\ session.sequence \in Nat
  BY <1>t, <1>f, ChunkIsWindow, NumbersAreNatural
<1>1. Commands'
  BY <1>0, <1>u DEF Commands
<1>2. Upwards'
  BY <1>0, <1>u, <1>f, <1>w DEF Upwards
<1>3. Adoption'
  <2>1. restarts = 0 /\ Unadopted /\ CaptureThere => inbox[worker.chunk] < session.sequence
    <3> SUFFICES ASSUME restarts = 0, Unadopted, CaptureThere
                 PROVE  inbox[worker.chunk] < session.sequence
      OBVIOUS
    <3>1. controller.phase = "clear inbox"
      BY <1>0, <1>n, <1>f DEF Adoption, CaptureThere
    <3> QED BY <1>t, <1>n, <3>1 DEF Ages
  <2>2. restarts = 0 /\ Unadopted /\ CaptureThere => inbox[worker.chunk] # session.sequence
    BY <2>1, <1>n
  <2>3. restarts = 0 /\ Unadopted => Older(worker.sound)
    BY <1>0 DEF Adoption
  <2> QED BY <1>0, <1>u, <1>f, <2>2, <2>3 DEF Adoption, Unadopted, Older, Fresh, Emptied
<1>4. BeenThrough'
  BY <1>0, <1>u, <1>f, <1>w DEF BeenThrough, Fresh, Emptied
<1>5. LeftOver'
  BY <1>0, <1>u, <1>f, <1>w DEF LeftOver, Fresh, Emptied
<1>6. OnePublication'
  <2>1. worker.done = {}
    BY <1>0, <1>f DEF Upwards
  <2> QED BY <1>0, <1>u, <1>f, <2>1 DEF OnePublication, Emptied
<1>7. WholeRead'
  BY <1>0, <1>u, <1>f, <1>w DEF WholeRead
<1>8. WholeWindow'
  BY <1>0, <1>u DEF WholeWindow
<1> QED
  BY <1>1, <1>2, <1>3, <1>4, <1>5, <1>6, <1>7, <1>8 DEF WholeInv

LEMMA WorkerFallsBackKeepsWhole ==
    ASSUME IInv, WholeInv, WorkerFallsBack PROVE WholeInv'
<1>0. Commands /\ Upwards /\ Adoption /\ BeenThrough /\ LeftOver /\ OnePublication
      /\ WholeRead /\ WholeWindow
  BY DEF WholeInv
<1>u. UNCHANGED <<command, session, inbox, stems, manifest, playback_status, controller, host,
                  loader, heard, restarts>>
  BY DEF WorkerFallsBack, outbox, WorkerOnly
<1>t. TypeOK /\ HostFollows /\ Ages  BY DEF IInv
<1>w. worker.applied \in Nat /\ worker.last \in Nat /\ worker.chunk \in Nat
      /\ (worker.chunk = 0 <=> worker.phase \in {"sync", "prune", "discover"})
  BY <1>t, WorkerFields
<1>f. /\ worker.phase = "separate" /\ worker'.phase \in {"publish", "unlink"}
      /\ worker'.applied = worker.applied /\ worker'.last = worker.last
      /\ worker'.chunk = worker.chunk
      /\ worker'.done = {}
      /\ \/ CaptureThere /\ worker'.sound.session = inbox[worker.chunk]
         \/ worker'.phase = "unlink" /\ worker'.sound = worker.sound
  <2>1. worker.phase = "separate" /\ worker.done = {}
    BY <1>0 DEF WorkerFallsBack, Upwards
  <2> QED BY <2>1, <1>t, WorkerFields DEF WorkerFallsBack, Publishing
<1>n. worker.chunk \in Windows /\ inbox[worker.chunk] \in Nat /\ session.sequence \in Nat
  BY <1>t, <1>f, ChunkIsWindow, NumbersAreNatural
<1>1. Commands'
  BY <1>0, <1>u DEF Commands
<1>2. Upwards'
  BY <1>0, <1>u, <1>f, <1>w DEF Upwards
<1>3. Adoption'
  <2>1. restarts = 0 /\ Unadopted /\ CaptureThere => inbox[worker.chunk] < session.sequence
    <3> SUFFICES ASSUME restarts = 0, Unadopted, CaptureThere
                 PROVE  inbox[worker.chunk] < session.sequence
      OBVIOUS
    <3>1. controller.phase = "clear inbox"
      BY <1>0, <1>n, <1>f DEF Adoption, CaptureThere
    <3> QED BY <1>t, <1>n, <3>1 DEF Ages
  <2>2. restarts = 0 /\ Unadopted /\ CaptureThere => inbox[worker.chunk] # session.sequence
    BY <2>1, <1>n
  <2>3. restarts = 0 /\ Unadopted => Older(worker.sound)
    BY <1>0 DEF Adoption
  <2> QED BY <1>0, <1>u, <1>f, <2>2, <2>3 DEF Adoption, Unadopted, Older, Fresh, Emptied
<1>4. BeenThrough'
  BY <1>0, <1>u, <1>f, <1>w DEF BeenThrough, Fresh, Emptied
<1>5. LeftOver'
  BY <1>0, <1>u, <1>f, <1>w DEF LeftOver, Fresh, Emptied
<1>6. OnePublication'
  <2>1. worker.done = {}
    BY <1>0, <1>f DEF Upwards
  <2> QED BY <1>0, <1>u, <1>f, <2>1 DEF OnePublication, Emptied
<1>7. WholeRead'
  BY <1>0, <1>u, <1>f, <1>w DEF WholeRead
<1>8. WholeWindow'
  BY <1>0, <1>u DEF WholeWindow
<1> QED
  BY <1>1, <1>2, <1>3, <1>4, <1>5, <1>6, <1>7, <1>8 DEF WholeInv

LEMMA WorkerPublishesStemKeepsWhole ==
    ASSUME IInv, WholeInv, NEW r \in Stems, WorkerPublishesStem(r) PROVE WholeInv'
<1>0. Commands /\ Upwards /\ Adoption /\ BeenThrough /\ LeftOver /\ OnePublication
      /\ WholeRead /\ WholeWindow
  BY DEF WholeInv
<1>u. UNCHANGED <<command, session, inbox, manifest, playback_status, controller, host,
                  loader, heard, restarts>>
  BY DEF WorkerPublishesStem, outbox, WorkerOnly
<1>t. TypeOK /\ HostFollows /\ Ages  BY DEF IInv
<1>w. worker.applied \in Nat /\ worker.last \in Nat /\ worker.chunk \in Nat
      /\ (worker.chunk = 0 <=> worker.phase \in {"sync", "prune", "discover"})
  BY <1>t, WorkerFields
<1>f. /\ worker.phase = "publish" /\ worker'.phase = "publish" /\ r \notin worker.done
      /\ worker'.applied = worker.applied /\ worker'.last = worker.last
      /\ worker'.chunk = worker.chunk /\ worker'.sound = worker.sound
      /\ worker'.done = worker.done \cup {r} /\ worker.chunk \in Windows
      /\ \A n \in Windows, s \in Stems :
            stems'[n][s] = IF n = worker.chunk /\ s = r THEN worker.sound ELSE stems[n][s]
  <2>1. worker.phase = "publish" /\ worker'.phase = "publish" /\ r \notin worker.done
        /\ worker'.applied = worker.applied /\ worker'.last = worker.last
        /\ worker'.chunk = worker.chunk /\ worker'.sound = worker.sound
        /\ worker'.done = worker.done \cup {r}
    BY <1>t, WorkerFields DEF WorkerPublishesStem
  <2>2. worker.chunk \in Windows
    BY <2>1, <1>t, ChunkIsWindow
  <2>3. \A n \in Windows, s \in Stems :
           stems'[n][s] = IF n = worker.chunk /\ s = r THEN worker.sound ELSE stems[n][s]
    BY <1>t, <2>2 DEF WorkerPublishesStem, TypeOK
  <2> QED BY <2>1, <2>2, <2>3
<1>1. Commands'
  BY <1>0, <1>u DEF Commands
<1>2. Upwards'
  BY <1>0, <1>u, <1>f, <1>w DEF Upwards
<1>3. Adoption'
  BY <1>0, <1>u, <1>f, AdoptionKept
<1>4. BeenThrough'
  <2>1. \A n \in Windows, s \in Stems : stems'[n][s] = stems[n][s] \/ n = worker.chunk
    BY <1>f
  <2>2. restarts = 0 /\ Emptied =>
           \A n \in Windows, s \in Stems :
              stems'[n][s] # NoSound /\ Fresh(stems'[n][s])
                 => n <= worker.last \/ n = worker.chunk
    BY <1>0, <2>1 DEF BeenThrough
  <2> QED BY <1>u, <1>f, <2>2 DEF BeenThrough, Fresh, Emptied
<1>5. LeftOver'
  <2>1. \A n \in Windows, s \in Stems : n # worker.chunk => stems'[n][s] = stems[n][s]
    BY <1>f
  <2>2. restarts = 0 /\ Emptied =>
           \A n \in Windows, s \in Stems : n # worker.chunk => Fresh(stems'[n][s])
    BY <1>0, <2>1 DEF LeftOver, Fresh
  <2> QED BY <1>u, <1>f, <2>2 DEF LeftOver, Fresh, Emptied
<1>6. OnePublication'
  <2>1. restarts = 0 /\ Emptied =>
           \A s \in Stems : stems'[worker.chunk][s] \in {NoSound, worker.sound}
    BY <1>0, <1>f DEF IInv, DoneFollows, OnePublication
  <2>2. restarts = 0 /\ Emptied /\ worker.phase = "publish" =>
           \A s \in Stems \ worker'.done : stems'[worker.chunk][s] = NoSound
    BY <1>0, <1>f DEF OnePublication
  <2>3. \A n \in Windows : n # worker.chunk =>
           \A s \in Stems : stems'[n][s] = stems[n][s]
    BY <1>f
  <2>4. restarts = 0 /\ Emptied =>
           \A n \in Windows : n # worker.chunk =>
              \A s, t \in Stems : stems'[n][s] = NoSound \/ stems'[n][t] = NoSound
                                    \/ stems'[n][s] = stems'[n][t]
    BY <1>0, <2>3 DEF OnePublication
  <2>5. restarts = 0 /\ Emptied =>
           \A n \in Windows, s, t \in Stems :
              stems'[n][s] = NoSound \/ stems'[n][t] = NoSound \/ stems'[n][s] = stems'[n][t]
    BY <2>1, <2>4
  <2>6. UNCHANGED <<restarts, controller>> /\ worker.phase = "publish"
        /\ worker'.chunk = worker.chunk
    BY <1>u, <1>f
  <2> QED BY <2>2, <2>5, <2>6 DEF OnePublication, Emptied
<1>7. WholeRead'
  BY <1>0, <1>u, <1>f, <1>w, <1>t DEF WholeRead, HostFollows
<1>8. WholeWindow'
  BY <1>0, <1>u DEF WholeWindow
<1> QED
  BY <1>1, <1>2, <1>3, <1>4, <1>5, <1>6, <1>7, <1>8 DEF WholeInv

LEMMA WorkerChecksCaptureKeepsWhole ==
    ASSUME IInv, WholeInv, WorkerChecksCapture PROVE WholeInv'
<1>0. Commands /\ Upwards /\ Adoption /\ BeenThrough /\ LeftOver /\ OnePublication
      /\ WholeRead /\ WholeWindow
  BY DEF WholeInv
<1>u. UNCHANGED <<command, session, inbox, stems, manifest, playback_status, controller, host,
                  loader, heard, restarts>>
  BY DEF WorkerChecksCapture, outbox, WorkerOnly
<1>t. TypeOK /\ HostFollows /\ Ages  BY DEF IInv
<1>w. worker.applied \in Nat /\ worker.last \in Nat /\ worker.chunk \in Nat
      /\ (worker.chunk = 0 <=> worker.phase \in {"sync", "prune", "discover"})
  BY <1>t, WorkerFields
<1>f. /\ worker.phase = "publish" /\ worker'.phase \in {"announce", "unlink"}
      /\ worker'.applied = worker.applied /\ worker'.last = worker.last
      /\ worker'.chunk = worker.chunk /\ worker'.sound = worker.sound
      /\ worker'.done = worker.done
      /\ worker.done = Stems /\ (worker'.phase = "announce" => CaptureThere)
  BY <1>t, WorkerFields DEF WorkerChecksCapture
<1>1. Commands'
  BY <1>0, <1>u DEF Commands
<1>2. Upwards'
  BY <1>0, <1>u, <1>f, <1>w DEF Upwards
<1>3. Adoption'
  BY <1>0, <1>u, <1>f, AdoptionKept
<1>4. BeenThrough'
  BY <1>0, <1>u, <1>f, <1>w DEF BeenThrough, Fresh, Emptied
<1>5. LeftOver'
  <2>1. worker.chunk \in Windows
    BY <1>f, <1>t, ChunkIsWindow
  <2>2. Emptied /\ worker'.phase = "announce" => \A s \in Stems : Fresh(stems[worker.chunk][s])
    BY <1>f, <2>1 DEF IInv, InboxFollows, DoneFollows, Stale, Fresh, Emptied, CaptureThere
  <2> QED BY <1>0, <1>u, <1>f, <2>2 DEF LeftOver, Fresh, Emptied
<1>6. OnePublication'
  <2>1. worker'.phase \notin {"separate", "publish"} /\ UNCHANGED <<restarts, controller,
                                                                    stems>>
    BY <1>u, <1>f
  <2> QED BY <1>0, <2>1 DEF OnePublication, Emptied
<1>7. WholeRead'
  BY <1>0, <1>u, <1>f, <1>w DEF WholeRead
<1>8. WholeWindow'
  BY <1>0, <1>u DEF WholeWindow
<1> QED
  BY <1>1, <1>2, <1>3, <1>4, <1>5, <1>6, <1>7, <1>8 DEF WholeInv

LEMMA WorkerAnnouncesKeepsWhole ==
    ASSUME IInv, WholeInv, WorkerAnnounces PROVE WholeInv'
<1>0. Commands /\ Upwards /\ Adoption /\ BeenThrough /\ LeftOver /\ OnePublication
      /\ WholeRead /\ WholeWindow
  BY DEF WholeInv
<1>u. UNCHANGED <<command, session, inbox, stems, playback_status, controller, host, loader,
                  heard, restarts>>
  BY DEF WorkerAnnounces, outbox, WorkerOnly
<1>t. TypeOK /\ HostFollows /\ Ages  BY DEF IInv
<1>w. worker.applied \in Nat /\ worker.last \in Nat /\ worker.chunk \in Nat
      /\ (worker.chunk = 0 <=> worker.phase \in {"sync", "prune", "discover"})
  BY <1>t, WorkerFields
<1>f. /\ worker.phase = "announce" /\ worker'.phase \in {"sync", "quarantine"}
      /\ worker'.applied = worker.applied /\ worker'.sound \in {worker.sound, NoSound}
      /\ worker'.phase = "quarantine" => worker'.last = worker.last /\ worker'.chunk = worker.chunk
      /\ worker'.phase = "sync" =>
            worker'.last = worker.chunk /\ worker'.chunk = 0 /\ worker'.done = {}
  BY <1>t, WorkerFields DEF WorkerAnnounces, Finished
<1>b. worker.chunk \in Windows /\ worker.last < worker.chunk
  BY <1>0, <1>f, <1>w, <1>t, ChunkIsWindow DEF Upwards
<1>g. worker'.phase = "sync" =>
         \A n \in Windows : n <= worker.last \/ n = worker.chunk => n <= worker'.last
  BY <1>f, <1>b, <1>w, LivePipelineAssumption DEF Windows
<1>1. Commands'
  BY <1>0, <1>u DEF Commands
<1>2. Upwards'
  BY <1>0, <1>u, <1>f, <1>w DEF Upwards
<1>3. Adoption'
  BY <1>0, <1>u, <1>f, AdoptionKept
<1>4. BeenThrough'
  BY <1>0, <1>u, <1>f, <1>g DEF BeenThrough, Fresh, Emptied
<1>5. LeftOver'
  BY <1>0, <1>u, <1>f, <1>w DEF LeftOver, Fresh, Emptied
<1>6. OnePublication'
  BY <1>0, <1>u, <1>f, <1>w DEF OnePublication, Emptied
<1>7. WholeRead'
  <2>1. loader.phase = "read" => host.next \in Windows
    BY <1>t DEF HostFollows
  <2>2. worker'.phase = "sync" => \A n \in Windows : n # worker'.chunk
    BY <1>f, LivePipelineAssumption DEF Windows
  <2>3. \A s, t \in Stems : restarts = 0 /\ loader.phase = "read" =>
              /\ loader.read[s] = NoSound \/ loader.read[t] = NoSound
                    \/ loader.read[s] = loader.read[t]
              /\ loader.read[s] = NoSound \/ stems[host.next][t] = NoSound
                    \/ loader.read[s] = stems[host.next][t]
    BY <1>0 DEF WholeRead
  <2> QED BY <1>0, <1>u, <1>f, <1>g, <2>1, <2>2, <2>3 DEF WholeRead
<1>8. WholeWindow'
  BY <1>0, <1>u DEF WholeWindow
<1> QED
  BY <1>1, <1>2, <1>3, <1>4, <1>5, <1>6, <1>7, <1>8 DEF WholeInv

LEMMA WorkerUnlinksKeepsWhole ==
    ASSUME IInv, WholeInv, WorkerUnlinks PROVE WholeInv'
<1>0. Commands /\ Upwards /\ Adoption /\ BeenThrough /\ LeftOver /\ OnePublication
      /\ WholeRead /\ WholeWindow
  BY DEF WholeInv
<1>u. UNCHANGED <<command, session, inbox, manifest, playback_status, controller, host,
                  loader, heard, restarts>>
  BY DEF WorkerUnlinks, outbox, WorkerOnly
<1>t. TypeOK /\ HostFollows /\ Ages  BY DEF IInv
<1>w. worker.applied \in Nat /\ worker.last \in Nat /\ worker.chunk \in Nat
      /\ (worker.chunk = 0 <=> worker.phase \in {"sync", "prune", "discover"})
  BY <1>t, WorkerFields
<1>f. /\ worker.phase = "unlink" /\ worker'.phase = "announce none"
      /\ worker'.applied = worker.applied /\ worker'.last = worker.last
      /\ worker'.chunk = worker.chunk /\ worker'.sound = worker.sound
      /\ \A n \in Windows, s \in Stems :
            stems'[n][s] = IF n = worker.chunk THEN NoSound ELSE stems[n][s]
  <2>1. worker.phase = "unlink" /\ worker'.phase = "announce none"
        /\ worker'.applied = worker.applied /\ worker'.last = worker.last
        /\ worker'.chunk = worker.chunk /\ worker'.sound = worker.sound
    BY <1>t, WorkerFields DEF WorkerUnlinks
  <2>2. \A n \in Windows, s \in Stems :
           stems'[n][s] = IF n = worker.chunk THEN NoSound ELSE stems[n][s]
    BY <1>t DEF WorkerUnlinks, TypeOK
  <2> QED BY <2>1, <2>2
<1>1. Commands'
  BY <1>0, <1>u DEF Commands
<1>2. Upwards'
  BY <1>0, <1>u, <1>f, <1>w DEF Upwards
<1>3. Adoption'
  BY <1>0, <1>u, <1>f, AdoptionKept
<1>4. BeenThrough'
  BY <1>0, <1>u, <1>f, <1>w DEF BeenThrough, Fresh, Emptied
<1>5. LeftOver'
  <2>1. \A n \in Windows, s \in Stems :
           \/ (n = worker.chunk /\ stems'[n][s] = NoSound)
           \/ (n # worker.chunk /\ stems'[n][s] = stems[n][s])
    BY <1>f
  <2>2. restarts = 0 /\ Emptied => \A n \in Windows, s \in Stems : Fresh(stems'[n][s])
    BY <1>0, <2>1 DEF LeftOver, Fresh
  <2> QED BY <1>u, <2>2 DEF LeftOver, Fresh, Emptied
<1>6. OnePublication'
  <2>1. \A n \in Windows :
           \/ n = worker.chunk /\ \A s \in Stems : stems'[n][s] = NoSound
           \/ n # worker.chunk /\ \A s \in Stems : stems'[n][s] = stems[n][s]
    BY <1>f
  <2>2. restarts = 0 /\ Emptied =>
           \A n \in Windows, s, t \in Stems :
              stems'[n][s] = NoSound \/ stems'[n][t] = NoSound \/ stems'[n][s] = stems'[n][t]
    BY <1>0, <2>1 DEF OnePublication
  <2> QED BY <1>u, <1>f, <2>2 DEF OnePublication, Emptied
<1>7. WholeRead'
  <2>1. loader.phase = "read" =>
           \/ \A s \in Stems : stems'[host.next][s] = NoSound
           \/ \A s \in Stems : stems'[host.next][s] = stems[host.next][s]
    BY <1>f, <1>t DEF HostFollows
  <2>2. restarts = 0 /\ loader.phase = "read" =>
           \A s, t \in Stems : loader.read[s] = NoSound \/ stems'[host.next][t] = NoSound
                                 \/ loader.read[s] = stems'[host.next][t]
    BY <1>0, <2>1 DEF WholeRead
  <2> QED BY <1>0, <1>u, <1>f, <2>2 DEF WholeRead
<1>8. WholeWindow'
  BY <1>0, <1>u DEF WholeWindow
<1> QED
  BY <1>1, <1>2, <1>3, <1>4, <1>5, <1>6, <1>7, <1>8 DEF WholeInv

LEMMA WorkerAnnouncesNoneKeepsWhole ==
    ASSUME IInv, WholeInv, WorkerAnnouncesNone PROVE WholeInv'
<1>0. Commands /\ Upwards /\ Adoption /\ BeenThrough /\ LeftOver /\ OnePublication
      /\ WholeRead /\ WholeWindow
  BY DEF WholeInv
<1>u. UNCHANGED <<command, session, inbox, stems, playback_status, controller, host, loader,
                  heard, restarts>>
  BY DEF WorkerAnnouncesNone, outbox, WorkerOnly
<1>t. TypeOK /\ HostFollows /\ Ages  BY DEF IInv
<1>w. worker.applied \in Nat /\ worker.last \in Nat /\ worker.chunk \in Nat
      /\ (worker.chunk = 0 <=> worker.phase \in {"sync", "prune", "discover"})
  BY <1>t, WorkerFields
<1>f. /\ worker.phase = "announce none" /\ worker'.phase = "quarantine"
      /\ worker'.applied = worker.applied /\ worker'.last = worker.last
      /\ worker'.chunk = worker.chunk /\ worker'.sound = worker.sound
  BY <1>t, WorkerFields DEF WorkerAnnouncesNone
<1>1. Commands'
  BY <1>0, <1>u DEF Commands
<1>2. Upwards'
  BY <1>0, <1>u, <1>f, <1>w DEF Upwards
<1>3. Adoption'
  BY <1>0, <1>u, <1>f, AdoptionKept
<1>4. BeenThrough'
  BY <1>0, <1>u, <1>f, <1>w DEF BeenThrough, Fresh, Emptied
<1>5. LeftOver'
  BY <1>0, <1>u, <1>f, <1>w DEF LeftOver, Fresh, Emptied
<1>6. OnePublication'
  BY <1>0, <1>u, <1>f, <1>w DEF OnePublication, Emptied
<1>7. WholeRead'
  BY <1>0, <1>u, <1>f, <1>w DEF WholeRead
<1>8. WholeWindow'
  BY <1>0, <1>u DEF WholeWindow
<1> QED
  BY <1>1, <1>2, <1>3, <1>4, <1>5, <1>6, <1>7, <1>8 DEF WholeInv

LEMMA WorkerQuarantinesKeepsWhole ==
    ASSUME IInv, WholeInv, WorkerQuarantines PROVE WholeInv'
<1>0. Commands /\ Upwards /\ Adoption /\ BeenThrough /\ LeftOver /\ OnePublication
      /\ WholeRead /\ WholeWindow
  BY DEF WholeInv
<1>u. UNCHANGED <<command, session, stems, manifest, playback_status, controller, host,
                  loader, heard, restarts>>
  BY DEF WorkerQuarantines, outbox, WorkerOnly
<1>t. TypeOK /\ HostFollows /\ Ages  BY DEF IInv
<1>w. worker.applied \in Nat /\ worker.last \in Nat /\ worker.chunk \in Nat
      /\ (worker.chunk = 0 <=> worker.phase \in {"sync", "prune", "discover"})
  BY <1>t, WorkerFields
<1>f. /\ worker.phase = "quarantine" /\ worker'.phase = "sync"
      /\ worker'.applied = worker.applied /\ worker'.sound = NoSound
      /\ worker'.last = worker.chunk /\ worker'.chunk = 0 /\ worker'.done = {}
      /\ \A n \in Windows : inbox'[n] \in {inbox[n], NoFile}
  <2>1. /\ worker.phase = "quarantine" /\ worker'.phase = "sync"
        /\ worker'.applied = worker.applied /\ worker'.sound = NoSound
        /\ worker'.last = worker.chunk /\ worker'.chunk = 0 /\ worker'.done = {}
    BY <1>t, WorkerFields DEF WorkerQuarantines, Finished
  <2>2. \A n \in Windows : inbox'[n] \in {inbox[n], NoFile}
    BY <1>t DEF WorkerQuarantines, TypeOK
  <2> QED BY <2>1, <2>2
<1>b. worker.chunk \in Windows /\ worker.last < worker.chunk
  BY <1>0, <1>f, <1>w, <1>t, ChunkIsWindow DEF Upwards
<1>g. \A n \in Windows : n <= worker.last \/ n = worker.chunk => n <= worker'.last
  BY <1>f, <1>b, <1>w, LivePipelineAssumption DEF Windows
<1>1. Commands'
  BY <1>0, <1>u DEF Commands
<1>2. Upwards'
  BY <1>0, <1>u, <1>f, <1>w DEF Upwards
<1>3. Adoption'
  BY <1>0, <1>u, <1>f, AdoptionKept
<1>4. BeenThrough'
  BY <1>0, <1>u, <1>f, <1>g DEF BeenThrough, Fresh, Emptied
<1>5. LeftOver'
  BY <1>0, <1>u, <1>f, <1>w DEF LeftOver, Fresh, Emptied
<1>6. OnePublication'
  BY <1>0, <1>u, <1>f, <1>w DEF OnePublication, Emptied
<1>7. WholeRead'
  <2>1. loader.phase = "read" => host.next \in Windows
    BY <1>t DEF HostFollows
  <2>2. worker'.phase = "sync" => \A n \in Windows : n # worker'.chunk
    BY <1>f, LivePipelineAssumption DEF Windows
  <2>3. \A s, t \in Stems : restarts = 0 /\ loader.phase = "read" =>
              /\ loader.read[s] = NoSound \/ loader.read[t] = NoSound
                    \/ loader.read[s] = loader.read[t]
              /\ loader.read[s] = NoSound \/ stems[host.next][t] = NoSound
                    \/ loader.read[s] = stems[host.next][t]
    BY <1>0 DEF WholeRead
  <2> QED BY <1>0, <1>u, <1>f, <1>g, <2>1, <2>2, <2>3 DEF WholeRead
<1>8. WholeWindow'
  BY <1>0, <1>u DEF WholeWindow
<1> QED
  BY <1>1, <1>2, <1>3, <1>4, <1>5, <1>6, <1>7, <1>8 DEF WholeInv

LEMMA WorkerRestartsKeepsWhole ==
    ASSUME IInv, WholeInv, WorkerRestarts PROVE WholeInv'
<1>0. Commands /\ Upwards /\ Adoption /\ BeenThrough /\ LeftOver /\ OnePublication
      /\ WholeRead /\ WholeWindow
  BY DEF WholeInv
<1>u. UNCHANGED <<command, session, inbox, stems, manifest, playback_status, controller, host,
                  loader, heard>>
  BY DEF WorkerRestarts, outbox
<1>f. /\ restarts' # 0 /\ worker'.chunk = 0 /\ worker'.done = {}
  BY DEF IInv, TypeOK, WorkerRestarts, FreshWorker
<1>1. Commands'
  BY <1>0, <1>u DEF Commands
<1>2. Upwards'
  BY <1>0, <1>u, <1>f DEF Upwards
<1>3. Adoption'
  BY <1>0, <1>u, <1>f DEF Adoption, Unadopted, Older, Fresh, Emptied
<1>4. BeenThrough'
  BY <1>0, <1>u, <1>f DEF BeenThrough, Fresh, Emptied
<1>5. LeftOver'
  BY <1>0, <1>u, <1>f DEF LeftOver, Fresh, Emptied
<1>6. OnePublication'
  BY <1>0, <1>u, <1>f DEF OnePublication, Emptied
<1>7. WholeRead'
  BY <1>0, <1>u, <1>f DEF WholeRead
<1>8. WholeWindow'
  BY <1>0, <1>u, <1>f DEF WholeWindow
<1> QED
  BY <1>1, <1>2, <1>3, <1>4, <1>5, <1>6, <1>7, <1>8 DEF WholeInv

LEMMA WholeInductive == IInv /\ WholeInv /\ [Next]_vars => WholeInv'
<1> SUFFICES ASSUME IInv, WholeInv, [Next]_vars PROVE WholeInv'
  OBVIOUS
<1>1. CASE \E a \in Actions : WriteCommand(a)
  BY <1>1, WriteCommandKeepsWhole
<1>2. CASE Controller
  BY <1>2, ControllerObeysKeepsWhole, ControllerResetsKeepsWhole,
     ControllerClearsInboxKeepsWhole, ControllerClearsOutboxKeepsWhole,
     ControllerMarksReadyKeepsWhole, ControllerStartsHostKeepsWhole DEF Controller
<1>3. CASE CaptureWindow \/ HostReports
  BY <1>3, CaptureWindowKeepsWhole, HostReportsKeepsWhole
<1>4. CASE Loader
  BY <1>4, LoaderFindsKeepsWhole, LoaderSkipsKeepsWhole, LoaderReadsKeepsWhole,
     LoaderQueuesKeepsWhole DEF Loader
<1>5. CASE WorkerCycle
  <2>1. CASE WorkerPrunes
    <3>1. playback_status - Keep \in Int
      BY LivePipelineAssumption DEF IInv, TypeOK
    <3> QED BY <2>1, <3>1, PrunesKeepsWhole DEF WorkerPrunes
  <2> QED BY <1>5, <2>1, WorkerSyncsKeepsWhole, WorkerDiscoversKeepsWhole DEF WorkerCycle
<1>6. CASE WorkerChunk
  BY <1>6, WorkerSeparatesKeepsWhole, WorkerFallsBackKeepsWhole,
     WorkerPublishesStemKeepsWhole, WorkerChecksCaptureKeepsWhole, WorkerAnnouncesKeepsWhole,
     WorkerUnlinksKeepsWhole, WorkerAnnouncesNoneKeepsWhole, WorkerQuarantinesKeepsWhole
     DEF WorkerChunk
<1>7. CASE WorkerRestarts
  BY <1>7, WorkerRestartsKeepsWhole
<1>8. CASE UNCHANGED vars
  <2>1. UNCHANGED <<command, session, inbox, stems, controller, host, loader, worker, heard,
                    restarts>>
    BY <1>8 DEF vars
  <2>2. Commands' /\ Upwards' /\ BeenThrough' /\ LeftOver'
    BY <2>1 DEF WholeInv, Commands, Upwards, BeenThrough, LeftOver, Fresh, Emptied
  <2>3. OnePublication'
    BY <2>1 DEF WholeInv, OnePublication, Emptied
  <2>4. WholeRead' /\ WholeWindow'
    BY <2>1 DEF WholeInv, WholeRead, WholeWindow
  <2>5. Adoption'
    BY <2>1 DEF WholeInv, Adoption, Unadopted, Older, Fresh, Emptied
  <2> QED BY <2>2, <2>3, <2>4, <2>5 DEF WholeInv
<1> QED BY <1>1, <1>2, <1>3, <1>4, <1>5, <1>6, <1>7, <1>8 DEF Next

LEMMA WholeInitial == Init => WholeInv
<1> SUFFICES ASSUME Init PROVE WholeInv
  OBVIOUS
<1>1. /\ worker.phase = "sync" /\ worker.chunk = 0 /\ worker.done = {} /\ worker.applied = 0
      /\ worker.sound = NoSound
  BY DEF Init, FreshWorker
<1>2. \A n \in Windows, s \in Stems : stems[n][s] = NoSound
  BY DEF Init
<1>3. loader.phase = "probe" /\ \A s \in Stems : loader.read[s] = NoSound
  BY Down DEF Init
<1>4. command.sequence = 0 /\ session.sequence = 0 /\ controller.last = 0
  BY DEF Init
<1>5. WholeWindow
  BY DEF Init, WholeWindow
<1>6. Commands /\ Upwards
  BY <1>1, <1>4 DEF Commands, Upwards
<1>7. Adoption /\ BeenThrough /\ LeftOver
  BY <1>1, <1>2, <1>3 DEF Adoption, BeenThrough, LeftOver, Older, Fresh
<1>8. OnePublication /\ WholeRead
  BY <1>1, <1>2, <1>3 DEF OnePublication, WholeRead
<1> QED BY <1>5, <1>6, <1>7, <1>8 DEF WholeInv

\* While the worker is not restarted, every window that is queued is whole: its stems are of
\* one publication, for any number of commands and windows, and whichever of its windows
\* the worker gives up halfway.
THEOREM WholeWindows == Spec => []WholeWindow
<1>1. WholeInv => WholeWindow  BY DEF WholeInv
<1> QED BY <1>1, WholeInitial, WholeInductive, Invariance, PTL DEF Spec
=============================================================================
