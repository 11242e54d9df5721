------------------------ MODULE GpuReservationProofs ------------------------
(***************************************************************************)
(* Proofs about GpuReservation, for any number of pages and file threads,  *)
(* any capacity and any number of requests and restarts.                   *)
(***************************************************************************)
EXTENDS GpuReservation, FiniteSetTheorems, TLAPS

(* Who may hold a live reservation when the last word of a page is "stop": a stop that
   has written and not yet released, or a start that reserved and has not yet
   written.  The named part that makes NoLeakedReservation inductive. *)
Holder(p) == page[p].at = "stop" \/ (page[p].at = "start" /\ page[p].created)

HeldForAReason ==
    live_reserved /\ asked.last = "stop" => \E p \in Pages : Holder(p)

Askeds == [times : Nat, last : {"none", "start", "stop", "watch"}, together : BOOLEAN]
Controllers == [last : Nat, live : BOOLEAN, watch : BOOLEAN, settling : BOOLEAN]
Workers == [windows : BOOLEAN, inferring : BOOLEAN]

\* The words that open a session, and the behaviours LiveIsReserved speaks of.
Opens == {"start", "start_airplay"}
Calm == ~asked.together /\ player = 0 /\ restarts = 0

\* A session goes on with the controller's last word only if that word opened it.
LiveOnWord ==
    /\ player \in Nat /\ restarts \in Nat
    /\ controller.last <= command.sequence
    /\ controller.live /\ controller.last = command.sequence => command.action \in Opens

\* With one handler at a time, a word that opens a session is written under its reservation
\* and only a stop, which replaces that word first, takes it away.
OpenIsReserved ==
    Calm =>
        /\ \A p, q \in Pages : page[p].at # "idle" /\ page[q].at # "idle" => p = q
        /\ \A p \in Pages : page[p].at = "start" => live_reserved
        /\ \A p \in Pages : page[p].at = "stop" => command.action \notin Opens
        /\ command.action \in Opens =>
             live_reserved /\ \A p \in Pages : page[p].at = "start" => ~page[p].created

IInv == /\ TypeOK /\ FilesOrLive /\ TokenIsReservation /\ HeldForAReason
        /\ LiveOnWord /\ OpenIsReserved

-----------------------------------------------------------------------------
\* Only the threads of Files separate, and they are finitely many.
LEMMA SeparatingFinite == IsFiniteSet(Separating)
  BY GpuReservationAssumption, FS_Subset DEF Separating

\* A step that leaves the files and their count alone, and reserves nothing,
\* leaves the coordinator consistent.
LEMMA FilesUndisturbed ==
    ASSUME FilesOrLive, UNCHANGED <<file, file_tasks>>, live_reserved' => live_reserved
    PROVE  FilesOrLive'
  BY DEF FilesOrLive, Separating

-----------------------------------------------------------------------------
\* A handler that has returned is in a state of the type.
LEMMA IdleIsPageState == Idle \in PageState
  BY DEF Idle, PageState

\* Nothing is reserved, asked or running at the start.
LEMMA Begins == Init => IInv
  <1> SUFFICES ASSUME Init PROVE IInv
    OBVIOUS
  <1>1. Separating = {}
    BY DEF Init, Separating
  <1>2. Cardinality(Separating) = 0
    BY <1>1, FS_EmptySet
  <1>3. TypeOK
    <2>1. page \in [Pages -> PageState]
      BY IdleIsPageState DEF Init
    <2>2. file \in [Files -> FileState]
      BY DEF Init, FileState
    <2>3. command \in Command
      BY DEF Init, Command, Words
    <2>4. asked \in Askeds /\ controller \in Controllers /\ worker \in Workers
      BY DEF Init, Askeds, Controllers, Workers
    <2>5. live_reserved \in BOOLEAN /\ LIVE_RESERVATION \in BOOLEAN
      BY Zenon DEF Init
    <2>6. file_tasks \in 0..FileCapacity
      BY GpuReservationAssumption DEF Init
    <2>7. QED
      BY <2>1, <2>2, <2>3, <2>4, <2>5, <2>6 DEF TypeOK, Init, Askeds, Controllers, Workers
  <1>4. FilesOrLive /\ TokenIsReservation /\ HeldForAReason
    BY <1>1, <1>2 DEF Init, FilesOrLive, TokenIsReservation, HeldForAReason
  <1>5. LiveOnWord /\ OpenIsReserved
    BY DEF Init, LiveOnWord, OpenIsReserved, Opens, Idle
  <1>6. QED
    BY <1>3, <1>4, <1>5 DEF IInv

\* A written word is a command, whoever writes it.
LEMMA WrittenIsCommand ==
    ASSUME command \in Command, NEW a \in Words, NEW b \in BOOLEAN
    PROVE  Written(a, b) \in Command
  BY DEF Written, Command

\* Each action keeps the types; the count stays within the capacity because a
\* file reserves only below it.
LEMMA TypeKept == TypeOK /\ [Next]_vars => TypeOK'
  <1> SUFFICES ASSUME TypeOK, [Next]_vars PROVE TypeOK'
    OBVIOUS
  <1> USE GpuReservationAssumption DEF TypeOK, coordinator, windows, app
  <1>1. ASSUME NEW p \in Pages, StartReserves(p) PROVE TypeOK'
    <2>1. \E c \in BOOLEAN : page' = [page EXCEPT ![p] = [at |-> "start", created |-> c]]
      BY <1>1 DEF StartReserves
    <2>2. page' \in [Pages -> PageState]
      BY <2>1 DEF PageState
    <2>3. asked' \in Askeds
      <3>1. Called(asked.last)
        BY <1>1 DEF StartReserves
      <3>2. QED
        BY <3>1 DEF Called, Askeds
    <2>4. live_reserved' \in BOOLEAN /\ LIVE_RESERVATION' \in BOOLEAN
      BY <1>1, Zenon DEF StartReserves
    <2>5. QED
      BY <1>1, <2>2, <2>3, <2>4 DEF StartReserves, Askeds
  <1>2. ASSUME NEW p \in Pages, StartWrites(p) PROVE TypeOK'
    <2>1. command' \in Command
      <3>1. PICK a \in Starts : Writes(a)
        BY <1>2 DEF StartWrites
      <3>2. a \in Words
        BY <3>1 DEF Starts, Words
      <3>3. QED
        BY <3>1, <3>2, WrittenIsCommand DEF Writes
    <2>2. page' \in [Pages -> PageState]
      BY <1>2, IdleIsPageState DEF StartWrites
    <2>3. asked' \in Askeds
      BY <1>2 DEF StartWrites, Askeds
    <2>4. QED
      BY <1>2, <2>1, <2>2, <2>3 DEF StartWrites, Askeds
  <1>3. ASSUME NEW p \in Pages, StartFails(p) PROVE TypeOK'
    <2>1. page' \in [Pages -> PageState]
      BY <1>3, IdleIsPageState DEF StartFails
    <2>2. live_reserved' \in BOOLEAN /\ LIVE_RESERVATION' \in BOOLEAN
      BY <1>3, Zenon DEF StartFails
    <2>3. QED
      BY <1>3, <2>1, <2>2 DEF StartFails
  <1>4. ASSUME NEW p \in Pages, StopWrites(p) PROVE TypeOK'
    <2>1. command' \in Command
      BY <1>4, WrittenIsCommand DEF StopWrites, Writes, Words
    <2>2. page' \in [Pages -> PageState]
      BY <1>4 DEF StopWrites, Goto, PageState
    <2>3. asked' \in Askeds
      BY <1>4 DEF StopWrites, Called, Askeds
    <2>4. QED
      BY <1>4, <2>1, <2>2, <2>3 DEF StopWrites, Askeds
  <1>5. ASSUME NEW p \in Pages, StopReleases(p) PROVE TypeOK'
    <2>1. page' \in [Pages -> PageState]
      BY <1>5 DEF StopReleases, Goto, PageState
    <2>2. live_reserved' \in BOOLEAN /\ LIVE_RESERVATION' \in BOOLEAN
      BY <1>5, Zenon DEF StopReleases
    <2>3. QED
      BY <1>5, <2>1, <2>2 DEF StopReleases
  <1>6. ASSUME NEW p \in Pages, WatchWrites(p) PROVE TypeOK'
    <2>1. command' \in Command
      BY <1>6, WrittenIsCommand DEF WatchWrites, Writes, Words
    <2>2. asked' \in Askeds
      BY <1>6 DEF WatchWrites, Called, Askeds
    <2>3. QED
      BY <1>6, <2>1, <2>2 DEF WatchWrites, Askeds
  <1>7. ASSUME NEW f \in Files, FileChecks(f) PROVE TypeOK'
    BY <1>7 DEF FileChecks, FileState
  <1>8. ASSUME NEW f \in Files, FileReserves(f) PROVE TypeOK'
    <2>1. file' \in [Files -> FileState]
      BY <1>8 DEF FileReserves, FileState
    <2>2. file_tasks' \in 0..FileCapacity
      BY <1>8 DEF FileReserves, CanReserveFile
    <2>3. QED
      BY <1>8, <2>1, <2>2 DEF FileReserves
  <1>9. ASSUME NEW f \in Files, FileReleases(f) PROVE TypeOK'
    <2>1. file' \in [Files -> FileState]
      BY <1>9 DEF FileReleases, FileState
    <2>2. file_tasks' \in 0..FileCapacity
      BY <1>9 DEF FileReleases
    <2>3. QED
      BY <1>9, <2>1, <2>2 DEF FileReleases
  <1>10. ASSUME ControllerPolls PROVE TypeOK'
    <2>1. \E live, watch \in BOOLEAN : Obeys(live, watch)
      <3>1. (controller.watch /\ command.automatic) \in BOOLEAN
        BY Zenon
      <3>2. QED
        BY <1>10, <3>1, Zenon DEF ControllerPolls
    <2>2. controller' \in Controllers
      BY <2>1 DEF Obeys, Controllers, Command
    <2>3. QED
      BY <1>10, <2>2 DEF ControllerPolls, Controllers
  <1>11. ASSUME ControllerSettles PROVE TypeOK'
    <2>1. command' \in Command
      BY <1>11, WrittenIsCommand DEF ControllerSettles, Words
    <2>2. controller' \in Controllers
      BY <1>11 DEF ControllerSettles, Controllers
    <2>3. QED
      BY <1>11, <2>1, <2>2 DEF ControllerSettles, Controllers
  <1>12. ASSUME PlayerChanges PROVE TypeOK'
    <2>1. command' \in Command
      BY <1>12, WrittenIsCommand DEF PlayerChanges, Words
    <2>2. QED
      BY <1>12, <2>1 DEF PlayerChanges
  <1>13. ASSUME HostExits PROVE TypeOK'
    BY <1>13 DEF HostExits
  <1>14. ASSUME WindowArrives \/ WorkerInfers \/ WorkerFinishes PROVE TypeOK'
    <2>1. worker' \in Workers
      <3>1. CASE WindowArrives
        BY <3>1 DEF WindowArrives, Workers
      <3>2. CASE WorkerInfers
        BY <3>2 DEF WorkerInfers, Workers
      <3>3. CASE WorkerFinishes
        BY <3>3 DEF WorkerFinishes, Workers
      <3>4. QED
        BY <1>14, <3>1, <3>2, <3>3
    <2>2. QED
      BY <1>14, <2>1 DEF WindowArrives, WorkerInfers, WorkerFinishes, Workers
  <1>15. ASSUME AppRestarts PROVE TypeOK'
    <2>1. page' \in [Pages -> PageState]
      BY <1>15, IdleIsPageState DEF AppRestarts
    <2>2. file' \in [Files -> FileState] /\ file_tasks' \in 0..FileCapacity
      BY <1>15 DEF AppRestarts, FileState
    <2>3. live_reserved' \in BOOLEAN /\ LIVE_RESERVATION' \in BOOLEAN
      BY <1>15, Zenon DEF AppRestarts
    <2>4. worker' \in Workers
      BY <1>15 DEF AppRestarts, Workers
    <2>5. QED
      BY <1>15, <2>1, <2>2, <2>3, <2>4 DEF AppRestarts, Workers
  <1>16. ASSUME UNCHANGED vars PROVE TypeOK'
    BY <1>16 DEF vars
  <1>17. QED
    BY <1>1, <1>2, <1>3, <1>4, <1>5, <1>6, <1>7, <1>8, <1>9, <1>10, <1>11, <1>12,
       <1>13, <1>14, <1>15, <1>16
       DEF Next, Page, File, Windows

-----------------------------------------------------------------------------
\* The count is exact through every step of the threads that run files, and a
\* live reservation is made only while the count is zero.
LEMMA CountKept == TypeOK /\ FilesOrLive /\ [Next]_vars => FilesOrLive'
  <1> SUFFICES ASSUME TypeOK, FilesOrLive, [Next]_vars PROVE FilesOrLive'
    OBVIOUS
  <1> USE DEF coordinator, windows, app
  <1>1. ASSUME NEW p \in Pages, StartReserves(p) PROVE FilesOrLive'
    <2>1. Separating' = Separating /\ file_tasks' = file_tasks
      BY <1>1 DEF StartReserves, Separating
    <2>2. CASE live_reserved' = live_reserved
      BY <2>1, <2>2 DEF FilesOrLive
    <2>3. CASE CanReserveLive
      <3>1. Separating = {}
        BY <2>3, SeparatingFinite, FS_EmptySet DEF CanReserveLive, FilesOrLive
      <3>2. QED
        BY <2>1, <3>1 DEF FilesOrLive
    <2>4. QED
      BY <1>1, <2>2, <2>3 DEF StartReserves
  <1>2. ASSUME NEW p \in Pages,
               \/ StartWrites(p) \/ StartFails(p) \/ StopWrites(p)
               \/ StopReleases(p) \/ WatchWrites(p)
        PROVE  FilesOrLive'
    <2>1. UNCHANGED <<file, file_tasks>>
      BY <1>2 DEF StartWrites, StartFails, StopWrites, StopReleases, WatchWrites
    <2>2. live_reserved' => live_reserved
      <3>1. CASE StartFails(p)
        BY <3>1, Zenon DEF StartFails
      <3>2. CASE StopReleases(p)
        BY <3>2, Zenon DEF StopReleases
      <3>3. CASE StartWrites(p) \/ StopWrites(p) \/ WatchWrites(p)
        BY <3>3 DEF StartWrites, StopWrites, WatchWrites
      <3>4. QED
        BY <1>2, <3>1, <3>2, <3>3
    <2>3. QED
      BY <2>1, <2>2, FilesUndisturbed
  <1>3. ASSUME NEW f \in Files, FileChecks(f) PROVE FilesOrLive'
    <2>1. Separating' = Separating
      BY <1>3 DEF FileChecks, Separating, TypeOK
    <2>2. QED
      BY <1>3, <2>1 DEF FileChecks, FilesOrLive
  <1>4. ASSUME NEW f \in Files, FileReserves(f) PROVE FilesOrLive'
    <2>1. CASE CanReserveFile
      <3>1. f \notin Separating /\ Separating' = Separating \cup {f}
        BY <1>4, <2>1 DEF FileReserves, Separating, TypeOK
      <3>2. Cardinality(Separating') = Cardinality(Separating) + 1
        BY <3>1, SeparatingFinite, FS_AddElement
      <3>3. QED
        BY <1>4, <2>1, <3>2 DEF FileReserves, CanReserveFile, FilesOrLive
    <2>2. CASE ~CanReserveFile
      <3>1. Separating' = Separating
        BY <1>4, <2>2 DEF FileReserves, Separating, TypeOK
      <3>2. QED
        BY <1>4, <2>2, <3>1 DEF FileReserves, FilesOrLive
    <2>3. QED
      BY <2>1, <2>2
  <1>5. ASSUME NEW f \in Files, FileReleases(f) PROVE FilesOrLive'
    <2>1. f \in Separating /\ Separating' = Separating \ {f}
      BY <1>5 DEF FileReleases, Separating, TypeOK
    <2>2. Cardinality(Separating') = Cardinality(Separating) - 1
      BY <2>1, SeparatingFinite, FS_RemoveElement
    <2>3. Cardinality(Separating) # 0
      BY <2>1, SeparatingFinite, FS_EmptySet
    <2>4. file_tasks' = file_tasks - 1
      BY <1>5, <2>3 DEF FileReleases, FilesOrLive, TypeOK
    <2>5. QED
      BY <1>5, <2>1, <2>2, <2>4 DEF FileReleases, FilesOrLive
  <1>6. ASSUME Windows PROVE FilesOrLive'
    <2>1. UNCHANGED <<file, file_tasks, live_reserved>>
      BY <1>6 DEF Windows, ControllerPolls, ControllerSettles, PlayerChanges, HostExits, WindowArrives,
                  WorkerInfers, WorkerFinishes
    <2>2. QED
      BY <2>1, FilesUndisturbed
  <1>7. ASSUME AppRestarts PROVE FilesOrLive'
    <2>1. Separating' = {}
      BY <1>7 DEF AppRestarts, Separating
    <2>2. QED
      BY <1>7, <2>1, FS_EmptySet DEF AppRestarts, FilesOrLive
  <1>8. ASSUME UNCHANGED vars PROVE FilesOrLive'
    BY <1>8, FilesUndisturbed DEF vars
  <1>9. QED
    BY <1>1, <1>2, <1>3, <1>4, <1>5, <1>6, <1>7, <1>8 DEF Next, Page, File

\* The token and the coordinator's flag change together, in one critical section.
LEMMA TokenKept == TypeOK /\ TokenIsReservation /\ [Next]_vars => TokenIsReservation'
  <1> SUFFICES ASSUME TypeOK, TokenIsReservation, [Next]_vars PROVE TokenIsReservation'
    OBVIOUS
  <1> USE DEF TokenIsReservation, coordinator, windows, app
  <1>1. ASSUME NEW p \in Pages, StartReserves(p) PROVE TokenIsReservation'
    BY <1>1, Zenon DEF StartReserves
  <1>2. ASSUME NEW p \in Pages, StartFails(p) PROVE TokenIsReservation'
    BY <1>2, Zenon DEF StartFails
  <1>3. ASSUME NEW p \in Pages, StopReleases(p) PROVE TokenIsReservation'
    <2>1. live_reserved' = FALSE
      BY <1>3, Zenon DEF StopReleases, TypeOK
    <2>2. QED
      BY <1>3, <2>1, Zenon DEF StopReleases
  <1>4. ASSUME NEW p \in Pages, StartWrites(p) \/ StopWrites(p) \/ WatchWrites(p)
        PROVE  TokenIsReservation'
    BY <1>4 DEF StartWrites, StopWrites, WatchWrites
  <1>5. ASSUME NEW f \in Files, File(f) PROVE TokenIsReservation'
    BY <1>5 DEF File, FileChecks, FileReserves, FileReleases
  <1>6. ASSUME Windows PROVE TokenIsReservation'
    BY <1>6 DEF Windows, ControllerPolls, ControllerSettles, PlayerChanges, HostExits, WindowArrives,
               WorkerInfers, WorkerFinishes
  <1>7. ASSUME AppRestarts PROVE TokenIsReservation'
    BY <1>7, Zenon DEF AppRestarts
  <1>8. ASSUME UNCHANGED vars PROVE TokenIsReservation'
    BY <1>8 DEF vars
  <1>9. QED
    BY <1>1, <1>2, <1>3, <1>4, <1>5, <1>6, <1>7, <1>8 DEF Next, Page

\* A step that keeps the pages, their last word and the flag keeps the reason.
LEMMA HeldUndisturbed ==
    ASSUME HeldForAReason, UNCHANGED <<page, asked, live_reserved>>
    PROVE  HeldForAReason'
  BY DEF HeldForAReason, Holder

\* Once the last word is "stop", a reservation is held only by a handler that is
\* about to give it back or to write a new word.
LEMMA HeldKept ==
    TypeOK /\ TokenIsReservation /\ HeldForAReason /\ [Next]_vars => HeldForAReason'
  <1> SUFFICES ASSUME TypeOK, TokenIsReservation, HeldForAReason, [Next]_vars,
                      live_reserved', asked'.last = "stop"
               PROVE  \E q \in Pages : Holder(q)'
    BY DEF HeldForAReason
  <1> USE DEF coordinator, windows, app
  <1>1. ASSUME NEW p \in Pages, StartReserves(p) PROVE \E q \in Pages : Holder(q)'
    <2>1. CASE page' = [page EXCEPT ![p] = [at |-> "start", created |-> TRUE]]
      <3>1. Holder(p)'
        BY <2>1 DEF Holder, TypeOK
      <3>2. QED
        BY <3>1
    <2>2. CASE LIVE_RESERVATION /\ page' = [page EXCEPT ![p] = [at |-> "start",
                                                               created |-> FALSE]]
      <3>1. asked.last = "stop"
        <4>1. Called(asked.last)
          BY <1>1 DEF StartReserves
        <4>2. QED
          BY <4>1 DEF Called, TypeOK
      <3>2. PICK q \in Pages : Holder(q)
        BY <2>2, <3>1 DEF HeldForAReason, TokenIsReservation
      <3>3. q # p
        BY <1>1, <3>2 DEF StartReserves, Holder
      <3>4. Holder(q)'
        BY <2>2, <3>2, <3>3 DEF Holder, TypeOK
      <3>5. QED
        BY <3>4
    <2>3. QED
      BY <1>1, <2>1, <2>2 DEF StartReserves
  <1>2. ASSUME NEW p \in Pages, StartWrites(p) PROVE FALSE
    BY <1>2 DEF StartWrites, TypeOK
  <1>3. ASSUME NEW p \in Pages, StartFails(p) PROVE \E q \in Pages : Holder(q)'
    <2>1. live_reserved /\ asked.last = "stop" /\ ~(page[p].created /\ LIVE_RESERVATION)
      BY <1>3 DEF StartFails
    <2>2. PICK q \in Pages : Holder(q)
      BY <2>1 DEF HeldForAReason
    <2>3. q # p
      BY <1>3, <2>1, <2>2 DEF StartFails, Holder, TokenIsReservation
    <2>4. Holder(q)'
      BY <1>3, <2>2, <2>3 DEF StartFails, Holder, TypeOK
    <2>5. QED
      BY <2>4
  <1>4. ASSUME NEW p \in Pages, StopWrites(p) PROVE \E q \in Pages : Holder(q)'
    <2>1. Holder(p)'
      BY <1>4 DEF StopWrites, Goto, Holder, TypeOK, PageState
    <2>2. QED
      BY <2>1
  <1>5. ASSUME NEW p \in Pages, StopReleases(p) PROVE FALSE
    BY <1>5 DEF StopReleases, TokenIsReservation
  <1>6. ASSUME NEW p \in Pages, WatchWrites(p) PROVE FALSE
    BY <1>6 DEF WatchWrites, Called
  <1>7. ASSUME \/ (\E f \in Files : File(f)) \/ Windows \/ UNCHANGED vars
        PROVE  \E q \in Pages : Holder(q)'
    <2>1. UNCHANGED <<page, asked, live_reserved>>
      BY <1>7 DEF File, FileChecks, FileReserves, FileReleases, Windows,
                 ControllerPolls, ControllerSettles, PlayerChanges, HostExits, WindowArrives,
                 WorkerInfers, WorkerFinishes, vars
    <2>2. HeldForAReason'
      BY <2>1, HeldUndisturbed
    <2>3. QED
      BY <2>2 DEF HeldForAReason
  <1>8. ASSUME AppRestarts PROVE FALSE
    BY <1>8 DEF AppRestarts
  <1>9. QED
    BY <1>1, <1>2, <1>3, <1>4, <1>5, <1>6, <1>7, <1>8 DEF Next, Page

\* The controller opens a session only on a word that says so, and a newer word is one it
\* has not obeyed.
LEMMA WordKept == TypeOK /\ LiveOnWord /\ [Next]_vars => LiveOnWord'
  <1> SUFFICES ASSUME TypeOK, LiveOnWord, [Next]_vars PROVE LiveOnWord'
    OBVIOUS
  <1> USE DEF coordinator, windows, app
  <1>1. command.sequence \in Nat /\ controller.last \in Nat
    BY DEF TypeOK, Command
  <1>2. ASSUME NEW a \in Words, NEW b \in BOOLEAN, command' = Written(a, b),
               controller'.last = controller.last,
               player' \in Nat, restarts' \in Nat
        PROVE  LiveOnWord'
    <2>1. command'.sequence = command.sequence + 1
      BY <1>2 DEF Written
    <2>2. QED
      BY <1>1, <1>2, <2>1 DEF LiveOnWord
  <1>3. ASSUME NEW p \in Pages, StartWrites(p) PROVE LiveOnWord'
    <2>1. PICK a \in Starts : Writes(a)
      BY <1>3 DEF StartWrites
    <2>2. a \in Words /\ command' = Written(a, FALSE)
      BY <2>1 DEF Starts, Words, Writes
    <2>3. QED
      BY <1>2, <1>3, <2>2 DEF StartWrites, LiveOnWord
  <1>4. ASSUME NEW p \in Pages, StopWrites(p) \/ WatchWrites(p) PROVE LiveOnWord'
    BY <1>2, <1>4 DEF StopWrites, WatchWrites, Writes, Words, LiveOnWord
  <1>5. ASSUME ControllerSettles PROVE LiveOnWord'
    <2>1. controller'.last = controller.last
      BY <1>5 DEF ControllerSettles, TypeOK
    <2>2. QED
      BY <1>2, <1>5, <2>1 DEF ControllerSettles, Words, LiveOnWord
  <1>6. ASSUME PlayerChanges PROVE LiveOnWord'
    <2>1. \E a \in Words : command' = Written(a, TRUE)
      BY <1>6 DEF PlayerChanges, Words
    <2>2. player' \in Nat /\ restarts' \in Nat /\ controller'.last = controller.last
      BY <1>6 DEF PlayerChanges, LiveOnWord
    <2>3. QED
      BY <1>2, <2>1, <2>2
  <1>7. ASSUME ControllerPolls PROVE LiveOnWord'
    <2>1. controller'.last = command.sequence /\ command' = command
      BY <1>7 DEF ControllerPolls, Obeys
    <2>2. controller'.live => command.action \in Opens
      BY <1>7 DEF ControllerPolls, Obeys, Opens
    <2>3. QED
      BY <1>1, <1>7, <2>1, <2>2 DEF ControllerPolls, LiveOnWord
  <1>8. ASSUME HostExits PROVE LiveOnWord'
    BY <1>8 DEF HostExits, LiveOnWord, TypeOK
  <1>9. ASSUME AppRestarts PROVE LiveOnWord'
    BY <1>9 DEF AppRestarts, LiveOnWord
  <1>10. ASSUME \/ \E p \in Pages : StartReserves(p) \/ StartFails(p) \/ StopReleases(p)
                \/ \E f \in Files : File(f)
                \/ WindowArrives \/ WorkerInfers \/ WorkerFinishes \/ UNCHANGED vars
         PROVE  LiveOnWord'
    <2>1. UNCHANGED <<command, controller, player, restarts>>
      BY <1>10 DEF StartReserves, StartFails, StopReleases, File, FileChecks, FileReserves,
                   FileReleases, WindowArrives, WorkerInfers, WorkerFinishes, vars
    <2>2. QED
      BY <2>1 DEF LiveOnWord
  <1>11. QED
    BY <1>3, <1>4, <1>5, <1>6, <1>7, <1>8, <1>9, <1>10 DEF Next, Page, Windows

\* One handler at a time keeps a word that opens a session and its reservation together.
LEMMA OpenKept ==
    TypeOK /\ TokenIsReservation /\ LiveOnWord /\ OpenIsReserved /\ [Next]_vars
        => OpenIsReserved'
  <1> SUFFICES ASSUME TypeOK, TokenIsReservation, LiveOnWord, OpenIsReserved, [Next]_vars, Calm'
               PROVE  OpenIsReserved'
    BY DEF OpenIsReserved
  <1> USE DEF coordinator, windows, app
  <1>1. ASSUME NEW p \in Pages, NEW last, Called(last), UNCHANGED <<player, restarts>>
        PROVE  Calm /\ AllIdle
    <2>1. asked'.together = (asked.together \/ ~AllIdle)
      BY <1>1 DEF Called
    <2>2. QED
      BY <1>1, <2>1 DEF Calm
  <1>2. ASSUME NEW p \in Pages, StartReserves(p) PROVE OpenIsReserved'
    <2>1. Calm /\ AllIdle
      BY <1>1, <1>2 DEF StartReserves
    <2>2. command' = command /\ live_reserved'
      BY <1>2 DEF StartReserves, TokenIsReservation, TypeOK
    <2>3. \A q \in Pages : q # p => page'[q].at = "idle"
      BY <1>2, <2>1 DEF StartReserves, AllIdle, TypeOK
    <2>4. page'[p].at = "start"
      BY <1>2 DEF StartReserves, TypeOK
    <2>5. command.action \in Opens => ~page'[p].created
      <3>1. command.action \in Opens => LIVE_RESERVATION
        BY <2>1 DEF OpenIsReserved, TokenIsReservation
      <3>2. LIVE_RESERVATION => ~page'[p].created
        BY <1>2 DEF StartReserves, TypeOK
      <3>3. QED
        BY <3>1, <3>2
    <2>6. QED
      BY <2>2, <2>3, <2>4, <2>5 DEF OpenIsReserved
  <1>3. ASSUME NEW p \in Pages, StartWrites(p) PROVE OpenIsReserved'
    <2>1. Calm
      BY <1>3 DEF StartWrites, Calm, TypeOK
    <2>2. live_reserved' /\ \A q \in Pages : q # p => page[q].at = "idle"
      BY <1>3, <2>1 DEF StartWrites, OpenIsReserved
    <2>3. \A q \in Pages : page'[q].at = "idle"
      BY <1>3, <2>2 DEF StartWrites, Idle, TypeOK
    <2>4. QED
      BY <2>2, <2>3 DEF OpenIsReserved
  <1>4. ASSUME NEW p \in Pages, StartFails(p) PROVE OpenIsReserved'
    <2>1. Calm /\ command' = command
      BY <1>4 DEF StartFails, Calm
    <2>2. \A q \in Pages : page'[q].at = "idle"
      BY <1>4, <2>1 DEF StartFails, OpenIsReserved, Idle, TypeOK
    <2>3. command.action \in Opens => live_reserved'
      <3>1. command.action \in Opens => live_reserved /\ ~page[p].created
        BY <1>4, <2>1 DEF StartFails, OpenIsReserved
      <3>2. QED
        BY <1>4, <3>1 DEF StartFails
    <2>4. QED
      BY <2>1, <2>2, <2>3 DEF OpenIsReserved
  <1>5. ASSUME NEW p \in Pages, StopWrites(p) PROVE OpenIsReserved'
    <2>1. Calm /\ AllIdle
      BY <1>1, <1>5 DEF StopWrites
    <2>2. command'.action \notin Opens
      BY <1>5 DEF StopWrites, Writes, Written, Opens
    <2>3. \A q \in Pages : q # p => page'[q].at = "idle"
      BY <1>5, <2>1 DEF StopWrites, Goto, AllIdle, TypeOK
    <2>4. page'[p].at = "stop"
      BY <1>5 DEF StopWrites, Goto, TypeOK, PageState
    <2>5. QED
      BY <2>2, <2>3, <2>4 DEF OpenIsReserved
  <1>6. ASSUME NEW p \in Pages, StopReleases(p) PROVE OpenIsReserved'
    <2>1. Calm /\ command' = command
      BY <1>6 DEF StopReleases, Calm
    <2>2. \A q \in Pages : page'[q].at = "idle"
      BY <1>6, <2>1 DEF StopReleases, Goto, OpenIsReserved, TypeOK, PageState
    <2>3. command.action \notin Opens
      BY <1>6, <2>1 DEF StopReleases, OpenIsReserved
    <2>4. QED
      BY <2>1, <2>2, <2>3 DEF OpenIsReserved
  <1>7. ASSUME NEW p \in Pages, WatchWrites(p) PROVE OpenIsReserved'
    <2>1. Calm /\ AllIdle
      BY <1>1, <1>7 DEF WatchWrites
    <2>2. command'.action \notin Opens
      BY <1>7 DEF WatchWrites, Writes, Written, Opens
    <2>3. QED
      BY <1>7, <2>1, <2>2 DEF WatchWrites, OpenIsReserved, AllIdle
  <1>8. ASSUME ControllerSettles PROVE OpenIsReserved'
    <2>1. Calm /\ UNCHANGED <<page, live_reserved>>
      BY <1>8 DEF ControllerSettles, Calm
    <2>2. command'.action \notin Opens
      BY <1>8 DEF ControllerSettles, Written, Opens
    <2>3. QED
      BY <2>1, <2>2 DEF OpenIsReserved
  <1>9. ASSUME PlayerChanges PROVE FALSE
    BY <1>9 DEF PlayerChanges, Calm, LiveOnWord
  <1>10. ASSUME AppRestarts PROVE FALSE
    BY <1>10 DEF AppRestarts, Calm, LiveOnWord
  <1>11. ASSUME \/ \E f \in Files : File(f)
                \/ ControllerPolls \/ HostExits \/ WindowArrives \/ WorkerInfers \/ WorkerFinishes
                \/ UNCHANGED vars
         PROVE  OpenIsReserved'
    <2>1. UNCHANGED <<page, live_reserved, command, asked, player, restarts>>
      BY <1>11 DEF File, FileChecks, FileReserves, FileReleases, ControllerPolls, HostExits,
                   WindowArrives, WorkerInfers, WorkerFinishes, vars
    <2>2. QED
      BY <2>1 DEF OpenIsReserved, Calm
  <1>12. QED
    BY <1>2, <1>3, <1>4, <1>5, <1>6, <1>7, <1>8, <1>9, <1>10, <1>11 DEF Next, Page, Windows

-----------------------------------------------------------------------------
\* Every reachable state of the coordinator, its handlers and its files
\* satisfies the inductive invariant.
THEOREM Invariance == Spec => []IInv
  <1>1. Init => IInv
    BY Begins
  <1>2. IInv /\ [Next]_vars => IInv'
    BY TypeKept, CountKept, TokenKept, HeldKept, WordKept, OpenKept DEF IInv
  <1>3. QED
    BY <1>1, <1>2, PTL DEF Spec

\* Types, and with them the capacity of the hardware tier: however many threads
\* call run_separation, no more than FileCapacity are let through.
THEOREM TypeCorrect == Spec => []TypeOK
  <1>1. IInv => TypeOK
    BY DEF IInv
  <1>2. QED
    BY <1>1, Invariance, PTL

\* GpuWorkCoordinator counts exactly the files that are separating, and none is
\* while the GPU is reserved for a live session.
THEOREM FilesExcludeLive == Spec => []FilesOrLive
  <1>1. IInv => FilesOrLive
    BY DEF IInv
  <1>2. QED
    BY <1>1, Invariance, PTL

\* The app's token (_LIVE_RESERVATION) is held exactly when the coordinator is
\* reserved.
THEOREM TokenCorrect == Spec => []TokenIsReservation
  <1>1. IInv => TokenIsReservation
    BY DEF IInv
  <1>2. QED
    BY <1>1, Invariance, PTL

\* However starts, failed starts, joined starts and stops of any number of pages
\* overlap, a session whose last word is "stop" leaves no reservation behind.
THEOREM NothingLeaks == Spec => []NoLeakedReservation
  <1>1. IInv => NoLeakedReservation
    BY DEF IInv, HeldForAReason, Holder, NoLeakedReservation, AllIdle
  <1>2. QED
    BY <1>1, Invariance, PTL

\* As long as handlers do not overlap, the app lives and the controller writes no word of
\* its own, a session that plays is reserved, whatever starts and stops fail or are joined.
THEOREM PlayingIsReserved == Spec => []LiveIsReserved
  <1>1. IInv => LiveIsReserved
    BY DEF IInv, LiveOnWord, OpenIsReserved, Calm, LiveIsReserved
  <1>2. QED
    BY <1>1, Invariance, PTL
=============================================================================
