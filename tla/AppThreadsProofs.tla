-------------------------- MODULE AppThreadsProofs --------------------------
(***************************************************************************)
(* Proofs about the two services that run as threads of the app and follow *)
(* what the host and the worker write.  Acceptance, for every set of       *)
(* counters and every bound: a pass is clean and earned, a pause costs     *)
(* nothing, a failure is final.  Lyrics, for every provider, every number  *)
(* of tracks, faults and restarts: shown lyrics belong to the track, and   *)
(* failed lookups are retried in time only.                                *)
(***************************************************************************)
EXTENDS Acceptance, Lyrics, TLAPS

-----------------------------------------------------------------------------
(* Acceptance.                                                               *)

\* While a segment is open, the last sample's counters differ from those on disk
\* only by what happened since, or by a host that was replaced since.
Tracked ==
    rec.open =>
        /\ rec.active
        /\ \A c \in Continuity :
             /\ ~replaced => playback.count[c] >= rec.previous[c]
             /\ ~replaced /\ c \in pending => playback.count[c] > rec.previous[c]
             /\ ~replaced /\ c \notin pending => playback.count[c] = rec.previous[c]
             /\ c \notin rec.resetSeen => rec.previous[c] = rec.top[c]
        /\ \A c \in Counted : rec.base[c] <= rec.top[c]

\* Interruptions are pending only under the host that counted them.
PendingIsCounted == replaced => pending = {}

\* What a sample charges is exactly what was heard, or the replacement of the host.
HeardIsCharged ==
    \A c \in Continuity :
        /\ c \in heard => Delta(rec, c) > 0 \/ c \in rec.resetSeen
        /\ Delta(rec, c) # 0 \/ c \in rec.resetSeen => c \in heard \/ cut

\* Growth over the initial counts was published under this recorder.
GrowthIsMine ==
    /\ rec.started =>
         /\ worker.misses >= rec.initial.misses /\ worker.hits >= rec.initial.hits
         /\ worker.misses > rec.initial.misses => "miss" \in mine
         /\ worker.hits > rec.initial.hits /\ worker.songHit => "song" \in mine
    /\ "misses" \in rec.grown => "miss" \in mine
    /\ rec.songHit => "song" \in mine

IInv == TypeOK /\ Tracked /\ PendingIsCounted /\ HeardIsCharged /\ GrowthIsMine

LEMMA LargerNat ==
    ASSUME NEW a \in Nat, NEW b \in Nat
    PROVE  Larger(a, b) \in Nat /\ Larger(a, b) >= a /\ Larger(a, b) >= b
           /\ (Larger(a, b) = a \/ Larger(a, b) = b)
BY DEF Larger

(***************************************************************************)
(* What one observation does to the recorder.                              *)
(***************************************************************************)
LEMMA Noted ==
    ASSUME NEW r \in RecorderState, NEW first \in WorkerState, NEW a \in BOOLEAN,
           NEW b \in SUBSET {"captured", "hits", "misses"}, NEW s \in BOOLEAN, NEW h \in BOOLEAN
    PROVE  [r EXCEPT !.started = TRUE, !.initial = first, !.streamed = a, !.grown = b,
                     !.songs = s, !.songHit = h] \in RecorderState
BY DEF RecorderState

LEMMA NoteWindowsLemma ==
    ASSUME TypeOK, NEW r \in RecorderState
    PROVE  LET n == NoteWindows(r)
           IN /\ n \in RecorderState
              /\ n.started
              /\ n.initial = IF r.started THEN r.initial ELSE worker
              /\ n.grown = r.grown \cup {k \in {"captured", "hits", "misses"} :
                                           worker[k] > n.initial[k]}
              /\ n.songHit = (r.songHit \/ (worker.songHit /\ worker.hits > n.initial.hits))
              /\ n.open = r.open /\ n.active = r.active /\ n.base = r.base /\ n.top = r.top
              /\ n.done = r.done /\ n.previous = r.previous /\ n.resetSeen = r.resetSeen
              /\ n.recovering = r.recovering /\ n.slow = r.slow
<1> DEFINE first == IF r.started THEN r.initial ELSE worker
           n == NoteWindows(r)
<1>1. first \in WorkerState /\ worker \in WorkerState /\ stream \in BOOLEAN
  BY DEF TypeOK, RecorderState
<1>2. /\ n.started /\ n.initial = first
      /\ n.grown = r.grown \cup {k \in {"captured", "hits", "misses"} : worker[k] > first[k]}
      /\ n.open = r.open /\ n.active = r.active /\ n.base = r.base /\ n.top = r.top
      /\ n.done = r.done /\ n.previous = r.previous /\ n.resetSeen = r.resetSeen
      /\ n.recovering = r.recovering /\ n.slow = r.slow
  BY DEF NoteWindows, RecorderState
<1>3. n.songHit = (r.songHit \/ (worker.songHit /\ worker.hits > first.hits))
  BY DEF NoteWindows, RecorderState
<1>4. n \in RecorderState
  <2> DEFINE a == r.streamed \/ stream
             b == r.grown \cup {k \in {"captured", "hits", "misses"} : worker[k] > first[k]}
             h == r.songHit \/ (worker.songHit /\ worker.hits > first.hits)
  <2>1. n = [r EXCEPT !.started = TRUE, !.initial = first, !.streamed = a, !.grown = b,
                      !.songs = SongsCached, !.songHit = h]
    BY DEF NoteWindows
  <2>2. a \in BOOLEAN /\ h \in BOOLEAN /\ SongsCached \in BOOLEAN
    BY DEF SongsCached
  <2>3. b \in SUBSET {"captured", "hits", "misses"}
    BY DEF RecorderState
  <2> HIDE DEF a, b, h, n, first
  <2> QED  BY <1>1, <2>1, <2>2, <2>3, Noted
<1> QED  BY <1>2, <1>3, <1>4

LEMMA FollowTail ==
    ASSUME TypeOK, NEW r \in RecorderState
    PROVE  LET f == FollowSegment(r)
           IN /\ f.started = r.started /\ f.initial = r.initial /\ f.grown = r.grown
              /\ f.songHit = r.songHit /\ f.songs = r.songs /\ f.streamed = r.streamed
BY DEF TypeOK, RecorderState, FollowSegment, Continue, Open, Close

LEMMA FollowContinues ==
    ASSUME TypeOK, NEW r \in RecorderState, Active, r.open
    PROVE  LET f == FollowSegment(r)
           IN /\ f \in RecorderState
              /\ f.open /\ f.active = r.active /\ f.base = r.base /\ f.done = r.done
              /\ f.top = [c \in Counted |-> Larger(r.top[c], playback.count[c])]
              /\ f.previous = playback.count
              /\ f.resetSeen = r.resetSeen \cup
                                {c \in Continuity : playback.count[c] < r.previous[c]}
              /\ f.recovering = (r.recovering \/ Recovering)
              /\ r.slow => f.slow
<1>1. [c \in Counted |-> Larger(r.top[c], playback.count[c])] \in Count
  BY LargerNat DEF TypeOK, RecorderState, Count
<1> QED  BY <1>1 DEF TypeOK, RecorderState, FollowSegment, Continue, Open, Recovering

LEMMA FollowKeepsFlags ==
    ASSUME TypeOK, NEW r \in RecorderState, Active, r.open
    PROVE  LET f == FollowSegment(r)
           IN (r.recovering => f.recovering) /\ (r.slow => f.slow)
BY DEF TypeOK, RecorderState, FollowSegment, Continue, Open, Recovering

LEMMA FollowOpens ==
    ASSUME TypeOK, NEW r \in RecorderState, Active, ~r.open
    PROVE  LET f == FollowSegment(r)
           IN /\ f \in RecorderState
              /\ f.open /\ f.active /\ f.done = r.done
              /\ f.base = playback.count /\ f.top = playback.count
              /\ f.previous = playback.count
              /\ f.resetSeen = r.resetSeen
              /\ f.recovering = (r.recovering \/ Recovering)
              /\ r.slow => f.slow
BY DEF TypeOK, RecorderState, FollowSegment, Continue, Open, Recovering

LEMMA FollowCloses ==
    ASSUME TypeOK, NEW r \in RecorderState, ~Active, r.open,
           \A c \in Counted : r.base[c] <= r.top[c]
    PROVE  LET f == FollowSegment(r)
           IN /\ f \in RecorderState
              /\ ~f.open /\ f.active = r.active
              /\ f.done = [c \in Counted |-> r.done[c] + (r.top[c] - r.base[c])]
              /\ f.resetSeen = r.resetSeen
              /\ f.recovering = r.recovering
              /\ r.slow => f.slow
<1>1. [c \in Counted |-> r.done[c] + (r.top[c] - r.base[c])] \in Count
  BY DEF TypeOK, RecorderState, Count
<1>2. Zeros \in Count
  BY DEF Zeros, Count
<1> QED  BY <1>1, <1>2 DEF TypeOK, RecorderState, FollowSegment, Close

LEMMA FollowIdle ==
    ASSUME NEW r \in RecorderState, ~Active, ~r.open
    PROVE  FollowSegment(r) = r
BY DEF FollowSegment

(***************************************************************************)
(* The invariant.                                                          *)
(***************************************************************************)
LEMMA NewRecorderType ==
    /\ NewRecorder \in RecorderState
    /\ ~NewRecorder.open /\ ~NewRecorder.started /\ ~NewRecorder.songHit
    /\ NewRecorder.grown = {} /\ NewRecorder.resetSeen = {}
    /\ \A c \in Counted : NewRecorder.done[c] = 0
<1>1. FreshWorker \in WorkerState /\ Zeros \in Count
  BY DEF FreshWorker, WorkerState, Zeros, Count
<1> QED  BY <1>1 DEF NewRecorder, RecorderState, Zeros

LEMMA InitInv == Init => IInv
<1> SUFFICES ASSUME Init PROVE IInv
  OBVIOUS
<1>1. TypeOK
  <2>1. [c \in Counted |-> 0] \in Count /\ [c \in Counted |-> MaxEvents] \in Count
    BY BoundsAssumption DEF Count
  <2>2. playback \in [state : States, slow : BOOLEAN, count : Count]
    BY <2>1 DEF Init, FreshPlayback, States
  <2>3. worker \in WorkerState
    BY DEF Init, FreshWorker, WorkerState
  <2>4. rec \in RecorderState
    BY NewRecorderType DEF Init
  <2>5. command \in [sequence : Nat, action : Actions]
    BY DEF Init, Actions
  <2> QED  BY <2>2, <2>3, <2>4, <2>5 DEF Init, TypeOK
<1>2. Tracked /\ PendingIsCounted /\ GrowthIsMine
  BY NewRecorderType DEF Init, Tracked, PendingIsCounted, GrowthIsMine
<1>3. HeardIsCharged
  BY NewRecorderType, ContinuityAssumption DEF Init, HeardIsCharged, Delta, Counted
<1> QED  BY <1>1, <1>2, <1>3 DEF IInv

LEMMA SampleInv == IInv /\ Sample => IInv'
<1> SUFFICES ASSUME IInv, Sample PROVE IInv'
  OBVIOUS
<1> DEFINE fresh == command.sequence # known /\ command.action # "open_audio_settings"
           cur == IF fresh THEN NewRecorder ELSE rec
           n == NoteWindows(cur)
           between == cur.open /\ Active
           heard0 == IF fresh THEN {} ELSE heard
           cut0 == ~fresh /\ cut
<1>0. TypeOK /\ Tracked /\ PendingIsCounted /\ HeardIsCharged /\ GrowthIsMine
  BY DEF IInv
<1>s. /\ known' = command.sequence
      /\ rec' = FollowSegment(n)
      /\ heard' = heard0 \cup (IF between THEN pending ELSE {})
      /\ lost' = (IF fresh THEN {} ELSE lost) \cup (IF between THEN gone ELSE {})
      /\ cut' = (cut0 \/ (between /\ replaced))
      /\ pending' = {} /\ gone' = {} /\ replaced' = FALSE
      /\ mine' = (IF fresh THEN {} ELSE mine)
      /\ UNCHANGED <<command, obeyed, alive, playback, stream, worker, events, changes>>
  BY DEF Sample, Observe, host
<1>1. cur \in RecorderState /\ (cur.open => ~fresh /\ cur = rec)
  BY <1>0, NewRecorderType DEF TypeOK
<1>2. /\ n \in RecorderState /\ n.started
      /\ n.initial = (IF cur.started THEN cur.initial ELSE worker)
      /\ n.grown = cur.grown \cup {k \in {"captured", "hits", "misses"} : worker[k] > n.initial[k]}
      /\ n.songHit = (cur.songHit \/ (worker.songHit /\ worker.hits > n.initial.hits))
      /\ n.open = cur.open /\ n.active = cur.active /\ n.base = cur.base /\ n.top = cur.top
      /\ n.done = cur.done /\ n.previous = cur.previous /\ n.resetSeen = cur.resetSeen
  BY <1>0, <1>1, NoteWindowsLemma
<1>c. Continuity \subseteq Counted
  BY DEF Counted
<1>3. /\ \A c \in Continuity : c \in heard0 => Delta(cur, c) > 0 \/ c \in cur.resetSeen
      /\ \A c \in Continuity : Delta(cur, c) # 0 \/ c \in cur.resetSeen => c \in heard0 \/ cut0
  BY <1>0, <1>c, NewRecorderType DEF HeardIsCharged, Delta
<1>4. \A c \in Counted : /\ cur.done[c] \in Nat /\ cur.base[c] \in Nat /\ cur.top[c] \in Nat
                         /\ cur.previous[c] \in Nat /\ playback.count[c] \in Nat
  BY <1>0, <1>1 DEF TypeOK, RecorderState, Count
<1>5. cur.open => /\ cur.active
                  /\ \A c \in Counted : cur.base[c] <= cur.top[c]
                  /\ \A c \in Continuity :
                       /\ ~replaced /\ c \in pending => playback.count[c] > cur.previous[c]
                       /\ ~replaced /\ c \notin pending => playback.count[c] = cur.previous[c]
                       /\ c \notin cur.resetSeen => cur.previous[c] = cur.top[c]
  BY <1>0, <1>1 DEF Tracked
<1>6. rec'.started = n.started /\ rec'.initial = n.initial /\ rec'.grown = n.grown
      /\ rec'.songHit = n.songHit
  BY <1>0, <1>2, <1>s, FollowTail
<1>7. GrowthIsMine'
  <2>1. /\ cur.started =>
             /\ worker.misses >= cur.initial.misses /\ worker.hits >= cur.initial.hits
             /\ worker.misses > cur.initial.misses => "miss" \in mine'
             /\ worker.hits > cur.initial.hits /\ worker.songHit => "song" \in mine'
        /\ "misses" \in cur.grown => "miss" \in mine'
        /\ cur.songHit => "song" \in mine'
    <3>1. CASE fresh
      BY <3>1, NewRecorderType
    <3>2. CASE ~fresh
      BY <3>2, <1>0, <1>s DEF GrowthIsMine
    <3> QED  BY <3>1, <3>2
  <2>2. worker.misses \in Nat /\ worker.hits \in Nat
    BY <1>0 DEF TypeOK, WorkerState
  <2> HIDE DEF cur, n, fresh
  <2>3. /\ worker.misses >= n.initial.misses /\ worker.hits >= n.initial.hits
        /\ worker.misses > n.initial.misses => "miss" \in mine'
        /\ worker.hits > n.initial.hits /\ worker.songHit => "song" \in mine'
    BY <2>1, <2>2, <1>2
  <2>4. "misses" \in n.grown => "miss" \in mine'
    BY <2>1, <2>3, <1>2
  <2>5. n.songHit => "song" \in mine'
    BY <2>1, <2>3, <1>2
  <2> QED  BY <2>3, <2>4, <2>5, <1>6, <1>s DEF GrowthIsMine
<1>8. PendingIsCounted'
  BY <1>s DEF PendingIsCounted
<1>9. rec' \in RecorderState => TypeOK'
  <2>1. /\ heard' \subseteq Continuity /\ lost' \subseteq Continuity
        /\ mine' \subseteq {"miss", "song"} /\ cut' \in BOOLEAN
    BY <1>0, <1>s DEF TypeOK
  <2> QED  BY <2>1, <1>0, <1>s DEF TypeOK
<1> HIDE DEF fresh, cur, n, heard0, cut0
<1>10. rec' \in RecorderState /\ Tracked' /\ HeardIsCharged'
  <2>1. CASE Active /\ cur.open
    <3>0. n.open /\ n.active
      BY <2>1, <1>2, <1>5
    <3>1. /\ rec' \in RecorderState /\ rec'.open /\ rec'.active
          /\ rec'.base = cur.base /\ rec'.done = cur.done /\ rec'.previous = playback.count
          /\ rec'.top = [c \in Counted |-> Larger(cur.top[c], playback.count[c])]
          /\ rec'.resetSeen = cur.resetSeen \cup
                              {c \in Continuity : playback.count[c] < cur.previous[c]}
      BY <3>0, <2>1, <1>0, <1>2, <1>s, FollowContinues
    <3>2. \A c \in Counted : /\ rec'.top[c] \in Nat /\ rec'.top[c] >= cur.top[c]
                             /\ rec'.top[c] >= playback.count[c]
                             /\ rec'.top[c] = cur.top[c] \/ rec'.top[c] = playback.count[c]
      BY <3>1, <1>4, LargerNat
    <3>3. Tracked'
      <4>1. \A c \in Counted : rec'.base[c] <= rec'.top[c]
        BY <2>1, <3>1, <3>2, <1>4, <1>5
      <4>2. \A c \in Continuity : c \notin rec'.resetSeen => rec'.previous[c] = rec'.top[c]
        BY <2>1, <3>1, <3>2, <1>4, <1>5, <1>c
      <4> QED  BY <4>1, <4>2, <3>1, <1>s, <1>c, <1>4 DEF Tracked
    <3>4. HeardIsCharged'
      <4> SUFFICES ASSUME NEW c \in Continuity
                   PROVE  /\ c \in heard' => Delta(rec', c) > 0 \/ c \in rec'.resetSeen
                          /\ Delta(rec', c) # 0 \/ c \in rec'.resetSeen => c \in heard' \/ cut'
        BY DEF HeardIsCharged, Delta
      <4>1. c \in Counted /\ cur.done[c] \in Nat /\ cur.base[c] \in Nat /\ cur.top[c] \in Nat
            /\ cur.base[c] <= cur.top[c] /\ cur.previous[c] \in Nat /\ playback.count[c] \in Nat
        BY <2>1, <1>c, <1>4, <1>5
      <4>2. Delta(rec', c) = cur.done[c] + (rec'.top[c] - cur.base[c])
            /\ Delta(cur, c) = cur.done[c] + (cur.top[c] - cur.base[c])
        BY <2>1, <3>1 DEF Delta
      <4>3. Delta(rec', c) >= Delta(cur, c)
            /\ (rec'.top[c] = cur.top[c] => Delta(rec', c) = Delta(cur, c))
        BY <4>1, <4>2, <3>2
      <4>4. c \in heard' => Delta(rec', c) > 0 \/ c \in rec'.resetSeen
        <5>1. CASE c \in heard0
          BY <5>1, <1>3, <3>1, <4>1, <4>2, <4>3, <3>2
        <5>2. CASE c \in pending /\ ~replaced
          <6>1. playback.count[c] > cur.previous[c]
            BY <5>2, <2>1, <1>5
          <6>2. CASE c \in cur.resetSeen
            BY <6>2, <3>1
          <6>3. CASE c \notin cur.resetSeen
            BY <6>1, <6>3, <2>1, <1>5, <4>1, <4>2, <3>2
          <6> QED  BY <6>2, <6>3
        <5>3. c \in heard' => c \in heard0 \/ (c \in pending /\ ~replaced)
          BY <1>0, <1>s DEF PendingIsCounted
        <5> QED  BY <5>1, <5>2, <5>3
      <4>5. Delta(rec', c) # 0 \/ c \in rec'.resetSeen => c \in heard' \/ cut'
        <5>1. CASE replaced
          BY <5>1, <2>1, <1>s
        <5>2. CASE c \in pending
          BY <5>2, <2>1, <1>s
        <5>3. CASE ~replaced /\ c \notin pending
          <6>1. playback.count[c] = cur.previous[c]
            BY <5>3, <2>1, <1>5
          <6>2. rec'.top[c] = cur.top[c] \/ c \in cur.resetSeen
            BY <6>1, <2>1, <1>5, <3>2, <4>1
          <6>3. c \in rec'.resetSeen => c \in cur.resetSeen
            BY <6>1, <3>1, <4>1
          <6> QED  BY <6>2, <6>3, <4>3, <1>3, <1>s
        <5> QED  BY <5>1, <5>2, <5>3
      <4> QED  BY <4>4, <4>5
    <3> QED  BY <3>1, <3>3, <3>4
  <2>2. CASE Active /\ ~cur.open
    <3>1. /\ rec' \in RecorderState /\ rec'.open /\ rec'.active /\ rec'.done = cur.done
          /\ rec'.base = playback.count /\ rec'.top = playback.count
          /\ rec'.previous = playback.count /\ rec'.resetSeen = cur.resetSeen
      BY <2>2, <1>0, <1>2, <1>s, FollowOpens
    <3>2. Tracked'
      BY <3>1, <1>4, <1>c, <1>s DEF Tracked
    <3>3. heard' = heard0 /\ (cut0 => cut')
      BY <2>2, <1>s
    <3>4. \A c \in Continuity : Delta(rec', c) = Delta(cur, c)
      BY <2>2, <3>1, <1>4, <1>c DEF Delta
    <3> QED  BY <3>1, <3>2, <3>3, <3>4, <1>3 DEF HeardIsCharged
  <2>3. CASE ~Active /\ cur.open
    <3>0. n.open /\ \A c \in Counted : n.base[c] <= n.top[c]
      BY <2>3, <1>2, <1>5
    <3>1. /\ rec' \in RecorderState /\ ~rec'.open
          /\ rec'.done = [c \in Counted |-> cur.done[c] + (cur.top[c] - cur.base[c])]
          /\ rec'.resetSeen = cur.resetSeen
      BY <3>0, <2>3, <1>0, <1>2, <1>s, FollowCloses
    <3>2. heard' = heard0 /\ (cut0 => cut')
      BY <2>3, <1>s
    <3>3. \A c \in Continuity : Delta(rec', c) = Delta(cur, c)
      BY <2>3, <3>1, <1>4, <1>5, <1>c DEF Delta
    <3> QED  BY <3>1, <3>2, <3>3, <1>3 DEF HeardIsCharged, Tracked
  <2>4. CASE ~Active /\ ~cur.open
    <3>1. rec' = n
      BY <2>4, <1>2, <1>s, FollowIdle
    <3>2. heard' = heard0 /\ (cut0 => cut')
      BY <2>4, <1>s
    <3>3. \A c \in Continuity : Delta(rec', c) = Delta(cur, c)
      BY <2>4, <3>1, <1>2 DEF Delta
    <3> QED  BY <2>4, <3>1, <3>2, <3>3, <1>2, <1>3 DEF HeardIsCharged, Tracked
  <2> QED  BY <2>1, <2>2, <2>3, <2>4
<1> QED  BY <1>7, <1>8, <1>9, <1>10 DEF IInv

LEMMA NextInv == IInv /\ [Next]_vars => IInv'
<1> SUFFICES ASSUME IInv, [Next]_vars PROVE IInv'
  OBVIOUS
<1>0. TypeOK /\ Tracked /\ PendingIsCounted /\ HeardIsCharged /\ GrowthIsMine
  BY DEF IInv
<1>c. Continuity \subseteq Counted /\ "mixer_updates" \in Counted /\ "mixer_updates" \notin Continuity
  BY ContinuityAssumption DEF Counted
<1>p. /\ playback.state \in States /\ playback.slow \in BOOLEAN
      /\ playback.count \in [Counted -> Nat] /\ worker \in WorkerState
      /\ \A c \in Counted : rec.previous[c] \in Nat
  BY <1>0 DEF TypeOK, Count, RecorderState
<1>k. UNCHANGED <<rec, heard, cut>> => HeardIsCharged'
  BY <1>0 DEF HeardIsCharged, Delta
<1>t. UNCHANGED <<rec, playback, replaced, pending>> => Tracked' /\ PendingIsCounted'
  BY <1>0 DEF Tracked, PendingIsCounted
<1>g. UNCHANGED <<rec, worker, mine>> => GrowthIsMine'
  BY <1>0 DEF GrowthIsMine
<1>1. CASE Sample
  BY <1>1, SampleInv
<1>2. CASE Command
  <2>1. TypeOK'
    BY <1>0, <1>2 DEF Command, TypeOK, ghosts, host
  <2> QED  BY <2>1, <1>2, <1>k, <1>t, <1>g DEF Command, IInv, ghosts, host
<1>3. CASE Obey
  <2>1. CASE command.action = "start"
    <3>1. /\ StartHost /\ stream' = FALSE
          /\ worker' = [worker EXCEPT !.captured = 0, !.songHit = FALSE]
          /\ UNCHANGED <<command, known, rec, events, changes, heard, lost, cut, mine>>
      BY <1>3, <2>1 DEF Obey
    <3>2. TypeOK'
      <4>1. obeyed' = command.sequence
        BY <1>3 DEF Obey
      <4>2. playback' \in [state : States, slow : BOOLEAN, count : Count]
        BY <3>1 DEF StartHost, FreshPlayback, States, Count, Zeros
      <4>3. worker' \in WorkerState
        BY <3>1, <1>p DEF WorkerState
      <4> QED  BY <1>0, <3>1, <4>1, <4>2, <4>3 DEF StartHost, TypeOK
    <3>3. Tracked' /\ PendingIsCounted'
      BY <1>0, <3>1 DEF StartHost, Tracked, PendingIsCounted
    <3>4. GrowthIsMine'
      BY <1>0, <3>1, <1>p DEF GrowthIsMine, WorkerState
    <3> QED  BY <3>1, <3>2, <3>3, <3>4, <1>k DEF IInv
  <2>2. CASE command.action = "start_airplay"
    <3>1. /\ \/ StartHost /\ stream' \in {stream, FALSE}
             \/ KeepHost /\ stream' = stream
          /\ UNCHANGED <<command, known, rec, events, changes, heard, lost, cut, mine, worker>>
      BY <1>3, <2>2 DEF Obey
    <3>2. TypeOK'
      <4>1. obeyed' = command.sequence
        BY <1>3 DEF Obey
      <4>2. FreshPlayback \in [state : States, slow : BOOLEAN, count : Count]
        BY DEF FreshPlayback, States, Count, Zeros
      <4> QED  BY <1>0, <3>1, <4>1, <4>2 DEF StartHost, KeepHost, TypeOK
    <3>3. Tracked' /\ PendingIsCounted'
      BY <1>0, <3>1, <1>t DEF StartHost, KeepHost, Tracked, PendingIsCounted
    <3> QED  BY <3>1, <3>2, <3>3, <1>k, <1>g DEF IInv
  <2>3. CASE command.action \notin {"start", "start_airplay"}
    <3>1. /\ UNCHANGED <<playback, replaced, pending, gone, worker>>
          /\ stream' \in {stream, FALSE} /\ alive' \in BOOLEAN
          /\ UNCHANGED <<command, known, rec, events, changes, heard, lost, cut, mine>>
      BY <1>0, <1>3, <2>3 DEF Obey, KeepHost, TypeOK
    <3>2. TypeOK'
      BY <1>0, <1>3, <3>1 DEF Obey, TypeOK
    <3> QED  BY <3>1, <3>2, <1>k, <1>t, <1>g DEF IInv
  <2> QED  BY <2>1, <2>2, <2>3
<1>4. CASE Phone
  <2>1. TypeOK'
    BY <1>0, <1>4 DEF Phone, Change, TypeOK
  <2> QED  BY <2>1, <1>4, <1>k, <1>t, <1>g DEF Phone, Change, IInv
<1>5. CASE Window
  <2>1. PICK kind \in WindowKinds :
          /\ worker' = [captured |-> worker.captured + 1,
                        hits |-> worker.hits + (IF kind = "miss" THEN 0 ELSE 1),
                        misses |-> worker.misses + (IF kind = "miss" THEN 1 ELSE 0),
                        songHit |-> kind = "song"]
          /\ mine' = mine \cup ({kind} \ {"window"})
    BY <1>5 DEF Window
  <2>2. UNCHANGED <<command, obeyed, alive, playback, stream, known, rec,
                    events, changes, pending, gone, heard, lost, cut, replaced>>
    BY <1>5 DEF Window
  <2>3. worker' \in WorkerState /\ mine' \subseteq {"miss", "song"}
    BY <1>0, <1>p, <2>1 DEF WorkerState, WindowKinds, TypeOK
  <2>4. TypeOK'
    BY <1>0, <2>2, <2>3 DEF TypeOK
  <2>5. GrowthIsMine'
    BY <1>0, <1>p, <2>1, <2>2 DEF GrowthIsMine, WorkerState, WindowKinds, TypeOK, RecorderState
  <2> QED  BY <2>2, <2>4, <2>5, <1>k, <1>t DEF IInv
<1>6. CASE PlaybackState
  <2>1. PICK state \in States : playback' = [playback EXCEPT !.state = state]
    BY <1>6 DEF PlaybackState
  <2>2. UNCHANGED <<command, obeyed, alive, stream, worker, known, rec,
                    events, pending, gone, heard, lost, cut, replaced, mine>> /\ changes' = changes + 1
    BY <1>6 DEF PlaybackState, Change
  <2>3. TypeOK' /\ playback'.count = playback.count
    BY <1>0, <2>1, <2>2 DEF TypeOK
  <2>4. Tracked' /\ PendingIsCounted'
    BY <1>0, <2>2, <2>3 DEF Tracked, PendingIsCounted
  <2> QED  BY <2>2, <2>3, <2>4, <1>k, <1>g DEF IInv
<1>7. CASE Interruption
  <2>1. PICK c \in Continuity :
          /\ ~replaced
          /\ events' = events + 1
          /\ playback' = [playback EXCEPT !.count[c] = @ + 1]
          /\ pending' = pending \cup {c}
          /\ UNCHANGED <<command, obeyed, alive, stream, worker, known, rec,
                         changes, gone, heard, lost, cut, replaced, mine>>
    BY <1>7 DEF Interruption
  <2>2. playback' = [playback EXCEPT !.count = [playback.count EXCEPT ![c] = playback.count[c] + 1]]
    BY <2>1
  <2>3. playback'.count \in [Counted -> Nat]
        /\ playback'.count = [playback.count EXCEPT ![c] = playback.count[c] + 1]
        /\ playback'.state = playback.state /\ playback'.slow = playback.slow
        /\ playback' \in [state : States, slow : BOOLEAN, count : Count]
    BY <1>0, <1>c, <1>p, <2>1, <2>2 DEF TypeOK, Count
  <2>4. TypeOK'
    BY <1>0, <2>1, <2>3 DEF TypeOK
  <2>5. Tracked' /\ PendingIsCounted'
    BY <1>0, <1>c, <1>p, <2>1, <2>3 DEF Tracked, PendingIsCounted
  <2> QED  BY <2>1, <2>4, <2>5, <1>k, <1>g DEF IInv
<1>8. CASE MixerUpdate
  <2>1. PICK slow \in BOOLEAN :
          playback' = [playback EXCEPT !.count["mixer_updates"] = @ + 1, !.slow = slow]
    BY <1>8 DEF MixerUpdate
  <2>2. UNCHANGED <<command, obeyed, alive, stream, worker, known, rec, ghosts>>
    BY <1>8 DEF MixerUpdate
  <2>3. playback' = [playback EXCEPT !.slow = slow,
           !.count = [playback.count EXCEPT !["mixer_updates"] = playback.count["mixer_updates"] + 1]]
    BY <1>0, <2>1 DEF TypeOK
  <2>4. /\ playback' \in [state : States, slow : BOOLEAN, count : Count]
        /\ \A c \in Continuity : playback'.count[c] = playback.count[c]
    <3> DEFINE count == [playback.count EXCEPT !["mixer_updates"] =
                                                playback.count["mixer_updates"] + 1]
    <3>1. count \in Count /\ \A c \in Continuity : count[c] = playback.count[c]
      BY <1>c, <1>p DEF Count
    <3>2. playback \in [state : States, slow : BOOLEAN, count : Count]
      BY <1>0 DEF TypeOK
    <3>3. playback' = [playback EXCEPT !.slow = slow, !.count = count]
      BY <2>3
    <3> HIDE DEF count
    <3>4. playback' \in [state : States, slow : BOOLEAN, count : Count] /\ playback'.count = count
      BY <3>1, <3>2, <3>3
    <3> QED  BY <3>1, <3>4
  <2>5. TypeOK'
    BY <1>0, <2>2, <2>4 DEF TypeOK, ghosts
  <2>6. Tracked' /\ PendingIsCounted'
    BY <1>0, <2>2, <2>4 DEF Tracked, PendingIsCounted, ghosts
  <2> QED  BY <2>2, <2>5, <2>6, <1>k, <1>g DEF IInv, ghosts
<1>9. CASE UNCHANGED vars
  <2>1. TypeOK'
    BY <1>0, <1>9 DEF TypeOK, vars, host, ghosts
  <2> QED  BY <2>1, <1>9, <1>k, <1>t, <1>g DEF vars, host, ghosts, IInv
<1> QED  BY <1>1, <1>2, <1>3, <1>4, <1>5, <1>6, <1>7, <1>8, <1>9 DEF Next

\* Every reachable state of the service satisfies the invariant.
THEOREM Invariance == Spec => []IInv
BY InitInv, NextInv, PTL DEF Spec

\* Type correctness of the recorder and of the files it reads.
THEOREM TypeCorrect == Spec => []TypeOK
<1>1. IInv => TypeOK
  BY DEF IInv
<1> QED  BY <1>1, Invariance, PTL

\* A session is told to have passed only if no interruption fell between two samples
\* that both found it active, among those counted by a host that was still there at the
\* second, whatever else the counters and the restarts do.  Nothing is said of what a
\* host counted just before it was replaced.
THEOREM CleanPass == Spec => []PassedMeansClean
<1>1. IInv => PassedMeansClean
  <2> SUFFICES ASSUME IInv, Passed(rec) PROVE heard = {}
    BY DEF PassedMeansClean
  <2>1. HeardIsCharged /\ heard \subseteq Continuity
    BY DEF IInv, TypeOK
  <2>2. \A c \in Continuity : Delta(rec, c) = 0 /\ c \notin rec.resetSeen
    BY DEF Passed, Zero
  <2> QED  BY <2>1, <2>2 DEF HeardIsCharged
<1> QED  BY <1>1, Invariance, PTL

\* A session is told to have passed only on windows published under its recorder.
THEOREM PlayedPass == Spec => []PassedMeansPlayed
<1>1. IInv => PassedMeansPlayed
  BY DEF IInv, GrowthIsMine, PassedMeansPlayed, Passed, GpuFirstPlay
<1> QED  BY <1>1, Invariance, PTL

\* What happens in a pause is never charged to a session.
THEOREM IdleIsFree == Spec => []IdleNeverCounts
<1>1. IInv => IdleNeverCounts
  BY DEF IInv, HeardIsCharged, IdleNeverCounts, Zero
<1> QED  BY <1>1, Invariance, PTL

(***************************************************************************)
(* A verdict of failure.                                                   *)
(***************************************************************************)
LEMMA ObservedGrows ==
    ASSUME IInv, rec.active, rec' = Observe(rec)
    PROVE  /\ rec'.active
           /\ \A c \in Counted : Delta(rec', c) \in Nat /\ Delta(rec', c) >= Delta(rec, c)
                                /\ Delta(rec, c) \in Nat
           /\ rec.resetSeen \subseteq rec'.resetSeen
           /\ rec.recovering => rec'.recovering
           /\ rec.slow => rec'.slow
           /\ rec.songHit => rec'.songHit
<1> DEFINE n == NoteWindows(rec)
<1>0. TypeOK /\ Tracked /\ rec \in RecorderState /\ rec' = FollowSegment(n)
  BY DEF IInv, TypeOK, Observe
<1>1. /\ n \in RecorderState
      /\ rec.songHit => n.songHit
      /\ n.open = rec.open /\ n.active = rec.active /\ n.base = rec.base /\ n.top = rec.top
      /\ n.done = rec.done /\ n.previous = rec.previous /\ n.resetSeen = rec.resetSeen
      /\ n.recovering = rec.recovering /\ n.slow = rec.slow
  BY <1>0, NoteWindowsLemma
<1>2. \A c \in Counted : /\ rec.done[c] \in Nat /\ rec.base[c] \in Nat /\ rec.top[c] \in Nat
                         /\ playback.count[c] \in Nat
                         /\ rec.open => rec.base[c] <= rec.top[c]
  BY <1>0 DEF TypeOK, RecorderState, Count, Tracked
<1> HIDE DEF n
<1>3. rec'.songHit = n.songHit
  BY <1>0, <1>1, FollowTail
<1>4. CASE Active /\ rec.open
  <2>0. n.open /\ n.active
    BY <1>1, <1>4
  <2>1. /\ rec'.open /\ rec'.active
        /\ rec'.base = rec.base /\ rec'.done = rec.done
        /\ rec'.top = [c \in Counted |-> Larger(rec.top[c], playback.count[c])]
        /\ rec'.resetSeen = rec.resetSeen \cup
                            {c \in Continuity : playback.count[c] < rec.previous[c]}
    BY <2>0, <1>0, <1>1, <1>4, FollowContinues
  <2>4. (n.recovering => rec'.recovering) /\ (n.slow => rec'.slow)
    BY <2>0, <1>0, <1>1, <1>4, FollowKeepsFlags
  <2>2. \A c \in Counted : rec'.top[c] \in Nat /\ rec'.top[c] >= rec.top[c]
    BY <2>1, <1>1, <1>2, LargerNat
  <2>3. \A c \in Counted : Delta(rec', c) \in Nat /\ Delta(rec', c) >= Delta(rec, c)
                           /\ Delta(rec, c) \in Nat
    BY <2>1, <2>2, <1>1, <1>2, <1>4 DEF Delta
  <2> QED  BY <2>1, <2>3, <2>4, <1>1, <1>3
<1>5. CASE Active /\ ~rec.open
  <2>0. ~n.open
    BY <1>1, <1>5
  <2>1. /\ rec'.open /\ rec'.active /\ rec'.done = n.done
        /\ rec'.base = playback.count /\ rec'.top = playback.count
        /\ rec'.resetSeen = n.resetSeen
        /\ rec'.recovering = (n.recovering \/ Recovering)
        /\ n.slow => rec'.slow
    BY <2>0, <1>0, <1>1, <1>5, FollowOpens
  <2>2. \A c \in Counted : Delta(rec', c) \in Nat /\ Delta(rec', c) >= Delta(rec, c)
                           /\ Delta(rec, c) \in Nat
    BY <2>1, <1>1, <1>2, <1>5 DEF Delta
  <2> QED  BY <2>1, <2>2, <1>1, <1>3
<1>6. CASE ~Active /\ rec.open
  <2>0. n.open /\ \A c \in Counted : n.base[c] <= n.top[c]
    BY <1>1, <1>2, <1>6
  <2>1. /\ ~rec'.open /\ rec'.active = n.active
        /\ rec'.done = [c \in Counted |-> n.done[c] + (n.top[c] - n.base[c])]
        /\ rec'.resetSeen = n.resetSeen
        /\ rec'.recovering = n.recovering
        /\ n.slow => rec'.slow
    BY <2>0, <1>0, <1>1, <1>6, FollowCloses
  <2>2. \A c \in Counted : Delta(rec', c) \in Nat /\ Delta(rec', c) >= Delta(rec, c)
                           /\ Delta(rec, c) \in Nat
    BY <2>1, <1>1, <1>2, <1>6 DEF Delta
  <2> QED  BY <2>1, <2>2, <1>1, <1>3
<1>7. CASE ~Active /\ ~rec.open
  <2>1. rec' = n
    BY <1>0, <1>1, <1>7, FollowIdle
  <2>2. \A c \in Counted : Delta(rec', c) \in Nat /\ Delta(rec', c) >= Delta(rec, c)
                           /\ Delta(rec, c) \in Nat
    BY <2>1, <1>1, <1>2, <1>7 DEF Delta
  <2> QED  BY <2>1, <2>2, <1>1
<1> QED  BY <1>4, <1>5, <1>6, <1>7

LEMMA FailedStays ==
    ASSUME IInv, Failed(rec), rec.active, rec' = Observe(rec)
    PROVE  Failed(rec')
<1>1. /\ rec'.songHit /\ rec'.active
      /\ \A c \in Counted : Delta(rec', c) \in Nat /\ Delta(rec', c) >= Delta(rec, c)
                           /\ Delta(rec, c) \in Nat
      /\ rec.resetSeen \subseteq rec'.resetSeen
      /\ rec.recovering => rec'.recovering
      /\ rec.slow => rec'.slow
  BY ObservedGrows DEF Failed
<1>2. Continuity \subseteq Counted /\ "mixer_updates" \in Counted
  BY DEF Counted
<1>3. ASSUME NEW c \in Continuity, ~Zero(rec, c) PROVE ~Zero(rec', c)
  BY <1>1, <1>2, <1>3 DEF Zero
<1>4. MixerAdjusted(rec) /\ ~MixerBelowLimit(rec) => MixerAdjusted(rec') /\ ~MixerBelowLimit(rec')
  BY <1>1, <1>2 DEF MixerAdjusted, MixerBelowLimit
<1> QED  BY <1>1, <1>3, <1>4 DEF Failed

\* A session that has failed after it was active stays failed.
THEOREM FinalFailure == Spec => FailureIsFinal
<1>1. ASSUME IInv, [Next]_vars, Failed(rec), rec.active, known' = known
      PROVE  Failed(rec')
  <2>1. CASE Sample
    <3>1. rec' = Observe(rec)
      BY <2>1, <1>1 DEF Sample
    <3> QED  BY <3>1, <1>1, FailedStays
  <2>2. CASE rec' = rec
    BY <2>2, <1>1 DEF Failed, Zero, Delta, MixerAdjusted, MixerBelowLimit
  <2> QED  BY <2>1, <2>2, <1>1 DEF Next, Command, Obey, Phone, Window, PlaybackState,
                                   Interruption, MixerUpdate, vars
<1>2. IInv /\ [Next]_vars
        => [Failed(rec) /\ rec.active /\ known' = known => Failed(rec')]_vars
  BY <1>1
<1> QED  BY <1>2, Invariance, PTL DEF Spec, FailureIsFinal

-----------------------------------------------------------------------------
(* Lyrics.                                                                   *)

\* The lines of recording d may be shown under recording k.
Fits(d, k) == d \in Recordings /\ d.title = k.title /\ Apart(d.length, k.length) <= Near

\* What a track read from host l says of the present one: revisions only grow in the life of
\* a host, and a revision has one length.
Known(t, l) ==
    /\ l <= life
    /\ l = life /\ t.revision > 0 =>
        /\ t.revision <= airplay.track.revision
        /\ t.revision = airplay.track.revision => t.length = airplay.track.length

CacheFits == \A k \in Recordings : cache[k] # None => Fits(cache[k], k)

\* refresh works on a real track, whose token it has remembered.
LookupFits ==
    step # "rest" =>
        /\ Key(track) \in Recordings
        /\ last = Token(track)
        /\ document # None => Fits(document, Key(track))
        /\ step \in {"store", "ready"} => document # None

StatusFits == status.state = "ready" => Fits(status.lines, Key(status.track))

TracksKnown == Known(track, source) /\ Known(status.track, status.life)

\* Until it is asked again, a lookup that failed leaves a wait that covers what is missing.
WaitCovers ==
    /\ asked # None => asked = last
    /\ step \in {"rest", "error"} /\ asked # None /\ retry = asked => since + wait >= Retry
    /\ step = "load" /\ asked # None /\ status.state # "absent" => since = Retry

LyricsInv == LyricsTypeOK /\ CacheFits /\ LookupFits /\ StatusFits /\ TracksKnown /\ WaitCovers

USE DEF Recordings, Tokens, Tracks, Steps, Key, Token

LEMMA NearIsNat == Near \in Nat /\ Retry \in Nat
  BY NumbersAssumption

LEMMA TrackNumbers == ASSUME NEW t \in Tracks PROVE t.revision \in Nat /\ t.length \in Nat
<1>1. \A n \in Lengths \cup {0} : n \in Nat
  BY LengthsAssumption
<1>2. t.revision \in Nat /\ t.length \in Lengths \cup {0}
  OBVIOUS
<1> QED
  BY <1>1, <1>2

LEMMA RenewedTrack ==
  ASSUME NEW t \in Tracks, NEW n \in Lengths
  PROVE  Renewed(t, n) \in Tracks /\ Renewed(t, n).revision = t.revision + 1
<1>1. t.revision + 1 \in Nat /\ t.title \in Titles \cup {NoTitle} /\ n \in Lengths \cup {0}
  OBVIOUS
<1> QED
  BY <1>1 DEF Renewed

\* A step of the environment touches no file of the service.
LEMMA EnvironmentTypes == LyricsTypeOK /\ Environment => LyricsTypeOK'
<1> SUFFICES ASSUME LyricsTypeOK, Environment PROVE LyricsTypeOK'
  OBVIOUS
<1> USE NearIsNat, LengthsAssumption DEF LyricsTypeOK, Changed, service
<1>0. /\ airplay = [on |-> airplay.on, track |-> airplay.track]
      /\ airplay.on \in BOOLEAN /\ airplay.track \in Tracks
  OBVIOUS
<1>1. CASE NewTrack
  <2>1. PICK n \in Lengths : airplay' = [airplay EXCEPT !.track = Renewed(airplay.track, n)]
    BY <1>1 DEF NewTrack
  <2>2. Renewed(airplay.track, n) \in Tracks
    BY <1>0, RenewedTrack
  <2>3. airplay' \in [on : BOOLEAN, track : Tracks]
    BY <1>0, <2>1, <2>2
  <2> QED
    BY <1>1, <2>3 DEF NewTrack
<1>2. CASE Metadata
  BY <1>2 DEF Metadata
<1>3. CASE Connection
  <2>1. airplay' = [on |-> ~airplay.on, track |-> airplay.track]
    BY <1>0, <1>3 DEF Connection
  <2>2. airplay' \in [on : BOOLEAN, track : Tracks]
    BY <1>0, <2>1
  <2> QED
    BY <1>3, <2>2 DEF Connection
<1>4. CASE HostRestarts
  BY <1>4 DEF HostRestarts, FreshHost
<1>5. CASE AppRestarts
  BY <1>5 DEF AppRestarts, Returns, FreshHost
<1> QED
  BY <1>1, <1>2, <1>3, <1>4, <1>5 DEF Environment

LEMMA ServiceTypes == LyricsTypeOK /\ CacheFits /\ LookupFits /\ Service => LyricsTypeOK'
<1> SUFFICES ASSUME LyricsTypeOK, CacheFits, LookupFits, Service PROVE LyricsTypeOK'
  OBVIOUS
<1> USE NearIsNat DEF LyricsTypeOK, LookupFits, Fault, NoFault, Fails, Returns, FreshHost
<1>1. CASE RefreshIdle
  BY <1>1 DEF RefreshIdle, Status
<1>2. CASE RefreshTrack
  BY <1>2 DEF RefreshTrack, Wanted
<1>3. CASE Load
  <2>1. Key(track) \in Recordings /\ cache[Key(track)] \in Recordings \cup {None}
    BY <1>3 DEF Load
  <2>2. Token(track) \in Tokens
    BY <2>1
  <2> QED
    BY <1>3, <2>1, <2>2 DEF Load
<1>4. CASE AskExactly("cached", "search") \/ AskExactly("get", "not_found")
  BY <1>4, ZenonT(30) DEF AskExactly
<1>5. CASE Search
  BY <1>5 DEF Search, Accepted
<1>6. CASE RequestFails
  BY <1>6 DEF RequestFails
<1>7. CASE Store
  <2>1. Key(track) \in Recordings /\ Token(track) \in Tokens
    BY <1>7 DEF Store
  <2>2. cache' \in [Recordings -> Recordings \cup {None}]
    BY <1>7, <2>1 DEF Store
  <2> QED
    BY <1>7, <2>1, <2>2 DEF Store
<1>8. CASE Write
  BY <1>8 DEF Write, Report, Status
<1>9. CASE WriteError
  BY <1>9 DEF WriteError, Report, Status
<1> QED
  BY <1>1, <1>2, <1>3, <1>4, <1>5, <1>6, <1>7, <1>8, <1>9 DEF Service

\* Every document came from an exact answer or from an accepted candidate.
LEMMA DocumentsFit ==
  LyricsTypeOK /\ CacheFits /\ LookupFits /\ StatusFits /\ Service
    => CacheFits' /\ LookupFits' /\ StatusFits'
<1> SUFFICES ASSUME LyricsTypeOK, CacheFits, LookupFits, StatusFits, Service
             PROVE CacheFits' /\ LookupFits' /\ StatusFits'
  OBVIOUS
<1> USE NearIsNat, LengthsAssumption, NamesAssumption
    DEF LyricsTypeOK, CacheFits, LookupFits, StatusFits, Fails, Returns, FreshHost
<1>1. CASE RefreshIdle
  BY <1>1 DEF RefreshIdle, Status
<1>2. CASE RefreshTrack
  BY <1>2 DEF RefreshTrack, Wanted
<1>3. CASE Load
  BY <1>3 DEF Load
<1>4. CASE AskExactly("cached", "search") \/ AskExactly("get", "not_found")
  <2>1. step # "rest" /\ Key(track) \in Recordings
    BY <1>4 DEF AskExactly
  <2>2. Fits(Key(track), Key(track))
    <3>1. track.length \in Nat
      <4>1. track \in Tracks
        BY DEF LyricsTypeOK
      <4> QED
        BY <4>1, TrackNumbers
    <3>2. Apart(Key(track).length, Key(track).length) = 0
      BY <3>1 DEF Apart
    <3> QED
      BY <2>1, <3>2 DEF Fits
  <2> QED
    BY <1>4, <2>1, <2>2 DEF AskExactly
<1>5. CASE Search
  <2>1. step # "rest" /\ Key(track) \in Recordings
    BY <1>5 DEF Search
  <2>2. ASSUME NEW found \in SUBSET Recordings, NEW r \in Accepted(found)
        PROVE  Fits(r, Key(track)) /\ r # None
    BY <2>1, <2>2 DEF Accepted, Fits
  <2> QED
    BY <1>5, <2>1, <2>2 DEF Search
<1>6. CASE RequestFails
  BY <1>6 DEF RequestFails
<1>7. CASE Store
  BY <1>7 DEF Store
<1>8. CASE Write
  BY <1>8 DEF Write, Report, Status
<1>9. CASE WriteError
  BY <1>9 DEF WriteError, Report, Status
<1> QED
  BY <1>1, <1>2, <1>3, <1>4, <1>5, <1>6, <1>7, <1>8, <1>9 DEF Service

\* The service reads what the host writes.
LEMMA ServiceReads == Service => UNCHANGED <<airplay, life>>
<1> SUFFICES ASSUME Service PROVE UNCHANGED <<airplay, life>>
  OBVIOUS
<1>1. CASE RefreshIdle \/ RefreshTrack \/ Load
  BY <1>1 DEF RefreshIdle, RefreshTrack, Load
<1>2. CASE AskExactly("cached", "search") \/ AskExactly("get", "not_found") \/ Search
  BY <1>2 DEF AskExactly, Search
<1>3. CASE RequestFails \/ Store \/ Write \/ WriteError
  BY <1>3 DEF RequestFails, Store, Write, WriteError
<1> QED
  BY <1>1, <1>2, <1>3 DEF Service

\* What each step does to the tracks that refresh holds and has written.
LEMMA TracksMove ==
  LyricsNext =>
    /\ RefreshTrack \/ UNCHANGED <<track, source>> \/ Returns
    /\ \/ UNCHANGED status
       \/ status'.track = track /\ status'.life = source
       \/ status'.track = FreshHost.track /\ status'.life = source
<1> SUFFICES ASSUME LyricsNext
             PROVE  /\ RefreshTrack \/ UNCHANGED <<track, source>> \/ Returns
                    /\ \/ UNCHANGED status
                       \/ status'.track = track /\ status'.life = source
                       \/ status'.track = FreshHost.track /\ status'.life = source
  OBVIOUS
<1>1. CASE NewTrack \/ Metadata \/ Connection \/ HostRestarts
  BY <1>1 DEF NewTrack, Metadata, Connection, HostRestarts, service
<1>2. CASE AppRestarts \/ Tick
  BY <1>2 DEF AppRestarts, Tick
<1>3. CASE RefreshIdle
  BY <1>3 DEF RefreshIdle, Status
<1>4. CASE RefreshTrack \/ Load
  BY <1>4 DEF RefreshTrack, Load
<1>5. CASE AskExactly("cached", "search") \/ AskExactly("get", "not_found") \/ Search
  BY <1>5 DEF AskExactly, Search
<1>6. CASE RequestFails \/ Store
  BY <1>6 DEF RequestFails, Store
<1>7. CASE Write
  BY <1>7 DEF Write, Report, Status
<1>8. CASE WriteError
  BY <1>8 DEF WriteError, Report, Status
<1> QED
  BY <1>1, <1>2, <1>3, <1>4, <1>5, <1>6, <1>7, <1>8 DEF LyricsNext, Environment, Service

\* Knowledge of a track survives everything but the end of its host, which voids it.
LEMMA KnownStays ==
  ASSUME LyricsTypeOK, LyricsNext, NEW t \in Tracks, NEW l \in Nat, Known(t, l)
  PROVE  Known(t, l)'
<1> USE DEF LyricsTypeOK, Known, Changed
<1>1. CASE NewTrack
  <2>1. PICK n \in Lengths : airplay' = [airplay EXCEPT !.track = Renewed(airplay.track, n)]
    BY <1>1 DEF NewTrack
  <2>2. airplay'.track = Renewed(airplay.track, n) /\ airplay.track \in Tracks
    BY <2>1
  <2>3. airplay'.track.revision = airplay.track.revision + 1
    BY <2>2, RenewedTrack
  <2>4. airplay.track.revision \in Nat /\ t.revision \in Nat
    BY <2>2, TrackNumbers
  <2>5. UNCHANGED life
    BY <1>1 DEF NewTrack
  <2> QED
    BY <2>3, <2>4, <2>5
<1>2. CASE Metadata
  BY <1>2 DEF Metadata
<1>3. CASE Connection
  BY <1>3 DEF Connection
<1>4. CASE HostRestarts
  BY <1>4 DEF HostRestarts
<1>5. CASE AppRestarts \/ Tick
  BY <1>5 DEF AppRestarts, Tick
<1>6. CASE Service
  BY <1>6, ServiceReads
<1> QED
  BY <1>1, <1>2, <1>3, <1>4, <1>5, <1>6 DEF LyricsNext, Environment

LEMMA TracksStayKnown == LyricsTypeOK /\ TracksKnown /\ LyricsNext => TracksKnown'
<1> SUFFICES ASSUME LyricsTypeOK, TracksKnown, LyricsNext PROVE TracksKnown'
  OBVIOUS
<1>1. Known(track, source)' \/ UNCHANGED <<track, source>> \/ Returns
  <2>1. CASE RefreshTrack
    BY <2>1 DEF RefreshTrack, Known, LyricsTypeOK
  <2> QED
    BY <2>1, TracksMove
<1>2. \/ UNCHANGED status
      \/ status'.track = track /\ status'.life = source
      \/ status'.track = FreshHost.track /\ status'.life = source
  BY TracksMove
<1>3. ASSUME NEW t \in Tracks, NEW l \in Nat, Known(t, l) PROVE Known(t, l)'
  BY <1>3, KnownStays
<1>4. /\ Known(FreshHost.track, 0) /\ FreshHost.track \in Tracks
      /\ Known(FreshHost.track, source)
  BY DEF Known, FreshHost, LyricsTypeOK, TracksKnown
<1>5. Known(track, source)'
  <2>1. CASE UNCHANGED <<track, source>>
    BY <1>3, <2>1 DEF LyricsTypeOK, TracksKnown, Known
  <2>2. CASE Returns
    BY <1>3, <1>4, <2>2 DEF Returns, Known
  <2> QED
    BY <1>1, <2>1, <2>2
<1>6. Known(status.track, status.life)'
  <2>1. CASE UNCHANGED status
    BY <1>3, <2>1 DEF LyricsTypeOK, TracksKnown, Known
  <2>2. CASE status'.track = track /\ status'.life = source
    BY <1>3, <2>2 DEF LyricsTypeOK, TracksKnown, Known
  <2>3. CASE status'.track = FreshHost.track /\ status'.life = source
    BY <1>3, <1>4, <2>3 DEF LyricsTypeOK, Known
  <2> QED
    BY <1>2, <2>1, <2>2, <2>3
<1> QED
  BY <1>5, <1>6 DEF TracksKnown

\* A lookup is taken up again only once its wait has run down.
LEMMA WaitsCover == LyricsTypeOK /\ LookupFits /\ WaitCovers /\ LyricsNext => WaitCovers'
<1> SUFFICES ASSUME LyricsTypeOK, LookupFits, WaitCovers, LyricsNext PROVE WaitCovers'
  OBVIOUS
<1> USE NearIsNat, NamesAssumption
    DEF LyricsTypeOK, LookupFits, WaitCovers, Fails, Returns, FreshHost
<1>1. CASE NewTrack \/ Metadata \/ Connection \/ HostRestarts
  BY <1>1 DEF NewTrack, Metadata, Connection, HostRestarts, service
<1>2. CASE AppRestarts
  BY <1>2 DEF AppRestarts
<1>3. CASE Tick
  BY <1>3 DEF Tick
<1>4. CASE RefreshIdle
  BY <1>4 DEF RefreshIdle
<1>5. CASE RefreshTrack
  BY <1>5 DEF RefreshTrack, Settled
<1>6. CASE Load
  BY <1>6 DEF Load
<1>7. CASE AskExactly("cached", "search") \/ AskExactly("get", "not_found") \/ Search
  BY <1>7 DEF AskExactly, Search
<1>8. CASE RequestFails
  BY <1>8 DEF RequestFails
<1>9. CASE Store
  BY <1>9 DEF Store
<1>10. CASE Write
  BY <1>10 DEF Write, Report, Status
<1>11. CASE WriteError
  BY <1>11 DEF WriteError, Report, Status
<1> QED
  BY <1>1, <1>2, <1>3, <1>4, <1>5, <1>6, <1>7, <1>8, <1>9, <1>10, <1>11
     DEF LyricsNext, Environment, Service

LEMMA Initially == LyricsInit => LyricsInv
<1> SUFFICES ASSUME LyricsInit PROVE LyricsInv
  OBVIOUS
<1>1. LyricsTypeOK
  <2>1. airplay \in [on : BOOLEAN, track : Tracks]
    <3>1. FreshHost \in [on : BOOLEAN, track : Tracks]
      BY DEF FreshHost
    <3>2. ASSUME NEW a \in [on : {TRUE},
                            track : [revision : {1}, title : Titles, length : Lengths]]
          PROVE  a \in [on : BOOLEAN, track : Tracks]
      <4>1. a = [on |-> a.on, track |-> a.track] /\ a.on = TRUE
        OBVIOUS
      <4>2. a.track \in [revision : {1}, title : Titles, length : Lengths]
        OBVIOUS
      <4>3. a.track \in Tracks
        BY <4>2
      <4> QED
        BY <4>1, <4>3
    <3> QED
      BY <3>1, <3>2 DEF LyricsInit
  <2>2. status \in [state : {"absent", "waiting", "ready", "not_found", "error"},
                    track : Tracks, lines : Recordings \cup {None}, life : Nat]
    BY DEF LyricsInit, Status, FreshHost
  <2> QED
    BY <2>1, <2>2, NearIsNat DEF LyricsInit, LyricsTypeOK, FreshHost
<1>2. CacheFits /\ LookupFits
  BY DEF LyricsInit, CacheFits, LookupFits
<1>3. StatusFits /\ WaitCovers
  BY DEF LyricsInit, StatusFits, WaitCovers, Status
<1>4. TracksKnown
  BY DEF LyricsInit, TracksKnown, Known, Status, FreshHost
<1> QED
  BY <1>1, <1>2, <1>3, <1>4 DEF LyricsInv

LEMMA StepKeeps == LyricsInv /\ [LyricsNext]_lyrics_vars => LyricsInv'
<1> SUFFICES ASSUME LyricsInv, [LyricsNext]_lyrics_vars PROVE LyricsInv'
  OBVIOUS
<1>1. CASE UNCHANGED lyrics_vars
  BY <1>1 DEF lyrics_vars, service, LyricsInv, LyricsTypeOK, CacheFits, LookupFits, StatusFits,
              TracksKnown, Known, WaitCovers
<1>2. CASE Service
  BY <1>2, ServiceTypes, DocumentsFit, TracksStayKnown, WaitsCover DEF LyricsInv, LyricsNext
<1>3. CASE Environment
  <2>1. LyricsTypeOK'
    BY <1>3, EnvironmentTypes DEF LyricsInv
  <2>2. CacheFits' /\ LookupFits' /\ StatusFits'
    BY <1>3 DEF Environment, NewTrack, Metadata, Connection, HostRestarts, AppRestarts,
                Returns, service, LyricsInv, CacheFits, LookupFits, StatusFits
  <2> QED
    BY <1>3, <2>1, <2>2, TracksStayKnown, WaitsCover DEF LyricsInv, LyricsNext
<1>4. CASE Tick
  <2>1. LyricsTypeOK'
    BY <1>4, NearIsNat DEF Tick, LyricsInv, LyricsTypeOK
  <2>2. CacheFits' /\ LookupFits' /\ StatusFits'
    BY <1>4 DEF Tick, LyricsInv, CacheFits, LookupFits, StatusFits
  <2> QED
    BY <1>4, <2>1, <2>2, TracksStayKnown, WaitsCover DEF LyricsInv, LyricsNext
<1> QED
  BY <1>1, <1>2, <1>3, <1>4 DEF LyricsNext

\* The inductive invariant: documents fit the keys they are kept under, what is known of a
\* track holds for the life of its host, and waits cover what is missing to the retry.
THEOREM LyricsInvariance == LyricsSpec => []LyricsInv
  BY Initially, StepKeeps, PTL DEF LyricsSpec

\* The files and the service's state stay within their types, LyricsTypeOK.
THEOREM LyricsTypeCorrect == LyricsSpec => []LyricsTypeOK
  BY LyricsInvariance, PTL DEF LyricsInv

\* The page shows no lyrics of another title, and within the life of a host none of a
\* recording of another length, whatever the provider answers and however late.
THEOREM ShownBelong == LyricsSpec => []ShownLyricsBelong
<1>1. LyricsInv => ShownLyricsBelong
  <2> SUFFICES ASSUME LyricsInv, Shown
               PROVE  /\ status.lines # None
                      /\ status.lines.title = airplay.track.title
                      /\ status.life = life =>
                            Apart(status.lines.length, airplay.track.length) <= Near
    BY DEF ShownLyricsBelong
  <2>1. Fits(status.lines, Key(status.track))
    BY DEF LyricsInv, StatusFits, Shown
  <2>2. status.track.title = airplay.track.title
    BY DEF Shown, SameTrack
  <2>3. status.life = life => status.track.length = airplay.track.length
    BY DEF LyricsInv, TracksKnown, Known, Shown, SameTrack
  <2> QED
    BY <2>1, <2>2, <2>3, NamesAssumption DEF Fits
<1> QED
  BY <1>1, LyricsInvariance, PTL

\* A failed lookup is not repeated within the retry interval while its track stays.
THEOREM RetriesAreLimited == LyricsSpec => RetryLimited
<1>1. LyricsInv /\ [LyricsNext]_lyrics_vars =>
        [ /\ step = "load" /\ step' = "cached"
          /\ asked = Token(track) /\ status.state # "absent"
          => since = Retry ]_lyrics_vars
  <2> SUFFICES ASSUME LyricsInv, step = "load", asked = Token(track), status.state # "absent"
               PROVE  since = Retry
    OBVIOUS
  <2>1. Token(track) \in [revision : Nat, key : Recordings]
    BY DEF LyricsInv, LyricsTypeOK, LookupFits
  <2>2. asked # None
    BY <2>1, NamesAssumption
  <2> QED
    BY <2>2 DEF LyricsInv, WaitCovers
<1> QED
  BY <1>1, LyricsInvariance, PTL DEF LyricsSpec, RetryLimited

=============================================================================
