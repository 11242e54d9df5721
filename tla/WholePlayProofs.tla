--------------------------- MODULE WholePlayProofs ---------------------------
(***************************************************************************)
(* A song that is heard in whole is stored: FullPlayIsStored of SongWorker *)
(* for any songs and lengths, hop, overlap and history, radius, quotas and *)
(* bounds.  The start of a song is foretold: an anchor tells of it, or     *)
(* will before the history has forgotten its hop.  From the hop of that    *)
(* anchor on the builder has all of the song up to the window, since       *)
(* segments meet where anchors meet, and a window goes on where the one    *)
(* before ended.  At the end of the song the builder is whole and waits to *)
(* be stored, and what is stored of it is the song, until it is evicted.   *)
(***************************************************************************)
EXTENDS SongWorkerProofs

-----------------------------------------------------------------------------
(* A song that is played, and what the anchors tell of it: a builder takes *)
(* its frames from its start to its end, if nothing is torn between the    *)
(* segments.                                                               *)
\* A play of a song is [song, from, last], the frames of the stream where it is heard.
IsPlay(p) ==
    /\ p.song \in Songs /\ p.from \in Nat /\ p.last \in Nat
    /\ p.from <= p.last /\ p.last - p.from < LengthOf[p.song]

\* The frame f of the stream is this one of play p.
Is(x, p, f) == x = [song |-> p.song, pos |-> f - p.from]

\* Anchors tell of one song after the other, and of each in one revision or more.
Timeline(list) ==
    /\ \A i \in 1..Len(list) :
        /\ list[i].pos < list[i].length
        /\ list[i].rtp <= list[i].revision
    /\ \A i, j \in 1..Len(list) :
        /\ i <= j => list[i].rtp <= list[j].rtp /\ list[i].revision <= list[j].revision
        /\ list[i].revision = list[j].revision =>
                list[i].rtp = list[j].rtp /\ list[i].length = list[j].length

\* The anchors of number r are right about play p; those before it have a title and were not
\* corrected; those after it are not about its frames.
Labels(list, p, r) ==
    \A i \in 1..Len(list) :
        LET a == list[i] IN
        /\ a.rtp < r => a.frame <= p.from /\ a.titled /\ a.revision = a.rtp
        /\ a.rtp = r => /\ a.frame = p.from + a.pos /\ a.length = LengthOf[p.song]
                        /\ a.titled /\ a.revision = a.rtp /\ a.frame <= p.last
        /\ a.rtp > r => a.frame > p.last

\* What the anchors say of a builder that is left at frame lo.
Fits(b, list, lo) ==
    /\ b.rtp <= b.revision
    /\ \A i \in 1..Len(list) :
        LET a == list[i] IN
        /\ a.rtp >= b.rtp
        /\ a.rtp = b.rtp => a.revision >= b.revision
        /\ a.revision = b.revision =>
                b.trackEnd <= a.length /\ (b.streamEnd # lo => b.trackEnd = a.length)
    /\ b.streamEnd = lo =>
        LET t == ToldBy(list, lo) IN
        /\ t # 0
        /\ list[t].frame < lo /\ list[t].rtp = b.rtp =>
                list[t].pos + lo - list[t].frame = b.trackEnd

\* A builder that has come through n segments.
FitsAt(b, segments, n, list, lo) ==
    IF n = 0 THEN Fits(b, list, lo) ELSE Follows(b, segments[n])

\* Where a builder goes on, it goes on in the stream.
LEMMA Contiguous ==
    ASSUME NEW list, NEW lo, NEW hi, Cuts(list, lo, hi), Timeline(list), NEW k, NEW segments,
           Told(k, segments, list, lo, hi), NEW n \in 1..Len(segments),
           NEW p, NEW b \in Builders(p), FitsAt(b, segments, n - 1, list, lo),
           b.rtp = segments[n].rtp, segments[n].revision = segments[n].rtp,
           Continues(b, segments[n])
    PROVE  segments[n].from = b.streamEnd
<1> DEFINE s == segments[n]
           a == list[k[n]]
           m == n - 1
<1>1. /\ Len(segments) \in Nat /\ s.from \in Nat /\ s.to \in Nat /\ s.track \in Nat
      /\ s.length \in Nat /\ lo <= s.from /\ s.from < s.to /\ s.to <= hi
      /\ k[n] \in 1..Len(list) /\ s.length = a.length /\ s.revision = a.revision
      /\ s.rtp = a.rtp /\ s.track < s.length /\ s.rtp \in Nat /\ s.revision \in Nat
  BY ToldIs
<1>2. b.rtp \in Nat /\ b.revision \in Nat /\ b.trackEnd \in Int /\ b.streamEnd \in Int
  BY DEF Builders
<1>3. list \in Seq(Anchors) /\ Sorted(list) /\ lo \in Nat /\ hi \in Nat /\ lo < hi
  BY DEF Cuts
<1>4. Len(list) \in Nat
      /\ \A i \in 1..Len(list) : /\ list[i].frame \in Nat /\ list[i].pos \in Nat
                                 /\ list[i].length \in Nat /\ list[i].rtp \in Nat
                                 /\ list[i].revision \in Nat
  BY <1>3, AnchorIs DEF Anchors
<1>5. b.revision = s.revision => s.track = b.trackEnd
  BY DEF Continues
<1>6. CASE n = 1
  <2>1. Fits(b, list, lo)
    BY <1>6 DEF FitsAt
  <2>0. /\ b.rtp <= b.revision
        /\ a.rtp = b.rtp => a.revision >= b.revision
        /\ a.revision = b.revision =>
                b.trackEnd <= a.length /\ (b.streamEnd # lo => b.trackEnd = a.length)
    BY <1>1, <2>1, Zenon DEF Fits
  <2>2. b.revision = s.revision
    <3> DEFINE x == a.rtp
               y == a.revision
               z == b.rtp
               v == b.revision
    <3>1. x \in Nat /\ y \in Nat /\ z \in Nat /\ v \in Nat /\ z = x /\ y = x
          /\ z <= v /\ (x = z => y >= v)
      BY <1>1, <1>2, <2>0
    <3> HIDE DEF x, y, z, v
    <3>2. v = y
      BY <3>1
    <3> QED  BY <1>1, <3>2 DEF y, v
  <2>3. b.streamEnd = lo
    BY <1>1, <1>2, <1>5, <2>0, <2>2
  <2> DEFINE t == ToldBy(list, lo)
             c == list[t]
  <2>4. t \in 1..Len(list) /\ t # 0 /\ c.frame <= lo
    <3>1. t \in 0..Len(list) /\ (t # 0 => list[t].frame <= lo)
      BY <1>3, ToldByIs
    <3>2. t # 0
      BY <2>1, <2>3 DEF Fits
    <3> HIDE DEF t
    <3> QED  BY <1>4, <3>1, <3>2
  <2>5. t <= k[n]
    <3>1. k[n] \in Tellers(list, lo, hi)
      BY DEF Told
    <3>2. FirstOf(list, lo) \in Nat /\ FirstOf(list, lo) >= t
      BY <1>3, FirstOfIs
    <3> HIDE DEF t
    <3> QED  BY <1>1, <1>4, <2>4, <3>1, <3>2 DEF Tellers
  <2>6. CASE c.pos + lo - c.frame < c.length
    <3>1. 0 \in 0..Len(segments) /\ lo = Reached(segments, lo, 0)
      BY <1>1 DEF Reached
    <3>2. segments[0 + 1].from = lo
      BY <1>3, <2>4, <2>6, <3>1, ToldNext
    <3> QED  BY <1>6, <2>3, <3>2
  <2>7. CASE ~(c.pos + lo - c.frame < c.length)
    <3> HIDE DEF t
    <3>1. c.pos < c.length /\ c.rtp <= a.rtp /\ c.revision <= a.revision
          /\ (c.revision = a.revision => c.length = a.length)
      BY <1>1, <2>4, <2>5 DEF Timeline
    <3>2. c.frame < lo
      BY <1>3, <1>4, <2>4, <2>7, <3>1
    <3>3. c.rtp >= b.rtp /\ (c.rtp = b.rtp => c.revision >= b.revision)
      BY <2>1, <2>4 DEF Fits
    <3>4. c.rtp = b.rtp /\ c.revision = b.revision
      <4>1. c.rtp \in Nat /\ c.revision \in Nat
        BY <1>4, <2>4
      <4> DEFINE x == a.rtp
                 y == a.revision
                 z == b.rtp
                 v == b.revision
                 i == c.rtp
                 j == c.revision
      <4>2. x \in Nat /\ y \in Nat /\ z \in Nat /\ v \in Nat /\ i \in Nat /\ j \in Nat
            /\ z = x /\ y = v /\ i <= x /\ j <= y /\ i >= z /\ (i = z => j >= v)
        BY <1>1, <1>2, <2>2, <3>1, <3>3, <4>1
      <4> HIDE DEF x, y, z, v, i, j
      <4>3. i = z /\ j = v
        BY <4>2
      <4> QED  BY <4>3 DEF z, v, i, j
    <3>5. c.pos + lo - c.frame = b.trackEnd
      BY <2>1, <2>3, <2>4, <3>2, <3>4 DEF Fits, t
    <3>6. c.length = a.length
      BY <1>1, <2>2, <3>1, <3>4
    <3> QED  BY <1>1, <1>2, <1>4, <1>5, <2>2, <2>4, <2>7, <3>5, <3>6
  <2> QED  BY <2>6, <2>7
<1>7. CASE n # 1
  <2> DEFINE q == segments[m]
             c == list[k[m]]
  <2>1. m \in 1..Len(segments) /\ m + 1 = n /\ m < n
    BY <1>1, <1>7
  <2>2. b.rtp = q.rtp /\ b.revision = q.revision /\ b.trackEnd = TrackEnd(q)
        /\ b.streamEnd = q.to
    BY <2>1 DEF FitsAt, Follows
  <2>3. /\ q.to \in Nat /\ q.length \in Nat /\ k[m] \in 1..Len(list) /\ q.length = c.length
        /\ q.revision = c.revision /\ q.rtp = c.rtp
    BY <2>1, ToldIs
  <2>4. k[m] < k[n] /\ q.to <= s.from
    BY <2>1 DEF Told
  <2> HIDE DEF m
  <2>5. c.rtp <= c.revision /\ c.revision <= a.revision
        /\ (c.revision = a.revision => c.length = a.length)
    <3>1. k[m] <= k[n]
      BY <1>1, <2>3, <2>4
    <3>2. c.rtp <= c.revision
      BY <2>3 DEF Timeline
    <3>3. /\ list[k[m]].revision <= list[k[n]].revision
          /\ list[k[m]].revision = list[k[n]].revision =>
                list[k[m]].rtp = list[k[n]].rtp /\ list[k[m]].length = list[k[n]].length
      BY <1>1, <2>3, <3>1, Zenon DEF Timeline
    <3> QED  BY <3>2, <3>3
  <2>6. b.revision = s.revision /\ c.revision = a.revision
    BY <1>1, <1>2, <1>4, <2>2, <2>3, <2>5
  <2>7. TrackEnd(q) < q.length
    BY <1>1, <1>2, <1>5, <2>2, <2>3, <2>5, <2>6
  <2>8. q.to < hi
    <3> HIDE DEF q, s
    <3> QED  BY <1>1, <1>3, <2>3, <2>4
  <2>9. m + 1 \in 1..Len(segments) /\ segments[m + 1].from = q.to
    <3> SUFFICES ASSUME ~(m + 1 \in 1..Len(segments) /\ segments[m + 1].from = q.to)
                 PROVE  FALSE
      OBVIOUS
    <3>1. TrackEnd(q) = q.length
      BY <2>1, <2>8, GapEnds
    <3>2. q.length \in Nat
      BY <2>3
    <3> HIDE DEF q
    <3> QED  BY <2>7, <3>1, <3>2
  <2> QED  BY <2>1, <2>2, <2>9
<1> QED  BY <1>6, <1>7

\* What the segments have of a song that is told of truly, and of those before it.
LEMMA LabelsTell ==
    ASSUME NEW list, NEW lo, NEW hi, Cuts(list, lo, hi), NEW k, NEW segments,
           Told(k, segments, list, lo, hi), NEW n \in 1..Len(segments),
           NEW p, IsPlay(p), NEW r \in Nat, Labels(list, p, r)
    PROVE  LET s == segments[n] IN
           /\ s.rtp < r => s.titled /\ s.revision = s.rtp
           /\ s.rtp = r => /\ s.titled /\ s.revision = s.rtp
                           /\ s.length = LengthOf[p.song] /\ s.track = s.from - p.from
                           /\ TrackEnd(s) = s.to - p.from
           /\ s.rtp <= r => s.from - s.track <= p.from
<1> DEFINE s == segments[n]
           a == list[k[n]]
<1>1. /\ k[n] \in 1..Len(list) /\ s.length = a.length /\ s.revision = a.revision
      /\ s.rtp = a.rtp /\ s.titled = a.titled /\ s.track = a.pos + s.from - a.frame
      /\ TrackEnd(s) = s.track + s.to - s.from
      /\ s.from \in Nat /\ s.to \in Nat /\ s.rtp \in Nat /\ s.track \in Nat
      /\ a.frame \in Nat /\ a.pos \in Nat
  BY ToldIs
<1>2. /\ a.rtp < r => a.frame <= p.from /\ a.titled /\ a.revision = a.rtp
      /\ a.rtp = r => /\ a.frame = p.from + a.pos /\ a.length = LengthOf[p.song]
                      /\ a.titled /\ a.revision = a.rtp
  BY <1>1 DEF Labels
<1>3. p.from \in Nat
  BY DEF IsPlay
<1> HIDE DEF a
<1> DEFINE x == s.from
           y == s.to
           z == s.track
           e == TrackEnd(s)
           u == a.frame
           v == a.pos
           o == p.from
           m == s.rtp
<1>4. /\ x \in Nat /\ y \in Nat /\ u \in Nat /\ v \in Nat /\ z = v + x - u /\ e = z + y - x
      /\ m < r => u <= o
      /\ m = r => u = o + v
      /\ m \in Nat /\ o \in Nat
  BY <1>1, <1>2, <1>3
<1>5. (m = r => z = x - o /\ e = y - o) /\ (m <= r => x - z <= o)
  <2> HIDE DEF x, y, z, e, u, v, s, o, m
  <2>1. CASE m < r
    BY <1>4, <2>1
  <2>2. CASE m = r
    BY <1>4, <2>2
  <2>3. CASE ~(m <= r)
    BY <1>4, <2>3
  <2> QED  BY <1>4, <2>1, <2>2, <2>3
<1> HIDE DEF s
<1> QED  BY <1>1, <1>2, <1>5 DEF s

\* The work before the first segment of a song to come, of number r.
Waits(w, segments, n, list, lo, p, r) ==
    /\ ~w.failed /\ r \notin w.completed
    /\ w.builder # None => w.builder \in Builders(p) /\ w.builder.rtp < r
                           /\ FitsAt(w.builder, segments, n, list, lo)
    /\ \A i \in 1..n : segments[i].rtp < r

\* A song waits on while segments of others are taken.
LEMMA WaitStep ==
    ASSUME NEW work, NEW k, NEW segments, NEW list, NEW lo, NEW hops, NEW x,
           LoopOf(work, k, segments, list, lo, hops, x), Timeline(list),
           NEW p, IsPlay(p), NEW r \in Nat, Labels(list, p, r),
           NEW n \in 1..Len(segments), Waits(work[n - 1], segments, n - 1, list, lo, x, r),
           segments[n].rtp < r
    PROVE  Waits(work[n], segments, n, list, lo, x, r)
<1> DEFINE w == work[n - 1]
           t == work[n]
           s == segments[n]
<1>1. x \in Imprints /\ Cuts(list, lo, lo + Hop) /\ Told(k, segments, list, lo, lo + Hop)
  BY DEF LoopOf
<1>2. s.titled /\ s.revision = s.rtp /\ s.rtp \in Nat
  BY <1>1, ToldIs, LabelsTell
<1>3. Taken(t, w, s, x, hops) /\ t \in Works(x, hops) /\ Len(segments) \in Nat
  BY LoopStep
<1>4. /\ ~w.failed /\ r \notin w.completed
      /\ w.builder # None => w.builder \in Builders(x) /\ w.builder.rtp < r
                             /\ FitsAt(w.builder, segments, n - 1, list, lo)
  BY DEF Waits
<1>5. \A i \in 1..n : segments[i].rtp < r
  <2>1. \A i \in 1..n : i = n \/ i \in 1..(n - 1)
    BY <1>3
  <2> QED  BY <2>1 DEF Waits
<1> DEFINE Good == /\ ~t.failed /\ r \notin t.completed
                   /\ t.builder # None => t.builder \in Builders(x) /\ Follows(t.builder, s)
<1>6. SUFFICES Good
  <2>1. n # 0
    BY <1>3
  <2>2. Good => (t.builder # None => t.builder.rtp < r)
    BY DEF Follows
  <2> QED  BY <1>5, <2>1, <2>2 DEF Waits, FitsAt
<1>7. ASSUME NEW v, ~v.failed, r \notin v.completed, NEW b \in Builders(x), b.rtp = s.rtp,
             b.streamEnd = s.from, Extended(t, v, b, s, x, hops)
      PROVE  Good
  <2>1. (t.failed => t.builder = None) /\ (t.builder # None => Follows(t.builder, s))
    BY <1>1, <1>7, ExtendedFollows
  <2>2. PICK c \in Builders(x) :
            /\ Grown(c, b, s, hops)
            /\ IF Len(c.source) >= c.length
               THEN /\ t.builder = None /\ t.completed = v.completed \cup {c.rtp}
               ELSE /\ t.builder = c /\ t.completed = v.completed
    BY <1>7 DEF Extended
  <2>3. c.rtp = s.rtp /\ c.rtp # r
    BY <1>2, <1>7, <2>2 DEF Grown
  <2>4. ~t.failed
    BY <1>7 DEF Extended
  <2> QED  BY <1>7, <2>1, <2>2, <2>3, <2>4
<1> HIDE DEF t
<1>8. CASE Same(w, s) /\ Continues(w.builder, s) /\ Extended(t, w, w.builder, s, x, hops)
  <2> DEFINE b == w.builder
  <2>1. b \in Builders(x) /\ b.rtp = s.rtp /\ FitsAt(b, segments, n - 1, list, lo)
    BY <1>4, <1>8 DEF Same
  <2> HIDE DEF b
  <2>2. s.from = b.streamEnd
    <3>1. Continues(b, s)
      BY <1>8 DEF b
    <3> QED  BY <1>1, <1>2, <2>1, <3>1, Contiguous
  <2> QED  BY <1>4, <1>7, <1>8, <2>1, <2>2 DEF b
<1>9. CASE \E v \in Works(x, hops) :
            /\ ~v.failed /\ v.builder = None
            /\ v.completed = {} \/ Closed(w, v, x)
            /\ IF s.rtp \in v.completed THEN t = v
               ELSE /\ NewBuilder(v, s) \in Builders(x)
                    /\ Extended(t, v, NewBuilder(v, s), s, x, hops)
  <2>1. PICK v \in Works(x, hops) :
            /\ ~v.failed /\ v.builder = None
            /\ v.completed = {} \/ Closed(w, v, x)
            /\ IF s.rtp \in v.completed THEN t = v
               ELSE /\ NewBuilder(v, s) \in Builders(x)
                    /\ Extended(t, v, NewBuilder(v, s), s, x, hops)
    BY <1>9
  <2>2. r \notin v.completed
    <3>1. w.builder # None => w.builder.rtp # r
      <4>1. w.builder # None => w.builder.rtp \in Nat
        BY <1>4 DEF Builders
      <4> QED  BY <1>4, <4>1
    <3> QED  BY <1>4, <2>1, <3>1 DEF Closed
  <2>3. CASE t = v
    BY <2>1, <2>2, <2>3
  <2>4. CASE s.rtp \notin v.completed
    <3>1. NewBuilder(v, s).rtp = s.rtp /\ NewBuilder(v, s).streamEnd = s.from
      BY NewBuilderIs DEF Fresh
    <3> QED  BY <1>7, <2>1, <2>2, <2>4, <3>1
  <2> QED  BY <2>1, <2>3, <2>4
<1> QED  BY <1>2, <1>3, <1>4, <1>8, <1>9 DEF Taken

\* The frames [from, to) that are of play p are in the hops.
Plays(hops, p, from, to) ==
    \A f \in from..(to - 1) : p.from <= f /\ f <= p.last =>
        /\ \E h \in Range(hops) : f \in h.from..(h.from + Hop - 1)
        /\ \A h \in Range(hops) :
            f \in h.from..(h.from + Hop - 1) => Is(h.source[f - h.from + 1], p, f)

\* Up to hi the play is heard to the end of its song.
Lasts(p, hi) == p.last >= hi \/ p.last + 1 = p.from + LengthOf[p.song]

\* A builder of all of the song up to frame e of the stream.
Begun(b, p, r, e) ==
    /\ b.rtp = r /\ b.revision = r /\ b.length = LengthOf[p.song] /\ b.first = 0
    /\ b.streamEnd = e /\ b.trackEnd = e - p.from /\ Len(b.source) = e - p.from
    /\ \A i \in 1..(e - p.from) : b.source[i] = [song |-> p.song, pos |-> i - 1]
\* And it has some of the song, but not all of it.
Builds(b, p, r, e) == Begun(b, p, r, e) /\ p.from < e /\ e - p.from < LengthOf[p.song]

\* A builder of the song.
WholeOf(b, p) ==
    /\ b.first = 0 /\ b.length = LengthOf[p.song] /\ Len(b.source) >= LengthOf[p.song]
    /\ \A i \in 1..LengthOf[p.song] : b.source[i] = [song |-> p.song, pos |-> i - 1]
\* The song was finished among these builders.
Finished(finalized, p, hi) ==
    /\ p.from + LengthOf[p.song] <= hi
    /\ \E j \in 1..Len(finalized) : WholeOf(finalized[j], p)

\* The types of a play.
LEMMA PlayIs ==
    ASSUME NEW p, IsPlay(p)
    PROVE  /\ p.from \in Nat /\ p.last \in Nat /\ LengthOf[p.song] \in Nat \ {0}
           /\ p.from <= p.last /\ p.last - p.from < LengthOf[p.song]
  BY SongsAssumption DEF IsPlay

\* Frames of the play that are in the hops.
Heeds(hops, p, g, hi, from, to) ==
    /\ {g, hi, from, to} \subseteq Int /\ g <= from /\ from <= to /\ to <= hi
    /\ Plays(hops, p, g, hi) /\ Lasts(p, hi)
    /\ p.from <= from /\ to - p.from <= LengthOf[p.song]

\* What is sliced out of the hops where the play is heard are its frames.
LEMMA SliceIs ==
    ASSUME NEW x \in Imprints, NEW hops \in Seq(Hops(x)), NEW p, IsPlay(p),
           NEW g, NEW hi, NEW from, NEW to, Heeds(hops, p, g, hi, from, to)
    PROVE  LET y == Slice(hops, "source", from, to) IN
           /\ Remembered(hops, from, to) \/ from = to
           /\ y \in Seq(Heard) /\ Len(y) = to - from
           /\ \A i \in 1..(to - from) : y[i] = [song |-> p.song, pos |-> from + i - 1 - p.from]
<1> DEFINE n == to - from
           y == Slice(hops, "source", from, to)
           First(f) == CHOOSE k \in DOMAIN hops :
                            Within(f, hops[k]) /\ \A j \in 1..(k - 1) : ~Within(f, hops[j])
           At(i) == hops[First(from + i - 1)]
           S(i) == At(i).source[from + i - 1 + 1 - At(i).from]
<1>0. /\ g \in Int /\ hi \in Int /\ from \in Int /\ to \in Int /\ g <= from /\ from <= to
      /\ to <= hi /\ Plays(hops, p, g, hi) /\ Lasts(p, hi) /\ p.from <= from
      /\ to - p.from <= LengthOf[p.song]
  BY DEF Heeds
<1>1. /\ p.from \in Nat /\ p.last \in Nat /\ LengthOf[p.song] \in Nat \ {0}
      /\ p.from <= p.last /\ p.last - p.from < LengthOf[p.song]
  BY PlayIs
<1> USE <1>0
<1>2. to <= p.last + 1
  <2> DEFINE a == p.from
             b == p.last
             l == LengthOf[p.song]
  <2>1. a \in Nat /\ b \in Nat /\ l \in Nat /\ (b >= hi \/ b + 1 = a + l) /\ to - a <= l
    BY <1>1 DEF Lasts
  <2> HIDE DEF a, b, l
  <2>2. to <= b + 1
    BY <2>1
  <2> QED  BY <2>2 DEF b
<1>3. ASSUME NEW f \in from..(to - 1)
      PROVE  /\ \E k \in DOMAIN hops : Within(f, hops[k])
             /\ \A k \in DOMAIN hops :
                    Within(f, hops[k]) => Is(hops[k].source[f - hops[k].from + 1], p, f)
  <2>1. f \in g..(hi - 1) /\ p.from <= f /\ f <= p.last
    <3> DEFINE a == p.from
               b == p.last
    <3>1. a \in Nat /\ b \in Nat /\ a <= from /\ to <= b + 1
      BY <1>1, <1>2
    <3>2. f \in Int /\ from <= f /\ f <= to - 1
      OBVIOUS
    <3>4. g \in Int /\ hi \in Int /\ from \in Int /\ to \in Int /\ g <= from /\ to <= hi
      OBVIOUS
    <3> HIDE DEF a, b
    <3>3. f \in g..(hi - 1) /\ a <= f /\ f <= b
      BY ONLY <3>1, <3>2, <3>4
    <3> QED  BY <3>3 DEF a, b
  <2> QED  BY <2>1 DEF Plays, Range, Within
<1>4. y \in Seq(Heard)
  BY <1>3, SliceOK
<1>5. y = [i \in 1..n |-> S(i)]
  BY DEF Slice
<1>6. ASSUME NEW i \in 1..n
      PROVE  S(i) = [song |-> p.song, pos |-> from + i - 1 - p.from]
  <2> DEFINE h == At(i)
             f == from + i - 1
  <2>1. f \in from..(to - 1) /\ f \in Int /\ i \in Int
    BY <1>1
  <2>2. \E k \in DOMAIN hops : Within(f, hops[k])
    BY <1>3, <2>1
  <2>3. First(f) \in 1..Len(hops) /\ Within(f, hops[First(f)])
    <3> HIDE DEF f
    <3> QED  BY <2>2, FirstWithin
  <2>4. h.from \in Nat
    <3>1. h \in Hops(x)
      <4> HIDE DEF First
      <4> QED  BY <2>3
    <3> HIDE DEF h
    <3> QED  BY <3>1 DEF Hops
  <2>5. f + 1 - h.from = f - h.from + 1
    <3> HIDE DEF f, h
    <3> QED  BY <2>1, <2>4
  <2>6. Is(h.source[f - h.from + 1], p, f)
    <3>1. First(f) \in DOMAIN hops
      <4> HIDE DEF f, First
      <4> QED  BY <2>3
    <3> HIDE DEF f, First
    <3> QED  BY <1>3, <2>1, <2>3, <3>1 DEF f
  <2>7. h.source[f + 1 - h.from] = [song |-> p.song, pos |-> f - p.from]
    <3> HIDE DEF f, h
    <3> QED  BY <2>5, <2>6 DEF Is
  <2>8. S(i) = h.source[f + 1 - h.from]
    OBVIOUS
  <2>9. S(i) = [song |-> p.song, pos |-> f - p.from]
    <3> HIDE DEF S, f, h
    <3> QED  BY <2>7, <2>8
  <2>10. f - p.from = from + i - 1 - p.from
    <3>1. p.from \in Int /\ from \in Int /\ i \in Int
      BY <1>1
    <3> HIDE DEF n, y, First, At, S, h
    <3> QED  BY ONLY <3>1
  <2> HIDE DEF S, f
  <2> QED  BY <2>9, <2>10
<1>7. n \in Nat
  OBVIOUS
<1> HIDE DEF S, y
<1>8. Len(y) = n /\ \A i \in 1..n : y[i] = S(i)
  BY <1>4, <1>5, <1>7
<1>9. Remembered(hops, from, to) \/ from = to
  <2> HIDE DEF n, First, At
  <2>1. 0 <= from
    <3> DEFINE a == p.from
    <3>1. a \in Nat /\ a <= from
      BY <1>1
    <3> HIDE DEF a
    <3> QED  BY <3>1
  <2>2. \A f \in from..(to - 1) : \E k \in DOMAIN hops : Within(f, hops[k])
    BY <1>3
  <2> QED  BY <2>1, <2>2 DEF Remembered
<1> QED  BY <1>4, <1>6, <1>8, <1>9 DEF y

\* The hop at hand has the frames of the play in it.
LEMMA PlaysAtHand ==
    ASSUME NEW x, NEW hops \in Seq(Hops(x)), NEW lo \in Nat, HopAt(hops, lo),
           NEW p, IsPlay(p), NEW g, NEW hi, NEW from, NEW to, Heeds(hops, p, g, hi, from, to),
           lo <= from, to <= lo + Hop
    PROVE  <<Last(hops)>> \in Seq(Hops(x)) /\ Heeds(<<Last(hops)>>, p, from, to, from, to)
<1> DEFINE h == Last(hops)
<1>1. Len(hops) \in Nat \ {0} /\ h.from = lo
  BY EmptySeq DEF HopAt
<1>2. h \in Range(hops)
  BY <1>1 DEF Range, Last
<1>3. <<h>> \in Seq(Hops(x)) /\ Range(<<h>>) = {h}
  BY <1>1 DEF Range, Last
<1> HIDE DEF h
<1> /\ g \in Int /\ hi \in Int /\ from \in Int /\ to \in Int /\ g <= from /\ to <= hi
    /\ Plays(hops, p, g, hi)
  BY DEF Heeds
<1>4. ASSUME NEW f \in from..(to - 1), p.from <= f, f <= p.last
      PROVE  f \in h.from..(h.from + Hop - 1) /\ Is(h.source[f - h.from + 1], p, f)
  <2>1. f \in h.from..(h.from + Hop - 1) /\ f \in g..(hi - 1)
    BY <1>1, Geometry
  <2> QED  BY <1>2, <1>4, <2>1 DEF Plays
<1>5. Plays(<<h>>, p, from, to)
  BY <1>3, <1>4 DEF Plays
<1>6. Lasts(p, to)
  <2> DEFINE l1 == p.last
  <2>1. l1 \in Nat
    BY PlayIs
  <2>2. l1 >= hi => l1 >= to
    <3> HIDE DEF l1
    <3> QED  BY <2>1
  <2> QED  BY <2>2 DEF Heeds, Lasts
<1>7. Heeds(<<h>>, p, from, to, from, to)
  BY <1>5, <1>6 DEF Heeds
<1> QED  BY <1>3, <1>7 DEF h

\* The builder of a song takes its segment and is the song up to its end, or all of it.
LEMMA GrowStep ==
    ASSUME NEW x \in Imprints, NEW hops \in Seq(Hops(x)), NEW p, IsPlay(p), NEW r \in Nat,
           NEW s, s.from \in Nat, s.to \in Nat, s.from < s.to, s.revision = r,
           TrackEnd(s) = s.to - p.from, TrackEnd(s) <= LengthOf[p.song], p.from <= s.from,
           NEW g \in Int, NEW hi \in Int, Plays(hops, p, g, hi), Lasts(p, hi),
           g <= s.from, s.to <= hi,
           NEW lo \in Nat, HopAt(hops, lo), lo <= s.from, s.to <= lo + Hop,
           NEW v \in Works(x, hops), NEW b \in Builders(x), Begun(b, p, r, s.from), NEW t,
           Extended(t, v, b, s, x, hops)
    PROVE  \/ ~t.failed /\ t.builder \in Builders(x) /\ Builds(t.builder, p, r, s.to)
           \/ Finished(t.finalized, p, hi)
<1> DEFINE y == Slice(<<Last(hops)>>, "source", s.from, s.to)
           e == s.from
           d == s.to
           o == p.from
           l == LengthOf[p.song]
<1>1. o \in Nat /\ l \in Nat \ {0} /\ e \in Nat /\ d \in Nat /\ o <= e /\ e < d /\ d - o <= l
  BY PlayIs
<1>2. y \in Seq(Heard) /\ Len(y) = d - e
      /\ \A i \in 1..(d - e) : y[i] = [song |-> p.song, pos |-> e + i - 1 - o]
  <2>1. s.from \in Int /\ s.to \in Int /\ s.from <= s.to /\ s.to - p.from <= LengthOf[p.song]
    BY <1>1
  <2> HIDE DEF e, d, o, l, y
  <2>4. Heeds(hops, p, g, hi, s.from, s.to)
    BY <2>1 DEF Heeds
  <2>3. /\ <<Last(hops)>> \in Seq(Hops(x))
        /\ Heeds(<<Last(hops)>>, p, s.from, s.to, s.from, s.to)
    BY <2>4, PlaysAtHand
  <2>5. PICK one : one = <<Last(hops)>>
    OBVIOUS
  <2>6. one \in Seq(Hops(x)) /\ Heeds(one, p, s.from, s.to, s.from, s.to)
    BY <2>3, <2>5
  <2>7. y = Slice(one, "source", s.from, s.to)
    BY <2>5 DEF y
  <2>2. /\ y \in Seq(Heard) /\ Len(y) = s.to - s.from
        /\ \A i \in 1..(s.to - s.from) : y[i] = [song |-> p.song, pos |-> s.from + i - 1 - p.from]
    BY <2>6, <2>7, SliceIs
  <2> QED  BY <2>2 DEF e, d, o
<1>3. /\ b.rtp = r /\ b.revision = r /\ b.length = l /\ b.first = 0
      /\ b.streamEnd = e /\ b.trackEnd = e - o /\ Len(b.source) = e - o
      /\ \A i \in 1..(e - o) : b.source[i] = [song |-> p.song, pos |-> i - 1]
  BY DEF Begun
<1>4. b.source \in Seq(Heard)
  BY DEF Builders
<1>5. PICK c \in Builders(x) :
            /\ ~t.failed /\ Grown(c, b, s, hops)
            /\ IF Len(c.source) >= c.length
               THEN t.finalized = Append(v.finalized, c)
               ELSE t.builder = c
  BY <1>3 DEF Extended
<1>6. /\ c.rtp = r /\ c.revision = r /\ c.length = l /\ c.first = 0
      /\ c.trackEnd = d - o /\ c.streamEnd = d /\ c.source = b.source \o y
  BY <1>3, <1>5 DEF Grown
<1> HIDE DEF y, e, d, o, l
<1> DEFINE z == b.source
<1>7. z \in Seq(Heard) /\ Len(z) = e - o
      /\ \A i \in 1..(e - o) : z[i] = [song |-> p.song, pos |-> i - 1]
  BY <1>3, <1>4
<1> HIDE DEF z
<1>8. Len(c.source) = d - o
      /\ \A i \in 1..(d - o) : c.source[i] = [song |-> p.song, pos |-> i - 1]
  <2>1. c.source = z \o y
    BY <1>6 DEF z
  <2> DEFINE w == z \o y
  <2>2. Len(w) = (e - o) + (d - e)
        /\ \A i \in 1..((e - o) + (d - e)) : w[i] = IF i <= e - o THEN z[i] ELSE y[i - (e - o)]
    <3>1. Len(z \o y) = Len(z) + Len(y)
          /\ \A i \in 1..(Len(z) + Len(y)) :
                (z \o y)[i] = IF i <= Len(z) THEN z[i] ELSE y[i - Len(z)]
      BY <1>2, <1>7, ConcatProperties
    <3> QED  BY <1>2, <1>7, <3>1
  <2>3. (e - o) + (d - e) = d - o
    BY <1>1
  <2>4. ASSUME NEW i \in 1..(d - o)
        PROVE  w[i] = [song |-> p.song, pos |-> i - 1]
    <3>1. w[i] = IF i <= e - o THEN z[i] ELSE y[i - (e - o)]
      BY <2>2, <2>3
    <3> HIDE DEF w
    <3>2. CASE i <= e - o
      <4>1. i \in 1..(e - o)
        BY <1>1, <3>2
      <4> QED  BY <1>7, <3>1, <3>2, <4>1
    <3>3. CASE ~(i <= e - o)
      <4> DEFINE j == i - (e - o)
      <4>1. j \in 1..(d - e) /\ e + j - 1 - o = i - 1
        BY <1>1, <3>3
      <4> HIDE DEF j
      <4>2. y[j] = [song |-> p.song, pos |-> e + j - 1 - o]
        BY <1>2, <4>1
      <4> QED  BY <3>1, <3>3, <4>1, <4>2 DEF j
    <3> QED  BY <3>2, <3>3
  <2> QED  BY <2>1, <2>2, <2>3, <2>4
<1>9. CASE Len(c.source) >= c.length
  <2> DEFINE f == v.finalized
  <2>1. f \in Seq(Builders(x)) /\ t.finalized = Append(f, c)
    BY <1>5, <1>9 DEF Works
  <2> HIDE DEF f
  <2>2. Len(f) + 1 \in 1..Len(t.finalized) /\ t.finalized[Len(f) + 1] = c
    BY <2>1, LongerOnce
  <2>3. d - o = l
    BY <1>1, <1>6, <1>8, <1>9
  <2>4. WholeOf(c, p)
    BY <1>1, <1>6, <1>8, <2>3 DEF WholeOf, l
  <2>5. o + l <= hi
    <3>1. d <= hi
      BY DEF d
    <3> QED  BY <1>1, <2>3, <3>1
  <2>6. Finished(t.finalized, p, hi)
    BY <2>2, <2>4, <2>5 DEF Finished, o, l
  <2> QED  BY <2>6
<1>10. CASE ~(Len(c.source) >= c.length)
  <2>1. d - o < l
    BY <1>1, <1>6, <1>8, <1>10
  <2>2. Begun(c, p, r, d)
    BY <1>6, <1>8 DEF Begun, o, l
  <2>3. Builds(c, p, r, d)
    BY <1>1, <2>1, <2>2 DEF Builds, o, l
  <2>4. t.builder = c /\ ~t.failed
    BY <1>5, <1>10
  <2> QED  BY <2>3, <2>4 DEF d
<1> QED  BY <1>9, <1>10

\* The song of a play is being built, up to frame e.
BuildsAt(w, p, r, e, x) ==
    ~w.failed /\ w.builder \in Builders(x) /\ Builds(w.builder, p, r, e)

\* The first segment of the song begins its builder, with the start of the song.
LEMMA ArriveStep ==
    ASSUME NEW work, NEW k, NEW segments, NEW list, NEW lo, NEW hops, NEW x,
           LoopOf(work, k, segments, list, lo, hops, x),
           NEW p, IsPlay(p), NEW r \in Nat, Labels(list, p, r),
           NEW n \in 1..Len(segments), Waits(work[n - 1], segments, n - 1, list, lo, x, r),
           segments[n].rtp = r,
           NEW hi, hi = lo + Hop, Plays(hops, p, p.from, hi), Lasts(p, hi)
    PROVE  BuildsAt(work[n], p, r, segments[n].to, x) \/ Finished(work[n].finalized, p, hi)
<1> DEFINE w == work[n - 1]
           t == work[n]
           s == segments[n]
<1>1. /\ x \in Imprints /\ hops \in Seq(Hops(x)) /\ lo \in Nat /\ hi \in Int
      /\ HopAt(hops, lo) /\ Cuts(list, lo, lo + Hop) /\ Told(k, segments, list, lo, lo + Hop)
  BY Geometry DEF LoopOf, Cuts
<1>2. /\ s.titled /\ s.revision = r /\ s.rtp = r /\ s.length = LengthOf[p.song]
      /\ s.track = s.from - p.from /\ TrackEnd(s) = s.to - p.from
  BY <1>1, LabelsTell
<1>3. /\ s.from \in Nat /\ s.to \in Nat /\ s.from < s.to /\ s.to <= hi /\ s.track \in Nat
      /\ s.track < s.length /\ TrackEnd(s) <= s.length /\ lo <= s.from
  BY <1>1, ToldIs
<1>4. Taken(t, w, s, x, hops)
  BY LoopStep
<1>5. p.from \in Nat /\ LengthOf[p.song] \in Nat \ {0}
  BY PlayIs
<1>6. /\ ~w.failed /\ r \notin w.completed
      /\ w.builder # None => w.builder.rtp < r /\ w.builder \in Builders(x)
  BY DEF Waits
<1>7. w.builder # None => w.builder.rtp # r
  <2>1. w.builder # None => w.builder.rtp \in Nat
    BY <1>6 DEF Builders
  <2> QED  BY <1>6, <2>1
<1>8. ~Same(w, s)
  BY <1>2, <1>7 DEF Same
<1>9. PICK v \in Works(x, hops) :
            /\ Closed(w, v, x)
            /\ IF s.rtp \in v.completed THEN t = v
               ELSE /\ NewBuilder(v, s) \in Builders(x)
                    /\ Extended(t, v, NewBuilder(v, s), s, x, hops)
  BY <1>2, <1>4, <1>6, <1>8 DEF Taken
<1>10. r \notin v.completed
  BY <1>6, <1>7, <1>9 DEF Closed
<1> DEFINE b == NewBuilder(v, s)
<1>11. b \in Builders(x) /\ Extended(t, v, b, s, x, hops)
  BY <1>2, <1>9, <1>10
<1>12. v.history = hops
  BY DEF Works
<1>13. /\ Fresh(b, s)
       /\ IF Remembered(hops, s.from - s.track, s.from)
          THEN b.first = 0 /\ b.source = Slice(hops, "source", s.from - s.track, s.from)
          ELSE b.first = s.track /\ b.source = <<>>
  BY <1>12, NewBuilderIs
<1> HIDE DEF b, s, t, w
<1> DEFINE e == s.from
           o == p.from
           y == Slice(hops, "source", o, e)
<1>14. /\ e \in Nat /\ o \in Nat /\ o <= e /\ e - s.track = o /\ s.track = e - o
       /\ e - o <= LengthOf[p.song] /\ e <= hi
  <2> DEFINE q == s.track
             l == LengthOf[p.song]
             j == s.length
  <2>1. e \in Nat /\ o \in Nat /\ q \in Nat /\ q = e - o /\ q < l /\ l \in Nat
    BY <1>2, <1>3, <1>5
  <2>2. e <= hi
    <3>1. s.to \in Nat /\ e < s.to /\ s.to <= hi
      BY <1>3
    <3> HIDE DEF e
    <3> QED  BY <1>1, <2>1, <3>1
  <2> HIDE DEF e, o, q, l
  <2>3. o <= e /\ e - q = o /\ e - o <= l
    BY <2>1
  <2> QED  BY <2>1, <2>2, <2>3 DEF q, l
<1>15. /\ Remembered(hops, o, e) \/ o = e
       /\ y \in Seq(Heard) /\ Len(y) = e - o
       /\ \A i \in 1..(e - o) : y[i] = [song |-> p.song, pos |-> o + i - 1 - p.from]
  <2>1. o \in Int /\ e \in Int /\ p.from <= o /\ o <= o
    BY <1>14
  <2>2. e - p.from <= LengthOf[p.song] /\ o <= e /\ e <= hi /\ Plays(hops, p, o, hi)
    BY <1>14
  <2> HIDE DEF e, o
  <2>3. Heeds(hops, p, o, hi, o, e)
    BY <1>1, <2>1, <2>2 DEF Heeds
  <2> QED  BY <1>1, <2>3, SliceIs
<1>16. /\ b.first = 0 /\ Len(b.source) = e - o
       /\ \A i \in 1..(e - o) : b.source[i] = [song |-> p.song, pos |-> i - 1]
  <2> HIDE DEF y, e
  <2>1. CASE Remembered(hops, o, e)
    <3>1. b.first = 0 /\ b.source = y
      BY <1>13, <1>14, <2>1 DEF e, y
    <3>2. ASSUME NEW i \in 1..(e - o)
          PROVE  y[i] = [song |-> p.song, pos |-> i - 1]
      <4>1. o + i - 1 - p.from = i - 1
        BY <1>14
      <4>2. y[i] = [song |-> p.song, pos |-> o + i - 1 - p.from]
        BY <1>15
      <4> QED  BY <4>1, <4>2
    <3> QED  BY <1>15, <3>1, <3>2
  <2>2. CASE ~Remembered(hops, o, e)
    <3>1. o = e
      BY <1>15, <2>2
    <3>2. b.first = s.track /\ b.source = <<>>
      BY <1>13, <1>14, <2>2 DEF e
    <3>3. b.first = 0 /\ Len(b.source) = 0 /\ e - o = 0
      BY <1>14, <3>1, <3>2, EmptySeq
    <3>4. 1..(e - o) = {}
      BY <3>3
    <3> QED  BY <3>3, <3>4
  <2> QED  BY <2>1, <2>2
<1>17. Begun(b, p, r, e)
  <2>1. b.rtp = r /\ b.revision = r /\ b.length = LengthOf[p.song] /\ b.streamEnd = e
        /\ b.trackEnd = e - o
    BY <1>2, <1>13, <1>14 DEF Fresh
  <2> QED  BY <1>16, <2>1 DEF Begun
<1>18. TrackEnd(s) <= LengthOf[p.song] /\ p.from <= s.from /\ p.from \in Int
  BY <1>2, <1>3, <1>14
<1>19. \/ ~t.failed /\ t.builder \in Builders(x) /\ Builds(t.builder, p, r, s.to)
       \/ Finished(t.finalized, p, hi)
  BY <1>1, <1>2, <1>3, <1>11, <1>17, <1>18, GrowStep
<1> QED  BY <1>19 DEF BuildsAt, t, s

\* An anchor of number r, at frame e or before it.
Spoken(list, r, e) == \E i \in 1..Len(list) : list[i].rtp = r /\ list[i].frame <= e

\* A song that is built up to a frame of the hop goes on in the next segment.
LEMMA BuildNext ==
    ASSUME NEW k, NEW segments, NEW list, NEW lo, NEW hi, Cuts(list, lo, hi),
           Told(k, segments, list, lo, hi),
           NEW p, IsPlay(p), NEW r \in Nat, Labels(list, p, r), Timeline(list), Lasts(p, hi),
           NEW n \in 0..Len(segments), NEW e, e = Reached(segments, lo, n), e < hi,
           p.from <= e, e - p.from < LengthOf[p.song], Spoken(list, r, e)
    PROVE  n + 1 \in 1..Len(segments) /\ segments[n + 1].from = e /\ segments[n + 1].rtp = r
<1> DEFINE t == ToldBy(list, e)
<1>1. list \in Seq(Anchors) /\ lo \in Nat /\ hi \in Nat
  BY DEF Cuts
<1>2. e \in Nat
  <2>1. CASE n = 0
    BY <1>1, <2>1 DEF Reached
  <2>2. CASE n # 0
    <3>1. Len(segments) \in Nat
      BY DEF Told
    <3>2. n \in 1..Len(segments)
      BY <2>2, <3>1
    <3> QED  BY <2>2, <3>2, ToldIs DEF Reached
  <2> QED  BY <2>1, <2>2
<1>3. /\ t \in 0..Len(list) /\ (t # 0 => list[t].frame <= e)
      /\ \A i \in 1..Len(list) : i > t => list[i].frame > e
  <2> DEFINE u == ToldBy(list, e)
  <2>1. e \in Int
    BY <1>2
  <2> QED  BY <1>1, <2>1, ToldByIs
<1>4. Len(list) \in Nat /\ \A i \in 1..Len(list) : list[i].frame \in Nat /\ list[i].rtp \in Nat
  BY <1>1, AnchorIs DEF Anchors
<1>5. PICK i \in 1..Len(list) : list[i].rtp = r /\ list[i].frame <= e
  BY DEF Spoken
<1> HIDE DEF t
<1>6. i <= t /\ t \in 1..Len(list) /\ t # 0
  BY <1>2, <1>3, <1>4, <1>5
<1>7. list[t].rtp >= r /\ list[t].frame <= e
  BY <1>3, <1>5, <1>6 DEF Timeline
<1>8. p.from \in Nat /\ p.last \in Nat /\ LengthOf[p.song] \in Nat
  BY PlayIs
<1>9. e <= p.last
  <2> DEFINE l == LengthOf[p.song]
  <2>1. l \in Nat /\ (p.last >= hi \/ p.last + 1 = p.from + l) /\ e - p.from < l
    BY <1>8 DEF Lasts
  <2> DEFINE u == p.from
             v == p.last
  <2>2. u \in Nat /\ v \in Nat /\ l \in Nat /\ (v >= hi \/ v + 1 = u + l) /\ e - u < l
    BY <1>8, <2>1
  <2> HIDE DEF l, u, v
  <2>3. e <= v
    BY <1>1, <1>2, <2>2
  <2> QED  BY <2>3 DEF v
<1> DEFINE a == list[t]
<1>10. /\ a.rtp = r => a.frame = p.from + a.pos /\ a.length = LengthOf[p.song]
       /\ a.rtp > r => a.frame > p.last
  BY <1>6 DEF Labels
<1>11. a.rtp = r
  <2>1. a.rtp \in Nat /\ a.frame \in Nat
    BY <1>4, <1>6
  <2>2. ~(a.rtp > r)
    BY <1>2, <1>7, <1>8, <1>9, <1>10, <2>1
  <2> QED  BY <1>7, <2>1, <2>2
<1>12. a.pos + e - a.frame < a.length
  <2>1. a.pos \in Nat /\ a.frame \in Nat
    BY <1>1, <1>6, AnchorIs DEF Anchors
  <2>2. a.frame = p.from + a.pos /\ a.length = LengthOf[p.song]
    BY <1>10, <1>11
  <2> HIDE DEF a
  <2>3. a.pos + e - a.frame = e - p.from
    BY <1>2, <1>8, <2>1, <2>2
  <2> QED  BY <2>2, <2>3
<1>13. n + 1 \in 1..Len(segments) /\ segments[n + 1].from = e /\ k[n + 1] = t
  BY <1>6, <1>12, ToldNext DEF t
<1>14. segments[n + 1].rtp = list[k[n + 1]].rtp
  <2> DEFINE m == n + 1
  <2>1. m \in 1..Len(segments)
    BY <1>13
  <2> HIDE DEF m
  <2>2. segments[m].rtp = list[k[m]].rtp
    BY <2>1, ToldIs
  <2> QED  BY <2>2 DEF m
<1> QED  BY <1>11, <1>13, <1>14

\* One turn of the loop goes on with the song that is built.
LEMMA BuildStep ==
    ASSUME NEW work, NEW k, NEW segments, NEW list, NEW lo, NEW hops, NEW x,
           LoopOf(work, k, segments, list, lo, hops, x), Timeline(list),
           NEW p, IsPlay(p), NEW r \in Nat, Labels(list, p, r),
           NEW n \in 1..Len(segments), NEW e, e = Reached(segments, lo, n - 1),
           BuildsAt(work[n - 1], p, r, e, x),
           Spoken(list, r, e), NEW hi, hi = lo + Hop, NEW g \in Int, g <= lo \/ g <= p.from,
           Plays(hops, p, g, hi), Lasts(p, hi)
    PROVE  BuildsAt(work[n], p, r, segments[n].to, x) \/ Finished(work[n].finalized, p, hi)
<1> DEFINE w == work[n - 1]
           t == work[n]
           s == segments[n]
           b == w.builder
           m == n - 1
<1>1. /\ x \in Imprints /\ hops \in Seq(Hops(x)) /\ lo \in Nat /\ hi \in Nat
      /\ HopAt(hops, lo) /\ Cuts(list, lo, hi) /\ Told(k, segments, list, lo, hi)
  BY Geometry DEF LoopOf, Cuts
<1>2. /\ Taken(t, w, s, x, hops) /\ w \in Works(x, hops)
      /\ m \in 0..Len(segments) /\ m + 1 = n /\ Len(segments) \in Nat
  <2>1. Taken(t, w, s, x, hops) /\ w \in Works(x, hops) /\ Len(segments) \in Nat
    BY LoopStep
  <2> QED  BY <2>1
<1>3. ~w.failed /\ b \in Builders(x) /\ Begun(b, p, r, e) /\ p.from < e
      /\ e - p.from < LengthOf[p.song]
  BY DEF BuildsAt, Builds
<1>4. p.from \in Nat /\ LengthOf[p.song] \in Nat \ {0}
  BY PlayIs
<1>5. /\ s.from \in Nat /\ s.to \in Nat /\ s.from < s.to /\ s.to <= hi /\ s.track \in Nat
      /\ s.track < s.length /\ TrackEnd(s) <= s.length /\ lo <= s.from
  BY <1>1, ToldIs
<1>6. e \in Nat /\ e < hi /\ lo <= e
  <2>1. CASE m = 0
    BY <1>1, <2>1, Geometry DEF Reached
  <2>2. CASE m # 0
    <3>1. m \in 1..Len(segments) /\ m < n
      BY <1>2, <2>2
    <3>2. e = segments[m].to
      BY <2>2 DEF Reached
    <3>3. segments[m].to \in Nat /\ lo <= segments[m].from /\ segments[m].from \in Nat
          /\ segments[m].from < segments[m].to
      BY <1>1, <3>1, ToldIs
    <3>4. segments[m].to <= s.from
      BY <3>1 DEF Told, LoopOf
    <3> DEFINE u == segments[m].to
               v == segments[m].from
               y == s.from
               z == s.to
    <3>5. u \in Nat /\ v \in Nat /\ y \in Nat /\ z \in Nat /\ lo <= v /\ v < u /\ u <= y
          /\ y < z /\ z <= hi /\ e = u
      BY <1>5, <3>2, <3>3, <3>4
    <3> HIDE DEF s, m, u, v, y, z
    <3> QED  BY <1>1, <3>5
  <2> QED  BY <2>1, <2>2
<1>7. s.from = e /\ s.rtp = r
  <2>1. m + 1 \in 1..Len(segments) /\ segments[m + 1].from = e /\ segments[m + 1].rtp = r
    <3>1. p.from <= e /\ e = Reached(segments, lo, m)
      BY <1>3, <1>4, <1>6
    <3> HIDE DEF m
    <3>2. m \in 0..Len(segments) /\ e - p.from < LengthOf[p.song] /\ e < hi
      BY <1>2, <1>3, <1>6
    <3> QED  BY <1>1, <3>1, <3>2, BuildNext
  <2> QED  BY <1>2, <2>1
<1>8. /\ s.titled /\ s.revision = r /\ s.length = LengthOf[p.song]
      /\ s.track = s.from - p.from /\ TrackEnd(s) = s.to - p.from
  BY <1>1, <1>7, LabelsTell
<1>9. Same(w, s) /\ Continues(b, s)
  <2>1. b.rtp = r /\ b.revision = r /\ b.length = LengthOf[p.song] /\ b.trackEnd = e - p.from
    BY <1>3 DEF Begun
  <2>2. b # None
    BY <1>1, <1>3, NoBuilder
  <2>3. Apart(s.length, b.length) <= Resync
    BY <1>4, <1>8, <2>1, Geometry DEF Apart
  <2> QED  BY <1>7, <1>8, <2>1, <2>2, <2>3 DEF Same, Continues
<1>10. Extended(t, w, b, s, x, hops)
  BY <1>2, <1>3, <1>8, <1>9 DEF Taken
<1>11. TrackEnd(s) <= LengthOf[p.song] /\ p.from <= s.from /\ g <= s.from
  <2>1. TrackEnd(s) <= LengthOf[p.song]
    BY <1>5, <1>8
  <2> DEFINE o == p.from
  <2>2. o \in Nat /\ s.from = e /\ o < e /\ (g <= lo \/ g <= o)
    BY <1>3, <1>4, <1>7
  <2> HIDE DEF o
  <2>3. o <= e /\ g <= e
    BY <1>1, <1>6, <2>2
  <2> QED  BY <2>1, <2>2, <2>3 DEF o
<1> HIDE DEF b, w, t, s
<1>12. \/ ~t.failed /\ t.builder \in Builders(x) /\ Builds(t.builder, p, r, s.to)
       \/ Finished(t.finalized, p, hi)
  BY <1>1, <1>2, <1>3, <1>5, <1>7, <1>8, <1>10, <1>11, GrowStep
<1> QED  BY <1>12 DEF BuildsAt, t, s

\* It goes on to the end of the hop, or of the song.
LEMMA BuildLoop ==
    ASSUME NEW work, NEW k, NEW segments, NEW list, NEW lo, NEW hops, NEW x,
           LoopOf(work, k, segments, list, lo, hops, x), Timeline(list),
           NEW p, IsPlay(p), NEW r \in Nat, Labels(list, p, r),
           NEW m \in 0..Len(segments),
           \/ /\ BuildsAt(work[m], p, r, Reached(segments, lo, m), x)
              /\ Spoken(list, r, Reached(segments, lo, m))
           \/ Finished(work[m].finalized, p, lo + Hop),
           NEW hi, hi = lo + Hop, NEW g \in Int, g <= lo \/ g <= p.from,
           Plays(hops, p, g, hi), Lasts(p, hi)
    PROVE  LET w == work[Len(segments)] IN
           BuildsAt(w, p, r, hi, x) \/ Finished(w.finalized, p, hi)
<1> DEFINE N == Len(segments)
           E(n) == Reached(segments, lo, n)
           P(n) == \/ BuildsAt(work[n], p, r, E(n), x) /\ Spoken(list, r, E(n))
                   \/ Finished(work[n].finalized, p, hi)
           A == {n \in 0..N : n < m \/ P(n)}
<1>1. /\ x \in Imprints /\ lo \in Nat /\ hi \in Nat /\ N \in Nat
      /\ Cuts(list, lo, hi) /\ Told(k, segments, list, lo, hi)
  BY LoopStep, Geometry DEF LoopOf, Cuts
<1>2. \A n \in 1..N : /\ segments[n].from \in Nat /\ segments[n].to \in Nat
                      /\ lo <= segments[n].from /\ segments[n].from < segments[n].to
                      /\ segments[n].to <= hi
  BY <1>1, ToldIs
<1>3. \A n \in 0..N : E(n) \in Nat /\ E(n) <= hi /\ lo <= E(n)
  <2> SUFFICES ASSUME NEW n \in 0..N PROVE E(n) \in Nat /\ E(n) <= hi /\ lo <= E(n)
    OBVIOUS
  <2>1. CASE n = 0
    BY <1>1, <2>1, Geometry DEF Reached
  <2>2. CASE n # 0
    <3>1. n \in 1..N
      BY <1>1, <2>2
    <3>2. E(n) = segments[n].to
      BY <2>2 DEF Reached
    <3>3. segments[n].from \in Nat /\ segments[n].to \in Nat
          /\ lo <= segments[n].from /\ segments[n].from < segments[n].to
          /\ segments[n].to <= hi
      BY <1>2, <3>1
    <3> HIDE DEF E
    <3> QED  BY <1>1, <3>2, <3>3
  <2> QED  BY <2>1, <2>2
<1>4. Len(list) \in Nat /\ \A i \in 1..Len(list) : list[i].frame \in Nat
  BY <1>1, AnchorIs DEF Cuts
<1>5. P(m)
  OBVIOUS
<1> HIDE DEF N
<1>6. 0 \in A
  <2>1. m \in Nat /\ 0 \in 0..N
    BY <1>1 DEF N
  <2>2. CASE m = 0
    BY <1>5, <2>1, <2>2
  <2>3. CASE m # 0
    BY <2>1, <2>3
  <2> QED  BY <2>2, <2>3
<1>7. ASSUME NEW n \in 1..N, n - 1 \in A
      PROVE  n \in A
  <2> DEFINE j == n - 1
  <2>1. n \in 0..N /\ j \in 0..N /\ m \in Nat /\ n \in Nat /\ n \in 1..Len(segments) /\ n # 0
    BY <1>1 DEF N
  <2>2. CASE n < m
    BY <2>1, <2>2
  <2>3. CASE n = m
    BY <1>5, <2>1, <2>3
  <2>4. CASE n > m
    <3>1. P(j)
      BY <1>7, <2>1, <2>4
    <3>2. CASE BuildsAt(work[j], p, r, E(j), x) /\ Spoken(list, r, E(j))
      <4> DEFINE e == E(j)
      <4>1. /\ e = Reached(segments, lo, n - 1) /\ BuildsAt(work[n - 1], p, r, e, x)
            /\ Spoken(list, r, e)
        BY <3>2
      <4> HIDE DEF e
      <4>2. BuildsAt(work[n], p, r, segments[n].to, x) \/ Finished(work[n].finalized, p, hi)
        BY <2>1, <4>1, BuildStep
      <4>3. E(n) = segments[n].to
        BY <2>1 DEF Reached
      <4>4. e \in Nat /\ E(n) \in Nat /\ e <= E(n)
        <5>1. e \in Nat /\ E(n) \in Nat
          BY <1>3, <2>1 DEF e
        <5>2. CASE j = 0
          <6>1. e = lo
            BY <5>2 DEF e, Reached
          <6> QED  BY <1>3, <2>1, <5>1, <6>1
        <5>3. CASE j # 0
          <6>1. j \in 1..Len(segments) /\ j < n
            BY <2>1, <5>3 DEF N
          <6>2. segments[j].to <= segments[n].from
            BY <1>1, <2>1, <6>1 DEF Told
          <6>3. e = segments[j].to
            BY <5>3 DEF e, Reached
          <6>4. segments[n].from \in Nat /\ segments[n].to \in Nat
                /\ segments[n].from < segments[n].to
            BY <1>2
          <6> HIDE DEF E, j
          <6> QED  BY <4>3, <5>1, <6>2, <6>3, <6>4
        <5> QED  BY <5>2, <5>3
      <4>5. Spoken(list, r, E(n))
        <5>1. PICK i \in 1..Len(list) : list[i].rtp = r /\ list[i].frame <= e
          BY <4>1 DEF Spoken
        <5> HIDE DEF E
        <5>2. list[i].frame <= E(n)
          BY <1>4, <4>4, <5>1
        <5> QED  BY <5>1, <5>2 DEF Spoken
      <4>6. P(n)
        <5> HIDE DEF E
        <5> QED  BY <4>2, <4>3, <4>5
      <4> QED  BY <2>1, <4>6
    <3>3. CASE Finished(work[j].finalized, p, hi)
      <4>1. PICK q \in 1..Len(work[j].finalized) : WholeOf(work[j].finalized[q], p)
        BY <3>3 DEF Finished
      <4>2. Longer(work[n].finalized, work[j].finalized)
        BY <1>1, <2>1, LoopStep, TakenFinalizes
      <4>3. q \in 1..Len(work[n].finalized) /\ work[n].finalized[q] = work[j].finalized[q]
        BY <4>2 DEF Longer
      <4>4. Finished(work[n].finalized, p, hi)
        BY <3>3, <4>1, <4>3 DEF Finished
      <4> QED  BY <2>1, <4>4
    <3> QED  BY <3>1, <3>2, <3>3
  <2> QED  BY <2>1, <2>2, <2>3, <2>4
<1> HIDE DEF P
<1>8. N \in A
  <2> HIDE DEF A
  <2>1. 0..N \subseteq A
    BY <1>1, <1>6, <1>7, LoopInduction
  <2> QED  BY <1>1, <2>1
<1>9. P(N)
  <2>1. m <= N /\ m \in Nat
    BY <1>1 DEF N
  <2> QED  BY <1>1, <1>8, <2>1
<1>10. SUFFICES ASSUME BuildsAt(work[N], p, r, E(N), x), Spoken(list, r, E(N)) PROVE E(N) = hi
  BY <1>9 DEF P, N
<1> DEFINE e == E(N)
<1>11. e \in Nat /\ e <= hi /\ p.from < e /\ e - p.from < LengthOf[p.song]
  BY <1>1, <1>3, <1>10 DEF BuildsAt, Builds
<1>12. SUFFICES ASSUME e < hi PROVE FALSE
  <2> HIDE DEF E
  <2> QED  BY <1>1, <1>11, <1>12
<1>13. p.from \in Nat
  BY PlayIs
<1>14. N + 1 \in 1..Len(segments)
  <2>1. e = Reached(segments, lo, N) /\ N \in 0..Len(segments) /\ p.from <= e /\ Spoken(list, r, e)
    BY <1>1, <1>10, <1>11, <1>13 DEF N
  <2> HIDE DEF e, E
  <2> QED  BY <1>1, <1>11, <1>12, <2>1, BuildNext
<1> QED  BY <1>1, <1>14 DEF N

\* Segments of earlier songs leave the song of a play waiting.
LEMMA WaitLoop ==
    ASSUME NEW work, NEW k, NEW segments, NEW list, NEW lo, NEW hops, NEW x,
           LoopOf(work, k, segments, list, lo, hops, x), Timeline(list),
           NEW p, IsPlay(p), NEW r \in Nat, Labels(list, p, r),
           Waits(work[0], segments, 0, list, lo, x, r),
           NEW m \in 0..Len(segments), \A n \in 1..m : segments[n].rtp < r
    PROVE  Waits(work[m], segments, m, list, lo, x, r)
<1> DEFINE P(n) == Waits(work[n], segments, n, list, lo, x, r)
           A == {n \in 0..m : P(n)}
<1>1. m \in Nat /\ Len(segments) \in Nat
  BY LoopStep
<1>2. 0 \in A
  BY <1>1
<1>3. ASSUME NEW n \in 1..m, n - 1 \in A
      PROVE  n \in A
  <2>1. n \in 1..Len(segments) /\ n \in 0..m
    BY <1>1
  <2>2. segments[n].rtp < r /\ Waits(work[n - 1], segments, n - 1, list, lo, x, r)
    BY <1>3
  <2>3. P(n)
    BY <2>1, <2>2, WaitStep
  <2> QED  BY <2>1, <2>3
<1> HIDE DEF P
<1>4. m \in A
  <2> HIDE DEF A
  <2>1. 0..m \subseteq A
    BY <1>1, <1>2, <1>3, LoopInduction
  <2> QED  BY <1>1, <2>1
<1> QED  BY <1>4 DEF P

\* With an anchor of the song in the hop, there is a first segment of the song.
LEMMA FirstSegment ==
    ASSUME NEW k, NEW segments, NEW list, NEW lo, NEW hi, Cuts(list, lo, hi),
           Told(k, segments, list, lo, hi), Timeline(list),
           NEW p, IsPlay(p), NEW r \in Nat, Labels(list, p, r),
           NEW j \in 1..Len(list), list[j].rtp = r, lo <= list[j].frame, list[j].frame < hi
    PROVE  \E n \in 1..Len(segments) :
                segments[n].rtp = r /\ \A q \in 1..(n - 1) : segments[q].rtp < r
<1> DEFINE N == Len(segments)
           f == list[j].frame
           t == ToldBy(list, f)
<1>1. /\ list \in Seq(Anchors) /\ Sorted(list) /\ lo \in Nat /\ hi \in Nat /\ N \in Nat
      /\ \A i \in 1..Len(list) : list[i].pos < list[i].length
  BY DEF Cuts, Told
<1>2. Len(list) \in Nat
      /\ \A i \in 1..Len(list) : /\ list[i].frame \in Nat /\ list[i].rtp \in Nat
                                 /\ list[i].pos \in Nat /\ list[i].length \in Nat
  BY <1>1, AnchorIs DEF Anchors
<1>3. f \in Nat
  BY <1>2
<1>4. /\ t \in 0..Len(list) /\ (t # 0 => list[t].frame <= f)
      /\ \A i \in 1..Len(list) : i > t => list[i].frame > f
  <2>1. f \in Int
    BY <1>3
  <2> HIDE DEF f
  <2> QED  BY <1>1, <2>1, ToldByIs
<1> HIDE DEF t
<1>5. j <= t /\ t \in 1..Len(list) /\ t # 0
  BY <1>2, <1>4
<1>6. list[t].frame = f
  <2>1. f <= list[t].frame
    BY <1>1, <1>5 DEF Sorted
  <2>2. list[t].frame \in Nat
    BY <1>2, <1>5
  <2> HIDE DEF f
  <2> QED  BY <1>3, <1>4, <1>5, <2>1, <2>2
<1>7. list[t].rtp = r
  <2>1. list[t].rtp >= r /\ list[t].rtp \in Nat
    BY <1>2, <1>5 DEF Timeline
  <2>2. f <= p.last /\ p.last \in Nat
    BY PlayIs DEF Labels
  <2>3. list[t].rtp > r => f > p.last
    BY <1>5, <1>6 DEF Labels
  <2> HIDE DEF f
  <2> QED  BY <1>3, <2>1, <2>2, <2>3
<1>8. \E i \in 1..N : k[i] = t
  <2>1. f \in lo..(hi - 1)
    BY <1>1, <1>3
  <2>2. list[t].pos + f - list[t].frame < list[t].length
    BY <1>1, <1>2, <1>5, <1>6
  <2> HIDE DEF f
  <2> QED  BY <1>5, <2>1, <2>2 DEF Told, t
<1> DEFINE B == {n \in 1..N : segments[n].rtp = r}
<1>9. B # {} /\ B \in SUBSET Nat
  <2>1. PICK i \in 1..N : k[i] = t
    BY <1>8
  <2>2. segments[i].rtp = list[k[i]].rtp
    BY ToldIs
  <2> QED  BY <1>1, <1>7, <2>1, <2>2
<1>10. PICK n \in B : \A q \in B : n <= q
  <2> HIDE DEF B
  <2> QED  BY <1>9, LeastIsThere
<1>11. ASSUME NEW q \in 1..(n - 1)
       PROVE  segments[q].rtp < r
  <2>1. q \in 1..N /\ n \in 1..N /\ q < n /\ q \notin B
    BY <1>1, <1>10
  <2>2. segments[q].rtp = list[k[q]].rtp /\ k[q] \in 1..Len(list)
        /\ segments[n].rtp = list[k[n]].rtp /\ k[n] \in 1..Len(list)
    BY <2>1, ToldIs
  <2>3. k[q] <= k[n]
    <3>1. k[q] < k[n]
      BY <2>1 DEF Told
    <3> QED  BY <2>2, <3>1
  <2>4. list[k[q]].rtp <= list[k[n]].rtp
    BY <2>2, <2>3 DEF Timeline
  <2>5. segments[q].rtp # r /\ segments[n].rtp = r
    BY <2>1
  <2>6. list[k[q]].rtp \in Nat /\ list[k[q]].rtp <= r /\ list[k[q]].rtp # r
    BY <1>2, <2>2, <2>4, <2>5
  <2>7. list[k[q]].rtp < r
    BY <2>6
  <2> QED  BY <2>2, <2>7
<1> QED  BY <1>10, <1>11

\* Then the song is built from its start.
LEMMA ArriveLoop ==
    ASSUME NEW work, NEW k, NEW segments, NEW list, NEW lo, NEW hops, NEW x,
           LoopOf(work, k, segments, list, lo, hops, x), Timeline(list),
           NEW p, IsPlay(p), NEW r \in Nat, Labels(list, p, r),
           Waits(work[0], segments, 0, list, lo, x, r),
           NEW j \in 1..Len(list), list[j].rtp = r, lo <= list[j].frame,
           NEW hi, hi = lo + Hop, list[j].frame < hi,
           Plays(hops, p, p.from, hi), Lasts(p, hi)
    PROVE  LET w == work[Len(segments)] IN
           BuildsAt(w, p, r, hi, x) \/ Finished(w.finalized, p, hi)
<1>1. Cuts(list, lo, hi) /\ Told(k, segments, list, lo, hi) /\ Len(segments) \in Nat
  BY LoopStep DEF LoopOf
<1>2. PICK n \in 1..Len(segments) :
            segments[n].rtp = r /\ \A q \in 1..(n - 1) : segments[q].rtp < r
  BY <1>1, FirstSegment
<1> DEFINE m == n - 1
<1>3. m \in 0..Len(segments) /\ n \in 0..Len(segments) /\ n # 0
  BY <1>1
<1>4. Waits(work[m], segments, m, list, lo, x, r)
  <2>1. \A q \in 1..m : segments[q].rtp < r
    BY <1>2
  <2> HIDE DEF m
  <2> QED  BY <1>3, <2>1, WaitLoop
<1>5. BuildsAt(work[n], p, r, segments[n].to, x) \/ Finished(work[n].finalized, p, hi)
  BY <1>2, <1>4, ArriveStep
<1>6. Reached(segments, lo, n) = segments[n].to
  BY <1>3 DEF Reached
<1>7. Spoken(list, r, segments[n].to)
  <2>1. k[n] \in 1..Len(list) /\ list[k[n]].frame <= segments[n].to
        /\ list[k[n]].rtp = segments[n].rtp
    BY <1>1, ToldIs
  <2> QED  BY <1>2, <2>1 DEF Spoken
<1>8. p.from \in Int
  BY PlayIs
<1> QED  BY <1>3, <1>5, <1>6, <1>7, <1>8, BuildLoop

\* A builder without the start of its song, which cannot become whole.
Partial(b, list) ==
    /\ b.first > 0 /\ Len(b.source) = b.trackEnd - b.first /\ b.trackEnd <= b.length
    /\ b.revision = b.rtp
    /\ \A i \in 1..Len(list) : list[i].revision = b.revision => list[i].length = b.length

\* None of the builders has all of its song.
Short(finalized) == \A j \in 1..Len(finalized) : Len(finalized[j].source) < finalized[j].length

\* One more short builder.
LEMMA ShortGrows ==
    ASSUME NEW x, NEW f \in Seq(Builders(x)), Short(f), NEW b \in Builders(x),
           Len(b.source) < b.length
    PROVE  Short(Append(f, b))
<1> DEFINE g == Append(f, b)
<1>1. /\ \A j \in 1..Len(f) : j \in 1..Len(g) /\ g[j] = f[j]
      /\ g[Len(f) + 1] = b /\ \A j \in 1..Len(g) : j \in 1..Len(f) \/ j = Len(f) + 1
  BY LongerOnce DEF Longer
<1> HIDE DEF g
<1>2. ASSUME NEW j \in 1..Len(g) PROVE Len(g[j].source) < g[j].length
  <2>1. CASE j \in 1..Len(f)
    <3>1. g[j] = f[j]
      BY <1>1, <2>1
    <3> QED  BY <2>1, <3>1 DEF Short
  <2>2. CASE j = Len(f) + 1
    BY <1>1, <2>2
  <2> QED  BY <1>1, <2>1, <2>2
<1> QED  BY <1>2 DEF Short, g

\* The builder of a song without its start is short.
LEMMA PartialIs ==
    ASSUME NEW x, NEW b \in Builders(x), NEW list, Partial(b, list)
    PROVE  Len(b.source) < b.length /\ Len(b.source) \in Nat
<1>1. b.first \in Int /\ b.trackEnd \in Int /\ b.length \in Nat /\ b.source \in Seq(Heard)
  BY DEF Builders
<1>2. Len(b.source) \in Nat
  BY <1>1
<1> QED  BY <1>1, <1>2 DEF Partial

\* It stays so.
LEMMA PartialGrows ==
    ASSUME NEW x \in Imprints, NEW hops, NEW v \in Works(x, hops), Short(v.finalized),
           NEW b \in Builders(x), NEW list, Partial(b, list),
           NEW s, s.from \in Nat, s.to \in Nat, s.from < s.to, s.track = b.trackEnd,
           s.revision = b.rtp, TrackEnd(s) <= b.length,
           NEW t, Extended(t, v, b, s, x, hops)
    PROVE  /\ t.builder # None => Partial(t.builder, list)
           /\ Short(t.finalized)
<1>1. CASE s.from # b.streamEnd
  BY <1>1 DEF Extended
<1>2. CASE s.from = b.streamEnd
  <2>1. PICK c \in Builders(x) :
            /\ Grown(c, b, s, hops)
            /\ IF Len(c.source) >= c.length
               THEN t.builder = None
               ELSE t.builder = c /\ t.finalized = v.finalized
    BY <1>2 DEF Extended
  <2>2. b.first \in Int /\ b.trackEnd \in Int /\ b.length \in Nat /\ Len(b.source) \in Nat
    BY PartialIs DEF Builders
  <2>3. /\ c.rtp = b.rtp /\ c.revision = b.revision /\ c.length = b.length /\ c.first = b.first
        /\ c.trackEnd = TrackEnd(s) /\ Len(c.source) = Len(b.source) + s.to - s.from
    BY <2>1 DEF Grown, Partial
  <2> DEFINE z == Len(c.source)
             e == c.trackEnd
             d == c.first
             l == c.length
  <2>4. z = e - d /\ e <= l /\ d > 0 /\ d \in Int /\ e \in Int /\ l \in Nat
    <3> DEFINE m == Len(b.source)
               g == b.trackEnd
               h == b.first
    <3>1. m \in Nat /\ g \in Int /\ h \in Int /\ m = g - h /\ h > 0 /\ d = h
          /\ e = g + s.to - s.from /\ z = m + s.to - s.from
      BY <2>2, <2>3 DEF Partial, TrackEnd
    <3> HIDE DEF z, e, d, m, g, h
    <3>2. z = e - d /\ d > 0 /\ d \in Int /\ e \in Int
      BY <3>1
    <3>3. e <= l /\ l \in Nat
      BY <2>2, <2>3 DEF e
    <3> QED  BY <3>2, <3>3
  <2>5. Partial(c, list)
    BY <2>3, <2>4 DEF Partial
  <2>6. ~(z >= l)
    <3> HIDE DEF z, e, d, l
    <3> QED  BY <2>4
  <2> QED  BY <2>1, <2>5, <2>6
<1> QED  BY <1>1, <1>2

\* Songs that began before the hops there are have no start.
LEMMA PartialLoop ==
    ASSUME NEW work, NEW k, NEW segments, NEW list, NEW lo, NEW hops, NEW x,
           LoopOf(work, k, segments, list, lo, hops, x),
           NEW all, Timeline(all),
           \A i \in 1..Len(list) : \E j \in 1..Len(all) : list[i] = all[j],
           NEW p, IsPlay(p), NEW r \in Nat, Labels(list, p, r),
           \A i \in 1..Len(list) : list[i].rtp <= r,
           p.from < lo, \A h \in Range(hops) : h.from > p.from,
           work[0].builder # None => Partial(work[0].builder, all), Short(work[0].finalized)
    PROVE  LET w == work[Len(segments)] IN
           (w.builder # None => Partial(w.builder, all)) /\ Short(w.finalized)
<1> DEFINE N == Len(segments)
           P(n) == (work[n].builder # None => Partial(work[n].builder, all))
                   /\ Short(work[n].finalized)
           A == {n \in 0..N : P(n)}
<1>1. /\ N \in Nat /\ x \in Imprints /\ hops \in Seq(Hops(x)) /\ lo \in Nat
      /\ Cuts(list, lo, lo + Hop) /\ Told(k, segments, list, lo, lo + Hop)
  BY LoopStep DEF LoopOf, Cuts
<1>2. 0 \in A
  BY <1>1
<1>3. ASSUME NEW n \in 1..N, n - 1 \in A
      PROVE  n \in A
  <2> DEFINE w == work[n - 1]
             t == work[n]
             s == segments[n]
  <2>1. (w.builder # None => Partial(w.builder, all)) /\ Short(w.finalized)
    BY <1>3
  <2>2. Taken(t, w, s, x, hops) /\ w \in Works(x, hops)
    BY LoopStep
  <2>3. /\ s.from \in Nat /\ s.to \in Nat /\ s.from < s.to /\ s.track \in Nat /\ lo <= s.from
        /\ s.track < s.length /\ s.length \in Nat /\ s.rtp \in Nat /\ TrackEnd(s) <= s.length
        /\ k[n] \in 1..Len(list) /\ s.length = list[k[n]].length
        /\ s.revision = list[k[n]].revision /\ s.rtp = list[k[n]].rtp
    BY <1>1, ToldIs
  <2>4. s.rtp <= r
    BY <2>3
  <2>5. s.revision = s.rtp /\ s.from - s.track <= p.from
    <3>1. s.rtp < r \/ s.rtp = r
      BY <2>3, <2>4
    <3> QED  BY <1>1, <2>4, <3>1, LabelsTell
  <2>6. \A i \in 1..Len(all) : all[i].revision = s.revision => all[i].length = s.length
    <3>1. PICK j \in 1..Len(all) : list[k[n]] = all[j]
      BY <2>3
    <3> QED  BY <2>3, <3>1 DEF Timeline
  <2>7. p.from \in Nat
    BY PlayIs
  <2> DEFINE Good == (t.builder # None => Partial(t.builder, all)) /\ Short(t.finalized)
  <2>0. SUFFICES Good
    BY <1>1
  <2> HIDE DEF w, t, s
  <2>8. CASE t.finalized = w.finalized /\ (t = w \/ t.builder = None)
    BY <2>1, <2>8
  <2>9. CASE Same(w, s) /\ Continues(w.builder, s) /\ w.builder \in Builders(x)
             /\ Extended(t, w, w.builder, s, x, hops)
    <3> DEFINE b == w.builder
    <3>1. Partial(b, all) /\ b \in Builders(x) /\ b.rtp = s.rtp /\ b.revision = s.revision
      BY <2>1, <2>5, <2>9 DEF Same, Partial
    <3>2. s.track = b.trackEnd
      BY <2>9, <3>1 DEF Continues
    <3>3. s.length = b.length
      <4>1. PICK j \in 1..Len(all) : list[k[n]] = all[j]
        BY <2>3
      <4>2. all[j].revision = b.revision /\ all[j].length = s.length
        BY <2>3, <3>1, <4>1
      <4> QED  BY <3>1, <4>2 DEF Partial
    <3>4. s.revision = b.rtp /\ TrackEnd(s) <= b.length
      BY <2>3, <2>5, <3>1, <3>3
    <3> HIDE DEF b
    <3>5. Extended(t, w, b, s, x, hops)
      BY <2>9 DEF b
    <3> QED  BY <1>1, <2>1, <2>2, <2>3, <3>1, <3>2, <3>4, <3>5, PartialGrows
  <2>10. CASE \E v \in Works(x, hops) :
            /\ v.builder = None
            /\ \/ v.finalized = w.finalized
               \/ v.finalized = Append(w.finalized, w.builder) /\ w.builder \in Builders(x)
            /\ \/ t = v
               \/ /\ NewBuilder(v, s) \in Builders(x)
                  /\ Extended(t, v, NewBuilder(v, s), s, x, hops)
    <3>1. PICK v \in Works(x, hops) :
            /\ v.builder = None
            /\ \/ v.finalized = w.finalized
               \/ v.finalized = Append(w.finalized, w.builder) /\ w.builder \in Builders(x)
            /\ \/ t = v
               \/ /\ NewBuilder(v, s) \in Builders(x)
                  /\ Extended(t, v, NewBuilder(v, s), s, x, hops)
      BY <2>10
    <3>2. Short(v.finalized)
      <4>1. CASE v.finalized = w.finalized
        BY <2>1, <4>1
      <4>2. CASE v.finalized = Append(w.finalized, w.builder) /\ w.builder \in Builders(x)
        <5>1. w.builder # None /\ Partial(w.builder, all)
          BY <1>1, <2>1, <4>2, NoBuilder
        <5>2. Len(w.builder.source) < w.builder.length
          BY <4>2, <5>1, PartialIs
        <5>3. w.finalized \in Seq(Builders(x))
          BY <2>2 DEF Works
        <5> QED  BY <2>1, <4>2, <5>2, <5>3, ShortGrows
      <4> QED  BY <3>1, <4>1, <4>2
    <3>3. CASE t = v
      BY <3>1, <3>2, <3>3
    <3>4. CASE NewBuilder(v, s) \in Builders(x) /\ Extended(t, v, NewBuilder(v, s), s, x, hops)
      <4> DEFINE b == NewBuilder(v, s)
                 f == s.from - s.track
      <4>1. v.history = hops
        BY DEF Works
      <4>2. f \in Int /\ f <= p.from /\ f < s.from /\ s.track > 0
        <5> DEFINE a == s.from
                   b1 == s.track
                   o == p.from
        <5>1. a \in Nat /\ b1 \in Nat /\ o \in Nat /\ lo <= a /\ a - b1 <= o /\ o < lo
          BY <2>3, <2>5, <2>7
        <5> HIDE DEF a, b1, o
        <5>2. a - b1 \in Int /\ a - b1 <= o /\ a - b1 < a /\ b1 > 0
          BY <1>1, <5>1
        <5> QED  BY <5>2 DEF a, b1, o
      <4> HIDE DEF f
      <4>3. ~Remembered(hops, f, s.from)
        <5> SUFFICES ASSUME Remembered(hops, f, s.from) PROVE FALSE
          OBVIOUS
        <5>1. f \in f..(s.from - 1)
          BY <2>3, <4>2
        <5>2. PICK h \in Range(hops) : f \in h.from..(h.from + Hop - 1)
          BY <5>1 DEF Remembered, Within, Range
        <5>3. h.from \in Nat /\ h.from > p.from
          <6>1. h \in Hops(x)
            BY <1>1, RangeOfSeq
          <6> QED  BY <6>1 DEF Hops
        <5> QED  BY <2>7, <4>2, <5>2, <5>3
      <4>4. Fresh(b, s) /\ b.first = s.track /\ b.source = <<>>
        BY <4>1, <4>3, NewBuilderIs DEF f
      <4>5. Partial(b, all)
        <5>1. Len(b.source) = 0
          BY <4>4, EmptySeq
        <5>2. Len(b.source) = b.trackEnd - b.first /\ b.first > 0 /\ b.trackEnd <= b.length
          BY <2>3, <4>2, <4>4, <5>1 DEF Fresh
        <5> QED  BY <2>5, <2>6, <4>4, <5>2 DEF Partial, Fresh
      <4>6. s.track = b.trackEnd /\ s.revision = b.rtp /\ TrackEnd(s) <= b.length
        BY <2>3, <2>5, <4>4 DEF Fresh
      <4> HIDE DEF b
      <4>7. b \in Builders(x) /\ Extended(t, v, b, s, x, hops)
        BY <3>4 DEF b
      <4> QED  BY <1>1, <2>3, <3>2, <4>5, <4>6, <4>7, PartialGrows
    <3> QED  BY <3>1, <3>3, <3>4
  <2>11. ASSUME NEW v, IF Same(w, s)
                       THEN v.completed = {} /\ v.finalized = Append(w.finalized, w.builder)
                            /\ w.builder \in Builders(x)
                       ELSE Closed(w, v, x)
         PROVE  \/ v.finalized = w.finalized
                \/ v.finalized = Append(w.finalized, w.builder) /\ w.builder \in Builders(x)
    <3>1. CASE Same(w, s)
      BY <2>11, <3>1
    <3>2. CASE ~Same(w, s)
      <4>1. Closed(w, v, x)
        BY <2>11, <3>2
      <4> QED  BY <4>1 DEF Closed
    <3> QED  BY <3>1, <3>2
  <2> HIDE DEF Good
  <2>12. CASE w.failed /\ t = w
    BY <2>8, <2>12
  <2>13. CASE ~w.failed /\ ~s.titled /\ t.failed /\ t.builder = None
              /\ t.completed = w.completed /\ t.finalized = w.finalized
    BY <2>8, <2>13
  <2>14. CASE \E v \in Works(x, hops) :
            /\ ~v.failed /\ v.builder = None
            /\ IF Same(w, s)
               THEN v.completed = {} /\ v.finalized = Append(w.finalized, w.builder)
                    /\ w.builder \in Builders(x)
               ELSE Closed(w, v, x)
            /\ IF s.rtp \in v.completed THEN t = v
               ELSE /\ NewBuilder(v, s) \in Builders(x)
                    /\ Extended(t, v, NewBuilder(v, s), s, x, hops)
    BY <2>10, <2>11, <2>14
  <2> QED  BY <2>2, <2>9, <2>12, <2>13, <2>14 DEF Taken
<1> HIDE DEF P
<1>4. N \in A
  <2> HIDE DEF A
  <2>1. 0..N \subseteq A
    BY <1>1, <1>2, <1>3, LoopInduction
  <2> QED  BY <1>1, <2>1
<1> QED  BY <1>4 DEF P

-----------------------------------------------------------------------------
(* What was fitting for one window fits the next, whose anchors are fewer. *)
\* Which anchors are written beside a window.
LEMMA KeptAre ==
    ASSUME NEW list \in Seq(Anchors), NEW from \in Int, NEW to \in Int,
           NEW kept, kept = AnchorsForWindow(list, from, to), NEW m, m = FirstOf(list, from)
    PROVE  /\ m \in Nat \ {0} /\ Len(list) \in Nat /\ Len(kept) \in Nat
           /\ \A i \in 1..Len(kept) : m + i - 1 \in 1..Len(list) /\ kept[i] = list[m + i - 1]
<1> DEFINE n == ToldBy(list, to)
           r == SubSeq(list, m, n)
<1>1. m \in Nat \ {0} /\ n \in 0..Len(list) /\ Len(list) \in Nat
  <2>1. m \in Nat \ {0}
    BY FirstOfIs
  <2>2. n \in 0..Len(list)
    BY ToldByIs
  <2> QED  BY <2>1, <2>2, AnchorIs
<1>2. kept = r
  BY DEF AnchorsForWindow, FirstOf
<1> HIDE DEF n
<1>3. \A i \in m..n : list[i] \in Anchors
  BY <1>1
<1>4. /\ r \in Seq(Anchors) /\ Len(r) = (IF m <= n THEN n - m + 1 ELSE 0)
      /\ \A i \in 1..(n - m + 1) : r[i] = list[m + i - 1]
  BY <1>1, <1>3, SubSeqProperties
<1> HIDE DEF r
<1>5. \A i \in 1..Len(r) : r[i] = list[m + i - 1] /\ m + i - 1 \in 1..Len(list)
  BY <1>1, <1>4
<1>6. Len(r) \in Nat
  BY <1>4
<1> QED  BY <1>1, <1>2, <1>5, <1>6

\* They tell of the same songs.
LEMMA KeptTell ==
    ASSUME NEW list \in Seq(Anchors), Timeline(list), NEW from \in Int, NEW to \in Int,
           NEW kept, kept = AnchorsForWindow(list, from, to)
    PROVE  /\ Timeline(kept)
           /\ \A p, r : Labels(list, p, r) => Labels(kept, p, r)
<1> DEFINE m == FirstOf(list, from)
           K == 1..Len(kept)
           N == 1..Len(list)
<1>1. /\ m \in Nat \ {0} /\ Len(list) \in Nat /\ Len(kept) \in Nat
      /\ \A i \in K : m + i - 1 \in N /\ kept[i] = list[m + i - 1]
  BY KeptAre
<1>2. \A i \in K : \E j \in N : kept[i] = list[j]
  BY <1>1
<1>3. \A i, j \in K : i <= j => \E a, b \in N : a <= b /\ kept[i] = list[a] /\ kept[j] = list[b]
  <2> SUFFICES ASSUME NEW i \in K, NEW j \in K, i <= j
               PROVE  \E a, b \in N : a <= b /\ kept[i] = list[a] /\ kept[j] = list[b]
    OBVIOUS
  <2> DEFINE a == m + i - 1
             b == m + j - 1
  <2>1. a \in N /\ b \in N /\ kept[i] = list[a] /\ kept[j] = list[b]
    BY <1>1
  <2>2. a <= b
    <3> HIDE DEF m
    <3> QED  BY <1>1
  <2> QED  BY <2>1, <2>2
<1>4. ASSUME NEW i \in K PROVE kept[i].pos < kept[i].length /\ kept[i].rtp <= kept[i].revision
  BY <1>2 DEF Timeline
<1>5. ASSUME NEW i \in K, NEW j \in K
      PROVE  /\ i <= j => kept[i].rtp <= kept[j].rtp /\ kept[i].revision <= kept[j].revision
             /\ kept[i].revision = kept[j].revision =>
                    kept[i].rtp = kept[j].rtp /\ kept[i].length = kept[j].length
  <2>1. ASSUME i <= j
        PROVE  kept[i].rtp <= kept[j].rtp /\ kept[i].revision <= kept[j].revision
    <3>1. PICK a \in N, b \in N : a <= b /\ kept[i] = list[a] /\ kept[j] = list[b]
      BY <1>3, <2>1
    <3> QED  BY <3>1 DEF Timeline
  <2>2. PICK a \in N : kept[i] = list[a]
    BY <1>2
  <2>3. PICK b \in N : kept[j] = list[b]
    BY <1>2
  <2>4. kept[i].revision = kept[j].revision =>
            kept[i].rtp = kept[j].rtp /\ kept[i].length = kept[j].length
    BY <2>2, <2>3 DEF Timeline
  <2> QED  BY <2>1, <2>4
<1>6. Timeline(kept)
  BY <1>4, <1>5 DEF Timeline
<1>7. ASSUME NEW p, NEW r, Labels(list, p, r) PROVE Labels(kept, p, r)
  <2> SUFFICES ASSUME NEW i \in K
               PROVE  LET a == kept[i] IN
                      /\ a.rtp < r => a.frame <= p.from /\ a.titled /\ a.revision = a.rtp
                      /\ a.rtp = r => /\ a.frame = p.from + a.pos /\ a.length = LengthOf[p.song]
                                      /\ a.titled /\ a.revision = a.rtp /\ a.frame <= p.last
                      /\ a.rtp > r => a.frame > p.last
    BY DEF Labels
  <2>1. PICK j \in N : kept[i] = list[j]
    BY <1>2
  <2> QED  BY <1>7, <2>1 DEF Labels
<1> QED  BY <1>6, <1>7

\* The list of anchors written beside a window.
Written(list, all, from, to) == list = AnchorsForWindow(all, from, to)

\* The anchor of a song that begins in a window is written beside it.
LEMMA LabelSurvives ==
    ASSUME NEW list \in Seq(Anchors), Sorted(list), Timeline(list),
           NEW p, IsPlay(p), NEW r \in Nat, Labels(list, p, r),
           NEW from \in Int, NEW to \in Int, NEW kept, Written(kept, list, from, to),
           NEW j \in 1..Len(list), list[j].rtp = r, from <= list[j].frame, list[j].frame <= to
    PROVE  \E i \in 1..Len(kept) : kept[i].rtp = r /\ kept[i].frame = list[j].frame
<1> DEFINE f == list[j].frame
           t == ToldBy(list, f)
<1>0. kept = AnchorsForWindow(list, from, to)
  BY DEF Written
<1>1. Len(list) \in Nat /\ \A i \in 1..Len(list) : list[i].frame \in Nat /\ list[i].rtp \in Nat
  BY AnchorIs DEF Anchors
<1>2. f \in Nat
  BY <1>1
<1>3. /\ t \in 0..Len(list) /\ (t # 0 => list[t].frame <= f)
      /\ \A i \in 1..Len(list) : i > t => list[i].frame > f
  <2>1. f \in Int
    BY <1>2
  <2> HIDE DEF f
  <2> QED  BY <2>1, ToldByIs
<1> HIDE DEF t
<1>4. j <= t /\ t \in 1..Len(list) /\ t # 0
  BY <1>1, <1>3
<1>5. list[t].frame = f
  <2>1. f <= list[t].frame
    BY <1>4 DEF Sorted
  <2>2. list[t].frame \in Nat
    BY <1>1, <1>4
  <2> HIDE DEF f
  <2> QED  BY <1>2, <1>3, <1>4, <2>1, <2>2
<1>6. list[t].rtp = r
  <2>1. list[t].rtp >= r /\ list[t].rtp \in Nat
    BY <1>1, <1>4 DEF Timeline
  <2>2. f <= p.last /\ p.last \in Nat
    BY PlayIs DEF Labels
  <2>3. list[t].rtp > r => f > p.last
    BY <1>4, <1>5 DEF Labels
  <2> HIDE DEF f
  <2> QED  BY <1>2, <2>1, <2>2, <2>3
<1> DEFINE u == ToldBy(kept, f)
<1>7. u # 0 /\ kept[u] = list[t]
  <2>1. f \in Int /\ from <= f /\ f <= to
    BY <1>2
  <2> HIDE DEF f
  <2>2. ToldBy(list, f) # 0
    BY <1>4 DEF t
  <2> QED  BY <1>0, <2>1, <2>2, ToldByKept DEF t
<1>8. u \in 1..Len(kept)
  <2>1. kept \in Seq(Anchors) /\ Len(kept) \in Nat
    BY <1>0, AnchorsKept, AnchorIs
  <2>2. u \in 0..Len(kept)
    <3>1. f \in Int
      BY <1>2
    <3> HIDE DEF f
    <3> QED  BY <2>1, <3>1, ToldByIs
  <2> HIDE DEF u
  <2> QED  BY <1>7, <2>1, <2>2
<1> QED  BY <1>5, <1>6, <1>7, <1>8

\* The anchors of the window after a hop go on from the anchor of the hop's last segment.
LEMMA KeptGoOn ==
    ASSUME NEW all \in Seq(Anchors), Timeline(all), NEW hi \in Int, NEW to \in Int,
           NEW next, Written(next, all, hi, to),
           NEW j \in 1..Len(all), all[j].frame < hi
    PROVE  /\ Len(all) \in Nat /\ ToldBy(all, hi) \in 1..Len(all) /\ j <= ToldBy(all, hi)
           /\ Len(next) \in Nat
           /\ \A i \in 1..Len(next) : \E m \in 1..Len(all) : j <= m /\ next[i] = all[m]
<1> DEFINE u == ToldBy(all, hi)
           v == FirstOf(all, hi)
<1>1. Len(all) \in Nat /\ all[j].frame \in Nat
  BY AnchorIs
<1>2. u \in 0..Len(all) /\ \A i \in 1..Len(all) : i > u => all[i].frame > hi
  BY ToldByIs
<1>3. v \in Nat \ {0} /\ v >= u
  BY FirstOfIs
<1>4. /\ Len(next) \in Nat
      /\ \A i \in 1..Len(next) : v + i - 1 \in 1..Len(all) /\ next[i] = all[v + i - 1]
  BY KeptAre DEF Written
<1> HIDE DEF u, v
<1>5. j <= u /\ u \in 1..Len(all)
  <2>1. j > u => all[j].frame > hi
    BY <1>2
  <2> QED  BY <1>1, <1>2, <2>1
<1>6. ASSUME NEW i \in 1..Len(next)
      PROVE  \E m \in 1..Len(all) : j <= m /\ next[i] = all[m]
  <2> DEFINE m == v + i - 1
  <2>1. m \in 1..Len(all) /\ next[i] = all[m]
    BY <1>4
  <2>2. j <= m
    BY <1>1, <1>2, <1>3, <1>4, <1>5
  <2> QED  BY <2>1, <2>2
<1> QED  BY <1>1, <1>4, <1>5, <1>6 DEF u

\* A builder left at the last segment of a range fits the anchors from its end on.
LEMMA LastFits ==
    ASSUME NEW list, NEW lo, NEW hi, Cuts(list, lo, hi), NEW k, NEW segments,
           Told(k, segments, list, lo, hi),
           NEW N \in 1..Len(segments), N + 1 \notin 1..Len(segments),
           NEW b, Follows(b, segments[N]),
           NEW all \in Seq(Anchors), Sorted(all), Timeline(all), NEW to \in Int, hi <= to,
           Written(list, all, lo, to), NEW next, Written(next, all, hi, to)
    PROVE  Fits(b, next, hi)
<1> DEFINE s == segments[N]
           a == list[k[N]]
<1>1. lo \in Nat /\ hi \in Nat /\ lo < hi
  BY DEF Cuts
<1>3. Follows(b, s)
  OBVIOUS
<1>4. /\ lo \in Nat /\ hi \in Nat /\ s.to \in Nat /\ s.to <= hi /\ s.from \in Nat
      /\ k[N] \in 1..Len(list) /\ a \in Anchors /\ a.frame \in Nat /\ a.frame < hi
      /\ s.track = a.pos + s.from - a.frame /\ s.length = a.length /\ s.revision = a.revision
      /\ s.rtp = a.rtp /\ TrackEnd(s) = s.track + s.to - s.from /\ TrackEnd(s) <= s.length
      /\ a.pos \in Nat
  <2>1. lo \in Nat /\ hi \in Nat
    BY <1>1
  <2>2. /\ s.to \in Nat /\ s.to <= hi /\ s.from \in Nat
        /\ k[N] \in 1..Len(list) /\ a \in Anchors /\ a.frame \in Nat /\ a.frame < hi
        /\ s.track = a.pos + s.from - a.frame /\ s.length = a.length
        /\ s.revision = a.revision /\ s.rtp = a.rtp
        /\ TrackEnd(s) = s.track + s.to - s.from /\ TrackEnd(s) <= s.length
        /\ a.pos \in Nat
    <3> HIDE DEF s, a
    <3>1. LET s1 == segments[N]
              a1 == list[k[N]]
          IN  /\ Len(segments) \in Nat /\ s1 \in SegmentsIn(lo, hi)
              /\ s1.from \in Nat /\ s1.to \in Nat /\ s1.track \in Nat /\ s1.length \in Nat
              /\ lo <= s1.from /\ s1.from < s1.to /\ s1.to <= hi
              /\ k[N] \in 1..Len(list) /\ a1 \in Anchors
              /\ a1.frame \in Nat /\ a1.frame < hi /\ a1.frame <= s1.to
              /\ s1.track = a1.pos + s1.from - a1.frame /\ a1.pos \in Nat
              /\ s1.length = a1.length /\ s1.revision = a1.revision /\ s1.rtp = a1.rtp
              /\ s1.titled = a1.titled /\ s1.track < s1.length
              /\ TrackEnd(s1) = s1.track + s1.to - s1.from /\ TrackEnd(s1) <= s1.length
      BY ToldIs
    <3> QED  BY <3>1 DEF s, a
  <2> QED  BY <2>1, <2>2
<1> HIDE DEF s, a
<1>5. PICK j \in 1..Len(all) : a = all[j]
  <2>1. \A i \in 1..Len(list) : \E m \in 1..Len(all) : list[i] = all[m]
    <3>1. lo \in Int
      BY <1>4
    <3>2. \A i \in 1..Len(AnchorsForWindow(all, lo, to)) :
            \E m \in 1..Len(all) : AnchorsForWindow(all, lo, to)[i] = all[m]
      BY <3>1, AnchorsKept
    <3> QED  BY <3>2 DEF Written
  <2> QED  BY <2>1, <1>4 DEF a
<1>6. /\ ToldBy(all, hi) \in 1..Len(all) /\ Len(next) \in Nat
      /\ \A i \in 1..Len(next) : \E m \in 1..Len(all) : j <= m /\ next[i] = all[m]
  <2>1. all[j].frame < hi
    BY <1>4, <1>5
  <2>2. hi \in Int
    BY <1>4
  <2>3. /\ Len(all) \in Nat /\ ToldBy(all, hi) \in 1..Len(all) /\ j <= ToldBy(all, hi)
        /\ Len(next) \in Nat
        /\ \A i \in 1..Len(next) : \E m \in 1..Len(all) : j <= m /\ next[i] = all[m]
    BY <2>1, <2>2, KeptGoOn
  <2> QED  BY <2>3
<1>7. /\ b.rtp = all[j].rtp /\ b.revision = all[j].revision /\ b.trackEnd = TrackEnd(s)
      /\ b.streamEnd = s.to
  BY <1>3, <1>4, <1>5 DEF Follows
<1>8. b.rtp <= b.revision
  BY <1>5, <1>7 DEF Timeline
<1>9. ASSUME NEW i \in 1..Len(next)
      PROVE  /\ next[i].rtp >= b.rtp
             /\ next[i].rtp = b.rtp => next[i].revision >= b.revision
             /\ next[i].revision = b.revision =>
                    /\ b.trackEnd <= next[i].length
                    /\ b.streamEnd # hi => b.trackEnd = next[i].length
  <2>1. PICK m \in 1..Len(all) : j <= m /\ next[i] = all[m]
    BY <1>6
  <2>2. all[j].rtp <= all[m].rtp /\ all[j].revision <= all[m].revision
    BY <2>1, <1>5 DEF Timeline
  <2>3. all[j].revision = all[m].revision => all[j].length = all[m].length
    BY <2>1, <1>5 DEF Timeline
  <2>4. /\ all[m].rtp \in Nat /\ all[j].rtp \in Nat
        /\ all[m].revision \in Nat /\ all[j].revision \in Nat
    BY <2>1, <1>5, AnchorIs DEF Anchors
  <2>5. next[i].rtp >= b.rtp /\ next[i].revision >= b.revision
    BY <1>7, <2>1, <2>2, <2>4
  <2>6. next[i].revision = b.revision => next[i].length = s.length
    BY <1>4, <1>5, <1>7, <2>1, <2>3
  <2>7. b.streamEnd # hi => b.trackEnd = s.length
    <3> SUFFICES ASSUME b.streamEnd # hi PROVE b.trackEnd = s.length
      OBVIOUS
    <3>1. s.to < hi
      <4>1. s.to # hi
        BY <1>7
      <4> QED  BY <1>4, <4>1
    <3> QED  BY <1>7, <3>1, GapEnds DEF s
  <2>8. b.trackEnd <= s.length
    BY <1>4, <1>7
  <2> QED  BY <2>5, <2>6, <2>7, <2>8
<1>10. ASSUME b.streamEnd = hi
       PROVE  LET t == ToldBy(next, hi) IN
              /\ t # 0
              /\ next[t].frame < hi /\ next[t].rtp = b.rtp =>
                    next[t].pos + hi - next[t].frame = b.trackEnd
  <2> DEFINE t == ToldBy(next, hi)
             u == ToldBy(all, hi)
  <2>1. t # 0 /\ next[t] = all[u]
    <3>1. u # 0 /\ hi \in Int /\ hi <= hi
      BY <1>4, <1>6
    <3> QED  BY <3>1, ToldByKept DEF Written
  <2>2. ASSUME next[t].frame < hi PROVE next[t].pos + hi - next[t].frame = b.trackEnd
    <3>1. all[u].frame \in Nat /\ all[u].frame <= hi - 1 /\ hi - 1 \in Int
      <4>1. all[u].frame \in Nat
        BY <1>6, AnchorIs
      <4>2. all[u].frame < hi
        BY <2>1, <2>2
      <4> DEFINE e == all[u].frame
      <4>3. e \in Nat /\ e < hi /\ hi \in Nat
        BY <1>4, <4>1, <4>2
      <4> HIDE DEF e
      <4>4. e <= hi - 1 /\ hi - 1 \in Int
        BY <4>3
      <4> QED  BY <4>3, <4>4 DEF e
    <3>2. \A i \in 1..Len(all) : i > u => all[i].frame > hi - 1
      <4>1. \A i \in 1..Len(all) : i > u => all[i].frame > hi
        <5>1. hi \in Int
          BY <1>4
        <5> QED  BY <5>1, ToldByIs
      <4>2. \A i \in 1..Len(all) : all[i].frame \in Nat
        BY AnchorIs
      <4> HIDE DEF u
      <4>3. u \in 0..Len(all)
        BY <1>6 DEF u
      <4>4. ASSUME NEW i \in 1..Len(all), i > u PROVE all[i].frame > hi - 1
        <5>1. all[i].frame \in Nat /\ all[i].frame > hi
          BY <4>1, <4>2, <4>4
        <5> DEFINE e == all[i].frame
        <5> HIDE DEF e
        <5>2. e \in Nat /\ e > hi /\ hi \in Nat
          BY <1>4, <5>1 DEF e
        <5>3. e > hi - 1
          BY <5>2
        <5> QED  BY <5>3 DEF e
      <4> QED  BY <4>4
    <3>3. ToldBy(all, hi - 1) = u
      <4>1. u \in 0..Len(all)
        BY <1>6
      <4> HIDE DEF u
      <4> QED  BY <3>1, <3>2, <4>1, ToldByUnique
    <3>4. list[ToldBy(list, hi - 1)] = all[u]
      <4>1. lo \in Int /\ lo <= hi - 1 /\ hi - 1 <= to
        BY <1>1
      <4>2. ToldBy(all, hi - 1) # 0
        BY <3>3, <1>6
      <4> QED  BY <3>1, <3>3, <4>1, <4>2, ToldByKept DEF Written
    <3>5. k[N] = ToldBy(list, hi - 1)
      <4>1. s.to = hi
        BY <1>7, <1>10
      <4> QED  BY <4>1, EndTold DEF s
    <3>6. next[t] = a
      BY <2>1, <3>4, <3>5 DEF a
    <3>7. TrackEnd(s) = a.pos + hi - a.frame
      <4>1. s.to = hi
        BY <1>7, <1>10
      <4> DEFINE e == TrackEnd(s)
                 c == s.track
                 g == s.from
                 z == s.to
                 q == a.pos
                 d == a.frame
      <4>2. e = c + z - g /\ c = q + g - d /\ z = hi /\ g \in Nat /\ q \in Nat /\ d \in Nat
        BY <1>4, <4>1
      <4> HIDE DEF e, c, g, z, q, d
      <4>3. e = q + hi - d
        BY <1>1, <4>2
      <4> QED  BY <4>3 DEF e, q, d
    <3> QED  BY <3>6, <3>7, <1>7
  <2> QED  BY <2>1, <2>2
<1> QED  BY <1>8, <1>9, <1>10 DEF Fits

\* A builder left at the end of a hop fits the anchors of the next window.
LEMMA LoopFits ==
    ASSUME NEW work, NEW k, NEW segments, NEW list, NEW lo, NEW hops, NEW x,
           LoopOf(work, k, segments, list, lo, hops, x), ~work[0].failed,
           NEW all \in Seq(Anchors), Sorted(all), Timeline(all),
           NEW hi, hi = lo + Hop, NEW to \in Int, hi <= to,
           list = AnchorsForWindow(all, lo, to), segments # <<>>,
           work[Len(segments)].builder # None
    PROVE  Fits(work[Len(segments)].builder, AnchorsForWindow(all, hi, to), hi)
<1>1. Cuts(list, lo, hi) /\ Told(k, segments, list, lo, hi)
  BY DEF LoopOf
<1>2. Len(segments) \in 1..Len(segments) /\ Len(segments) + 1 \notin 1..Len(segments)
  <2>1. segments \in Seq(SegmentsIn(lo, hi))
    BY <1>1 DEF Told
  <2> QED  BY <2>1
<1>3. Follows(work[Len(segments)].builder, segments[Len(segments)])
  BY <1>2, LoopFollows
<1> QED  BY <1>1, <1>2, <1>3, LastFits DEF Written

-----------------------------------------------------------------------------
(* The history of hops.                                                    *)
\* The hops of the history are contiguous, up to frame e, but for those from certain frames
\* on: hops that a host played before one that the worker was not aware of are from 0.
HistoryFollows(hops, e, strays) ==
    \A i \in 1..Len(hops) :
        hops[i].from + (Len(hops) - i + 1) * Hop = e \/ hops[i].from \in strays

\* None of the hops has a frame of the play from e on.
Behind(hops, e, p) ==
    \A h \in Range(hops) : h.from \in Nat /\ (h.from + Hop <= e \/ h.from + Hop <= p.from)

\* Products with a hop.
LEMMA Multiples ==
    ASSUME NEW a \in Nat, NEW b \in Nat, NEW h \in Nat
    PROVE  /\ a * h \in Nat /\ (a + 1) * h = a * h + h
           /\ a >= b => a * h >= b * h
<1>1. a * h \in Nat /\ (a + 1) * h = a * h + h
  OBVIOUS
<1>2. ASSUME a >= b PROVE a * h >= b * h
  <2> DEFINE c == a - b
  <2>1. c \in Nat /\ a = b + c
    BY <1>2
  <2> HIDE DEF c
  <2>2. (b + c) * h = b * h + c * h /\ c * h \in Nat /\ b * h \in Nat
    BY <2>1
  <2>3. b * h + c * h >= b * h
    BY <2>2
  <2> QED  BY <2>1, <2>2, <2>3
<1> QED  BY <1>1, <1>2

\* The hops of a history.
LEMMA HistoryTyped ==
    ASSUME NEW x, NEW hops \in Seq(Hops(x))
    PROVE  /\ Len(hops) \in Nat
           /\ \A i \in 1..Len(hops) : hops[i] \in Hops(x) /\ hops[i].from \in Nat
           /\ \A h \in Range(hops) : \E i \in 1..Len(hops) : h = hops[i]
           /\ \A i \in 1..Len(hops) : hops[i] \in Range(hops)
<1>1. Len(hops) \in Nat /\ \A i \in 1..Len(hops) : hops[i] \in Hops(x)
  OBVIOUS
<1>2. \A i \in 1..Len(hops) : hops[i].from \in Nat
  BY <1>1 DEF Hops
<1>3. DOMAIN hops = 1..Len(hops)
  OBVIOUS
<1> QED  BY <1>1, <1>2, <1>3 DEF Range

\* They end before it, or before the play.
LEMMA HistoryBehind ==
    ASSUME NEW x, NEW hops \in Seq(Hops(x)), NEW e \in Int, HistoryFollows(hops, e, {0}),
           NEW p, p.from \in Nat,
           e >= Hop \/ p.from >= Hop \/ HistoryFollows(hops, e, {})
    PROVE  Behind(hops, e, p)
<1> SUFFICES ASSUME NEW h \in Range(hops)
             PROVE  h.from \in Nat /\ (h.from + Hop <= e \/ h.from + Hop <= p.from)
  BY DEF Behind
<1>1. PICK i \in 1..Len(hops) : h = hops[i]
  BY HistoryTyped
<1>2. Len(hops) \in Nat /\ h.from \in Nat
  BY <1>1, HistoryTyped
<1> DEFINE n == Len(hops) - i
           f == h.from
           L == Len(hops)
<1>3. n \in Nat /\ f \in Nat /\ L - i + 1 = n + 1
  BY <1>2
<1>4. f + (L - i + 1) * Hop = e \/ (f = 0 /\ (e >= Hop \/ p.from >= Hop))
  BY <1>1 DEF HistoryFollows
<1> HIDE DEF n, f, L
<1>5. n * Hop \in Nat /\ (n + 1) * Hop = n * Hop + Hop /\ Hop \in Nat
  BY <1>3, Multiples, Geometry
<1>6. CASE f = 0 /\ (e >= Hop \/ p.from >= Hop)
  BY <1>3, <1>5, <1>6 DEF f
<1>7. CASE f + (L - i + 1) * Hop = e
  <2> DEFINE m == n * Hop
  <2>1. f + (m + Hop) = e
    BY <1>3, <1>5, <1>7
  <2>2. m \in Nat
    BY <1>5
  <2> HIDE DEF m
  <2>3. f + Hop <= e
    BY <2>1, <2>2, <1>3, <1>5
  <2> QED  BY <1>3, <2>3 DEF f
<1> QED  BY <1>4, <1>6, <1>7

\* A hop more.
LEMMA HistoryGrows ==
    ASSUME NEW x, NEW past \in Seq(Hops(x)), NEW lo \in Int, NEW strays,
           HistoryFollows(past, lo, strays), NEW hop \in Hops(x), hop.from = lo
    PROVE  HistoryFollows(Append(past, hop), lo + Hop, strays)
<1> DEFINE hops == Append(past, hop)
           L == Len(past)
<1>1. /\ L \in Nat /\ Len(hops) = L + 1 /\ hops[L + 1] = hop
      /\ \A i \in 1..L : hops[i] = past[i] /\ past[i].from \in Nat
  BY HistoryTyped
<1>2. Hop \in Nat
  BY Geometry
<1> HIDE DEF L, hops
<1>3. ASSUME NEW i \in 1..Len(hops)
      PROVE  hops[i].from + (Len(hops) - i + 1) * Hop = lo + Hop \/ hops[i].from \in strays
  <2>1. i \in 1..L \/ i = L + 1
    BY <1>1
  <2>2. CASE i \in 1..L
    <3> DEFINE f == past[i].from
               n == L - i + 1
    <3>0. f + n * Hop = lo \/ f \in strays
      BY <2>2 DEF HistoryFollows, L
    <3>2. f \in Nat /\ n \in Nat /\ Len(hops) - i + 1 = n + 1 /\ hops[i].from = f
      BY <1>1, <2>2
    <3>1. SUFFICES ASSUME f + n * Hop = lo PROVE hops[i].from + (Len(hops) - i + 1) * Hop = lo + Hop
      BY <3>0, <3>2
    <3> HIDE DEF f, n
    <3>3. (n + 1) * Hop = n * Hop + Hop /\ n * Hop \in Nat
      BY <3>2, <1>2, Multiples
    <3> DEFINE m == n * Hop
    <3>4. m \in Nat /\ f + m = lo
      BY <3>1, <3>3
    <3> HIDE DEF m
    <3>5. f + (m + Hop) = lo + Hop
      BY <3>2, <3>4, <1>2
    <3> QED  BY <3>2, <3>3, <3>5 DEF m
  <2>3. CASE i = L + 1
    <3>1. Len(hops) - i + 1 = 1 /\ hops[i].from = lo
      BY <1>1, <2>3
    <3> QED  BY <3>1, <1>2
  <2> QED  BY <2>1, <2>2, <2>3
<1> QED  BY <1>3 DEF HistoryFollows, hops

\* The last of the hops.
LastHops(hops) == SubSeq(hops, Max({1, Len(hops) - HistoryHops + 1}), Len(hops))

\* The history keeps the last of its hops.
LEMMA LastHopsAre ==
    ASSUME NEW x, NEW hops \in Seq(Hops(x))
    PROVE  LET kept == LastHops(hops) IN
           /\ kept \in Seq(Hops(x))
           /\ \E d \in Nat :
                /\ Len(hops) \in Nat /\ d <= Len(hops) /\ Len(kept) = Len(hops) - d
                /\ Len(kept) \in Nat /\ Len(kept) <= HistoryHops
                /\ d = 0 \/ d = Len(hops) - HistoryHops
                /\ \A i \in 1..Len(kept) : d + i \in 1..Len(hops) /\ kept[i] = hops[d + i]
<1> DEFINE L == Len(hops)
           y == L - HistoryHops + 1
           m == Max({1, y})
           d == m - 1
           kept == LastHops(hops)
<1>1. L \in Nat /\ HistoryHops \in Nat \ {0} /\ \A i \in 1..L : hops[i] \in Hops(x)
  BY Geometry
<1>2. m \in {1, y} /\ m >= 1 /\ m >= y
  <2>1. 1 \in Int /\ y \in Int
    BY <1>1
  <2> HIDE DEF y
  <2> QED  BY <2>1, MaxOfTwo, Zenon
<1>3. kept = SubSeq(hops, m, L)
  BY DEF LastHops
<1> HIDE DEF m, kept
<1>4. m \in Nat \ {0} /\ m <= L + 1 /\ d \in Nat /\ d <= L
  BY <1>1, <1>2
<1>5. /\ kept \in Seq(Hops(x))
      /\ Len(kept) = IF m <= L THEN L - m + 1 ELSE 0
      /\ \A i \in 1..(L - m + 1) : kept[i] = hops[m + i - 1]
  <2>1. \A i \in m..L : hops[i] \in Hops(x)
    BY <1>1, <1>4
  <2> HIDE DEF L
  <2>2. L \in Nat /\ m \in Nat \ {0}
    BY <1>1, <1>4
  <2> DEFINE r == SubSeq(hops, m, L)
  <2>3. /\ r \in Seq(Hops(x))
        /\ Len(r) = (IF m <= L THEN L - m + 1 ELSE 0)
        /\ \A i \in 1..(L - m + 1) : r[i] = hops[m + i - 1]
    BY <2>1, <2>2, SubSeqProperties
  <2> QED  BY <2>3, <1>3
<1>6. Len(kept) = L - d /\ Len(kept) \in Nat
  <2> HIDE DEF L
  <2> QED  BY <1>1, <1>4, <1>5
<1>7. d = 0 \/ d = L - HistoryHops
  <2> HIDE DEF L
  <2> QED  BY <1>1, <1>2
<1>8. L - d <= HistoryHops
  <2> HIDE DEF L
  <2> QED  BY <1>1, <1>2
<1>9. ASSUME NEW i \in 1..Len(kept) PROVE d + i \in 1..L /\ kept[i] = hops[d + i]
  <2> HIDE DEF L
  <2>1. i \in 1..(L - m + 1) /\ i \in Nat /\ m + i - 1 = d + i
    BY <1>1, <1>4, <1>6
  <2>2. kept[i] = hops[m + i - 1]
    BY <2>1, <1>5
  <2>3. d + i \in 1..L
    BY <2>1, <1>1, <1>4, <1>6
  <2> QED  BY <2>1, <2>2, <2>3
<1> HIDE DEF d
<1>10. /\ Len(hops) \in Nat /\ d <= Len(hops) /\ Len(kept) = Len(hops) - d
       /\ Len(kept) \in Nat /\ Len(kept) <= HistoryHops
       /\ d = 0 \/ d = Len(hops) - HistoryHops
       /\ \A i \in 1..Len(kept) : d + i \in 1..Len(hops) /\ kept[i] = hops[d + i]
  BY <1>1, <1>4, <1>6, <1>7, <1>8, <1>9
<1> QED  BY <1>4, <1>5, <1>10 DEF kept

\* The last hops follow one another as all of them do.
LEMMA LastFollow ==
    ASSUME NEW x, NEW hops \in Seq(Hops(x)), NEW e \in Int, NEW strays,
           HistoryFollows(hops, e, strays)
    PROVE  LET kept == LastHops(hops) IN
           /\ kept \in Seq(Hops(x)) /\ HistoryFollows(kept, e, strays)
           /\ Len(kept) \in Nat /\ Len(kept) <= HistoryHops
           /\ Range(kept) \subseteq Range(hops)
<1> DEFINE kept == LastHops(hops)
<1>a. kept \in Seq(Hops(x))
  BY LastHopsAre
<1>1. PICK d \in Nat :
                /\ Len(hops) \in Nat /\ d <= Len(hops) /\ Len(kept) = Len(hops) - d
                /\ Len(kept) \in Nat /\ Len(kept) <= HistoryHops
                /\ d = 0 \/ d = Len(hops) - HistoryHops
                /\ \A i \in 1..Len(kept) : d + i \in 1..Len(hops) /\ kept[i] = hops[d + i]
  BY LastHopsAre
<1> HIDE DEF kept
<1>2. ASSUME NEW i \in 1..Len(kept)
      PROVE  kept[i].from + (Len(kept) - i + 1) * Hop = e \/ kept[i].from \in strays
  <2>1. d + i \in 1..Len(hops) /\ kept[i] = hops[d + i]
    BY <1>1
  <2>2. \/ hops[d + i].from + (Len(hops) - (d + i) + 1) * Hop = e
        \/ hops[d + i].from \in strays
    BY <2>1 DEF HistoryFollows
  <2>3. Len(hops) - (d + i) + 1 = Len(kept) - i + 1
    BY <1>1
  <2> QED  BY <2>1, <2>2, <2>3
<1>3. ASSUME NEW h \in Range(kept) PROVE h \in Range(hops)
  <2>2. PICK i \in 1..Len(kept) : h = kept[i]
    BY <1>a, HistoryTyped
  <2> QED  BY <1>1, <2>2, HistoryTyped
<1>4. HistoryFollows(kept, e, strays)
  BY <1>2 DEF HistoryFollows
<1> QED  BY <1>a, <1>1, <1>3, <1>4 DEF kept

\* They go back far enough.
LEMMA LastPlays ==
    ASSUME NEW x, NEW hops \in Seq(Hops(x)), NEW e \in Int, HistoryFollows(hops, e, {0}),
           NEW p, p.from \in Nat, p.from >= Hop \/ HistoryFollows(hops, e, {}),
           NEW g \in Int, e - g <= HistoryHops * Hop, Plays(hops, p, g, e)
    PROVE  Plays(LastHops(hops), p, g, e)
<1> DEFINE kept == LastHops(hops)
<1>1. PICK d \in Nat :
                /\ Len(hops) \in Nat /\ d <= Len(hops) /\ Len(kept) = Len(hops) - d
                /\ Len(kept) \in Nat /\ Len(kept) <= HistoryHops
                /\ d = 0 \/ d = Len(hops) - HistoryHops
                /\ \A i \in 1..Len(kept) : d + i \in 1..Len(hops) /\ kept[i] = hops[d + i]
  BY LastHopsAre
<1>2. Range(kept) \subseteq Range(hops)
  BY LastFollow, Zenon
<1>3. kept \in Seq(Hops(x))
  BY LastHopsAre
<1> HIDE DEF kept
<1> SUFFICES ASSUME NEW f \in g..(e - 1), p.from <= f, f <= p.last
             PROVE  /\ \E h \in Range(kept) : f \in h.from..(h.from + Hop - 1)
                    /\ \A h \in Range(kept) : f \in h.from..(h.from + Hop - 1) =>
                            Is(h.source[f - h.from + 1], p, f)
  BY DEF Plays, kept
<1>4. PICK h \in Range(hops) : f \in h.from..(h.from + Hop - 1)
  BY DEF Plays
<1>5. \A q \in Range(hops) : f \in q.from..(q.from + Hop - 1) => Is(q.source[f - q.from + 1], p, f)
  BY DEF Plays
<1>6. PICK i \in 1..Len(hops) : h = hops[i]
  BY HistoryTyped
<1>7. h.from + (Len(hops) - i + 1) * Hop = e /\ h.from \in Nat
  <2>1. h.from \in Nat
    BY <1>6, HistoryTyped
  <2>2. h.from = 0 => ~(p.from >= Hop)
    BY <1>4, Geometry
  <2> QED  BY <1>6, <2>1, <2>2 DEF HistoryFollows
<1>8. i > d
  <2> SUFFICES ASSUME i <= d PROVE FALSE
    BY <1>1, <1>6
  <2> DEFINE L == Len(hops)
             n == L - i
             z == h.from
             c == n * Hop
             m == HistoryHops * Hop
  <2>1. L \in Nat /\ d = L - HistoryHops /\ n \in Nat /\ n >= HistoryHops /\ L - i + 1 = n + 1
    BY <1>1, Geometry
  <2>2. /\ c \in Nat /\ (n + 1) * Hop = c + Hop /\ c >= m /\ m \in Nat
        /\ Hop \in Nat \ {0} /\ HistoryHops \in Nat
    <3>1. n \in Nat /\ n >= HistoryHops
      BY <2>1
    <3> HIDE DEF n
    <3> QED  BY <3>1, Multiples, Geometry
  <2>3. z + (n + 1) * Hop = e /\ z \in Nat
    BY <1>7, <2>1
  <2>4. e - g <= m /\ g <= f /\ f < z + Hop /\ f \in Int
    BY <1>4, <1>7, Geometry
  <2> HIDE DEF L, n, z, c, m
  <2>5. z + (c + Hop) = e
    BY <2>2, <2>3
  <2>6. z + Hop <= g
    BY <2>2, <2>3, <2>4, <2>5
  <2> QED  BY <2>2, <2>3, <2>4, <2>6
<1>9. i - d \in 1..Len(kept) /\ d + (i - d) = i
  BY <1>1, <1>6, <1>8
<1>10. kept[i - d] = h
  BY <1>1, <1>6, <1>9
<1>11. h \in Range(kept)
  BY <1>3, <1>9, <1>10, HistoryTyped
<1> QED  BY <1>2, <1>4, <1>5, <1>11

\* A hop of the play's frames more.
LEMMA PlaysGrow ==
    ASSUME NEW x, NEW past \in Seq(Hops(x)), NEW lo \in Int, NEW p, Behind(past, lo, p),
           NEW hop \in Hops(x), hop.from = lo, NEW source, hop.source = SubSeq(source, 1, Hop),
           NEW y, source \in Seq(y), Hop <= Len(source),
           NEW g \in Int, Plays(past, p, g, lo) \/ g >= lo, p.from \in Nat,
           \A f \in lo..(lo + Hop - 1) : p.from <= f /\ f <= p.last => Is(source[f - lo + 1], p, f)
    PROVE  Plays(Append(past, hop), p, g, lo + Hop)
<1> DEFINE hops == Append(past, hop)
<1>1. Range(hops) = Range(past) \cup {hop}
  <2>1. /\ Len(past) \in Nat /\ Len(hops) = Len(past) + 1 /\ hops[Len(past) + 1] = hop
        /\ \A i \in 1..Len(past) : hops[i] = past[i]
    OBVIOUS
  <2>2. DOMAIN hops = 1..(Len(past) + 1) /\ DOMAIN past = 1..Len(past)
    BY <2>1
  <2> HIDE DEF hops
  <2>3. \A i \in 1..(Len(past) + 1) : i \in 1..Len(past) \/ i = Len(past) + 1
    BY <2>1
  <2>4. Len(past) + 1 \in 1..(Len(past) + 1) /\ \A i \in 1..Len(past) : i \in 1..(Len(past) + 1)
    BY <2>1
  <2> QED  BY <2>1, <2>2, <2>3, <2>4 DEF Range
<1> HIDE DEF hops
<1> DEFINE hi == lo + Hop
<1> SUFFICES Plays(hops, p, g, hi)
  BY DEF hops
<1> HIDE DEF hi
<1> SUFFICES ASSUME NEW f \in g..(hi - 1), p.from <= f, f <= p.last
             PROVE  /\ \E h \in Range(hops) : f \in h.from..(h.from + Hop - 1)
                    /\ \A h \in Range(hops) : f \in h.from..(h.from + Hop - 1) =>
                            Is(h.source[f - h.from + 1], p, f)
  BY DEF Plays
<1>0. hi = lo + Hop /\ hi - 1 = lo + Hop - 1
  BY Geometry DEF hi
<1>2. \A h \in Range(past) : h.from \in Nat /\ (h.from + Hop <= lo \/ h.from + Hop <= p.from)
  BY DEF Behind
<1>3. Hop \in Nat \ {0}
  BY Geometry
<1>4. CASE f < lo
  <2>1. f \in g..(lo - 1) /\ Plays(past, p, g, lo)
    BY <1>0, <1>3, <1>4
  <2>2. /\ \E h \in Range(past) : f \in h.from..(h.from + Hop - 1)
        /\ \A h \in Range(past) : f \in h.from..(h.from + Hop - 1) =>
                Is(h.source[f - h.from + 1], p, f)
    BY <2>1 DEF Plays
  <2>3. f \notin hop.from..(hop.from + Hop - 1)
    BY <1>4
  <2> QED  BY <1>1, <2>2, <2>3
<1>5. CASE f >= lo
  <2>1. f \in lo..(lo + Hop - 1) /\ f - lo + 1 \in 1..Hop
    BY <1>0, <1>3, <1>5
  <2>2. Is(source[f - lo + 1], p, f)
    BY <2>1
  <2>3. hop.source[f - lo + 1] = source[f - lo + 1]
    <3>1. \A i \in 1..Hop : SubSeq(source, 1, Hop)[i] = source[i]
      <4>1. Len(source) \in Nat /\ \A i \in 1..Hop : source[i] \in y
        BY <1>3
      <4> QED  BY <1>3, <4>1, SubSeqProperties
    <3> QED  BY <2>1, <3>1
  <2>4. ASSUME NEW h \in Range(past) PROVE f \notin h.from..(h.from + Hop - 1)
    BY <1>2, <1>3, <1>5
  <2>5. f \in hop.from..(hop.from + Hop - 1)
    BY <2>1
  <2>6. Is(hop.source[f - hop.from + 1], p, f)
    BY <2>2, <2>3
  <2> QED  BY <1>1, <2>4, <2>5, <2>6
<1> QED  BY <1>3, <1>4, <1>5

-----------------------------------------------------------------------------
(* The inductive invariant of FullPlayIsStored. A song that is heard from  *)
(* its start waits for the anchor that tells of it, is built, has been     *)
(* built and is still to be stored, or is stored.                          *)
\* The play at hand, and the one last heard in whole.
PlayNow == [song |-> head.song, from |-> begun, last |-> Now]
PlayLast == [song |-> owed.song, from |-> owed.until - LengthOf[owed.song],
             last |-> owed.until - 1]
HeardNow == IF begun # Never /\ head.pos # 0 THEN {PlayNow} ELSE {}
HeardLast == IF owed # None THEN {PlayLast} ELSE {}

\* What the worker has not done with of a play are the frames of its song.
Sounding(p) == \A f \in at..p.last : p.from <= f => Is(FrameAt(f), p, f)
PlayOK(p) == IsPlay(p) /\ p.last <= Now /\ Sounding(p)

\* The anchors tell, or will tell, of a play before the history has forgotten its start.
Foretold(p, r) ==
    \/ \E i \in 1..Len(anchors) :
        anchors[i].rtp = r /\ anchors[i].frame - p.from <= HistoryHops * Hop
    \/ p.last = Now /\ ~told /\ p.last - p.from <= HistoryHops * Hop

\* The assembly at hand is stale for the window.
Stale == Stales(assembly, at, seq)

\* A song that the worker is not building yet.
Waiting(p, r) ==
    /\ at <= p.last
    /\ \A i \in 1..Len(anchors) : anchors[i].rtp = r => at <= anchors[i].frame
    /\ Foretold(p, r)
    /\ r \notin assembly.completed
    /\ assembly.builder # None => assembly.builder.rtp < r
    /\ p.from < at => ~Stale /\ Plays(assembly.history, p, p.from, at)
    /\ ~Stale => p.from >= Hop \/ HistoryFollows(assembly.history, at, {})

\* A song that it builds.
Building(p, r) ==
    /\ p.from < at /\ at <= p.last /\ ~Stale
    /\ Spoken(anchors, r, at)
    /\ assembly.builder # None /\ Builds(assembly.builder, p, r, at)

\* One that it has built.
Pending(p) ==
    p.last < at /\ \E j \in 1..Len(todo) : todo[j].op = "song" /\ WholeOf(todo[j].builder, p)

\* One that is stored, or cannot be.
Kept(p) == Held(p.song) \/ Spoiled(p.song)

\* Nothing that the worker does can end in a song stored or evicted.
Idle(ops) ==
    \A j \in 1..Len(ops) :
        /\ ops[j].op # "prune"
        /\ ops[j].op = "song" => Len(ops[j].builder.source) < ops[j].builder.length
\* A song that is stored already will not be built again from its start.
Harmless(p) ==
    /\ p.from < at /\ Idle(todo)
    /\ \/ Stale
       \/ /\ \A h \in Range(assembly.history) : h.from > p.from
          /\ assembly.builder # None => Partial(assembly.builder, anchors)

\* The anchor of the song at hand is the last one, or the next.
Current(r) ==
    IF told THEN anchors # <<>> /\ Last(anchors).rtp = r /\ r = revision ELSE r = revision + 1

\* Where the song at hand, of revision r, is.
PlayingWell(p, r) ==
    /\ Current(r) /\ Labels(anchors, p, r)
    /\ Waiting(p, r) \/ Building(p, r) \/ (Kept(p) /\ Harmless(p))
\* Where the song last heard in whole is.
PlayedWell(p, r) ==
    /\ r <= revision /\ Labels(anchors, p, r)
    /\ Waiting(p, r) \/ Building(p, r) \/ Kept(p) \/ Pending(p)

\* The song at hand, heard from its start, is somewhere.
PlayingOK ==
    \A p \in HeardNow : PlayOK(p) /\ named /\ \E r \in 0..(revision + 1) : PlayingWell(p, r)
\* So is the one last heard in whole.
PlayedOK ==
    \A p \in HeardLast :
        /\ owed \in [song : Songs, until : Nat]
        /\ PlayOK(p) /\ p.last + 1 = p.from + LengthOf[p.song] /\ p.last < Now
        /\ told /\ anchors # <<>> => Last(anchors).frame > p.last
        /\ \E r \in 0..(revision + 1) : PlayedWell(p, r)

\* The assembly and the anchors fit together.
AssemblyFollows ==
    LET b == assembly.builder IN
    /\ assembly.completed \subseteq 0..revision
    /\ b # None => /\ b.revision <= revision /\ b.rtp <= revision /\ Len(b.source) < b.length
                   /\ b.streamEnd # 0
    /\ assembly.last = 0 => b = None /\ assembly.history = <<>>
    /\ Len(assembly.history) <= HistoryHops
    /\ assembly.last = seq - 1 => \/ /\ assembly.start \in Nat
                                     /\ at = 0 \/ assembly.start = at - Hop
                                  \/ b = None /\ assembly.history = <<>>
    /\ ~Stale => /\ HistoryFollows(assembly.history, at, {0})
                 /\ b # None => Fits(b, anchors, at)

\* The invariant.
WholeInv ==
    /\ Timeline(anchors) /\ (told => head.pos # 0)
    /\ AssemblyFollows /\ PlayingOK /\ PlayedOK

-----------------------------------------------------------------------------
(* The stream and its anchors grow.                                        *)
\* An element more.
LEMMA OneMore ==
    ASSUME NEW S, NEW list \in Seq(S), NEW x \in S
    PROVE  LET more == Append(list, x) IN
           /\ Len(list) \in Nat /\ more \in Seq(S) /\ Len(more) = Len(list) + 1
           /\ \A i \in 1..Len(list) : i \in 1..Len(more) /\ more[i] = list[i]
           /\ \A i \in 1..Len(more) :
                (i \in 1..Len(list) /\ more[i] = list[i]) \/ (i = Len(list) + 1 /\ more[i] = x)
           /\ Len(list) + 1 \in 1..Len(more) /\ more[Len(list) + 1] = x
<1> DEFINE more == Append(list, x)
<1>1. /\ Len(list) \in Nat /\ more \in Seq(S) /\ Len(more) = Len(list) + 1
      /\ \A i \in 1..Len(list) : more[i] = list[i]
      /\ more[Len(list) + 1] = x
  OBVIOUS
<1> HIDE DEF more
<1>2. \A i \in 1..Len(list) : i \in 1..Len(more)
  BY <1>1
<1>3. \A i \in 1..Len(more) : i \in 1..Len(list) \/ i = Len(list) + 1
  BY <1>1
<1>4. Len(list) + 1 \in 1..Len(more)
  BY <1>1
<1> QED  BY <1>1, <1>2, <1>3, <1>4 DEF more

\* An anchor after those there are, the last of which is of revision rev: of a new song, or of
\* the last one.
Newer(x, list, rev) ==
    /\ rev \in Nat /\ x \in Anchors /\ x.pos < x.length
    /\ \A i \in 1..Len(list) : list[i].revision <= rev
    /\ \/ x.rtp = rev + 1 /\ x.revision = rev + 1
       \/ /\ list # <<>> /\ list[Len(list)].revision = rev /\ x.rtp = list[Len(list)].rtp
          /\ x.revision = rev \/ x.revision = rev + 1
          /\ x.revision = rev => x.length = list[Len(list)].length

\* The anchors are a timeline with one more of a new revision.
LEMMA NewerTimeline ==
    ASSUME NEW list \in Seq(Anchors), Timeline(list), NEW x, NEW rev, Newer(x, list, rev)
    PROVE  Timeline(Append(list, x))
<1> DEFINE more == Append(list, x)
           L == Len(list)
<1>1. /\ x \in Anchors /\ x.rtp \in Nat /\ x.revision \in Nat /\ rev \in Nat /\ x.pos < x.length
      /\ x.revision = rev \/ x.revision = rev + 1
  BY DEF Newer, Anchors
<1>2. /\ L \in Nat /\ Len(more) = L + 1
      /\ \A i \in 1..Len(more) : (i \in 1..L /\ more[i] = list[i]) \/ (i = L + 1 /\ more[i] = x)
  BY <1>1, OneMore
<1>3. \A i \in 1..L : /\ list[i].rtp \in Nat /\ list[i].revision \in Nat
                      /\ list[i].revision <= rev /\ list[i].rtp <= list[i].revision
                      /\ list[i].pos < list[i].length
  <2>1. \A i \in 1..L : list[i] \in Anchors
    BY AnchorIs
  <2>2. \A i \in 1..L : list[i].revision <= rev
    BY DEF Newer
  <2>3. \A i \in 1..L : list[i].rtp <= list[i].revision /\ list[i].pos < list[i].length
    BY DEF Timeline
  <2> QED  BY <2>1, <2>2, <2>3 DEF Anchors
<1>4. ASSUME NEW i \in 1..L
      PROVE  /\ list[i].rtp <= x.rtp /\ list[i].revision <= x.revision
             /\ list[i].revision = x.revision => list[i].rtp = x.rtp /\ list[i].length = x.length
  <2>1. CASE x.rtp = rev + 1 /\ x.revision = rev + 1
    BY <1>1, <1>3, <2>1
  <2>2. CASE /\ list # <<>> /\ list[L].revision = rev /\ x.rtp = list[L].rtp
             /\ x.revision = rev \/ x.revision = rev + 1
             /\ x.revision = rev => x.length = list[L].length
    <3>1. L \in 1..L /\ i <= L
      BY <1>2
    <3>2. list[i].rtp <= list[L].rtp
      BY <3>1 DEF Timeline
    <3>3. list[i].revision = list[L].revision =>
                list[i].rtp = list[L].rtp /\ list[i].length = list[L].length
      BY <3>1 DEF Timeline
    <3>4. list[i].revision <= x.revision
      BY <1>1, <1>3
    <3>5. list[i].revision = x.revision => x.revision = rev
      BY <1>1, <1>3
    <3> QED  BY <2>2, <3>2, <3>3, <3>4, <3>5
  <2> QED  BY <2>1, <2>2 DEF Newer
<1>5. x.rtp <= x.revision
  <2>1. CASE x.rtp = rev + 1 /\ x.revision = rev + 1
    BY <1>1, <2>1
  <2>2. CASE /\ list # <<>> /\ list[L].revision = rev /\ x.rtp = list[L].rtp
    <3>1. L \in 1..L
      BY <1>2, <2>2
    <3>2. list[L].rtp <= rev /\ list[L].rtp \in Nat
      BY <1>3, <3>1, <2>2
    <3> QED  BY <1>1, <2>2, <3>2
  <2> QED  BY <2>1, <2>2 DEF Newer
<1> HIDE DEF more, L
<1>6. ASSUME NEW i \in 1..Len(more)
      PROVE  more[i].pos < more[i].length /\ more[i].rtp <= more[i].revision
  BY <1>1, <1>2, <1>3, <1>5
<1>7. ASSUME NEW i \in 1..Len(more), NEW j \in 1..Len(more)
      PROVE  /\ i <= j => more[i].rtp <= more[j].rtp /\ more[i].revision <= more[j].revision
             /\ more[i].revision = more[j].revision =>
                    more[i].rtp = more[j].rtp /\ more[i].length = more[j].length
  <2>1. CASE i \in 1..L /\ more[i] = list[i] /\ j \in 1..L /\ more[j] = list[j]
    <3>1. /\ i <= j => list[i].rtp <= list[j].rtp /\ list[i].revision <= list[j].revision
          /\ list[i].revision = list[j].revision =>
                    list[i].rtp = list[j].rtp /\ list[i].length = list[j].length
      BY <2>1 DEF Timeline, L
    <3> QED  BY <2>1, <3>1
  <2>2. CASE i \in 1..L /\ more[i] = list[i] /\ j = L + 1 /\ more[j] = x
    BY <1>4, <2>2
  <2>3. CASE i = L + 1 /\ more[i] = x /\ j \in 1..L /\ more[j] = list[j]
    <3>1. ~(i <= j)
      BY <1>2, <2>3
    <3> QED  BY <1>4, <2>3, <3>1
  <2>4. CASE i = L + 1 /\ more[i] = x /\ j = L + 1 /\ more[j] = x
    BY <1>1, <2>4
  <2> QED  BY <1>2, <2>1, <2>2, <2>3, <2>4
<1> QED  BY <1>6, <1>7 DEF Timeline, more

\* A builder fits one anchor more, at its window's start or after it.
LEMMA NewerFits ==
    ASSUME NEW list \in Seq(Anchors), Timeline(list), NEW x, NEW rev, Newer(x, list, rev),
           NEW p, NEW b \in Builders(p), NEW e \in Nat, Fits(b, list, e), b.revision <= rev,
           e <= x.frame
    PROVE  Fits(b, Append(list, x), e)
<1> DEFINE more == Append(list, x)
           L == Len(list)
<1>1. /\ x \in Anchors /\ x.rtp \in Nat /\ x.revision \in Nat /\ rev \in Nat /\ x.frame \in Nat
      /\ x.revision = rev \/ x.revision = rev + 1
  BY DEF Newer, Anchors
<1>2. /\ L \in Nat /\ Len(more) = L + 1 /\ more \in Seq(Anchors) /\ more[L + 1] = x
      /\ \A i \in 1..L : more[i] = list[i]
      /\ \A i \in 1..Len(more) : (i \in 1..L /\ more[i] = list[i]) \/ (i = L + 1 /\ more[i] = x)
  BY <1>1, OneMore
<1>3. b.rtp \in Nat /\ b.revision \in Nat /\ b.rtp <= b.revision
  BY DEF Builders, Fits
<1>4. ASSUME NEW i \in 1..L
      PROVE  LET a == list[i] IN
        /\ a.rtp >= b.rtp
        /\ a.rtp = b.rtp => a.revision >= b.revision
        /\ a.revision = b.revision =>
                b.trackEnd <= a.length /\ (b.streamEnd # e => b.trackEnd = a.length)
  BY DEF Fits
<1>5. /\ x.rtp >= b.rtp
      /\ x.rtp = b.rtp => x.revision >= b.revision
      /\ x.revision = b.revision =>
                b.trackEnd <= x.length /\ (b.streamEnd # e => b.trackEnd = x.length)
  <2>1. CASE x.rtp = rev + 1 /\ x.revision = rev + 1
    <3>1. x.rtp > b.rtp /\ x.revision # b.revision
      BY <1>1, <1>3, <2>1
    <3> QED  BY <1>1, <1>3, <3>1
  <2>2. CASE /\ list # <<>> /\ list[L].revision = rev /\ x.rtp = list[L].rtp
             /\ x.revision = rev => x.length = list[L].length
    <3>1. L \in 1..L
      BY <1>2, <2>2
    <3>2. x.revision >= b.revision /\ (x.revision = b.revision => x.revision = rev)
      BY <1>1, <1>3
    <3> QED  BY <1>4, <2>2, <3>1, <3>2
  <2> QED  BY <2>1, <2>2 DEF Newer
<1>6. ASSUME b.streamEnd = e
      PROVE  LET t == ToldBy(more, e) IN
             /\ t # 0
             /\ more[t].frame < e /\ more[t].rtp = b.rtp =>
                    more[t].pos + e - more[t].frame = b.trackEnd
  <2>1. CASE x.frame = e
    <3>1. ToldBy(more, e) = L + 1
      BY <1>1, <2>1, ToldByNew
    <3>2. more[L + 1].frame = e
      BY <1>2, <2>1
    <3> QED  BY <1>2, <3>1, <3>2
  <2>2. CASE e < x.frame
    <3> DEFINE t == ToldBy(list, e)
    <3>1. ToldBy(more, e) = t
      BY <1>1, <2>2, ToldByNew
    <3>2. /\ t # 0
          /\ list[t].frame < e /\ list[t].rtp = b.rtp =>
                    list[t].pos + e - list[t].frame = b.trackEnd
      BY <1>6 DEF Fits
    <3>3. t \in 0..L
      BY ToldByIs
    <3> HIDE DEF t
    <3>4. t \in 1..L
      BY <1>2, <3>2, <3>3
    <3>5. more[t] = list[t]
      BY <1>2, <3>4
    <3> QED  BY <3>1, <3>2, <3>5
  <2>3. x.frame = e \/ e < x.frame
    <3> DEFINE d == x.frame
    <3>1. d \in Nat /\ e <= d
      BY <1>1
    <3> HIDE DEF d
    <3>2. d = e \/ e < d
      BY <3>1
    <3> QED  BY <3>2 DEF d
  <2> QED  BY <2>1, <2>2, <2>3
<1> HIDE DEF more, L
<1>7. ASSUME NEW i \in 1..Len(more)
      PROVE  LET a == more[i] IN
        /\ a.rtp >= b.rtp
        /\ a.rtp = b.rtp => a.revision >= b.revision
        /\ a.revision = b.revision =>
                b.trackEnd <= a.length /\ (b.streamEnd # e => b.trackEnd = a.length)
  BY <1>2, <1>4, <1>5
<1> QED  BY <1>3, <1>6, <1>7 DEF Fits, more

\* A builder without the start of its song stays so.
LEMMA NewerPartial ==
    ASSUME NEW list \in Seq(Anchors), NEW x, NEW rev, Newer(x, list, rev),
           NEW p, NEW b \in Builders(p), Partial(b, list), b.revision <= rev
    PROVE  Partial(b, Append(list, x))
<1> DEFINE more == Append(list, x)
           L == Len(list)
<1>1. /\ x \in Anchors /\ x.revision \in Nat /\ rev \in Nat
      /\ x.revision = rev \/ x.revision = rev + 1
  BY DEF Newer, Anchors
<1>2. /\ L \in Nat
      /\ \A i \in 1..Len(more) : (i \in 1..L /\ more[i] = list[i]) \/ (i = L + 1 /\ more[i] = x)
  BY <1>1, OneMore
<1>3. b.revision \in Nat
  BY DEF Builders
<1>4. ASSUME x.revision = b.revision PROVE x.length = b.length
  <2>1. x.revision = rev /\ x.revision # rev + 1
    BY <1>1, <1>3, <1>4
  <2>2. list # <<>> /\ list[L].revision = rev /\ x.length = list[L].length
    BY <2>1 DEF Newer
  <2>3. L \in 1..L
    BY <1>2, <2>2
  <2> QED  BY <1>4, <2>1, <2>2, <2>3 DEF Partial
<1> HIDE DEF more, L
<1>5. \A i \in 1..Len(more) : more[i].revision = b.revision => more[i].length = b.length
  <2>1. \A i \in 1..L : list[i].revision = b.revision => list[i].length = b.length
    BY DEF Partial, L
  <2> QED  BY <1>2, <1>4, <2>1
<1> QED  BY <1>5 DEF Partial, more

\* The host has one anchor more, or as many as before.
AnchorsMove(rev) ==
    \/ anchors' = anchors
    \/ \E x : Newer(x, anchors, rev) /\ x.frame = Now /\ anchors' = Append(anchors, x)

\* Whether the assembly is stale is of the window.
LEMMA StaleKept ==
    ASSUME UNCHANGED <<at, assembly, seq>>
    PROVE  Stale' = Stale
BY DEF Stale, Stales, Regressed, Gapped

\* What songs are made of at hand.
LEMMA ImprintTyped ==
    ASSUME profile \in Profiles
    PROVE  Imprint \in Imprints
BY DEF Imprint, Imprints, Garble

\* The builder at hand.
LEMMA BuilderTyped ==
    ASSUME AssemblyOK, assembly.builder # None
    PROVE  assembly.builder \in Builders(Imprint)
BY DEF AssemblyOK, Assemblies

\* Where nothing is assembled, what follows from the assembly stays.
LEMMA FollowsOn ==
    ASSUME HostOK, AssemblyOK, Timeline(anchors), AssemblyFollows,
           UNCHANGED <<at, assembly, seq>>, revision' \in Nat, revision <= revision',
           AnchorsMove(revision)
    PROVE  /\ Timeline(anchors') /\ AssemblyFollows'
           /\ \A r : Spoken(anchors, r, at) => Spoken(anchors', r, at)
           /\ assembly.builder # None /\ Partial(assembly.builder, anchors) =>
                    Partial(assembly.builder, anchors')
<1> DEFINE b == assembly.builder
<1>1. /\ anchors \in Seq(Anchors) /\ Len(anchors) \in Nat /\ revision \in Nat /\ at \in Nat
      /\ Now \in Nat /\ at <= Now /\ profile \in Profiles
  BY HostIs DEF HostOK
<1>2. b # None => b \in Builders(Imprint) /\ b.revision <= revision /\ b.rtp <= revision
                  /\ b.revision \in Nat /\ b.rtp \in Nat
  <2>1. b # None => b \in Builders(Imprint)
    BY <1>1, BuilderTyped
  <2>2. b # None => b.revision <= revision /\ b.rtp <= revision
    BY DEF AssemblyFollows
  <2> QED  BY <2>1, <2>2 DEF Builders
<1>3. Timeline(anchors')
  <2>1. CASE anchors' = anchors
    BY <2>1
  <2>2. CASE \E x : Newer(x, anchors, revision) /\ anchors' = Append(anchors, x)
    BY <1>1, <2>2, NewerTimeline
  <2> QED  BY <2>1, <2>2 DEF AnchorsMove
<1>4. ASSUME b # None, Fits(b, anchors, at) PROVE Fits(b, anchors', at)
  <2>1. CASE anchors' = anchors
    BY <1>4, <2>1
  <2>2. CASE \E x : Newer(x, anchors, revision) /\ x.frame = Now /\ anchors' = Append(anchors, x)
    <3>1. PICK x : Newer(x, anchors, revision) /\ x.frame = Now /\ anchors' = Append(anchors, x)
      BY <2>2
    <3>2. at <= x.frame
      BY <1>1, <3>1
    <3> HIDE DEF b
    <3>3. Fits(b, Append(anchors, x), at)
      BY <1>1, <1>2, <1>4, <3>1, <3>2, NewerFits
    <3> QED  BY <3>1, <3>3
  <2> QED  BY <2>1, <2>2 DEF AnchorsMove
<1>5. ASSUME b # None, Partial(b, anchors) PROVE Partial(b, anchors')
  <2>1. CASE anchors' = anchors
    BY <1>5, <2>1
  <2>2. CASE \E x : Newer(x, anchors, revision) /\ anchors' = Append(anchors, x)
    <3>1. PICK x : Newer(x, anchors, revision) /\ anchors' = Append(anchors, x)
      BY <2>2
    <3> HIDE DEF b
    <3>2. Partial(b, Append(anchors, x))
      BY <1>1, <1>2, <1>5, <3>1, NewerPartial
    <3> QED  BY <3>1, <3>2
  <2> QED  BY <2>1, <2>2 DEF AnchorsMove
<1>6. ASSUME NEW r, Spoken(anchors, r, at) PROVE Spoken(anchors', r, at)
  <2>1. CASE anchors' = anchors
    BY <1>6, <2>1
  <2>2. CASE \E x : Newer(x, anchors, revision) /\ anchors' = Append(anchors, x)
    <3>1. PICK x : Newer(x, anchors, revision) /\ anchors' = Append(anchors, x)
      BY <2>2
    <3>2. PICK i \in 1..Len(anchors) : anchors[i].rtp = r /\ anchors[i].frame <= at
      BY <1>6 DEF Spoken
    <3>3. x \in Anchors
      BY <3>1 DEF Newer
    <3>4. i \in 1..Len(anchors') /\ anchors'[i] = anchors[i]
      BY <1>1, <3>1, <3>3, OneMore
    <3> QED  BY <3>2, <3>4 DEF Spoken
  <2> QED  BY <2>1, <2>2 DEF AnchorsMove
<1>7. AssemblyFollows'
  <2> DEFINE c == assembly'.builder
  <2>1. c = b /\ assembly' = assembly /\ at' = at /\ seq' = seq
    OBVIOUS
  <2>2. /\ assembly.completed \subseteq 0..revision
        /\ b # None => /\ b.revision <= revision /\ b.rtp <= revision
                       /\ Len(b.source) < b.length /\ b.streamEnd # 0
        /\ assembly.last = 0 => b = None /\ assembly.history = <<>>
        /\ Len(assembly.history) <= HistoryHops
        /\ assembly.last = seq - 1 => \/ /\ assembly.start \in Nat
                                         /\ at = 0 \/ assembly.start = at - Hop
                                      \/ b = None /\ assembly.history = <<>>
        /\ ~Stale => /\ HistoryFollows(assembly.history, at, {0})
                     /\ b # None => Fits(b, anchors, at)
    BY DEF AssemblyFollows
  <2>3. assembly.completed \subseteq 0..revision'
    BY <1>1, <2>2
  <2>4. b # None => b.revision <= revision' /\ b.rtp <= revision'
    BY <1>1, <1>2
  <2>5. ~Stale' => /\ HistoryFollows(assembly'.history, at', {0})
                   /\ c # None => Fits(c, anchors', at')
    BY <1>4, <2>1, <2>2, StaleKept
  <2> HIDE DEF b
  <2> QED  BY <2>1, <2>2, <2>3, <2>4, <2>5 DEF AssemblyFollows
<1> QED  BY <1>3, <1>5, <1>6, <1>7

\* What a later moment of a play says of it.
Later(q, p) == q.song = p.song /\ q.from = p.from /\ p.last <= q.last

\* A song that waits goes on to wait while more of it is heard.
LEMMA WaitingOn ==
    ASSUME HostOK, UNCHANGED <<at, assembly, seq>>, NEW p, IsPlay(p), NEW q, IsPlay(q), Later(q, p),
           NEW r, Waiting(p, r), Foretold(q, r)',
           \A i \in 1..Len(anchors') : anchors'[i].rtp = r => at <= anchors'[i].frame
    PROVE  Waiting(q, r)'
<1>1. /\ at \in Nat /\ p.last \in Nat /\ q.last \in Nat /\ p.from \in Nat /\ q.from = p.from
      /\ q.song = p.song /\ p.last <= q.last /\ at <= p.last
  BY PlayIs DEF HostOK, Later, Waiting
<1>2. at <= q.last
  BY <1>1
<1>3. ASSUME NEW h, Plays(h, p, p.from, at) PROVE Plays(h, q, q.from, at)
  <2> SUFFICES ASSUME NEW f \in p.from..(at - 1)
               PROVE  /\ \E x \in Range(h) : f \in x.from..(x.from + Hop - 1)
                      /\ \A x \in Range(h) : f \in x.from..(x.from + Hop - 1) =>
                                Is(x.source[f - x.from + 1], q, f)
    BY <1>1 DEF Plays
  <2>1. p.from <= f /\ f <= p.last
    BY <1>1
  <2>2. /\ \E x \in Range(h) : f \in x.from..(x.from + Hop - 1)
        /\ \A x \in Range(h) : f \in x.from..(x.from + Hop - 1) =>
                                Is(x.source[f - x.from + 1], p, f)
    BY <1>3, <2>1 DEF Plays
  <2> QED  BY <1>1, <2>2 DEF Is
<1>4. q.from < at => ~Stale' /\ Plays(assembly'.history, q, q.from, at)
  BY <1>1, <1>3, StaleKept DEF Waiting
<1>5. ~Stale' => q.from >= Hop \/ HistoryFollows(assembly'.history, at', {})
  BY <1>1, StaleKept DEF Waiting
<1> QED  BY <1>2, <1>4, <1>5 DEF Waiting

\* A song that is built goes on to be built while more of it is heard.
LEMMA BuildingOn ==
    ASSUME HostOK, UNCHANGED <<at, assembly, seq>>, NEW p, IsPlay(p), NEW q, IsPlay(q), Later(q, p),
           NEW r, Building(p, r), Spoken(anchors', r, at)
    PROVE  Building(q, r)'
<1>1. /\ at \in Nat /\ p.last \in Nat /\ q.last \in Nat /\ p.from \in Nat /\ q.from = p.from
      /\ q.song = p.song /\ p.last <= q.last /\ at <= p.last
  BY PlayIs DEF HostOK, Later, Building
<1>2. at <= q.last
  BY <1>1
<1>3. q.from < at /\ ~Stale'
  BY <1>1, StaleKept DEF Building
<1>4. assembly.builder # None /\ Builds(assembly.builder, q, r, at)
  BY <1>1 DEF Building, Builds, Begun
<1> QED  BY <1>2, <1>3, <1>4 DEF Building

\* What is stored stays so while the cache does.
LEMMA KeptOn ==
    ASSUME UNCHANGED <<songs, profile, torn>>, NEW p, NEW q, q.song = p.song, Kept(p)
    PROVE  Kept(q)'
BY DEF Kept, Held, Spoiled, Candidates, Complete, Content

\* And a song that will not be stored again.
LEMMA HarmlessOn ==
    ASSUME UNCHANGED <<at, assembly, seq, todo>>, NEW p, NEW q, q.from = p.from, Harmless(p),
           assembly.builder # None /\ Partial(assembly.builder, anchors) =>
                    Partial(assembly.builder, anchors')
    PROVE  Harmless(q)'
<1>1. q.from < at /\ Idle(todo)'
  BY DEF Harmless, Idle
<1>2. Stale' \/ /\ \A h \in Range(assembly'.history) : h.from > q.from
                /\ assembly'.builder # None => Partial(assembly'.builder, anchors')
  BY StaleKept DEF Harmless
<1> QED  BY <1>1, <1>2 DEF Harmless

\* What one anchor says of a play of number r.
Tags(a, p, r) ==
    /\ a.rtp < r => a.frame <= p.from /\ a.titled /\ a.revision = a.rtp
    /\ a.rtp = r => /\ a.frame = p.from + a.pos /\ a.length = LengthOf[p.song]
                    /\ a.titled /\ a.revision = a.rtp /\ a.frame <= p.last
    /\ a.rtp > r => a.frame > p.last

\* The labels of a song, anchor by anchor.
LEMMA LabelsAre ==
    ASSUME NEW list, NEW p, NEW r
    PROVE  Labels(list, p, r) <=> \A i \in 1..Len(list) : Tags(list[i], p, r)
BY DEF Labels, Tags

\* One more anchor that tags the song.
LEMMA LabelsOn ==
    ASSUME NEW list \in Seq(Anchors), NEW x \in Anchors, NEW p, NEW r, Labels(list, p, r),
           Tags(x, p, r)
    PROVE  Labels(Append(list, x), p, r)
<1> DEFINE more == Append(list, x)
<1>1. \A i \in 1..Len(more) :
        (i \in 1..Len(list) /\ more[i] = list[i]) \/ (i = Len(list) + 1 /\ more[i] = x)
  BY OneMore
<1> HIDE DEF more
<1>2. \A i \in 1..Len(list) : Tags(list[i], p, r)
  BY LabelsAre
<1>3. \A i \in 1..Len(more) : Tags(more[i], p, r)
  BY <1>1, <1>2
<1>4. Labels(more, p, r)
  BY <1>3, LabelsAre
<1> QED  BY <1>4 DEF more

\* No anchor is of a song after the one that is next.
LEMMA CurrentIsLast ==
    ASSUME HostOK, RevisionsOK, Timeline(anchors), NEW r \in Nat, Current(r)
    PROVE  \A i \in 1..Len(anchors) : anchors[i].rtp <= r
<1> SUFFICES ASSUME NEW i \in 1..Len(anchors) PROVE anchors[i].rtp <= r
  OBVIOUS
<1> DEFINE L == Len(anchors)
<1>1. /\ L \in Nat /\ revision \in Nat /\ anchors[i].rtp \in Nat /\ anchors[i].revision \in Nat
  BY HostIs DEF Anchors
<1>2. anchors[i].rtp <= anchors[i].revision /\ anchors[i].revision <= revision
  BY DEF Timeline, RevisionsOK
<1>3. CASE told
  <2>1. anchors # <<>> /\ Last(anchors).rtp = r
    BY <1>3 DEF Current
  <2>2. Last(anchors) = anchors[L] /\ L \in 1..L /\ i <= L
    BY <1>1, <2>1 DEF Last
  <2>3. anchors[i].rtp <= anchors[L].rtp
    BY <2>2 DEF Timeline
  <2> QED  BY <2>1, <2>2, <2>3
<1>4. CASE ~told
  <2>1. r = revision + 1
    BY <1>4 DEF Current
  <2> QED  BY <1>1, <1>2, <2>1
<1> QED  BY <1>3, <1>4

\* A play of number r goes on, and its song may be announced by x.
Announcing(x, p, r) ==
    /\ Newer(x, anchors, revision) /\ x.frame = Now /\ anchors' = Append(anchors, x)
    /\ x.rtp = r /\ x.revision = r /\ x.pos = Now - p.from /\ x.length = LengthOf[p.song]
    /\ x.titled

\* A song is told of in time, or still may be.
LEMMA ForetoldOn ==
    ASSUME HostOK, NEW p, NEW q, Later(q, p), NEW r, Foretold(p, r),
           \/ anchors' = anchors /\ told
           \/ \E x : Announcing(x, p, r)
           \/ anchors' = anchors /\ q.last = Now' /\ ~told' /\ q.last - q.from <= HistoryHops * Hop
    PROVE  Foretold(q, r)'
<1>0. anchors \in Seq(Anchors) /\ q.from = p.from
  BY DEF HostOK, Later
<1>1. ASSUME NEW i \in 1..Len(anchors), anchors[i].rtp = r,
             anchors[i].frame - p.from <= HistoryHops * Hop
      PROVE  \E j \in 1..Len(anchors') : anchors'[j] = anchors[i]
  <2>1. CASE anchors' = anchors
    BY <2>1
  <2>2. CASE \E x : Announcing(x, p, r)
    <3>1. PICK x : Announcing(x, p, r)
      BY <2>2
    <3>2. x \in Anchors /\ anchors' = Append(anchors, x)
      BY <3>1 DEF Announcing, Newer
    <3> QED  BY <1>0, <3>2, OneMore
  <2> QED  BY <2>1, <2>2
<1>2. CASE \E i \in 1..Len(anchors) :
                anchors[i].rtp = r /\ anchors[i].frame - p.from <= HistoryHops * Hop
  <2>1. PICK i \in 1..Len(anchors) :
                anchors[i].rtp = r /\ anchors[i].frame - p.from <= HistoryHops * Hop
    BY <1>2
  <2>2. PICK j \in 1..Len(anchors') : anchors'[j] = anchors[i]
    BY <1>1, <2>1
  <2>3. anchors'[j].rtp = r /\ anchors'[j].frame - q.from <= HistoryHops * Hop
    BY <1>0, <2>1, <2>2
  <2> QED  BY <2>3 DEF Foretold
<1>3. CASE p.last = Now /\ ~told /\ p.last - p.from <= HistoryHops * Hop
  <2>1. CASE \E x : Announcing(x, p, r)
    <3>1. PICK x : Announcing(x, p, r)
      BY <2>1
    <3>2. x \in Anchors /\ anchors' = Append(anchors, x) /\ x.rtp = r /\ x.frame = Now
      BY <3>1 DEF Announcing, Newer
    <3>3. Len(anchors) + 1 \in 1..Len(anchors') /\ anchors'[Len(anchors) + 1] = x
      BY <1>0, <3>2, OneMore
    <3>4. x.frame - q.from <= HistoryHops * Hop
      BY <1>0, <1>3, <3>2
    <3> QED  BY <3>2, <3>3, <3>4 DEF Foretold
  <2>2. CASE q.last = Now' /\ ~told' /\ q.last - q.from <= HistoryHops * Hop
    BY <2>2 DEF Foretold
  <2> QED  BY <1>3, <2>1, <2>2
<1> QED  BY <1>2, <1>3 DEF Foretold

\* The song at hand goes on while the assembly does nothing.
LEMMA PlayingGoes ==
    ASSUME HostOK, AssemblyOK, RevisionsOK, Timeline(anchors), AssemblyFollows,
           NEW p, IsPlay(p), p.last = Now, NEW q, IsPlay(q), Later(q, p), NEW r \in Nat,
           PlayingWell(p, r),
           UNCHANGED <<at, profile, assembly, todo, songs, torn, seq>>,
           revision' \in Nat, revision <= revision',
           \/ anchors' = anchors /\ told
           \/ \E x : Announcing(x, p, r)
           \/ anchors' = anchors /\ q.last = Now' /\ ~told' /\ q.last - q.from <= HistoryHops * Hop
    PROVE  /\ Labels(anchors', q, r)
           /\ Waiting(q, r)' \/ Building(q, r)' \/ (Kept(q)' /\ Harmless(q)')
<1>1. /\ anchors \in Seq(Anchors) /\ Now \in Nat /\ at \in Nat /\ at <= Now
      /\ p.from \in Nat /\ p.last \in Nat /\ q.last \in Nat
      /\ q.song = p.song /\ q.from = p.from /\ p.last <= q.last
  BY HostIs, PlayIs DEF Later
<1>2. AnchorsMove(revision)
  BY DEF AnchorsMove, Announcing
<1>3. /\ \A n : Spoken(anchors, n, at) => Spoken(anchors', n, at)
      /\ assembly.builder # None /\ Partial(assembly.builder, anchors) =>
                    Partial(assembly.builder, anchors')
  BY <1>2, FollowsOn
<1>4. Labels(anchors, q, r)
  <2> SUFFICES ASSUME NEW i \in 1..Len(anchors) PROVE Tags(anchors[i], q, r)
    BY LabelsAre
  <2>1. Tags(anchors[i], p, r)
    BY LabelsAre DEF PlayingWell
  <2>2. anchors[i].rtp <= r /\ anchors[i].rtp \in Nat /\ anchors[i].frame \in Nat
    BY <1>1, CurrentIsLast, AnchorIs DEF PlayingWell, Anchors
  <2>3. ~(anchors[i].rtp > r)
    BY <2>2
  <2>4. anchors[i].frame <= p.last => anchors[i].frame <= q.last
    BY <1>1, <2>2
  <2> QED  BY <1>1, <2>1, <2>3, <2>4 DEF Tags
<1>5. ASSUME NEW x, Announcing(x, p, r) PROVE Tags(x, q, r) /\ x \in Anchors
  <2>1. /\ x \in Anchors /\ x.rtp = r /\ x.revision = r /\ x.frame = Now /\ x.pos = Now - p.from
        /\ x.length = LengthOf[p.song] /\ x.titled
    BY <1>5 DEF Announcing, Newer
  <2>2. x.frame = q.from + x.pos /\ x.frame <= q.last
    BY <1>1, <2>1
  <2>3. ~(x.rtp < r) /\ ~(x.rtp > r)
    BY <2>1
  <2> QED  BY <1>1, <2>1, <2>2, <2>3 DEF Tags
<1>6. Labels(anchors', q, r)
  <2>1. CASE \E x : Announcing(x, p, r)
    <3>1. PICK x : Announcing(x, p, r)
      BY <2>1
    <3>2. Labels(Append(anchors, x), q, r)
      BY <1>1, <1>4, <1>5, <3>1, LabelsOn
    <3> QED  BY <3>1, <3>2 DEF Announcing
  <2>2. CASE anchors' = anchors
    BY <1>4, <2>2
  <2> QED  BY <2>1, <2>2
<1>7. CASE Waiting(p, r)
  <2>1. Foretold(q, r)'
    BY <1>7, ForetoldOn DEF Waiting
  <2>2. ASSUME NEW i \in 1..Len(anchors'), anchors'[i].rtp = r PROVE at <= anchors'[i].frame
    <3>1. \A j \in 1..Len(anchors) : anchors[j].rtp = r => at <= anchors[j].frame
      BY <1>7 DEF Waiting
    <3>2. CASE anchors' = anchors
      BY <2>2, <3>1, <3>2
    <3>3. CASE \E x : Announcing(x, p, r)
      <4>1. PICK x : Announcing(x, p, r)
        BY <3>3
      <4>2. x \in Anchors /\ anchors' = Append(anchors, x) /\ x.frame = Now
        BY <4>1 DEF Announcing, Newer
      <4>3. (i \in 1..Len(anchors) /\ anchors'[i] = anchors[i]) \/ anchors'[i] = x
        BY <1>1, <4>2, OneMore
      <4> QED  BY <1>1, <2>2, <3>1, <4>2, <4>3
    <3> QED  BY <3>2, <3>3
  <2> QED  BY <1>6, <1>7, <2>1, <2>2, WaitingOn
<1>8. CASE Building(p, r)
  <2>1. Spoken(anchors', r, at)
    BY <1>3, <1>8 DEF Building
  <2> QED  BY <1>6, <1>8, <2>1, BuildingOn
<1>9. CASE Kept(p) /\ Harmless(p)
  BY <1>1, <1>3, <1>6, <1>9, KeptOn, HarmlessOn
<1> QED  BY <1>7, <1>8, <1>9 DEF PlayingWell

\* The frames of a play that is over stay as they were.
LEMMA SoundingStays ==
    ASSUME HostOK, UNCHANGED at, stream' = stream \/ stream' = Append(stream, head),
           NEW p, IsPlay(p), p.last < Now, Sounding(p)
    PROVE  Sounding(p)' /\ p.last < Now'
<1>1. /\ at \in Nat /\ Now \in Nat /\ p.last \in Nat
  BY HostIs, PlayIs
<1>2. Now <= Now'
  <2>1. Len(stream') >= Len(stream) /\ Len(stream) \in Nat /\ Len(stream') \in Nat
    BY DEF HostOK
  <2> QED  BY <1>1, <2>1 DEF Now
<1>3. Now' \in Nat
  <2>1. Len(stream') \in Nat
    BY DEF HostOK
  <2> QED  BY <1>1, <2>1 DEF Now
<1>4. ASSUME NEW f \in at..p.last, p.from <= f PROVE Is(FrameAt(f)', p, f)
  <2>1. f \in at..(Now - 1)
    BY <1>1
  <2>2. FrameAt(f)' = FrameAt(f)
    BY <2>1, FrameKept
  <2>3. Is(FrameAt(f), p, f)
    BY <1>4 DEF Sounding
  <2> QED  BY <2>2, <2>3
<1>5. Sounding(p)'
  BY <1>4 DEF Sounding
<1>6. p.last < Now'
  BY <1>1, <1>2, <1>3
<1> QED  BY <1>5, <1>6

\* What an anchor that is added says of the song last heard in whole.
Follower(x) ==
    /\ Newer(x, anchors, revision) /\ x.frame = Now /\ anchors' = Append(anchors, x)
    /\ x.rtp = revision + 1 \/ (told /\ anchors # <<>> /\ x.rtp = Last(anchors).rtp)

\* The song last heard in whole goes on while the assembly does nothing.
LEMMA PlayedOn ==
    ASSUME HostOK, AssemblyOK, Timeline(anchors), AssemblyFollows, PlayedOK,
           UNCHANGED <<at, profile, assembly, todo, songs, torn, seq, owed>>,
           stream' = stream \/ stream' = Append(stream, head),
           revision' \in Nat, revision <= revision',
           \/ anchors' = anchors /\ (told' => told)
           \/ \E x : Follower(x)
    PROVE  PlayedOK'
<1> SUFFICES ASSUME NEW p \in HeardLast'
             PROVE  /\ owed' \in [song : Songs, until : Nat]
                    /\ PlayOK(p)' /\ p.last + 1 = p.from + LengthOf[p.song] /\ p.last < Now'
                    /\ told' /\ anchors' # <<>> => Last(anchors').frame > p.last
                    /\ \E r \in 0..(revision' + 1) : PlayedWell(p, r)'
  BY DEF PlayedOK
<1>1. p \in HeardLast
  BY DEF HeardLast, PlayLast
<1>2. /\ owed \in [song : Songs, until : Nat]
      /\ PlayOK(p) /\ p.last + 1 = p.from + LengthOf[p.song] /\ p.last < Now
      /\ told /\ anchors # <<>> => Last(anchors).frame > p.last
      /\ \E r \in 0..(revision + 1) : PlayedWell(p, r)
  BY <1>1 DEF PlayedOK
<1>3. PICK r \in 0..(revision + 1) : PlayedWell(p, r)
  BY <1>2
<1>4. IsPlay(p) /\ Sounding(p)
  BY <1>2 DEF PlayOK
<1>5. /\ at \in Nat /\ Now \in Nat /\ p.last \in Nat /\ revision \in Nat /\ p.from \in Nat
      /\ anchors \in Seq(Anchors) /\ Len(anchors) \in Nat /\ r \in Nat /\ at <= Now
      /\ p.from <= p.last
  BY <1>4, HostIs, PlayIs
<1>6. Sounding(p)' /\ p.last < Now'
  BY <1>2, <1>4, SoundingStays
<1>7. PlayOK(p)'
  <2>1. Now' \in Nat
    <3>1. Len(stream) \in Nat /\ stream \in Seq(Heard)
      BY DEF HostOK
    <3>2. Len(stream') \in Nat
      BY <3>1
    <3> QED  BY <1>5, <3>2 DEF Now
  <2> QED  BY <1>4, <1>5, <1>6, <2>1 DEF PlayOK
<1>8. AnchorsMove(revision)
  BY DEF AnchorsMove, Follower
<1>9. \A n : Spoken(anchors, n, at) => Spoken(anchors', n, at)
  BY <1>5, <1>8, FollowsOn
<1>10. r <= revision /\ Labels(anchors, p, r)
  BY <1>3 DEF PlayedWell
<1>11. ASSUME NEW x, Follower(x)
       PROVE  x \in Anchors /\ x.frame = Now /\ x.rtp \in Nat /\ x.rtp > r /\ Tags(x, p, r)
              /\ anchors' = Append(anchors, x)
  <2>1. x \in Anchors /\ x.frame = Now /\ x.rtp \in Nat /\ anchors' = Append(anchors, x)
    BY <1>11 DEF Follower, Newer, Anchors
  <2>2. x.rtp > r
    <3>1. CASE x.rtp = revision + 1
      BY <1>5, <1>10, <3>1
    <3>2. CASE told /\ anchors # <<>> /\ x.rtp = Last(anchors).rtp
      <4> DEFINE L == Len(anchors)
      <4>1. Last(anchors) = anchors[L] /\ L \in 1..L
        BY <1>5, <3>2 DEF Last
      <4>2. anchors[L].frame > p.last /\ anchors[L].frame \in Nat /\ x.rtp = anchors[L].rtp
        BY <1>2, <1>5, <3>2, <4>1, AnchorIs
      <4>3. Tags(anchors[L], p, r)
        BY <1>10, <4>1, LabelsAre
      <4>4. ~(anchors[L].frame <= p.from) /\ ~(anchors[L].frame <= p.last)
        BY <1>5, <4>2
      <4>5. ~(x.rtp < r) /\ x.rtp # r
        BY <4>2, <4>3, <4>4 DEF Tags
      <4> QED  BY <1>5, <2>1, <4>5
    <3> QED  BY <1>11, <3>1, <3>2 DEF Follower
  <2>3. ~(x.rtp < r) /\ ~(x.rtp = r) /\ x.frame > p.last
    BY <1>2, <1>5, <2>1, <2>2
  <2> QED  BY <2>1, <2>2, <2>3 DEF Tags
<1>12. Labels(anchors', p, r)
  <2>1. CASE anchors' = anchors
    BY <1>10, <2>1
  <2>2. CASE \E x : Follower(x)
    <3>1. PICK x : Follower(x)
      BY <2>2
    <3>2. Labels(Append(anchors, x), p, r)
      BY <1>5, <1>10, <1>11, <3>1, LabelsOn
    <3> QED  BY <1>11, <3>1, <3>2
  <2> QED  BY <2>1, <2>2
<1>13. told' /\ anchors' # <<>> => Last(anchors').frame > p.last
  <2>1. CASE anchors' = anchors /\ (told' => told)
    BY <1>2, <2>1
  <2>2. CASE \E x : Follower(x)
    <3>1. PICK x : Follower(x)
      BY <2>2
    <3>2. x \in Anchors /\ x.frame = Now /\ anchors' = Append(anchors, x)
      BY <1>11, <3>1
    <3>3. Len(anchors') = Len(anchors) + 1 /\ anchors'[Len(anchors) + 1] = x
      BY <1>5, <3>2, OneMore
    <3>4. Last(anchors') = x
      BY <3>3 DEF Last
    <3> QED  BY <1>2, <3>2, <3>4
  <2> QED  BY <2>1, <2>2
<1>14. Later(p, p)
  BY <1>5 DEF Later
<1>15. PlayedWell(p, r)'
  <2>1. r <= revision'
    BY <1>5, <1>10
  <2>2. CASE Waiting(p, r)
    <3>1. Foretold(p, r)'
      <4>1. ~(p.last = Now)
        BY <1>2, <1>5
      <4>2. PICK i \in 1..Len(anchors) :
                anchors[i].rtp = r /\ anchors[i].frame - p.from <= HistoryHops * Hop
        BY <2>2, <4>1 DEF Waiting, Foretold
      <4>3. \E j \in 1..Len(anchors') : anchors'[j] = anchors[i]
        <5>1. CASE anchors' = anchors
          BY <5>1
        <5>2. CASE \E x : Follower(x)
          <6>1. PICK x : Follower(x)
            BY <5>2
          <6>2. x \in Anchors /\ anchors' = Append(anchors, x)
            BY <1>11, <6>1
          <6> QED  BY <1>5, <6>2, OneMore
        <5> QED  BY <5>1, <5>2
      <4>4. PICK j \in 1..Len(anchors') : anchors'[j] = anchors[i]
        BY <4>3
      <4>5. anchors'[j].rtp = r /\ anchors'[j].frame - p.from <= HistoryHops * Hop
        BY <4>2, <4>4
      <4> QED  BY <4>5 DEF Foretold
    <3>2. ASSUME NEW i \in 1..Len(anchors'), anchors'[i].rtp = r PROVE at <= anchors'[i].frame
      <4>1. \A j \in 1..Len(anchors) : anchors[j].rtp = r => at <= anchors[j].frame
        BY <2>2 DEF Waiting
      <4>2. CASE anchors' = anchors
        BY <3>2, <4>1, <4>2
      <4>3. CASE \E x : Follower(x)
        <5>1. PICK x : Follower(x)
          BY <4>3
        <5>2. x \in Anchors /\ anchors' = Append(anchors, x) /\ x.frame = Now
          BY <1>11, <5>1
        <5>3. (i \in 1..Len(anchors) /\ anchors'[i] = anchors[i]) \/ anchors'[i] = x
          BY <1>5, <5>2, OneMore
        <5> QED  BY <1>5, <3>2, <4>1, <5>2, <5>3
      <4> QED  BY <4>2, <4>3
    <3>3. Waiting(p, r)'
      BY <1>4, <1>14, <2>2, <3>1, <3>2, WaitingOn
    <3> QED  BY <1>12, <2>1, <3>3 DEF PlayedWell
  <2>3. CASE Building(p, r)
    <3>1. Spoken(anchors', r, at)
      BY <1>9, <2>3 DEF Building
    <3>2. Building(p, r)'
      BY <1>4, <1>14, <2>3, <3>1, BuildingOn
    <3> QED  BY <1>12, <2>1, <3>2 DEF PlayedWell
  <2>4. CASE Kept(p)
    <3>1. Kept(p)'
      BY <2>4, KeptOn
    <3> QED  BY <1>12, <2>1, <3>1 DEF PlayedWell
  <2>5. CASE Pending(p)
    <3>1. Pending(p)'
      BY <2>5 DEF Pending
    <3> QED  BY <1>12, <2>1, <3>1 DEF PlayedWell
  <2> QED  BY <1>3, <2>2, <2>3, <2>4, <2>5 DEF PlayedWell
<1>16. r \in 0..(revision' + 1)
  <2> DEFINE n == revision
             m == revision'
  <2>1. r <= n /\ n <= m /\ r \in Nat /\ n \in Nat /\ m \in Nat
    BY <1>5, <1>10
  <2> HIDE DEF n, m
  <2>2. r \in 0..(m + 1)
    BY <2>1
  <2> QED  BY <2>2 DEF m
<1> QED  BY <1>2, <1>6, <1>7, <1>12, <1>13, <1>15, <1>16

-----------------------------------------------------------------------------
(* The phone.                                                              *)
\* The song at hand as it is heard with the frame at head.
PlayAt(from) == [song |-> head.song, from |-> from, last |-> Now]

\* The fields of a play.
LEMMA PlayAtFields ==
    ASSUME NEW from
    PROVE  PlayAt(from).song = head.song /\ PlayAt(from).from = from /\ PlayAt(from).last = Now
BY DEF PlayAt

\* The frame at head is played: the song goes on, or has been heard to its end.
LEMMA SoundsOn ==
    ASSUME HostOK, PlayInv, Sounds, UNCHANGED at, begun' # Never,
           NEW p, p = PlayAt(begun'), PlayOK(p)
    PROVE  IF head.pos + 1 < LengthOf[head.song]
           THEN \E q : /\ HeardNow' = {q} /\ IsPlay(q) /\ PlayOK(q)' /\ Later(q, p)
                       /\ q.last = Now' /\ q.from = p.from /\ q.last = Now + 1 /\ owed' = owed
                       /\ q.last - q.from = head.pos + 1
           ELSE /\ HeardNow' = {} /\ HeardLast' \subseteq {p}
                /\ owed' \in [song : Songs, until : Nat]
                /\ PlayOK(p)' /\ p.last + 1 = p.from + LengthOf[p.song] /\ p.last < Now'
                /\ head'.pos = 0
<1>1. /\ p.song = head.song /\ p.from = begun' /\ p.last = Now
  BY PlayAtFields
<1>2. IsPlay(p) /\ Sounding(p)
  BY DEF PlayOK
<1>3. /\ p.song \in Songs /\ p.from \in Nat /\ p.last \in Nat /\ p.from <= p.last
      /\ LengthOf[p.song] \in Nat \ {0} /\ p.last - p.from < LengthOf[p.song]
      /\ at \in Nat /\ at <= Now /\ Now \in Nat
  BY <1>2, PlayIs, HostIs DEF IsPlay
<1>0. PICK n : n = Now
  OBVIOUS
<1> DEFINE L == LengthOf[head.song]
           z == head.pos
<1>4. FrameAt(n) = head /\ FrameAt(n)' = head /\ FrameAt(n + 1)' = head' /\ Now' = n + 1
  BY <1>0, FramePlayed DEF Sounds
<1>5. Is(head, p, n)
  <2>1. n \in at..p.last /\ p.from <= n
    BY <1>0, <1>1, <1>3
  <2>2. Is(FrameAt(n), p, n)
    BY <1>2, <2>1 DEF Sounding
  <2> QED  BY <1>4, <2>2
<1>6. z = n - p.from /\ z \in Int /\ n \in Nat /\ L \in Nat /\ n = p.last
  BY <1>0, <1>1, <1>3, <1>5 DEF Is
<1>7. ASSUME NEW f \in at..n, p.from <= f PROVE Is(FrameAt(f)', p, f)
  <2>1. CASE f = n
    BY <1>4, <1>5, <2>1
  <2>2. CASE f # n
    <3>1. f \in at..(Now - 1)
      BY <1>0, <1>3, <2>2
    <3>2. FrameAt(f)' = FrameAt(f)
      BY <3>1, FrameKept DEF Sounds
    <3>3. f \in at..p.last
      BY <1>0, <1>1
    <3>4. Is(FrameAt(f), p, f)
      BY <1>2, <1>7, <3>3 DEF Sounding
    <3> QED  BY <3>2, <3>4
  <2> QED  BY <2>1, <2>2
<1>8. /\ head \in Heard /\ head' \in Heard
  BY SoundsTyped DEF HostOK
<1>9. CASE z + 1 < L
  <2>0. PICK q : q = [song |-> head.song, from |-> begun', last |-> n + 1]
    OBVIOUS
  <2>1. head' = [head EXCEPT !.pos = @ + 1] /\ owed' = owed
    BY <1>9 DEF Sounds
  <2>2. head'.song = head.song /\ head'.pos = z + 1
    BY <1>8, <2>1 DEF Heard
  <2>3. z >= 0
    BY <1>3, <1>6
  <2>4. head'.pos # 0
    BY <1>6, <2>2, <2>3
  <2>5. HeardNow' = {q}
    BY <1>4, <2>0, <2>2, <2>4 DEF HeardNow, PlayNow, Never
  <2>6. q.song = p.song /\ q.from = p.from /\ q.last = n + 1
    BY <1>1, <2>0
  <2>7. q.last - q.from = z + 1 /\ q.last \in Nat /\ q.from <= q.last
    BY <1>3, <1>6, <2>6
  <2>8. L = LengthOf[q.song]
    BY <1>1, <2>6
  <2>9. IsPlay(q)
    BY <1>3, <1>9, <2>6, <2>7, <2>8 DEF IsPlay
  <2>10. Later(q, p)
    BY <1>3, <1>6, <2>6 DEF Later
  <2>11. Sounding(q)'
    <3>1. ASSUME NEW f \in at..q.last, q.from <= f PROVE Is(FrameAt(f)', q, f)
      <4>1. CASE f = n + 1
        <5>1. FrameAt(f)' = head'
          BY <1>4, <4>1
        <5>2. f - q.from = z + 1
          BY <2>6, <2>7, <4>1
        <5>3. head' = [song |-> q.song, pos |-> z + 1]
          BY <1>1, <1>8, <2>2, <2>6 DEF Heard
        <5> QED  BY <5>1, <5>2, <5>3 DEF Is
      <4>2. CASE f # n + 1
        <5>1. f \in at..n /\ p.from <= f
          BY <1>6, <1>3, <2>6, <3>1, <4>2
        <5>2. Is(FrameAt(f)', p, f)
          BY <1>7, <5>1
        <5> QED  BY <2>6, <5>2 DEF Is
      <4> QED  BY <4>1, <4>2
    <3> QED  BY <3>1 DEF Sounding
  <2>12. q.last <= Now'
    BY <1>4, <1>6, <2>6
  <2>13. PlayOK(q)'
    BY <2>9, <2>11, <2>12 DEF PlayOK
  <2>14. q.last = Now' /\ q.last = Now + 1
    BY <1>0, <1>4, <2>6
  <2> QED  BY <1>9, <2>1, <2>5, <2>6, <2>7, <2>9, <2>10, <2>13, <2>14
<1>10. CASE ~(z + 1 < L)
  <2>1. head' \in Starts /\ owed' = [song |-> head.song, until |-> Now + 1]
    BY <1>10 DEF Sounds
  <2>2. head'.pos = 0
    BY <2>1 DEF Starts
  <2>3. HeardNow' = {}
    BY <2>2 DEF HeardNow
  <2>4. L = z + 1
    BY <1>1, <1>3, <1>6, <1>10
  <2>5. owed' \in [song : Songs, until : Nat]
    BY <1>1, <1>3, <2>1
  <2>7. HeardLast' \subseteq {p}
    <3>1. owed'.song = head.song /\ owed'.until = n + 1
      BY <1>0, <2>1
    <3>2. (n + 1) - L = p.from /\ (n + 1) - 1 = n
      BY <1>3, <1>6, <2>4
    <3>3. PlayLast' = [song |-> head.song, from |-> (n + 1) - L, last |-> (n + 1) - 1]
      BY <3>1 DEF PlayLast
    <3>4. p = [song |-> head.song, from |-> p.from, last |-> n]
      BY <1>0, <1>1 DEF PlayAt
    <3>5. PlayLast' = p
      BY <3>2, <3>3, <3>4
    <3> QED  BY <3>5 DEF HeardLast
  <2>8. p.last + 1 = p.from + LengthOf[p.song]
    BY <1>1, <1>3, <1>6, <2>4
  <2>9. p.last < Now' /\ p.last <= Now'
    BY <1>4, <1>6
  <2>10. Sounding(p)'
    BY <1>6, <1>7 DEF Sounding
  <2>11. PlayOK(p)'
    BY <1>2, <2>9, <2>10 DEF PlayOK
  <2> QED  BY <1>10, <2>2, <2>3, <2>5, <2>7, <2>8, <2>9, <2>11
<1> QED  BY <1>9, <1>10

\* In the first hop the worker remembers no hop, or is aware that it is of another stream.
LEMMA FirstIsFresh ==
    ASSUME HostOK, AssemblyOK, WholeInv, at = 0 /\ Unaware => Now >= Hop, ~Stale
    PROVE  Now >= Hop \/ HistoryFollows(assembly.history, at, {})
<1>1. /\ at \in Nat /\ Now \in Nat /\ at <= Now /\ Hop \in Nat
  BY HostIs, Geometry
<1> SUFFICES ASSUME ~(Now >= Hop), assembly.history # <<>> PROVE FALSE
  BY DEF HistoryFollows
<1>2. ~Regressed(assembly, at) /\ ~Gapped(assembly, seq)
  BY DEF Stale, Stales
<1>3. at # 0
  BY <1>2 DEF Unaware
<1>4. assembly.last # 0
  BY DEF WholeInv, AssemblyFollows
<1>5. assembly.last = seq - 1
  <2>1. seq = assembly.last + 1
    BY <1>2, <1>4 DEF Gapped
  <2>2. assembly.last \in Nat
    BY DEF AssemblyOK, Assemblies
  <2> QED  BY <2>1, <2>2
<1>6. assembly.start \in Nat /\ assembly.start = at - Hop
  BY <1>3, <1>5 DEF WholeInv, AssemblyFollows
<1> QED  BY <1>1, <1>6

\* A song that begins is to be announced, and waits for that.
LEMMA PlayingBegins ==
    ASSUME HostOK, AssemblyOK, PlayInv, WholeInv, head.pos = 0, Begins # Never, begun' = Begins,
           NEW p, p = PlayAt(begun')
    PROVE  PlayOK(p) /\ named /\ PlayingWell(p, revision + 1)
<1>1. /\ named /\ begun' = Now /\ (at = 0 /\ Unaware => Now >= Hop)
      /\ \A a \in Range(anchors) : a.titled /\ a.revision = a.rtp
  BY DEF Begins
<1>2. ~told
  BY DEF WholeInv
<1>3. p.song = head.song /\ p.from = Now /\ p.last = Now
  BY <1>1, PlayAtFields
<1>4. /\ at \in Nat /\ Now \in Nat /\ at <= Now /\ revision \in Nat /\ Len(anchors) \in Nat
      /\ anchors \in Seq(Anchors)
  BY HostIs
<1>5. head \in Heard /\ head.song \in Songs /\ LengthOf[head.song] \in Nat \ {0}
  BY SongsAssumption DEF HostOK, Heard
<1>6. IsPlay(p)
  <2>1. p.last - p.from = 0
    BY <1>3, <1>4
  <2> QED  BY <1>3, <1>4, <1>5, <2>1 DEF IsPlay
<1>7. PlayOK(p)
  <2>1. ASSUME NEW f \in at..p.last, p.from <= f PROVE Is(FrameAt(f), p, f)
    <3>1. f = Now /\ f - p.from = 0
      BY <1>3, <1>4, <2>1
    <3>2. FrameAt(f) = head
      BY <3>1, TellerOfNow
    <3>3. head = [song |-> p.song, pos |-> 0]
      BY <1>3, <1>5 DEF Heard
    <3> QED  BY <3>1, <3>2, <3>3 DEF Is
  <2> QED  BY <1>3, <1>4, <1>6, <2>1 DEF PlayOK, Sounding
<1>8. ASSUME NEW i \in 1..Len(anchors)
      PROVE  /\ anchors[i].rtp \in Nat /\ anchors[i].rtp < revision + 1
             /\ anchors[i].frame <= p.from /\ anchors[i].titled
             /\ anchors[i].revision = anchors[i].rtp
  <2>1. anchors[i] \in Range(anchors)
    BY <1>4 DEF Range
  <2>2. anchors[i].revision <= revision
    BY DEF PlayInv, RevisionsOK
  <2>3. anchors[i].rtp \in Nat /\ anchors[i].frame <= Now
    BY <1>4, HostIs DEF Anchors
  <2> QED  BY <1>1, <1>3, <1>4, <2>1, <2>2, <2>3
<1>9. Labels(anchors, p, revision + 1)
  <2>1. ASSUME NEW i \in 1..Len(anchors) PROVE Tags(anchors[i], p, revision + 1)
    <3>1. anchors[i].rtp # revision + 1 /\ ~(anchors[i].rtp > revision + 1)
      BY <1>4, <1>8
    <3> QED  BY <1>8, <3>1 DEF Tags
  <2> QED  BY <2>1, LabelsAre
<1>10. Waiting(p, revision + 1)
  <2>1. at <= p.last /\ ~(p.from < at)
    BY <1>3, <1>4
  <2>2. \A i \in 1..Len(anchors) : anchors[i].rtp # revision + 1
    BY <1>4, <1>8
  <2>3. Foretold(p, revision + 1)
    <3>1. HistoryHops * Hop \in Nat
      BY Geometry, Multiples
    <3>2. p.last - p.from <= HistoryHops * Hop
      BY <1>3, <1>4, <3>1
    <3> QED  BY <1>2, <1>3, <3>2 DEF Foretold
  <2>4. /\ assembly.completed \subseteq 0..revision
        /\ assembly.builder # None => assembly.builder.rtp <= revision
    BY DEF WholeInv, AssemblyFollows
  <2>5. revision + 1 \notin 0..revision
    BY <1>4
  <2>6. assembly.builder # None => assembly.builder.rtp < revision + 1
    <3>1. CASE assembly.builder # None
      <4>1. assembly.builder.rtp \in Int
        BY <3>1, BuilderTyped DEF Builders, HostOK
      <4> QED  BY <1>4, <2>4, <4>1
    <3> QED  BY <3>1
  <2>7. ~Stale => p.from >= Hop \/ HistoryFollows(assembly.history, at, {})
    BY <1>1, <1>3, FirstIsFresh
  <2> QED  BY <2>1, <2>2, <2>3, <2>4, <2>5, <2>6, <2>7 DEF Waiting
<1>11. Current(revision + 1)
  BY <1>2 DEF Current
<1> QED  BY <1>1, <1>7, <1>9, <1>10, <1>11 DEF PlayingWell

\* Where the song at head is heard from, when its frame is played.
GoesOn == begun' # Never => begun' = IF head.pos = 0 THEN Begins ELSE begun

\* The play at hand is as the invariant says, or has just begun.
LEMMA PlayingIs ==
    ASSUME HostOK, AssemblyOK, PlayInv, WholeInv, GoesOn, begun' # Never,
           NEW p, p = PlayAt(begun')
    PROVE  PlayOK(p) /\ named /\ \E r \in 0..(revision + 1) : PlayingWell(p, r)
<1>1. CASE head.pos = 0
  <2>1. Begins # Never /\ begun' = Begins
    BY <1>1 DEF GoesOn
  <2>2. PlayOK(p) /\ named /\ PlayingWell(p, revision + 1)
    BY <1>1, <2>1, PlayingBegins
  <2>3. revision + 1 \in 0..(revision + 1)
    BY HostIs
  <2> QED  BY <2>2, <2>3
<1>2. CASE head.pos # 0
  <2>1. begun' = begun
    BY <1>2 DEF GoesOn
  <2>2. p \in HeardNow
    BY <1>2, <2>1 DEF HeardNow, PlayNow, PlayAt, Never
  <2> QED  BY <2>2 DEF WholeInv, PlayingOK
<1> QED  BY <1>1, <1>2

\* The anchor of the frame at head.
Announces(x) ==
    /\ x \in Anchors /\ anchors' = Append(anchors, x)
    /\ x.frame = Now /\ x.pos = head.pos /\ x.length = LengthOf[head.song]
    /\ x.rtp = revision + 1 /\ x.revision = revision + 1 /\ x.titled = named

\* An announcement has a revision of its own.
LEMMA AnnouncesNewer ==
    ASSUME HostOK, PlayInv, NEW x, Announces(x)
    PROVE  Newer(x, anchors, revision) /\ Follower(x)
<1>1. x.pos < x.length
  BY DEF Announces, PlayInv, Played
<1>2. /\ revision \in Nat /\ \A i \in 1..Len(anchors) : anchors[i].revision <= revision
  BY HostIs DEF PlayInv, RevisionsOK
<1>3. Newer(x, anchors, revision)
  BY <1>1, <1>2 DEF Newer, Announces
<1> QED  BY <1>3 DEF Follower, Announces

\* The ways in which a frame is played.
PlayedTold == told /\ anchors' = anchors /\ revision' = revision /\ told' = (head'.pos # 0)
PlayedAnnounced ==
    ~told /\ (\E x : Announces(x)) /\ revision' = revision + 1 /\ told' = (head'.pos # 0)
PlayedUnannounced ==
    /\ ~told /\ anchors' = anchors /\ revision' = revision /\ ~told'
    /\ begun' # Never => head.pos + 1 <= HistoryHops * Hop /\ head.pos + 1 < LengthOf[head.song]
SoundsSo == Sounds /\ GoesOn /\ (PlayedTold \/ PlayedAnnounced \/ PlayedUnannounced)

\* What a frame that is played does to stream and anchors.
LEMMA SoundsFacts ==
    ASSUME HostOK, PlayInv, SoundsSo
    PROVE  /\ stream' = Append(stream, head)
           /\ revision \in Nat /\ revision' \in Nat /\ revision <= revision'
           /\ told' => head'.pos # 0
           /\ (anchors' = anchors /\ (told' => told)) \/ \E x : Follower(x)
           /\ AnchorsMove(revision)
<1>1. stream' = Append(stream, head)
  BY DEF SoundsSo, Sounds
<1>2. revision \in Nat
  BY HostIs
<1>3. revision' \in Nat /\ revision <= revision'
  BY <1>2 DEF SoundsSo, PlayedTold, PlayedAnnounced, PlayedUnannounced
<1>4. told' => head'.pos # 0
  BY DEF SoundsSo, PlayedTold, PlayedAnnounced, PlayedUnannounced
<1>5. (anchors' = anchors /\ (told' => told)) \/ \E x : Follower(x)
  BY AnnouncesNewer DEF SoundsSo, PlayedTold, PlayedAnnounced, PlayedUnannounced
<1>6. AnchorsMove(revision)
  BY <1>5 DEF AnchorsMove, Follower
<1> QED  BY <1>1, <1>2, <1>3, <1>4, <1>5, <1>6

\* The place in the song is how long it is heard.
LEMMA HeadIs ==
    ASSUME HostOK, NEW p, p.song = head.song, p.last = Now, PlayOK(p)
    PROVE  head.pos = Now - p.from
<1>1. IsPlay(p) /\ Sounding(p)
  BY DEF PlayOK
<1>2. Now \in at..p.last /\ p.from <= Now
  BY <1>1, HostIs, PlayIs
<1>3. Is(FrameAt(Now), p, Now)
  BY <1>1, <1>2 DEF Sounding
<1>4. FrameAt(Now) = head
  BY TellerOfNow
<1> QED  BY <1>3, <1>4 DEF Is

\* What becomes of the number of the song at head.
LEMMA CurrentGoes ==
    ASSUME HostOK, SoundsSo, NEW r \in Nat, Current(r)
    PROVE  /\ r <= revision' \/ begun' = Never \/ head.pos + 1 < LengthOf[head.song]
           /\ head'.pos # 0 => Current(r)'
           /\ r \in 0..(revision' + 1)
<1>1. revision \in Nat /\ anchors \in Seq(Anchors)
  BY HostIs
<1>2. CASE PlayedTold
  <2>1. r = revision /\ Last(anchors).rtp = r /\ anchors # <<>>
    BY <1>2 DEF Current, PlayedTold
  <2>2. revision' = revision /\ anchors' = anchors /\ (head'.pos # 0 => told')
    BY <1>2 DEF PlayedTold
  <2>3. head'.pos # 0 => Current(r)'
    BY <2>1, <2>2 DEF Current
  <2> QED  BY <1>1, <2>1, <2>2, <2>3
<1>3. CASE PlayedAnnounced
  <2>1. r = revision + 1 /\ revision' = r /\ (head'.pos # 0 => told')
    BY <1>3 DEF Current, PlayedAnnounced
  <2>2. PICK x : Announces(x)
    BY <1>3 DEF PlayedAnnounced
  <2>3. x \in Anchors /\ anchors' = Append(anchors, x) /\ x.rtp = r
    BY <2>1, <2>2 DEF Announces
  <2>4. Last(anchors') = x /\ anchors' # <<>>
    BY <1>1, <2>3, OneMore DEF Last
  <2>5. head'.pos # 0 => Current(r)'
    BY <2>1, <2>3, <2>4 DEF Current
  <2> QED  BY <1>1, <2>1, <2>5
<1>4. CASE PlayedUnannounced
  <2>1. r = revision + 1 /\ revision' = revision /\ ~told'
    BY <1>4 DEF Current, PlayedUnannounced
  <2>2. Current(r)'
    BY <2>1 DEF Current
  <2> QED  BY <1>1, <1>4, <2>1, <2>2 DEF PlayedUnannounced
<1> QED  BY <1>2, <1>3, <1>4 DEF SoundsSo

\* The song at head is heard on.
LEMMA SoundsPlaying ==
    ASSUME HostOK, AssemblyOK, PlayInv, WholeInv, SoundsSo, begun' # Never,
           UNCHANGED <<at, named, profile, assembly, todo, songs, torn, seq>>,
           NEW p, p = PlayAt(begun'), NEW q, IsPlay(q), PlayOK(q)', Later(q, p),
           q.last = Now', q.last - q.from = head.pos + 1, head'.pos # 0
    PROVE  PlayOK(q)' /\ named' /\ \E r \in 0..(revision' + 1) : PlayingWell(q, r)'
<1>1. PlayOK(p) /\ named /\ \E r \in 0..(revision + 1) : PlayingWell(p, r)
  BY PlayingIs DEF SoundsSo
<1>2. PICK r \in 0..(revision + 1) : PlayingWell(p, r)
  BY <1>1
<1>3. /\ revision \in Nat /\ revision' \in Nat /\ revision <= revision'
  BY SoundsFacts
<1>4. r \in Nat
  BY <1>2, <1>3
<1>5. Current(r)
  BY <1>2 DEF PlayingWell
<1>6. p.song = head.song /\ p.from = begun' /\ p.last = Now
  BY PlayAtFields
<1>7. head.pos = Now - p.from
  BY <1>1, <1>6, HeadIs
<1>8. IsPlay(p)
  BY <1>1 DEF PlayOK
<1>9. \/ anchors' = anchors /\ told
      \/ \E x : Announcing(x, p, r)
      \/ anchors' = anchors /\ q.last = Now' /\ ~told' /\ q.last - q.from <= HistoryHops * Hop
  <2>1. CASE PlayedTold
    BY <2>1 DEF PlayedTold
  <2>2. CASE PlayedAnnounced
    <3>1. PICK x : Announces(x)
      BY <2>2 DEF PlayedAnnounced
    <3>2. Newer(x, anchors, revision)
      BY <3>1, AnnouncesNewer
    <3>3. r = revision + 1
      BY <1>5, <2>2 DEF Current, PlayedAnnounced
    <3>4. Announcing(x, p, r)
      BY <1>1, <1>6, <1>7, <3>1, <3>2, <3>3 DEF Announcing, Announces
    <3> QED  BY <3>4
  <2>3. CASE PlayedUnannounced
    BY <2>3 DEF PlayedUnannounced
  <2> QED  BY <2>1, <2>2, <2>3 DEF SoundsSo
<1>10. RevisionsOK /\ Timeline(anchors) /\ AssemblyFollows
  BY DEF PlayInv, WholeInv
<1>11. /\ Labels(anchors', q, r)
       /\ Waiting(q, r)' \/ Building(q, r)' \/ (Kept(q)' /\ Harmless(q)')
  BY <1>2, <1>3, <1>4, <1>6, <1>8, <1>9, <1>10, PlayingGoes
<1>12. Current(r)' /\ r \in 0..(revision' + 1)
  BY <1>4, <1>5, CurrentGoes
<1>13. PlayingWell(q, r)'
  BY <1>11, <1>12 DEF PlayingWell
<1> QED  BY <1>1, <1>12, <1>13

\* It is heard to its end.
LEMMA SoundsPlayed ==
    ASSUME HostOK, AssemblyOK, PlayInv, WholeInv, SoundsSo, begun' # Never,
           UNCHANGED <<at, named, profile, assembly, todo, songs, torn, seq>>,
           NEW p, p = PlayAt(begun'), PlayOK(p)', p.last < Now',
           ~(head.pos + 1 < LengthOf[head.song])
    PROVE  \E r \in 0..(revision' + 1) : PlayedWell(p, r)'
<1>1. PlayOK(p) /\ named /\ \E r \in 0..(revision + 1) : PlayingWell(p, r)
  BY PlayingIs DEF SoundsSo
<1>2. PICK r \in 0..(revision + 1) : PlayingWell(p, r)
  BY <1>1
<1>3. /\ revision \in Nat /\ revision' \in Nat /\ revision <= revision'
  BY SoundsFacts
<1>4. r \in Nat
  BY <1>2, <1>3
<1>5. Current(r)
  BY <1>2 DEF PlayingWell
<1>6. p.song = head.song /\ p.from = begun' /\ p.last = Now
  BY PlayAtFields
<1>7. head.pos = Now - p.from
  BY <1>1, <1>6, HeadIs
<1>8. IsPlay(p)
  BY <1>1 DEF PlayOK
<1>9. (anchors' = anchors /\ told) \/ \E x : Announcing(x, p, r)
  <2>1. CASE PlayedTold
    BY <2>1 DEF PlayedTold
  <2>2. CASE PlayedAnnounced
    <3>1. PICK x : Announces(x)
      BY <2>2 DEF PlayedAnnounced
    <3>2. Newer(x, anchors, revision)
      BY <3>1, AnnouncesNewer
    <3>3. r = revision + 1
      BY <1>5, <2>2 DEF Current, PlayedAnnounced
    <3>4. Announcing(x, p, r)
      BY <1>1, <1>6, <1>7, <3>1, <3>2, <3>3 DEF Announcing, Announces
    <3> QED  BY <3>4
  <2>3. CASE PlayedUnannounced
    BY <2>3 DEF PlayedUnannounced
  <2> QED  BY <2>1, <2>2, <2>3 DEF SoundsSo
<1>10. RevisionsOK /\ Timeline(anchors) /\ AssemblyFollows
  BY DEF PlayInv, WholeInv
<1>14. Later(p, p)
  BY <1>8, PlayIs DEF Later
<1>11. /\ Labels(anchors', p, r)
       /\ Waiting(p, r)' \/ Building(p, r)' \/ (Kept(p)' /\ Harmless(p)')
  BY <1>2, <1>3, <1>4, <1>6, <1>8, <1>9, <1>10, <1>14, PlayingGoes
<1>12. r <= revision' /\ r \in 0..(revision' + 1)
  BY <1>4, <1>5, CurrentGoes
<1>13. PlayedWell(p, r)'
  BY <1>11, <1>12 DEF PlayedWell
<1> QED  BY <1>12, <1>13

\* Nothing of the window, the assembly or the disk changes.
Still == UNCHANGED <<at, profile, assembly, todo, songs, torn, seq>>

\* No song is heard in whole.
LEMMA NothingHeard ==
    ASSUME HostOK, AssemblyOK, WholeInv, Still, begun' = Never,
           owed' = owed, stream' = stream \/ stream' = Append(stream, head),
           revision' \in Nat, revision <= revision', told' => head'.pos # 0,
           \/ anchors' = anchors /\ (told' => told)
           \/ \E x : Follower(x)
    PROVE  WholeInv'
<1>1. AnchorsMove(revision)
  BY DEF AnchorsMove, Follower
<1>2. Timeline(anchors) /\ AssemblyFollows /\ PlayedOK
  BY DEF WholeInv
<1>3. Timeline(anchors') /\ AssemblyFollows'
  BY <1>1, <1>2, FollowsOn DEF Still
<1>4. HeardNow' = {}
  BY DEF HeardNow, Never
<1>5. PlayingOK'
  BY <1>4 DEF PlayingOK
<1>6. PlayedOK'
  BY <1>2, PlayedOn DEF Still
<1> QED  BY <1>3, <1>5, <1>6 DEF WholeInv

\* A frame is played.
LEMMA SoundsInv ==
    ASSUME HostOK, AssemblyOK, PlayInv, WholeInv, SoundsSo, Still, named' = named
    PROVE  WholeInv'
<1>1. /\ stream' = Append(stream, head)
      /\ revision \in Nat /\ revision' \in Nat /\ revision <= revision'
      /\ told' => head'.pos # 0
      /\ (anchors' = anchors /\ (told' => told)) \/ \E x : Follower(x)
      /\ AnchorsMove(revision)
  BY SoundsFacts
<1>2. Timeline(anchors) /\ AssemblyFollows /\ PlayedOK
  BY DEF WholeInv
<1>3. Timeline(anchors') /\ AssemblyFollows'
  BY <1>1, <1>2, FollowsOn DEF Still
<1>4. CASE begun' = Never
  <2>1. owed' = owed
    BY <1>4 DEF SoundsSo, Sounds
  <2> QED  BY <1>1, <1>4, <2>1, NothingHeard
<1>5. CASE begun' # Never
  <2>1. PICK p : p = PlayAt(begun')
    OBVIOUS
  <2>2. PlayOK(p)
    BY <1>5, <2>1, PlayingIs DEF SoundsSo
  <2>3. Sounds /\ at' = at
    BY DEF SoundsSo, Still
  <2>4. CASE head.pos + 1 < LengthOf[head.song]
    <3>1. PICK q : /\ HeardNow' = {q} /\ IsPlay(q) /\ PlayOK(q)' /\ Later(q, p)
                   /\ q.last = Now' /\ q.from = p.from /\ q.last = Now + 1 /\ owed' = owed
                   /\ q.last - q.from = head.pos + 1
      BY <1>5, <2>1, <2>2, <2>3, <2>4, SoundsOn
    <3>2. head'.pos # 0
      BY <3>1 DEF HeardNow
    <3>3. UNCHANGED <<at, named, profile, assembly, todo, songs, torn, seq>>
      BY DEF Still
    <3>4. PlayOK(q)' /\ named' /\ \E r \in 0..(revision' + 1) : PlayingWell(q, r)'
      BY <1>5, <2>1, <3>1, <3>2, <3>3, SoundsPlaying
    <3>5. PlayingOK'
      BY <3>1, <3>4 DEF PlayingOK
    <3>6. PlayedOK'
      BY <1>1, <1>2, <3>1, PlayedOn DEF Still
    <3> QED  BY <1>1, <1>3, <3>5, <3>6 DEF WholeInv
  <2>5. CASE ~(head.pos + 1 < LengthOf[head.song])
    <3>1. /\ HeardNow' = {} /\ HeardLast' \subseteq {p} /\ owed' \in [song : Songs, until : Nat]
          /\ PlayOK(p)' /\ p.last + 1 = p.from + LengthOf[p.song] /\ p.last < Now'
          /\ head'.pos = 0
      BY <1>5, <2>1, <2>2, <2>3, <2>5, SoundsOn
    <3>2. UNCHANGED <<at, named, profile, assembly, todo, songs, torn, seq>>
      BY DEF Still
    <3>3. \E r \in 0..(revision' + 1) : PlayedWell(p, r)'
      BY <1>5, <2>1, <2>5, <3>1, <3>2, SoundsPlayed
    <3>4. PlayingOK'
      BY <3>1 DEF PlayingOK
    <3>5. ~told'
      BY <1>1, <3>1
    <3>6. PlayedOK'
      BY <3>1, <3>3, <3>5 DEF PlayedOK
    <3> QED  BY <1>1, <1>3, <3>4, <3>6 DEF WholeInv
  <2> QED  BY <2>4, <2>5
<1> QED  BY <1>4, <1>5

\* A frame is played.
LEMMA WholePlayFrame ==
    ASSUME HostOK, AssemblyOK, PlayInv, WholeInv, PlayFrame
    PROVE  WholeInv'
<1>1. Still /\ named' = named /\ Sounds /\ told' = (head'.pos # 0)
  BY DEF PlayFrame, Still, disk
<1>2. CASE told
  <2>1. anchors' = anchors /\ revision' = revision /\ begun' = begun /\ head.pos # 0
    BY <1>2 DEF PlayFrame, WholeInv
  <2>2. SoundsSo
    BY <1>1, <1>2, <2>1 DEF SoundsSo, PlayedTold, GoesOn
  <2> QED  BY <1>1, <2>2, SoundsInv
<1>3. CASE ~told
  <2>1. Progress(LengthOf[head.song])
    BY <1>3 DEF PlayFrame
  <2>2. begun' = IF head.pos = 0 THEN Begins ELSE begun
    BY <1>3 DEF PlayFrame
  <2>3. PICK x : x = Anchor(head.pos, LengthOf[head.song], revision + 1, revision + 1)
    OBVIOUS
  <2>4. x \in Anchors
    <3>1. head.pos \in Nat /\ LengthOf[head.song] \in Nat /\ revision + 1 \in Nat
      BY SongsAssumption DEF HostOK, Heard
    <3> QED  BY <2>3, <3>1, AnchorTyped
  <2>5. Announces(x)
    BY <2>1, <2>3, <2>4 DEF Announces, Progress, Anchor
  <2>6. PlayedAnnounced
    BY <1>1, <1>3, <2>1, <2>5 DEF PlayedAnnounced, Progress
  <2>7. GoesOn
    BY <2>2 DEF GoesOn
  <2> QED  BY <1>1, <2>6, <2>7, SoundsInv DEF SoundsSo
<1> QED  BY <1>2, <1>3

\* A frame is played whose song is not announced yet.
LEMMA WholePlayUnannounced ==
    ASSUME HostOK, AssemblyOK, PlayInv, WholeInv, PlayUnannounced
    PROVE  WholeInv'
<1>1. Still /\ named' = named /\ Sounds /\ ~told' /\ ~told
      /\ anchors' = anchors /\ revision' = revision
  BY DEF PlayUnannounced, Still, disk
<1> DEFINE late == head.pos + 1 = LengthOf[head.song] \/ head.pos >= HistoryHops * Hop
           first == head.pos = 0 /\ LengthOf[head.song] > 1
<1>2. begun' = CASE late -> Never [] first -> Begins [] OTHER -> begun
  BY DEF PlayUnannounced
<1>3. /\ HistoryHops * Hop \in Nat /\ HistoryHops * Hop >= 1
  <2>1. HistoryHops >= 1 /\ HistoryHops \in Nat /\ Hop \in Nat /\ Hop >= 1 /\ 1 \in Nat
    BY Geometry
  <2>2. HistoryHops * Hop \in Nat /\ HistoryHops * Hop >= 1 * Hop
    BY <2>1, Multiples
  <2> QED  BY <2>1, <2>2
<1>4. head.pos \in Nat /\ LengthOf[head.song] \in Nat /\ head.pos < LengthOf[head.song]
  BY SongsAssumption DEF HostOK, Heard, PlayInv, Played
<1>5. ASSUME begun' # Never
      PROVE  /\ head.pos + 1 <= HistoryHops * Hop /\ head.pos + 1 < LengthOf[head.song]
             /\ begun' = IF head.pos = 0 THEN Begins ELSE begun
  <2> DEFINE M == HistoryHops * Hop
             z == head.pos
             L == LengthOf[head.song]
  <2>1. z \in Nat /\ L \in Nat /\ M \in Nat /\ z < L /\ M >= 1
    BY <1>3, <1>4
  <2>2. CASE late
    <3>1. ~first
      <4> HIDE DEF M, z, L
      <4>1. ASSUME z = 0, L > 1 PROVE ~(z + 1 = L) /\ ~(z >= M)
        BY <2>1, <4>1
      <4> QED  BY <2>2, <4>1 DEF M, z, L
    <3>2. begun' = Never
      BY <1>2, <2>2, <3>1
    <3> QED  BY <1>5, <3>2
  <2>3. CASE ~late
    <3> HIDE DEF M, z, L
    <3>1. ~(z + 1 = L) /\ ~(z >= M)
      BY <2>3 DEF M, z, L
    <3>2. z + 1 <= M /\ z + 1 < L
      BY <2>1, <3>1
    <3>3. first <=> z = 0
      <4>1. L > 1
        BY <2>1, <3>2
      <4> QED  BY <4>1 DEF L, z
    <3>4. begun' = IF first THEN Begins ELSE begun
      BY <1>2, <2>3
    <3> QED  BY <3>2, <3>3, <3>4 DEF z, M, L
  <2> QED  BY <2>2, <2>3
<1>6. GoesOn
  BY <1>5 DEF GoesOn
<1>7. PlayedUnannounced
  BY <1>1, <1>5 DEF PlayedUnannounced
<1> QED  BY <1>1, <1>6, <1>7, SoundsInv DEF SoundsSo

\* The phone skips to another song.
LEMMA WholeSkip ==
    ASSUME HostOK, AssemblyOK, PlayInv, WholeInv, Skip
    PROVE  WholeInv'
<1>1. /\ Still /\ begun' = Never /\ owed' = owed /\ stream' = stream /\ anchors' = anchors
      /\ revision' = revision /\ told' = FALSE
  BY DEF Skip, Still, disk
<1>2. revision \in Nat
  BY HostIs
<1>3. revision' \in Nat /\ revision <= revision'
  BY <1>1, <1>2
<1> QED  BY <1>1, <1>3, NothingHeard

\* A song is announced at a place it is not at.
LEMMA WholePlayMistold ==
    ASSUME HostOK, AssemblyOK, PlayInv, WholeInv, PlayMistold
    PROVE  WholeInv'
<1>1. /\ Still /\ begun' = Never /\ Sounds /\ told' = (head'.pos # 0)
  BY DEF PlayMistold, Still, disk
<1>2. PICK song \in Songs : head.pos < LengthOf[song] /\ Progress(LengthOf[song])
  BY DEF PlayMistold
<1>3. PICK x : x = Anchor(head.pos, LengthOf[song], revision + 1, revision + 1)
  OBVIOUS
<1>4. /\ revision \in Nat /\ \A i \in 1..Len(anchors) : anchors[i].revision <= revision
  BY HostIs DEF PlayInv, RevisionsOK
<1>5. x \in Anchors
  <2>1. head.pos \in Nat /\ LengthOf[song] \in Nat /\ revision + 1 \in Nat
    BY SongsAssumption DEF HostOK, Heard
  <2> QED  BY <1>3, <2>1, AnchorTyped
<1>6. /\ x.pos < x.length /\ x.frame = Now /\ x.rtp = revision + 1 /\ x.revision = revision + 1
      /\ anchors' = Append(anchors, x)
  BY <1>2, <1>3 DEF Anchor, Progress
<1>7. Follower(x)
  BY <1>4, <1>5, <1>6 DEF Follower, Newer
<1>8. revision' \in Nat /\ revision <= revision'
  BY <1>2, <1>4 DEF Progress
<1>9. owed' = owed /\ stream' = Append(stream, head)
  BY <1>1 DEF Sounds
<1> QED  BY <1>1, <1>7, <1>8, <1>9, NothingHeard

\* A play stays one while nothing is heard.
LEMMA PlayOKStill ==
    ASSUME NEW p, PlayOK(p), UNCHANGED <<stream, at, head>>
    PROVE  PlayOK(p)'
BY DEF PlayOK, Sounding, FrameAt, Now

\* The anchor of a correction.
LEMMA CorrectIs ==
    ASSUME HostOK, PlayInv, Correct
    PROVE  \E x \in Anchors :
            /\ anchors' = Append(anchors, x) /\ Follower(x) /\ revision' \in Nat
            /\ revision <= revision' /\ x.revision = revision' /\ x.titled = named
            /\ x.rtp = Last(anchors).rtp /\ x.frame = Now
            /\ x.length = Last(anchors).length => revision' = revision
            /\ \/ begun' = Never
               \/ begun' = begun /\ x.pos = head.pos /\ x.length = LengthOf[head.song]
<1>1. PICK pos \in 0..(head.pos + 1), length \in {LengthOf[s] : s \in Songs} :
        /\ pos < length
        /\ LET rev == IF length = Last(anchors).length THEN revision ELSE revision + 1 IN
            /\ anchors' = Append(anchors, Anchor(pos, length, Last(anchors).rtp, rev))
            /\ revision' = rev
            /\ IF pos = head.pos /\ length = LengthOf[head.song]
               THEN UNCHANGED begun ELSE begun' = Never
  BY DEF Correct
<1>2. PICK rev : rev = IF length = Last(anchors).length THEN revision ELSE revision + 1
  OBVIOUS
<1>3. PICK x : x = Anchor(pos, length, Last(anchors).rtp, rev)
  OBVIOUS
<1>4. /\ told /\ anchors # <<>>
  BY DEF Correct
<1>5. /\ revision \in Nat /\ anchors \in Seq(Anchors) /\ Len(anchors) \in Nat
      /\ \A i \in 1..Len(anchors) : anchors[i].revision <= revision
      /\ anchors[Len(anchors)].revision = revision
  BY <1>4, HostIs DEF PlayInv, RevisionsOK
<1>6. Last(anchors) = anchors[Len(anchors)] /\ Len(anchors) \in 1..Len(anchors)
      /\ Last(anchors) \in Anchors
  BY <1>4, <1>5 DEF Last
<1>7. /\ rev \in Nat /\ revision <= rev
      /\ rev = revision \/ rev = revision + 1
      /\ length = Last(anchors).length => rev = revision
      /\ rev = revision => length = Last(anchors).length
  BY <1>2, <1>5
<1>8. pos \in Nat /\ length \in Nat
  BY SongsAssumption DEF HostOK, Heard
<1>9. x \in Anchors
  <2>1. Last(anchors).rtp \in Nat
    BY <1>6 DEF Anchors
  <2>2. Anchor(pos, length, Last(anchors).rtp, rev) \in Anchors
    BY <1>7, <1>8, <2>1, AnchorTyped
  <2> QED  BY <1>3, <2>2
<1>10. /\ x.pos = pos /\ x.length = length /\ x.rtp = Last(anchors).rtp /\ x.revision = rev
       /\ x.frame = Now /\ x.titled = named
  BY <1>3 DEF Anchor
<1>11. anchors' = Append(anchors, x) /\ revision' = rev
  BY <1>1, <1>2, <1>3
<1>12. Newer(x, anchors, revision)
  BY <1>1, <1>4, <1>5, <1>6, <1>7, <1>9, <1>10 DEF Newer
<1>13. Follower(x)
  BY <1>4, <1>10, <1>11, <1>12 DEF Follower
<1>14. \/ begun' = Never
       \/ begun' = begun /\ x.pos = head.pos /\ x.length = LengthOf[head.song]
  BY <1>1, <1>10
<1>15. revision' \in Nat /\ revision <= revision' /\ x.revision = revision' /\ x.titled = named
       /\ x.rtp = Last(anchors).rtp /\ x.frame = Now
  BY <1>7, <1>10, <1>11
<1>16. x.length = Last(anchors).length => revision' = revision
  BY <1>7, <1>10, <1>11
<1> QED  BY <1>9, <1>11, <1>13, <1>14, <1>15, <1>16

\* The phone corrects where the song is.
LEMMA WholeCorrect ==
    ASSUME HostOK, AssemblyOK, PlayInv, WholeInv, Correct
    PROVE  WholeInv'
<1>1. /\ Still /\ owed' = owed /\ stream' = stream /\ at' = at /\ head' = head /\ told' = told
      /\ named' = named /\ told /\ anchors # <<>>
  BY DEF Correct, Still, disk
<1>2. PICK x \in Anchors :
            /\ anchors' = Append(anchors, x) /\ Follower(x) /\ revision' \in Nat
            /\ revision <= revision' /\ x.revision = revision' /\ x.titled = named
            /\ x.rtp = Last(anchors).rtp /\ x.frame = Now
            /\ x.length = Last(anchors).length => revision' = revision
            /\ \/ begun' = Never
               \/ begun' = begun /\ x.pos = head.pos /\ x.length = LengthOf[head.song]
  BY CorrectIs
<1>3. told => head.pos # 0
  BY DEF WholeInv
<1>6. revision' \in Nat /\ revision <= revision'
  BY <1>2
<1>7. UNCHANGED <<at, profile, assembly, todo, songs, torn, seq>>
  BY <1>1 DEF Still
<1>4. CASE begun' = Never
  BY <1>1, <1>2, <1>3, <1>4, NothingHeard
<1>5. CASE begun' = begun /\ x.pos = head.pos /\ x.length = LengthOf[head.song]
  <2>1. AnchorsMove(revision)
    BY <1>2 DEF AnchorsMove, Follower
  <2>2. Timeline(anchors) /\ AssemblyFollows /\ PlayedOK /\ RevisionsOK
    BY DEF WholeInv, PlayInv
  <2>3. Timeline(anchors') /\ AssemblyFollows'
    BY <1>6, <1>7, <2>1, <2>2, FollowsOn
  <2>4. PlayedOK'
    <3>1. \E y : Follower(y)
      BY <1>2
    <3> QED  BY <1>1, <1>2, <2>2, <3>1, PlayedOn DEF Still
  <2>5. HeardNow' = HeardNow /\ Now' = Now
    BY <1>1, <1>5 DEF HeardNow, PlayNow, Now, Never
  <2>6. ASSUME NEW p \in HeardNow
        PROVE  PlayOK(p)' /\ named' /\ \E r \in 0..(revision' + 1) : PlayingWell(p, r)'
    <3>1. PlayOK(p) /\ named /\ \E r \in 0..(revision + 1) : PlayingWell(p, r)
      BY <2>6 DEF WholeInv, PlayingOK
    <3>2. PICK r \in 0..(revision + 1) : PlayingWell(p, r)
      BY <3>1
    <3>3. p.song = head.song /\ p.last = Now
      BY <2>6 DEF HeardNow, PlayNow
    <3>4. head.pos = Now - p.from
      BY <3>1, <3>3, HeadIs
    <3>5. /\ IsPlay(p) /\ Later(p, p) /\ r \in Nat
      BY <3>1, PlayIs, HostIs DEF PlayOK, Later
    <3>6. Last(anchors).rtp = r /\ r = revision /\ Labels(anchors, p, r)
      BY <1>1, <3>2 DEF PlayingWell, Current
    <3>7. Last(anchors) = anchors[Len(anchors)] /\ Len(anchors) \in 1..Len(anchors)
      BY <1>1, HostIs DEF Last
    <3>8. Last(anchors).length = LengthOf[p.song]
      BY <3>6, <3>7, LabelsAre DEF Tags
    <3>9. revision' = revision
      BY <1>2, <1>5, <3>3, <3>8
    <3>10. Announcing(x, p, r)
      BY <1>2, <1>5, <3>1, <3>3, <3>4, <3>6, <3>9 DEF Announcing, Follower
    <3>11. /\ Labels(anchors', p, r)
           /\ Waiting(p, r)' \/ Building(p, r)' \/ (Kept(p)' /\ Harmless(p)')
      BY <1>6, <1>7, <2>2, <3>2, <3>3, <3>5, <3>10, PlayingGoes
    <3>12. Current(r)'
      <4>1. Last(anchors') = x /\ anchors' # <<>>
        BY <1>2, OneMore, HostIs DEF Last
      <4> QED  BY <1>1, <1>2, <3>6, <3>9, <4>1 DEF Current
    <3>13. PlayingWell(p, r)'
      BY <3>11, <3>12 DEF PlayingWell
    <3>14. PlayOK(p)' /\ named'
      BY <1>1, <3>1, PlayOKStill
    <3>15. r \in 0..(revision' + 1)
      BY <3>9
    <3> QED  BY <3>13, <3>14, <3>15
  <2>7. PlayingOK'
    BY <2>5, <2>6 DEF PlayingOK
  <2> QED  BY <1>1, <1>3, <2>3, <2>4, <2>7 DEF WholeInv
<1> QED  BY <1>2, <1>4, <1>5

\* Anchors that differ in their titles: some that had none have one.
Retold(new, old) ==
    /\ new \in Seq(Anchors) /\ Len(new) = Len(old)
    /\ \A i \in 1..Len(old) :
        /\ new[i].frame = old[i].frame /\ new[i].pos = old[i].pos
        /\ new[i].length = old[i].length /\ new[i].rtp = old[i].rtp
        /\ new[i].revision = old[i].revision /\ (old[i].titled => new[i].titled)

\* The anchor that tells of a frame has its index still.
LEMMA RetoldBy ==
    ASSUME NEW old \in Seq(Anchors), NEW new, Retold(new, old), NEW f \in Int
    PROVE  ToldBy(new, f) = ToldBy(old, f)
<1> DEFINE k == ToldBy(old, f)
<1>1. /\ k \in 0..Len(old) /\ (k # 0 => old[k].frame <= f)
      /\ \A i \in 1..Len(old) : i > k => old[i].frame > f
  BY ToldByIs
<1>2. Len(old) \in Nat /\ Len(new) = Len(old) /\ new \in Seq(Anchors)
      /\ \A i \in 1..Len(old) : new[i].frame = old[i].frame
  BY DEF Retold
<1> HIDE DEF k
<1>3. k # 0 => new[k].frame <= f
  BY <1>1, <1>2
<1>4. \A i \in 1..Len(new) : i > k => new[i].frame > f
  BY <1>1, <1>2
<1>5. k \in 0..Len(new)
  BY <1>1, <1>2
<1>6. ToldBy(new, f) = k
  BY <1>2, <1>3, <1>4, <1>5, ToldByUnique
<1> QED  BY <1>6 DEF k

\* The anchors are a timeline still.
LEMMA RetoldTimeline ==
    ASSUME NEW old, NEW new, Retold(new, old), Timeline(old)
    PROVE  Timeline(new)
BY DEF Retold, Timeline

\* They tell truly of a song still.
LEMMA RetoldLabels ==
    ASSUME NEW old, NEW new, Retold(new, old), NEW p, NEW r, Labels(old, p, r)
    PROVE  Labels(new, p, r)
<1>1. ASSUME NEW i \in 1..Len(new) PROVE Tags(new[i], p, r)
  <2>1. /\ i \in 1..Len(old)
        /\ new[i].frame = old[i].frame /\ new[i].pos = old[i].pos
        /\ new[i].length = old[i].length /\ new[i].rtp = old[i].rtp
        /\ new[i].revision = old[i].revision /\ (old[i].titled => new[i].titled)
    BY DEF Retold
  <2>2. Tags(old[i], p, r)
    BY <2>1, LabelsAre
  <2> QED  BY <2>1, <2>2 DEF Tags
<1> QED  BY <1>1, LabelsAre

\* A builder fits them still.
LEMMA RetoldFits ==
    ASSUME NEW old \in Seq(Anchors), NEW new, Retold(new, old), NEW b, NEW e \in Nat,
           Fits(b, old, e)
    PROVE  Fits(b, new, e)
<1>1. /\ Len(new) = Len(old)
      /\ \A i \in 1..Len(old) :
            /\ new[i].frame = old[i].frame /\ new[i].pos = old[i].pos
            /\ new[i].length = old[i].length /\ new[i].rtp = old[i].rtp
            /\ new[i].revision = old[i].revision
  BY DEF Retold
<1>2. ToldBy(new, e) = ToldBy(old, e)
  BY RetoldBy
<1>3. ToldBy(old, e) # 0 => ToldBy(old, e) \in 1..Len(old)
  <2>1. ToldBy(old, e) \in 0..Len(old)
    BY ToldByIs
  <2> QED  BY <2>1
<1>4. ASSUME NEW i \in 1..Len(new)
      PROVE  LET a == new[i] IN
             /\ a.rtp >= b.rtp
             /\ a.rtp = b.rtp => a.revision >= b.revision
             /\ a.revision = b.revision =>
                b.trackEnd <= a.length /\ (b.streamEnd # e => b.trackEnd = a.length)
  BY <1>1 DEF Fits
<1>5. b.streamEnd = e =>
        LET t == ToldBy(new, e) IN
        /\ t # 0
        /\ new[t].frame < e /\ new[t].rtp = b.rtp => new[t].pos + e - new[t].frame = b.trackEnd
  BY <1>1, <1>2, <1>3 DEF Fits
<1>6. b.rtp <= b.revision
  BY DEF Fits
<1> QED  BY <1>4, <1>5, <1>6 DEF Fits

\* set_metadata adds titles.
LEMMA MetadataRetells ==
    ASSUME HostOK, Metadata
    PROVE  Retold(anchors', anchors)
<1>1. anchors \in Seq(Anchors) /\ Len(anchors) \in Nat
  BY HostIs
<1>2. CASE anchors' = anchors
  BY <1>1, <1>2 DEF Retold
<1>3. CASE anchors' = [i \in 1..Len(anchors) |->
                    [anchors[i] EXCEPT !.titled = @ \/ anchors[i].revision = revision]]
  <2>1. ASSUME NEW i \in 1..Len(anchors)
        PROVE  LET a == anchors[i]
                   b == [a EXCEPT !.titled = @ \/ a.revision = revision]
               IN  /\ b \in Anchors /\ b.frame = a.frame /\ b.pos = a.pos
                   /\ b.length = a.length /\ b.rtp = a.rtp /\ b.revision = a.revision
                   /\ a.titled => b.titled
    <3>1. anchors[i] \in Anchors
      BY <1>1
    <3>2. PICK a : a = anchors[i]
      OBVIOUS
    <3>3. PICK t \in BOOLEAN : t = (a.titled \/ a.revision = revision)
      OBVIOUS
    <3>4. /\ [a EXCEPT !.titled = t] \in Anchors
          /\ [a EXCEPT !.titled = t].frame = a.frame /\ [a EXCEPT !.titled = t].pos = a.pos
          /\ [a EXCEPT !.titled = t].length = a.length /\ [a EXCEPT !.titled = t].rtp = a.rtp
          /\ [a EXCEPT !.titled = t].revision = a.revision
          /\ [a EXCEPT !.titled = t].titled = t
      BY <3>1, <3>2 DEF Anchors
    <3>5. [a EXCEPT !.titled = @ \/ a.revision = revision] = [a EXCEPT !.titled = t]
      BY <3>3
    <3>6. a.titled => t
      BY <3>3
    <3> QED  BY <3>2, <3>4, <3>5, <3>6
  <2>2. anchors' \in Seq(Anchors) /\ Len(anchors') = Len(anchors)
    BY <1>1, <1>3, <2>1
  <2>3. \A i \in 1..Len(anchors) : anchors'[i] =
            [anchors[i] EXCEPT !.titled = @ \/ anchors[i].revision = revision]
    BY <1>3
  <2> QED  BY <2>1, <2>2, <2>3 DEF Retold
<1> QED  BY <1>2, <1>3 DEF Metadata

\* The names of the song arrive.
LEMMA WholeMetadata ==
    ASSUME HostOK, AssemblyOK, PlayInv, WholeInv, Metadata
    PROVE  WholeInv'
<1>1. /\ Still /\ owed' = owed /\ begun' = begun /\ stream' = stream /\ at' = at /\ head' = head
      /\ told' = told /\ revision' = revision /\ ~named
  BY DEF Metadata, Still, disk
<1>2. Retold(anchors', anchors)
  BY MetadataRetells
<1>3. /\ anchors \in Seq(Anchors) /\ Len(anchors) \in Nat /\ Len(anchors') = Len(anchors)
      /\ at \in Nat /\ Now \in Nat /\ anchors' \in Seq(Anchors)
  BY <1>2, HostIs DEF Retold
<1>4. \A i \in 1..Len(anchors) :
        anchors'[i].frame = anchors[i].frame /\ anchors'[i].rtp = anchors[i].rtp
  BY <1>2 DEF Retold
<1>5. Now' = Now /\ HeardNow' = HeardNow /\ HeardLast' = HeardLast
  BY <1>1 DEF Now, HeardNow, PlayNow, Never, HeardLast, PlayLast
<1>6. PlayingOK'
  <2>1. HeardNow = {}
    BY <1>1 DEF WholeInv, PlayingOK
  <2> QED  BY <1>5, <2>1 DEF PlayingOK
<1>7. Timeline(anchors')
  BY <1>2, RetoldTimeline DEF WholeInv
<1>8. UNCHANGED <<at, assembly, seq>>
  BY <1>1 DEF Still
<1>9. AssemblyFollows'
  <2>1. Stale' = Stale
    BY <1>8, StaleKept
  <2>2. AssemblyFollows
    BY DEF WholeInv
  <2>3. \A b : Fits(b, anchors, at) => Fits(b, anchors', at)
    BY <1>2, <1>3, RetoldFits
  <2> QED  BY <1>1, <1>8, <2>1, <2>2, <2>3 DEF AssemblyFollows
<1>10. PlayedOK'
  <2> SUFFICES ASSUME NEW p \in HeardLast
               PROVE  /\ owed' \in [song : Songs, until : Nat]
                      /\ PlayOK(p)' /\ p.last + 1 = p.from + LengthOf[p.song] /\ p.last < Now'
                      /\ told' /\ anchors' # <<>> => Last(anchors').frame > p.last
                      /\ \E r \in 0..(revision' + 1) : PlayedWell(p, r)'
    BY <1>5 DEF PlayedOK
  <2>1. /\ owed \in [song : Songs, until : Nat]
        /\ PlayOK(p) /\ p.last + 1 = p.from + LengthOf[p.song] /\ p.last < Now
        /\ told /\ anchors # <<>> => Last(anchors).frame > p.last
        /\ \E r \in 0..(revision + 1) : PlayedWell(p, r)
    BY DEF PlayedOK, WholeInv
  <2>2. PICK r \in 0..(revision + 1) : PlayedWell(p, r)
    BY <2>1
  <2>3. PlayOK(p)'
    BY <1>1, <2>1, PlayOKStill
  <2>4. told' /\ anchors' # <<>> => Last(anchors').frame > p.last
    <3>1. anchors' # <<>> => anchors # <<>> /\ Len(anchors) \in 1..Len(anchors)
      BY <1>3
    <3>2. anchors' # <<>> => Last(anchors').frame = Last(anchors).frame
      BY <1>3, <1>4, <3>1 DEF Last
    <3> QED  BY <1>1, <2>1, <3>1, <3>2
  <2>5. r <= revision /\ Labels(anchors', p, r)
    BY <1>2, <2>2, RetoldLabels DEF PlayedWell
  <2>6. /\ IsPlay(p) /\ p.last \in Nat /\ p.last # Now /\ Later(p, p)
    BY <1>3, <2>1, PlayIs DEF PlayOK, Later
  <2>7. ASSUME Waiting(p, r) PROVE Waiting(p, r)'
    <3>1. PICK i \in 1..Len(anchors) :
            anchors[i].rtp = r /\ anchors[i].frame - p.from <= HistoryHops * Hop
      BY <2>6, <2>7 DEF Waiting, Foretold
    <3>2. Foretold(p, r)'
      <4>1. i \in 1..Len(anchors') /\ anchors'[i].rtp = r
            /\ anchors'[i].frame - p.from <= HistoryHops * Hop
        BY <1>3, <1>4, <3>1
      <4> QED  BY <4>1 DEF Foretold
    <3>3. \A j \in 1..Len(anchors') : anchors'[j].rtp = r => at <= anchors'[j].frame
      BY <1>3, <1>4, <2>7 DEF Waiting
    <3>4. Waiting(p, r)'
      BY <1>8, <2>6, <2>7, <3>2, <3>3, WaitingOn
    <3> QED  BY <3>4
  <2>8. ASSUME Building(p, r) PROVE Building(p, r)'
    <3>1. Spoken(anchors', r, at)
      BY <1>3, <1>4, <2>8 DEF Building, Spoken
    <3>2. Building(p, r)'
      BY <1>8, <2>6, <2>8, <3>1, BuildingOn
    <3> QED  BY <3>2
  <2>9. ASSUME Kept(p) PROVE Kept(p)'
    <3>1. Kept(p)'
      BY <1>1, <2>9, KeptOn DEF Still
    <3> QED  BY <3>1
  <2>10. ASSUME Pending(p) PROVE Pending(p)'
    <3>1. Pending(p)'
      BY <1>1, <2>10 DEF Pending, Still
    <3> QED  BY <3>1
  <2>11. Waiting(p, r)' \/ Building(p, r)' \/ Kept(p)' \/ Pending(p)'
    BY <2>2, <2>7, <2>8, <2>9, <2>10 DEF PlayedWell
  <2>12. PlayedWell(p, r)'
    BY <1>1, <2>5, <2>11 DEF PlayedWell
  <2> QED  BY <1>1, <1>5, <2>1, <2>3, <2>4, <2>12
<1> QED  BY <1>1, <1>6, <1>7, <1>9, <1>10 DEF WholeInv

\* The invariant holds at first.
LEMMA WholeInit ==
    ASSUME Init
    PROVE  WholeInv
<1>1. /\ anchors = <<>> /\ told = FALSE /\ revision = 0 /\ at = 0 /\ assembly = Empty /\ seq = 1
      /\ begun = Never /\ owed = None
  BY DEF Init
<1>2. Timeline(anchors)
  BY <1>1 DEF Timeline
<1>3. HeardNow = {} /\ HeardLast = {}
  BY <1>1 DEF HeardNow, HeardLast
<1>4. AssemblyFollows
  <2>1. HistoryFollows(<<>>, at, {0})
    BY DEF HistoryFollows
  <2>2. HistoryHops \in Nat /\ HistoryHops >= 0
    BY Geometry
  <2> QED  BY <1>1, <2>1, <2>2 DEF AssemblyFollows, Empty
<1> QED  BY <1>1, <1>2, <1>3, <1>4 DEF WholeInv, PlayingOK, PlayedOK

-----------------------------------------------------------------------------
(* Commands, ends and restarts.                                            *)
\* Of an empty assembly nothing follows.
LEMMA EmptyFollows ==
    ASSUME assembly' = Empty
    PROVE  AssemblyFollows'
<1>1. HistoryFollows(<<>>, at', {0})
  BY DEF HistoryFollows
<1>2. HistoryHops \in Nat /\ HistoryHops >= 0
  BY Geometry
<1> QED  BY <1>1, <1>2 DEF AssemblyFollows, Empty

\* A session ends.
LEMMA WholeStop ==
    ASSUME WholeInv, Stop
    PROVE  WholeInv'
<1>1. assembly' = Empty /\ begun' = Never /\ owed' = None /\ anchors' = <<>> /\ told' = FALSE
  BY DEF Stop, NewHost
<1>2. HeardNow' = {} /\ HeardLast' = {}
  BY <1>1 DEF HeardNow, HeardLast, Never
<1>3. Timeline(anchors')
  BY <1>1 DEF Timeline
<1> QED  BY <1>1, <1>2, <1>3, EmptyFollows DEF WholeInv, PlayingOK, PlayedOK

\* The host is replaced: the songs heard from the old one are owed no more.  If the worker is
\* not to see it, the hops it remembers are all from 0, and so is the next one.
LEMMA WholeHostRestarts ==
    ASSUME HostOK, AssemblyOK, WholeInv, HostRestarts
    PROVE  WholeInv'
<1>1. /\ assembly' = assembly /\ begun' = Never /\ owed' = None /\ anchors' = <<>>
      /\ told' = FALSE /\ at' = 0 /\ revision' = revision /\ seq' = seq
  BY DEF HostRestarts, NewHost
<1>2. HeardNow' = {} /\ HeardLast' = {}
  BY <1>1 DEF HeardNow, HeardLast, Never
<1>3. Timeline(anchors')
  BY <1>1 DEF Timeline
<1>4. /\ Hop \in Nat /\ Hop >= 1 /\ at \in Nat /\ seq \in Nat
      /\ assembly.last \in Nat /\ assembly.history \in Seq(Hops(Imprint))
  BY Geometry DEF HostOK, AssemblyOK, Assemblies
<1> DEFINE b == assembly.builder
           past == assembly.history
           nothing == b = None /\ past = <<>>
<1>5. /\ assembly.completed \subseteq 0..revision
      /\ b # None => /\ b.revision <= revision /\ b.rtp <= revision
                     /\ Len(b.source) < b.length /\ b.streamEnd # 0
      /\ assembly.last = 0 => nothing
      /\ Len(past) <= HistoryHops
      /\ assembly.last = seq - 1 => \/ /\ assembly.start \in Nat
                                       /\ at = 0 \/ assembly.start = at - Hop
                                    \/ nothing
      /\ ~Stale => HistoryFollows(past, at, {0}) /\ (b # None => Fits(b, anchors, at))
  BY DEF WholeInv, AssemblyFollows
<1>6. ASSUME ~Stale', ~nothing
      PROVE  /\ ~Stale /\ at \in {0, Hop}
  <2>1. ~Regressed(assembly, 0) /\ ~Gapped(assembly, seq)
    BY <1>1, <1>6 DEF Stale, Stales
  <2>2. assembly.last = seq - 1
    BY <1>4, <1>5, <1>6, <2>1 DEF Gapped
  <2>3. assembly.start \in Nat /\ (at = 0 \/ assembly.start = at - Hop)
    BY <1>5, <1>6, <2>2
  <2>4. assembly.start = 0
    BY <2>1, <2>3, NoneAssumption DEF Regressed
  <2>5. ~Regressed(assembly, at)
    BY <1>4, <2>4 DEF Regressed
  <2>6. ~Stale
    BY <2>1, <2>5 DEF Stale, Stales
  <2> QED  BY <1>4, <2>3, <2>4, <2>6
<1>7. ASSUME ~Stale' PROVE HistoryFollows(past, 0, {0})
  <2>1. CASE nothing
    BY <2>1 DEF HistoryFollows
  <2>2. CASE ~nothing
    <3>1. HistoryFollows(past, at, {0}) /\ at \in {0, Hop}
      BY <1>5, <1>6, <1>7, <2>2
    <3>2. Len(past) \in Nat /\ \A i \in 1..Len(past) : past[i].from \in Nat
      BY <1>4, HistoryTyped
    <3>3. ASSUME NEW i \in 1..Len(past) PROVE past[i].from = 0
      <4> DEFINE f == past[i].from
                 n == Len(past) - i
      <4>1. f \in Nat /\ n \in Nat /\ Len(past) - i + 1 = n + 1
        BY <3>2
      <4>2. f + (Len(past) - i + 1) * Hop = at \/ f = 0
        BY <3>1 DEF HistoryFollows
      <4> HIDE DEF f, n
      <4>3. (n + 1) * Hop = n * Hop + Hop /\ n * Hop \in Nat
        BY <1>4, <4>1, Multiples
      <4> DEFINE m == n * Hop
      <4>4. m \in Nat /\ (f + (m + Hop) = at \/ f = 0)
        BY <4>1, <4>2, <4>3
      <4> HIDE DEF m
      <4>5. f = 0
        BY <1>4, <3>1, <4>1, <4>4
      <4> QED  BY <4>5 DEF f
    <3> QED  BY <3>3 DEF HistoryFollows
  <2> QED  BY <2>1, <2>2
<1>8. ASSUME ~Stale', b # None PROVE Fits(b, <<>>, 0)
  <2>1. b.rtp <= b.revision
    BY <1>5, <1>6, <1>8 DEF Fits
  <2> QED  BY <1>5, <1>8, <2>1 DEF Fits
<1>9. AssemblyFollows'
  <2>1. 0 \in Nat
    OBVIOUS
  <2> QED  BY <1>1, <1>5, <1>7, <1>8 DEF AssemblyFollows
<1> QED  BY <1>1, <1>2, <1>3, <1>9 DEF WholeInv, PlayingOK, PlayedOK

\* The assembly is dropped: a song that began in this window or after it waits.
LEMMA WholeDropped ==
    ASSUME HostOK, WholeInv, UNCHANGED host, assembly' = Empty, owed' = None,
           begun' = IF begun < at THEN Never ELSE begun
    PROVE  WholeInv'
<1>1. /\ stream' = stream /\ at' = at /\ anchors' = anchors /\ head' = head /\ told' = told
      /\ named' = named /\ revision' = revision
  BY DEF host
<1>2. Timeline(anchors') /\ (told' => head'.pos # 0)
  BY <1>1 DEF WholeInv
<1>3. AssemblyFollows'
  BY EmptyFollows
<1>4. HeardLast' = {}
  BY DEF HeardLast
<1>5. ASSUME NEW p \in HeardNow'
      PROVE  PlayOK(p)' /\ named' /\ \E r \in 0..(revision' + 1) : PlayingWell(p, r)'
  <2>1. begun' # Never /\ head.pos # 0
    BY <1>1, <1>5 DEF HeardNow, Never
  <2>2. begun' = begun /\ ~(begun < at)
    BY <2>1
  <2>3. p \in HeardNow /\ p.from = begun
    BY <1>1, <1>5, <2>1, <2>2 DEF HeardNow, PlayNow, Never, Now
  <2>4. PlayOK(p) /\ named /\ \E r \in 0..(revision + 1) : PlayingWell(p, r)
    BY <2>3 DEF WholeInv, PlayingOK
  <2>5. PICK r \in 0..(revision + 1) : PlayingWell(p, r)
    BY <2>4
  <2>6. Waiting(p, r)
    BY <2>2, <2>3, <2>5 DEF PlayingWell, Building, Harmless
  <2>7. Foretold(p, r)'
    BY <1>1, <2>6 DEF Waiting, Foretold, Now
  <2>8. ~(p.from < at)
    BY <2>2, <2>3
  <2>9. r \notin assembly'.completed /\ assembly'.builder = None
    BY DEF Empty
  <2>10. HistoryFollows(assembly'.history, at', {})
    BY DEF Empty, HistoryFollows
  <2>13. Waiting(p, r)'
    BY <1>1, <2>6, <2>7, <2>8, <2>9, <2>10 DEF Waiting
  <2>11. PlayingWell(p, r)'
    BY <1>1, <2>5, <2>13 DEF PlayingWell, Current
  <2>12. PlayOK(p)'
    BY <1>1, <2>4, PlayOKStill
  <2> QED  BY <1>1, <2>4, <2>11, <2>12
<1> QED  BY <1>2, <1>3, <1>4, <1>5 DEF WholeInv, PlayingOK, PlayedOK

\* Another model is chosen.
LEMMA WholeSwitchProfile == HostOK /\ WholeInv /\ SwitchProfile => WholeInv'
BY WholeDropped DEF SwitchProfile

\* The worker ends and is started again.
LEMMA WholeCrash == HostOK /\ WholeInv /\ Crash => WholeInv'
BY WholeDropped DEF Crash

-----------------------------------------------------------------------------
(* The disk.                                                               *)
\* An operation of the disk leaves all that the assembly is about.
LEMMA DiskSame ==
    ASSUME DiskOnly
    PROVE  /\ Timeline(anchors)' = Timeline(anchors) /\ AssemblyFollows' = AssemblyFollows
           /\ \A p : PlayOK(p)' = PlayOK(p)
           /\ \A p, r : /\ Labels(anchors, p, r)' = Labels(anchors, p, r)
                        /\ Waiting(p, r)' = Waiting(p, r) /\ Building(p, r)' = Building(p, r)
                        /\ Current(r)' = Current(r)
           /\ HeardNow' = HeardNow /\ Stale' = Stale /\ Now' = Now
<1>1. /\ stream' = stream /\ at' = at /\ anchors' = anchors /\ head' = head /\ told' = told
      /\ revision' = revision /\ assembly' = assembly /\ seq' = seq /\ begun' = begun
  BY DEF DiskOnly, host
<1>2. Now' = Now
  BY <1>1 DEF Now
<1>3. Stale' = Stale
  BY <1>1, StaleKept
<1>4. Timeline(anchors)' = Timeline(anchors) /\ AssemblyFollows' = AssemblyFollows
  BY <1>1, <1>3 DEF AssemblyFollows
<1>5. \A p : PlayOK(p)' = PlayOK(p)
  BY <1>1, <1>2 DEF PlayOK, Sounding, FrameAt
<1>6. ASSUME NEW p, NEW r
      PROVE  /\ Labels(anchors, p, r)' = Labels(anchors, p, r)
             /\ Waiting(p, r)' = Waiting(p, r) /\ Building(p, r)' = Building(p, r)
             /\ Current(r)' = Current(r)
  <2>1. Foretold(p, r)' = Foretold(p, r)
    BY <1>1, <1>2 DEF Foretold
  <2>2. Waiting(p, r)' = Waiting(p, r)
    BY <1>1, <1>3, <2>1 DEF Waiting
  <2>3. Building(p, r)' = Building(p, r)
    BY <1>1, <1>3 DEF Building
  <2> QED  BY <1>1, <2>2, <2>3 DEF Current
<1>7. HeardNow' = HeardNow
  BY <1>1, <1>2 DEF HeardNow, PlayNow, Never
<1> QED  BY <1>2, <1>3, <1>4, <1>5, <1>6, <1>7

\* The disk is not what a song that is played waits for, and what was stored of the song last
\* heard in whole is stored.
LEMMA DiskGoes ==
    ASSUME WholeInv, DiskOnly, owed' = owed \/ owed' = None,
           Idle(todo) => Idle(todo') /\ songs' = songs,
           \A p \in HeardLast' : (Kept(p) => Kept(p)') /\ (Pending(p) => Pending(p)' \/ Kept(p)')
    PROVE  WholeInv'
<1>1. /\ at' = at /\ anchors' = anchors /\ head' = head /\ told' = told /\ named' = named
      /\ revision' = revision /\ assembly' = assembly /\ profile' = profile /\ torn' = torn
  BY DEF DiskOnly, host
<1>2. /\ Timeline(anchors)' = Timeline(anchors) /\ AssemblyFollows' = AssemblyFollows
      /\ \A p : PlayOK(p)' = PlayOK(p)
      /\ \A p, r : /\ Labels(anchors, p, r)' = Labels(anchors, p, r)
                   /\ Waiting(p, r)' = Waiting(p, r) /\ Building(p, r)' = Building(p, r)
                   /\ Current(r)' = Current(r)
      /\ HeardNow' = HeardNow /\ Stale' = Stale /\ Now' = Now
  BY DiskSame
<1>3. ASSUME NEW p, Kept(p), Harmless(p) PROVE Kept(p)' /\ Harmless(p)'
  <2>1. Idle(todo') /\ songs' = songs
    BY <1>3 DEF Harmless
  <2>2. Kept(p)'
    BY <1>1, <1>3, <2>1, KeptOn
  <2>3. Harmless(p)'
    BY <1>1, <1>2, <1>3, <2>1 DEF Harmless
  <2> QED  BY <2>2, <2>3
<1>4. ASSUME NEW p \in HeardNow
      PROVE  PlayOK(p)' /\ named' /\ \E r \in 0..(revision' + 1) : PlayingWell(p, r)'
  <2>1. PlayOK(p) /\ named /\ \E r \in 0..(revision + 1) : PlayingWell(p, r)
    BY <1>4 DEF WholeInv, PlayingOK
  <2>2. PICK r \in 0..(revision + 1) : PlayingWell(p, r)
    BY <2>1
  <2>3. PlayingWell(p, r)'
    BY <1>1, <1>2, <1>3, <2>2 DEF PlayingWell
  <2> QED  BY <1>1, <1>2, <2>1, <2>2, <2>3
<1>5. ASSUME NEW p \in HeardLast'
      PROVE  /\ owed' \in [song : Songs, until : Nat]
             /\ PlayOK(p)' /\ p.last + 1 = p.from + LengthOf[p.song] /\ p.last < Now'
             /\ told' /\ anchors' # <<>> => Last(anchors').frame > p.last
             /\ \E r \in 0..(revision' + 1) : PlayedWell(p, r)'
  <2>1. owed' = owed /\ p \in HeardLast
    BY <1>5 DEF HeardLast, PlayLast
  <2>2. /\ owed \in [song : Songs, until : Nat]
        /\ PlayOK(p) /\ p.last + 1 = p.from + LengthOf[p.song] /\ p.last < Now
        /\ told /\ anchors # <<>> => Last(anchors).frame > p.last
        /\ \E r \in 0..(revision + 1) : PlayedWell(p, r)
    BY <2>1 DEF WholeInv, PlayedOK
  <2>3. PICK r \in 0..(revision + 1) : PlayedWell(p, r)
    BY <2>2
  <2>4. (Kept(p) => Kept(p)') /\ (Pending(p) => Pending(p)' \/ Kept(p)')
    BY <1>5
  <2>5. r <= revision /\ Labels(anchors, p, r)
        /\ (Waiting(p, r) \/ Building(p, r) \/ Kept(p) \/ Pending(p))
    BY <2>3 DEF PlayedWell
  <2>6. Waiting(p, r)' \/ Building(p, r)' \/ Kept(p)' \/ Pending(p)'
    BY <1>2, <2>4, <2>5
  <2>7. PlayedWell(p, r)'
    BY <1>1, <1>2, <2>5, <2>6 DEF PlayedWell
  <2> QED  BY <1>1, <1>2, <2>1, <2>2, <2>3, <2>7
<1>6. PlayingOK'
  BY <1>2, <1>4 DEF PlayingOK
<1>7. PlayedOK'
  BY <1>5 DEF PlayedOK
<1> QED  BY <1>1, <1>2, <1>6, <1>7 DEF WholeInv

\* What is still to do after the first operation, and before it.
LEMMA StillToDo ==
    ASSUME TodoOK, todo # <<>>
    PROVE  /\ Head(todo) = todo[1] /\ 1 \in 1..Len(todo) /\ todo[1] \in Ops(Imprint)
           /\ Len(todo) \in Nat /\ todo \in Seq(Ops(Imprint))
           /\ \A j \in 1..Len(todo) : j # 1 =>
                /\ \E i \in 1..Len(Tail(todo)) : Tail(todo)[i] = todo[j]
                /\ \E i \in 1..Len(<<[op |-> "prune"]>> \o Tail(todo)) :
                        (<<[op |-> "prune"]>> \o Tail(todo))[i] = todo[j]
           /\ \A i \in 1..Len(Tail(todo)) : \E j \in 1..Len(todo) : Tail(todo)[i] = todo[j]
<1>1. todo \in Seq(Ops(Imprint)) /\ Len(todo) \in Nat /\ Len(todo) >= 1
  BY DEF TodoOK
<1>2. /\ Len(Tail(todo)) = Len(todo) - 1 /\ Len(Tail(todo)) \in Nat
      /\ \A i \in 1..Len(Tail(todo)) : Tail(todo)[i] = todo[i + 1]
      /\ Tail(todo) \in Seq(Ops(Imprint))
  BY <1>1
<1>3. ASSUME NEW j \in 1..Len(todo), j # 1
      PROVE  /\ \E i \in 1..Len(Tail(todo)) : Tail(todo)[i] = todo[j]
             /\ \E i \in 1..Len(<<[op |-> "prune"]>> \o Tail(todo)) :
                    (<<[op |-> "prune"]>> \o Tail(todo))[i] = todo[j]
  <2>1. j - 1 \in 1..Len(Tail(todo)) /\ Tail(todo)[j - 1] = todo[j]
    BY <1>1, <1>2, <1>3
  <2> DEFINE t == Tail(todo)
             m == <<[op |-> "prune"]>> \o t
  <2>2. t \in Seq(Ops(Imprint)) /\ Len(t) = Len(todo) - 1 /\ j - 1 \in 1..Len(t)
        /\ t[j - 1] = todo[j]
    BY <1>2, <2>1
  <2> HIDE DEF t
  <2>3. Len(m) = Len(t) + 1 /\ m[j] = t[j - 1]
    BY <1>1, <2>2
  <2>4. j \in 1..Len(m)
    BY <1>1, <2>2, <2>3
  <2> HIDE DEF m
  <2>5. \E i \in 1..Len(m) : m[i] = todo[j]
    BY <2>2, <2>3, <2>4
  <2> QED  BY <2>1, <2>5 DEF m, t
<1> QED  BY <1>1, <1>2, <1>3, FirstDone

\* An operation that stores no song: what is pending stays so.
LEMMA PendingStays ==
    ASSUME NEW p, Pending(p), at' = at,
           \A j \in 1..Len(todo) : todo[j].op = "song" =>
                \E i \in 1..Len(todo') : todo'[i] = todo[j]
    PROVE  Pending(p)'
<1>1. PICK j \in 1..Len(todo) : todo[j].op = "song" /\ WholeOf(todo[j].builder, p)
  BY DEF Pending
<1>2. PICK i \in 1..Len(todo') : todo'[i] = todo[j]
  BY <1>1
<1>3. todo'[i].op = "song" /\ WholeOf(todo'[i].builder, p)
  BY <1>1, <1>2
<1> QED  BY <1>3 DEF Pending

\* An operation that stores no song and prunes nothing.
LEMMA IdleStays ==
    ASSUME Idle(todo), \A i \in 1..Len(todo') : todo'[i].op # "complete" =>
                \E j \in 1..Len(todo) : todo'[i] = todo[j]
    PROVE  Idle(todo')
<1>1. ASSUME NEW i \in 1..Len(todo')
      PROVE  /\ todo'[i].op # "prune"
             /\ todo'[i].op = "song" =>
                    Len(todo'[i].builder.source) < todo'[i].builder.length
  <2>1. CASE todo'[i].op = "complete"
    BY <2>1
  <2>2. CASE todo'[i].op # "complete"
    <3>1. PICK j \in 1..Len(todo) : todo'[i] = todo[j]
      BY <2>2
    <3> QED  BY <3>1 DEF Idle
  <2> QED  BY <2>1, <2>2
<1> QED  BY <1>1 DEF Idle

\* The window cache.
LEMMA WholeWindows ==
    ASSUME ServeInv, WholeInv, StoreChunk \/ CompleteWindow \/ SweepWindows
    PROVE  WholeInv'
<1>1. /\ DiskOnly /\ songs' = songs /\ owed' = owed /\ todo # <<>> /\ TodoOK
  BY DEF StoreChunk, CompleteWindow, SweepWindows, Doing, ServeInv
<1>2. /\ todo[1].op # "song" /\ Head(todo) = todo[1] /\ Len(todo) \in Nat
      /\ todo \in Seq(Ops(Imprint))
  BY <1>1, StillToDo DEF StoreChunk, CompleteWindow, SweepWindows, Doing
<1>3. \/ todo' = todo
      \/ todo' = Tail(todo)
      \/ todo[1].op = "window" /\ todo' = [todo EXCEPT ![1].op = "complete"]
  BY <1>2 DEF StoreChunk, CompleteWindow, SweepWindows, Finish, Doing
<1>4. CASE todo' = todo
  <2>1. \A p : (Kept(p) => Kept(p)') /\ (Pending(p) => Pending(p)')
    BY <1>1, <1>4, KeptOn, PendingStays DEF DiskOnly, host
  <2> QED  BY <1>1, <1>4, <2>1, DiskGoes
<1>5. ASSUME \A j \in 1..Len(todo) : todo[j].op = "song" =>
                \E i \in 1..Len(todo') : todo'[i] = todo[j],
             \A i \in 1..Len(todo') : todo'[i].op # "complete" =>
                \E j \in 1..Len(todo) : todo'[i] = todo[j]
      PROVE  WholeInv'
  <2>1. \A p : (Kept(p) => Kept(p)') /\ (Pending(p) => Pending(p)')
    BY <1>1, <1>5, KeptOn, PendingStays DEF DiskOnly, host
  <2>2. Idle(todo) => Idle(todo')
    BY <1>5, IdleStays
  <2> QED  BY <1>1, <2>1, <2>2, DiskGoes
<1>6. CASE todo' = Tail(todo)
  <2>1. \A j \in 1..Len(todo) : todo[j].op = "song" =>
            \E i \in 1..Len(todo') : todo'[i] = todo[j]
    BY <1>1, <1>2, <1>6, StillToDo
  <2>2. \A i \in 1..Len(todo') : \E j \in 1..Len(todo) : todo'[i] = todo[j]
    BY <1>1, <1>6, StillToDo
  <2> QED  BY <1>5, <2>1, <2>2
<1>7. CASE todo[1].op = "window" /\ todo' = [todo EXCEPT ![1].op = "complete"]
  <2>1. Len(todo') = Len(todo) /\ \A i \in 1..Len(todo) : i # 1 => todo'[i] = todo[i]
    BY <1>2, <1>7
  <2>2. todo'[1].op = "complete"
    <3>1. 1 \in 1..Len(todo)
      BY <1>1, StillToDo
    <3>2. todo[1] \in WindowOps
      BY <1>1, <1>7, StillToDo DEF Ops, SongOps, PlainOps
    <3>3. todo'[1] = [todo[1] EXCEPT !.op = "complete"]
      BY <1>2, <1>7, <3>1
    <3> QED  BY <3>2, <3>3 DEF WindowOps
  <2>3. \A j \in 1..Len(todo) : todo[j].op = "song" =>
            \E i \in 1..Len(todo') : todo'[i] = todo[j]
    BY <1>2, <2>1
  <2>4. \A i \in 1..Len(todo') : todo'[i].op # "complete" =>
            \E j \in 1..Len(todo) : todo'[i] = todo[j]
    BY <2>1, <2>2
  <2> QED  BY <1>5, <2>3, <2>4
<1> QED  BY <1>3, <1>4, <1>6, <1>7

\* A song has frames.
LEMMA ContentIs ==
    ASSUME NEW song \in Songs
    PROVE  /\ LengthOf[song] \in Nat \ {0}
           /\ Content(song) # <<>> /\ \E f \in Range(Content(song)) : f.song = song
           /\ \A f \in Range(Content(song)) : f.song = song
           /\ Len(Content(song)) = LengthOf[song]
<1>1. LengthOf[song] \in Nat \ {0}
  BY SongsAssumption
<1>2. DOMAIN Content(song) = 1..LengthOf[song]
      /\ \A i \in 1..LengthOf[song] : Content(song)[i].song = song
  BY DEF Content
<1>3. 1 \in 1..LengthOf[song]
  BY <1>1
<1>4. Content(song)[1] \in Range(Content(song)) /\ Content(song)[1].song = song
  BY <1>2, <1>3 DEF Range
<1>5. \A f \in Range(Content(song)) : f.song = song
  BY <1>2 DEF Range
<1>6. Len(Content(song)) = LengthOf[song]
  BY <1>1, <1>2
<1>7. Content(song) # <<>>
  BY <1>1, <1>6
<1> QED  BY <1>1, <1>4, <1>5, <1>6, <1>7

\* What is stored of a song stays with its candidates.
LEMMA KeptWith ==
    ASSUME profile' = profile, torn' = torn, NEW p, Kept(p),
           \A e \in Candidates : (\E f \in Range(e.source) : f.song = p.song) => e \in songs',
           p.song \in Songs
    PROVE  Kept(p)'
<1>1. \A f \in Range(Content(p.song)) : f.song = p.song
  BY ContentIs
<1>2. \E f \in Range(Content(p.song)) : f.song = p.song
  BY ContentIs
<1>3. \A e \in Candidates : e \in songs' => e \in Candidates'
  BY DEF Candidates, Complete
<1>4. CASE Held(p.song)
  <2>1. PICK e \in Candidates : e.source = Content(p.song)
    BY <1>4 DEF Held
  <2>2. e \in Candidates'
    BY <1>2, <1>3, <2>1
  <2> QED  BY <2>1, <2>2 DEF Kept, Held
<1>5. CASE torn
  BY <1>5 DEF Kept, Spoiled
<1>6. CASE \E e \in Candidates :
            e.source # Content(p.song) /\ Range(e.source) \cap Range(Content(p.song)) # {}
  <2>1. PICK e \in Candidates :
            e.source # Content(p.song) /\ Range(e.source) \cap Range(Content(p.song)) # {}
    BY <1>6
  <2>2. PICK f \in Range(e.source) : f \in Range(Content(p.song))
    BY <2>1
  <2>3. e \in Candidates'
    BY <1>1, <1>3, <2>2
  <2> QED  BY <2>1, <2>3 DEF Kept, Spoiled
<1> QED  BY <1>4, <1>5, <1>6 DEF Kept, Spoiled

\* What is evicted is owed no more.
LEMMA WholePrune ==
    ASSUME ServeInv, WholeInv, Prune
    PROVE  WholeInv'
<1>1. /\ DiskOnly /\ todo # <<>> /\ TodoOK /\ Head(todo).op = "prune" /\ todo' = todo
  BY DEF Prune, Doing, ServeInv
<1>2. PICK e \in songs : songs' = songs \ {e} /\ owed' = IF Owes(e) THEN None ELSE owed
  BY DEF Prune, Oldest
<1>3. owed' = owed \/ owed' = None
  BY <1>2
<1>4. ~Idle(todo)
  BY <1>1, StillToDo DEF Idle
<1>5. ASSUME NEW p \in HeardLast'
      PROVE  (Kept(p) => Kept(p)') /\ (Pending(p) => Pending(p)' \/ Kept(p)')
  <2>1. owed' = owed /\ owed # None /\ p.song = owed.song /\ p \in HeardLast
    BY <1>3, <1>5 DEF HeardLast, PlayLast
  <2>2. ~Owes(e)
    BY <1>2, <2>1
  <2>3. ~\E f \in Range(e.source) : f.song = p.song
    BY <2>1, <2>2 DEF Owes
  <2>4. \A c \in Candidates : (\E f \in Range(c.source) : f.song = p.song) => c \in songs'
    BY <1>2, <2>3 DEF Candidates
  <2>5. p.song \in Songs
    BY <2>1 DEF WholeInv, PlayedOK
  <2>6. Kept(p) => Kept(p)'
    BY <1>1, <2>4, <2>5, KeptWith DEF DiskOnly
  <2>7. Pending(p) => Pending(p)'
    BY <1>1, PendingStays DEF DiskOnly, host
  <2> QED  BY <2>6, <2>7
<1> QED  BY <1>1, <1>3, <1>4, <1>5, DiskGoes

\* The songs are counted.
LEMMA WholeCount ==
    ASSUME ServeInv, WholeInv, Count
    PROVE  WholeInv'
<1>1. /\ DiskOnly /\ todo # <<>> /\ TodoOK /\ Head(todo).op = "prune" /\ todo' = Tail(todo)
      /\ songs' = songs /\ owed' = owed
  BY DEF Count, Doing, ServeInv, Finish
<1>2. ~Idle(todo)
  BY <1>1, StillToDo DEF Idle
<1>3. \A j \in 1..Len(todo) : todo[j].op = "song" =>
            \E i \in 1..Len(todo') : todo'[i] = todo[j]
  BY <1>1, StillToDo
<1>4. \A p : (Kept(p) => Kept(p)') /\ (Pending(p) => Pending(p)')
  BY <1>1, <1>3, KeptOn, PendingStays DEF DiskOnly, host
<1> QED  BY <1>1, <1>2, <1>4, DiskGoes

\* The entry of a builder of all of a song is that song.
LEMMA EntryIs ==
    ASSUME NEW b \in Builders(Imprint), NEW p, p.song \in Songs, WholeOf(b, p)
    PROVE  Whole(b) /\ Entry(b).source = Content(p.song) /\ Complete(Entry(b))
           /\ Entry(b).profile = profile
<1> DEFINE L == LengthOf[p.song]
<1>1. L \in Nat \ {0}
  BY ContentIs
<1>2. /\ b.first = 0 /\ b.length = L /\ Len(b.source) >= L /\ b.source \in Seq(Heard)
      /\ \A i \in 1..L : b.source[i] = [song |-> p.song, pos |-> i - 1]
  BY DEF WholeOf, Builders
<1>3. Whole(b)
  <2>1. 0 <= Prefix
    BY Geometry
  <2> QED  BY <1>2, <2>1 DEF Whole
<1>4. Entry(b).source = SubSeq(b.source, 1, L) /\ Complete(Entry(b)) /\ Entry(b).profile = profile
  BY <1>2 DEF Entry, Complete
<1> HIDE DEF L
<1>5. SubSeq(b.source, 1, L) = [i \in 1..L |-> [song |-> p.song, pos |-> i - 1]]
  <2>1. SubSeq(b.source, 1, L) = [i \in 1..L |-> b.source[i]]
    <3>1. Len(SubSeq(b.source, 1, L)) = L /\ SubSeq(b.source, 1, L) \in Seq(Heard)
          /\ \A i \in 1..L : SubSeq(b.source, 1, L)[i] = b.source[i]
      BY <1>1, <1>2
    <3> QED  BY <1>1, <3>1
  <2> QED  BY <1>2, <2>1
<1> QED  BY <1>3, <1>4, <1>5 DEF Content, L

\* What was pending of a song is stored, or cannot be.
LEMMA StoredIsKept ==
    ASSUME ServeInv, Catalogue, StoreSong, NEW p, p.song \in Songs, WholeOf(Head(todo).builder, p)
    PROVE  Kept(p)'
<1> DEFINE b == Head(todo).builder
           same == {e \in songs : SameSong(e, Entry(b))}
<1>1. /\ todo # <<>> /\ TodoOK /\ Head(todo).op = "song" /\ profile' = profile /\ torn' = torn
  BY DEF StoreSong, Doing, ServeInv, DiskOnly
<1>2. b \in Builders(Imprint)
  <2>1. Head(todo) \in SongOps(Imprint)
    BY <1>1, StillToDo DEF Ops, WindowOps, PlainOps
  <2> QED  BY <2>1 DEF SongOps
<1>3. Whole(b) /\ Entry(b).source = Content(p.song) /\ Complete(Entry(b))
      /\ Entry(b).profile = profile
  BY <1>2, EntryIs
<1>4. \/ songs' = songs \cup {Entry(b)}
      \/ songs' = songs /\ \E e \in same : Complete(e)
      \/ \E e \in same : ~Complete(e)
  BY <1>3 DEF StoreSong
<1>5. CASE songs' = songs \cup {Entry(b)}
  <2>1. Entry(b) \in Candidates'
    <3>1. PICK e : e = Entry(b)
      OBVIOUS
    <3>2. e \in songs' /\ Complete(e) /\ e.profile = profile'
      BY <1>1, <1>3, <1>5, <3>1
    <3>3. e \in Candidates'
      BY <3>2 DEF Candidates, Complete
    <3> QED  BY <3>1, <3>3
  <2>2. PICK e \in Candidates' : e.source = Content(p.song)
    BY <1>3, <2>1
  <2>3. Held(p.song)'
    BY <2>2 DEF Held, Content
  <2> QED  BY <2>3 DEF Kept
<1>6. CASE songs' = songs /\ \E e \in same : Complete(e)
  <2>1. PICK e \in same : Complete(e)
    BY <1>6
  <2>2. e.source = Content(p.song) /\ e.profile = profile /\ e \in songs
    BY <1>3, <2>1 DEF SameSong
  <2>3. e \in Candidates'
    BY <1>1, <1>6, <2>1, <2>2 DEF Candidates, Complete
  <2>4. Held(p.song)'
    BY <2>2, <2>3 DEF Held, Content
  <2> QED  BY <2>4 DEF Kept
<1>7. CASE \E e \in same : ~Complete(e)
  <2>1. torn
    BY <1>7 DEF Catalogue
  <2>2. torn'
    BY <1>1, <2>1
  <2> QED  BY <2>2 DEF Kept, Spoiled
<1> QED  BY <1>4, <1>5, <1>6, <1>7

\* A song is stored.
LEMMA WholeStoreSong ==
    ASSUME ServeInv, Catalogue, WholeInv, StoreSong
    PROVE  WholeInv'
<1> DEFINE b == Head(todo).builder
           same == {e \in songs : SameSong(e, Entry(b))}
<1>1. /\ DiskOnly /\ todo # <<>> /\ TodoOK /\ Head(todo).op = "song" /\ owed' = owed
      /\ profile' = profile /\ torn' = torn /\ at' = at
  BY DEF StoreSong, Doing, ServeInv, DiskOnly, host
<1>2. \/ ~Whole(b) /\ songs' = songs /\ todo' = Tail(todo)
      \/ Whole(b) /\ songs' = songs \cup {Entry(b)} /\ todo' = <<[op |-> "prune"]>> \o Tail(todo)
      \/ Whole(b) /\ songs' = songs /\ todo' = <<[op |-> "prune"]>> \o Tail(todo)
      \/ Whole(b) /\ torn /\ todo' = Tail(todo)
  BY DEF StoreSong, Finish, Catalogue
<1>3. Idle(todo) => Idle(todo') /\ songs' = songs
  <2> SUFFICES ASSUME Idle(todo) PROVE Idle(todo') /\ songs' = songs
    OBVIOUS
  <2>1. Len(b.source) < b.length
    BY <1>1, StillToDo DEF Idle
  <2>2. b \in Builders(Imprint)
    <3>1. Head(todo) \in SongOps(Imprint)
      BY <1>1, StillToDo DEF Ops, WindowOps, PlainOps
    <3> QED  BY <3>1 DEF SongOps
  <2>3. ~Whole(b)
    BY <2>1, <2>2 DEF Whole, Builders
  <2>4. songs' = songs /\ todo' = Tail(todo)
    BY <1>2, <2>3
  <2>5. Idle(todo')
    BY <1>1, <2>4, StillToDo, IdleStays
  <2> QED  BY <2>4, <2>5
<1>4. ASSUME NEW p, p.song \in Songs, Pending(p) PROVE Pending(p)' \/ Kept(p)'
  <2>1. PICK j \in 1..Len(todo) : todo[j].op = "song" /\ WholeOf(todo[j].builder, p)
    BY <1>4 DEF Pending
  <2>2. CASE j = 1
    <3>1. WholeOf(Head(todo).builder, p)
      BY <1>1, <2>1, <2>2, StillToDo
    <3> QED  BY <1>4, <3>1, StoredIsKept
  <2>3. CASE j # 1
    <3>1. /\ \E i \in 1..Len(Tail(todo)) : Tail(todo)[i] = todo[j]
          /\ \E i \in 1..Len(<<[op |-> "prune"]>> \o Tail(todo)) :
                (<<[op |-> "prune"]>> \o Tail(todo))[i] = todo[j]
      BY <1>1, <2>3, StillToDo
    <3>2. \E i \in 1..Len(todo') : todo'[i] = todo[j]
      BY <1>2, <3>1
    <3>3. PICK i \in 1..Len(todo') : todo'[i] = todo[j]
      BY <3>2
    <3>4. todo'[i].op = "song" /\ WholeOf(todo'[i].builder, p)
      BY <2>1, <3>3
    <3>5. Pending(p)'
      BY <1>1, <1>4, <3>4 DEF Pending
    <3> QED  BY <3>5
  <2> QED  BY <2>2, <2>3
<1>5. ASSUME NEW p, p.song \in Songs, Kept(p) PROVE Kept(p)'
  <2>1. CASE torn
    BY <1>1, <2>1 DEF Kept, Spoiled
  <2>2. CASE ~torn
    <3>1. \A e \in songs : e \in songs'
      BY <1>2, <2>2
    <3>2. \A e \in Candidates : (\E f \in Range(e.source) : f.song = p.song) => e \in songs'
      BY <3>1 DEF Candidates
    <3> QED  BY <1>1, <1>5, <3>2, KeptWith
  <2> QED  BY <2>1, <2>2
<1>6. ASSUME NEW p \in HeardLast' PROVE p.song \in Songs
  <2>1. p \in HeardLast
    BY <1>1, <1>6 DEF HeardLast, PlayLast
  <2>2. PlayOK(p)
    BY <2>1 DEF WholeInv, PlayedOK
  <2> QED  BY <2>2 DEF PlayOK, IsPlay
<1> QED  BY <1>1, <1>3, <1>4, <1>5, <1>6, DiskGoes

-----------------------------------------------------------------------------
(* The next window: what its anchors and its history keep.                 *)
\* The anchors that are kept are some of them.
LEMMA KeptSome ==
    ASSUME NEW list \in Seq(Anchors), NEW from \in Int, NEW to \in Int, NEW kept,
           kept = AnchorsForWindow(list, from, to)
    PROVE  \A i \in 1..Len(kept) : \E j \in 1..Len(list) : kept[i] = list[j]
<1>1. PICK m : m = FirstOf(list, from)
  OBVIOUS
<1>2. \A i \in 1..Len(kept) : m + i - 1 \in 1..Len(list) /\ kept[i] = list[m + i - 1]
  BY <1>1, KeptAre
<1> QED  BY <1>2

\* Who tells of a song at the start of a window is written beside it.
LEMMA SpokenKept ==
    ASSUME NEW list \in Seq(Anchors), Sorted(list), Timeline(list), NEW from \in Int,
           NEW to \in Int, from <= to, NEW p, IsPlay(p), from <= p.last, NEW r,
           Labels(list, p, r), Spoken(list, r, from),
           NEW kept, kept = AnchorsForWindow(list, from, to)
    PROVE  Spoken(kept, r, from)
<1> DEFINE t == ToldBy(list, from)
           u == ToldBy(kept, from)
<1>1. PICK i \in 1..Len(list) : list[i].rtp = r /\ list[i].frame <= from
  BY DEF Spoken
<1>2. /\ t \in 0..Len(list) /\ (t # 0 => list[t].frame <= from)
      /\ \A j \in 1..Len(list) : j > t => list[j].frame > from
  BY ToldByIs
<1>3. Len(list) \in Nat /\ \A j \in 1..Len(list) :
        list[j] \in Anchors /\ list[j].frame \in Nat /\ list[j].rtp \in Nat
  <2>1. \A j \in 1..Len(list) : list[j] \in Anchors
    OBVIOUS
  <2> QED  BY <2>1, AnchorIs DEF Anchors
<1>4. p.last \in Nat
  BY PlayIs
<1>5. i <= t /\ t \in 1..Len(list)
  <2> HIDE DEF t
  <2> QED  BY <1>1, <1>2, <1>3
<1>6. list[t].rtp >= r
  BY <1>1, <1>3, <1>5 DEF Timeline
<1>7. ~(list[t].rtp > r)
  <2>1. list[t].frame <= from /\ Tags(list[t], p, r)
    BY <1>2, <1>5, LabelsAre
  <2> HIDE DEF t
  <2>2. ~(list[t].frame > p.last)
    BY <1>3, <1>4, <1>5, <2>1
  <2> QED  BY <2>1, <2>2 DEF Tags
<1>8. r \in Nat
  BY <1>1, <1>3
<1>9. list[t].rtp = r
  <2> HIDE DEF t
  <2> QED  BY <1>3, <1>5, <1>6, <1>7, <1>8
<1>10. t # 0
  BY <1>2, <1>5
<1>11. u # 0 /\ kept[u] = list[t]
  BY <1>10, ToldByKept
<1>12. kept \in Seq(Anchors)
  BY AnchorsKept
<1>13. u \in 0..Len(kept)
  BY <1>12, ToldByIs
<1>14. u \in 1..Len(kept) /\ kept[u].rtp = r /\ kept[u].frame <= from
  BY <1>2, <1>9, <1>10, <1>11, <1>13
<1> HIDE DEF u
<1> QED  BY <1>14 DEF Spoken

\* A builder fits the anchors that are written as it fits all of them.
LEMMA FitsKept ==
    ASSUME NEW list \in Seq(Anchors), Sorted(list), NEW from \in Int, NEW to \in Int,
           from <= to, NEW b, Fits(b, list, from), NEW kept, kept = AnchorsForWindow(list, from, to)
    PROVE  Fits(b, kept, from)
<1>5. list \in Seq(Anchors) /\ from \in Int /\ to \in Int /\ kept = AnchorsForWindow(list, from, to)
  OBVIOUS
<1>1. \A i \in 1..Len(kept) : \E j \in 1..Len(list) : kept[i] = list[j]
  BY ONLY <1>5, KeptSome
<1>2. b.rtp <= b.revision
  BY DEF Fits
<1>3. ASSUME NEW i \in 1..Len(kept)
      PROVE  LET a == kept[i] IN
             /\ a.rtp >= b.rtp
             /\ a.rtp = b.rtp => a.revision >= b.revision
             /\ a.revision = b.revision =>
                b.trackEnd <= a.length /\ (b.streamEnd # from => b.trackEnd = a.length)
  <2>1. PICK j \in 1..Len(list) : kept[i] = list[j]
    BY <1>1
  <2> QED  BY <2>1 DEF Fits
<1>4. b.streamEnd = from =>
        LET t == ToldBy(kept, from) IN
        /\ t # 0
        /\ kept[t].frame < from /\ kept[t].rtp = b.rtp =>
                kept[t].pos + from - kept[t].frame = b.trackEnd
  <2> SUFFICES ASSUME b.streamEnd = from
               PROVE  LET t == ToldBy(kept, from) IN
                      /\ t # 0
                      /\ kept[t].frame < from /\ kept[t].rtp = b.rtp =>
                            kept[t].pos + from - kept[t].frame = b.trackEnd
    OBVIOUS
  <2> DEFINE t == ToldBy(list, from)
             u == ToldBy(kept, from)
  <2>1. /\ t # 0
        /\ list[t].frame < from /\ list[t].rtp = b.rtp =>
                list[t].pos + from - list[t].frame = b.trackEnd
    BY DEF Fits
  <2>2. u # 0 /\ kept[u] = list[t]
    BY <2>1, ToldByKept
  <2> QED  BY <2>1, <2>2
<1> QED  BY <1>2, <1>3, <1>4 DEF Fits

\* What the next window begins with.
LEMMA HopMoves ==
    ASSUME HostOK, Captured, NextWindow, UNCHANGED profile
    PROVE  /\ HostOK' /\ todo = <<>> /\ at \in Nat /\ Now \in Nat /\ Hop \in Nat /\ Hop >= 1
           /\ at' = at + Hop /\ Now' = Now /\ at + Hop < Now /\ seq' = seq + 1
           /\ Now = at + Window /\ Len(stream) = Window
           /\ told' = told /\ head' = head /\ named' = named /\ revision' = revision
           /\ torn' = torn /\ Imprint' = Imprint /\ Garble' = Garble
           /\ anchors \in Seq(Anchors) /\ Sorted(anchors)
           /\ anchors' = AnchorsForWindow(anchors, at + Hop, Now)
           /\ \A f \in (at + Hop)..Now : FrameAt(f)' = FrameAt(f)
<1>0. Imprint' = Imprint /\ Garble' = Garble
  BY SameImprint DEF NextWindow
<1>1. /\ HostOK' /\ at' = at + Hop /\ seq' = seq + 1 /\ Len(stream') = Overlap
      /\ \A i \in 1..Overlap : stream'[i] = stream[Hop + i]
  BY WindowTaken
<1>2. /\ anchors' = AnchorsForWindow(anchors, at + Hop, Now)
      /\ UNCHANGED <<head, told, revision, named, torn>> /\ Len(stream) = Window /\ todo = <<>>
  BY DEF NextWindow, Captured
<1>3. /\ Hop \in Nat /\ Hop >= 1 /\ Overlap \in Nat /\ Overlap >= 1 /\ Window = Hop + Overlap
      /\ at \in Nat /\ Now = at + Len(stream) /\ Now \in Nat
      /\ Sorted(anchors) /\ anchors \in Seq(Anchors)
  BY HostIs, Geometry DEF HostOK
<1>4. Now' = Now /\ Now = at + Hop + Overlap /\ at + Hop < Now
  <2>1. Now' = at + Hop + Overlap
    BY <1>1 DEF Now
  <2>2. Now = at + (Hop + Overlap)
    BY <1>2, <1>3
  <2> QED  BY <1>3, <2>1, <2>2
<1>5. ASSUME NEW f \in (at + Hop)..Now PROVE FrameAt(f)' = FrameAt(f)
  <2>1. f \in Int /\ at + Hop <= f /\ f <= Now
    BY <1>3
  <2>2. CASE f < Now
    <3>1. FrameAt(f) = stream[f - at + 1]
      BY <2>2 DEF FrameAt
    <3>2. FrameAt(f)' = stream'[f - at' + 1]
      BY <1>4, <2>2 DEF FrameAt
    <3>3. f - at' + 1 \in 1..Overlap /\ Hop + (f - at' + 1) = f - at + 1
      BY <1>1, <1>3, <1>4, <2>1, <2>2
    <3> QED  BY <1>1, <3>1, <3>2, <3>3
  <2>3. CASE ~(f < Now)
    BY <1>2, <1>4, <2>3 DEF FrameAt
  <2> QED  BY <2>2, <2>3
<1> QED  BY <1>0, <1>1, <1>2, <1>3, <1>4, <1>5

\* A lookup leaves what is stored of a song.
LEMMA KeptLooked ==
    ASSUME CachesOK, seq \in Nat, profile' = profile, torn' = torn,
           songs' = songs \/ \E touched, served : songs' = LookedUp(touched, served),
           NEW p, Kept(p)
    PROVE  Kept(p)'
<1>1. CASE songs' = songs
  BY <1>1, KeptOn
<1>2. CASE \E touched, served : songs' = LookedUp(touched, served)
  <2>1. PICK touched, served : songs' = LookedUp(touched, served)
    BY <1>2
  <2>2. ASSUME NEW e \in Candidates PROVE \E c \in Candidates' : c.source = e.source
    <3>1. e \in SongEntries(Garble) /\ Complete(e) /\ e.profile = profile /\ e \in songs
      BY <2>2 DEF Candidates, CachesOK
    <3>2. e \in {f \in songs : ~(Listed(f) /\ ~Complete(f) /\ f.profile = profile)}
      BY <3>1
    <3> DEFINE c == IF e \in served THEN [e EXCEPT !.used = 2 * seq + 1]
                    ELSE IF e \in touched THEN [e EXCEPT !.used = 2 * seq] ELSE e
    <3>3. c \in songs'
      BY <2>1, <3>2 DEF LookedUp
    <3>4. c.source = e.source /\ c.state = e.state /\ c.profile = e.profile
      BY <3>1 DEF SongEntries
    <3> HIDE DEF c
    <3>5. c \in Candidates'
      BY <3>1, <3>3, <3>4 DEF Candidates, Complete
    <3> QED  BY <3>4, <3>5
  <2>3. CASE Held(p.song)
    <3>1. PICK e \in Candidates : e.source = Content(p.song)
      BY <2>3 DEF Held
    <3>2. PICK c \in Candidates' : c.source = e.source
      BY <2>2
    <3>3. Held(p.song)'
      BY <3>1, <3>2 DEF Held, Content
    <3> QED  BY <3>3 DEF Kept
  <2>4. CASE torn
    BY <2>4 DEF Kept, Spoiled
  <2>5. CASE \E e \in Candidates :
            e.source # Content(p.song) /\ Range(e.source) \cap Range(Content(p.song)) # {}
    <3>1. PICK e \in Candidates :
            e.source # Content(p.song) /\ Range(e.source) \cap Range(Content(p.song)) # {}
      BY <2>5
    <3>2. PICK c \in Candidates' : c.source = e.source
      BY <2>2
    <3>3. Spoiled(p.song)'
      BY <3>1, <3>2 DEF Spoiled, Content
    <3> QED  BY <3>3 DEF Kept
  <2> QED  BY <2>3, <2>4, <2>5 DEF Kept, Spoiled
<1> QED  BY <1>1, <1>2

\* The window moves on.
Moves == HostOK /\ Captured /\ NextWindow /\ profile' = profile

\* A play stays one when the window moves on.
LEMMA PlayOKHop ==
    ASSUME Moves, NEW p, PlayOK(p)
    PROVE  PlayOK(p)'
<1>1. /\ at \in Nat /\ Now \in Nat /\ Hop \in Nat /\ at' = at + Hop /\ Now' = Now
      /\ \A f \in (at + Hop)..Now : FrameAt(f)' = FrameAt(f)
  BY HopMoves DEF Moves
<1>2. IsPlay(p) /\ p.last <= Now /\ p.last \in Nat
  BY PlayIs DEF PlayOK
<1>3. ASSUME NEW f \in at'..p.last, p.from <= f PROVE Is(FrameAt(f)', p, f)
  <2>1. f \in (at + Hop)..Now /\ f \in at..p.last
    BY <1>1, <1>2
  <2>2. Is(FrameAt(f), p, f)
    BY <1>3, <2>1 DEF PlayOK, Sounding
  <2> QED  BY <1>1, <2>1, <2>2
<1>4. Sounding(p)'
  BY <1>3 DEF Sounding
<1> QED  BY <1>1, <1>2, <1>4 DEF PlayOK

\* The last anchor is kept.
LEMMA LastHop ==
    ASSUME Moves
    PROVE  anchors # <<>> => anchors' # <<>> /\ Last(anchors') = Last(anchors)
<1> DEFINE from == at + Hop
<1>1. /\ from \in Int /\ Now \in Int /\ from <= Now /\ HostOK' /\ Now' = Now
      /\ anchors \in Seq(Anchors) /\ Sorted(anchors)
      /\ anchors' = AnchorsForWindow(anchors, from, Now)
  BY HopMoves DEF Moves
<1>2. /\ \A i \in 1..Len(anchors) : anchors[i].frame <= Now
      /\ \A i \in 1..Len(anchors') : anchors'[i].frame <= Now
      /\ anchors' \in Seq(Anchors)
  <2>1. \A i \in 1..Len(anchors') : anchors'[i].frame <= Now'
    BY <1>1 DEF HostOK
  <2> QED  BY <1>1, <2>1 DEF HostOK, Moves
<1> HIDE DEF from
<1>3. ToldBy(anchors, Now) = Len(anchors) /\ ToldBy(anchors', Now) = Len(anchors')
  BY <1>1, <1>2, ToldByLast
<1> SUFFICES ASSUME anchors # <<>>
             PROVE  anchors' # <<>> /\ Last(anchors') = Last(anchors)
  OBVIOUS
<1>4. Len(anchors) # 0
  BY <1>1
<1>5. Len(anchors') # 0 /\ anchors'[Len(anchors')] = anchors[Len(anchors)]
  BY <1>1, <1>3, <1>4, ToldByKept
<1> QED  BY <1>2, <1>5 DEF Last

\* And so is the revision of the song at hand.
LEMMA CurrentHop ==
    ASSUME Moves, NEW r, Current(r)
    PROVE  Current(r)'
<1>1. told' = told /\ revision' = revision
  BY HopMoves DEF Moves
<1>2. anchors # <<>> => anchors' # <<>> /\ Last(anchors') = Last(anchors)
  BY LastHop
<1> QED  BY <1>1, <1>2 DEF Current

\* Fewer anchors tell truly what more did.
LEMMA AnchorsHop ==
    ASSUME Moves, Timeline(anchors)
    PROVE  /\ Timeline(anchors') /\ Timeline(Annotation) /\ Annotation \in Seq(Anchors)
           /\ Sorted(Annotation)
           /\ \A p, r : Labels(anchors, p, r) =>
                    Labels(anchors', p, r) /\ Labels(Annotation, p, r)
           /\ \A i \in 1..Len(anchors') : \E j \in 1..Len(anchors) : anchors'[i] = anchors[j]
           /\ \A i \in 1..Len(Annotation) : \E j \in 1..Len(anchors) : Annotation[i] = anchors[j]
<1> DEFINE from == at + Hop
<1>1. /\ from \in Int /\ Now \in Int /\ anchors \in Seq(Anchors) /\ at \in Int
      /\ anchors' = AnchorsForWindow(anchors, from, Now)
      /\ Annotation = AnchorsForWindow(anchors, at, Now)
  BY HopMoves DEF Moves, Annotation
<1> HIDE DEF from
<1>2. /\ Timeline(anchors') /\ \A p, r : Labels(anchors, p, r) => Labels(anchors', p, r)
  BY <1>1, KeptTell
<1>3. /\ Timeline(Annotation) /\ \A p, r : Labels(anchors, p, r) => Labels(Annotation, p, r)
  BY <1>1, KeptTell
<1>4. \A i \in 1..Len(anchors') : \E j \in 1..Len(anchors) : anchors'[i] = anchors[j]
  BY ONLY <1>1, KeptSome
<1>6. \A i \in 1..Len(Annotation) : \E j \in 1..Len(anchors) : Annotation[i] = anchors[j]
  <2>1. PICK kept : kept = Annotation
    OBVIOUS
  <2>2. /\ anchors \in Seq(Anchors) /\ at \in Int /\ Now \in Int
        /\ kept = AnchorsForWindow(anchors, at, Now)
    BY <1>1, <2>1
  <2>3. \A i \in 1..Len(kept) : \E j \in 1..Len(anchors) : kept[i] = anchors[j]
    BY ONLY <2>2, KeptSome
  <2> QED  BY <2>1, <2>3
<1>5. Annotation \in Seq(Anchors) /\ Sorted(Annotation)
  BY AnnotationOK DEF Moves
<1> QED  BY <1>2, <1>3, <1>4, <1>5, <1>6

\* The anchor that will announce a song, or has, is kept if it is in the next window.
LEMMA ForetoldHop ==
    ASSUME Moves, Timeline(anchors), NEW p, IsPlay(p), NEW r \in Nat, Labels(anchors, p, r),
           Foretold(p, r),
           \A i \in 1..Len(anchors) : anchors[i].rtp = r => at + Hop <= anchors[i].frame
    PROVE  Foretold(p, r)' /\ \A i \in 1..Len(anchors') :
                                anchors'[i].rtp = r => at + Hop <= anchors'[i].frame
<1> DEFINE from == at + Hop
<1>1. /\ from \in Int /\ Now \in Int /\ anchors \in Seq(Anchors) /\ Sorted(anchors)
      /\ told' = told /\ Now' = Now /\ HostOK
      /\ anchors' = AnchorsForWindow(anchors, from, Now)
  BY HopMoves DEF Moves
<1>2. \A i \in 1..Len(anchors) : anchors[i].rtp = r => from <= anchors[i].frame
  OBVIOUS
<1>3. \A i \in 1..Len(anchors') : \E j \in 1..Len(anchors) : anchors'[i] = anchors[j]
  BY AnchorsHop
<1>4. \A i \in 1..Len(anchors') : anchors'[i].rtp = r => from <= anchors'[i].frame
  BY <1>2, <1>3
<1> HIDE DEF from
<1>5. Foretold(p, r)'
  <2>1. CASE \E i \in 1..Len(anchors) :
            anchors[i].rtp = r /\ anchors[i].frame - p.from <= HistoryHops * Hop
    <3>1. PICK i \in 1..Len(anchors) :
            anchors[i].rtp = r /\ anchors[i].frame - p.from <= HistoryHops * Hop
      BY <2>1
    <3>2. from <= anchors[i].frame /\ anchors[i].frame <= Now
      BY <1>1, <1>2, <3>1 DEF HostOK
    <3>3. \E j \in 1..Len(anchors') : anchors'[j].rtp = r /\ anchors'[j].frame = anchors[i].frame
      <4>1. Written(anchors', anchors, from, Now)
        BY <1>1 DEF Written
      <4> QED  BY <1>1, <3>1, <3>2, <4>1, LabelSurvives
    <3>4. PICK j \in 1..Len(anchors') : anchors'[j].rtp = r /\ anchors'[j].frame = anchors[i].frame
      BY <3>3
    <3>5. anchors'[j].rtp = r /\ anchors'[j].frame - p.from <= HistoryHops * Hop
      BY <3>1, <3>4
    <3> QED  BY <3>5 DEF Foretold
  <2>2. CASE p.last = Now /\ ~told /\ p.last - p.from <= HistoryHops * Hop
    <3>1. p.last = Now' /\ ~told' /\ p.last - p.from <= HistoryHops * Hop
      BY <1>1, <2>2
    <3> QED  BY <3>1 DEF Foretold
  <2> QED  BY <2>1, <2>2 DEF Foretold
<1> QED  BY <1>4, <1>5 DEF from

\* A song that begins after the hop goes on waiting.
LEMMA BeyondWaits ==
    ASSUME Moves, Timeline(anchors), NEW p, PlayOK(p), NEW r \in Nat, Labels(anchors, p, r),
           Waiting(p, r), at + Hop <= p.from,
           r \notin assembly'.completed, assembly'.builder # None => assembly'.builder.rtp < r
    PROVE  Waiting(p, r)'
<1>1. /\ at' = at + Hop /\ at \in Nat /\ Hop \in Nat /\ anchors \in Seq(Anchors)
  BY HopMoves DEF Moves
<1>2. IsPlay(p) /\ p.from \in Nat /\ p.last \in Nat /\ p.from <= p.last
  BY PlayIs DEF PlayOK
<1>3. \A i \in 1..Len(anchors) : anchors[i].rtp = r => at + Hop <= anchors[i].frame
  <2>1. ASSUME NEW i \in 1..Len(anchors), anchors[i].rtp = r PROVE at + Hop <= anchors[i].frame
    <3>1. anchors[i].frame = p.from + anchors[i].pos
      BY <2>1, LabelsAre DEF Tags
    <3>2. anchors[i].pos \in Nat /\ anchors[i].frame \in Nat
      BY <1>1, AnchorIs DEF Anchors
    <3> QED  BY <1>1, <1>2, <3>1, <3>2
  <2> QED  BY <2>1
<1>4. Foretold(p, r)
  BY DEF Waiting
<1>5. Foretold(p, r)' /\ \A i \in 1..Len(anchors') :
                                anchors'[i].rtp = r => at + Hop <= anchors'[i].frame
  BY <1>2, <1>3, <1>4, ForetoldHop
<1>6. at' <= p.last /\ ~(p.from < at') /\ p.from >= Hop
  BY <1>1, <1>2
<1> QED  BY <1>1, <1>5, <1>6 DEF Waiting

\* The songs that are heard when a window is done with.
LEMMA HeardHop ==
    ASSUME Moves
    PROVE  /\ begun' = begun => HeardNow' = HeardNow
           /\ owed' = owed => HeardLast' = HeardLast
           /\ Disturbed /\ HostOK /\ WholeInv =>
                /\ \A p \in HeardNow' : p \in HeardNow /\ at + Hop <= p.from
                /\ \A p \in HeardLast' : p \in HeardLast /\ owed' = owed /\ p.last < at
<1>1. Now' = Now /\ head' = head /\ at \in Nat /\ Hop \in Nat
  BY HopMoves DEF Moves
<1>2. begun' = begun => HeardNow' = HeardNow
  BY <1>1 DEF HeardNow, PlayNow, Never
<1>3. owed' = owed => HeardLast' = HeardLast
  BY DEF HeardLast, PlayLast
<1>4. ASSUME Disturbed, WholeInv, NEW p \in HeardNow' PROVE p \in HeardNow /\ at + Hop <= p.from
  <2>1. begun' = begun /\ ~(begun < at + Hop)
    BY <1>4 DEF Disturbed, HeardNow, Never
  <2>2. p \in HeardNow
    BY <1>2, <1>4, <2>1
  <2>3. p.from = begun
    BY <2>2 DEF HeardNow, PlayNow
  <2>4. p.from \in Nat
    BY <1>4, <2>2, PlayIs DEF WholeInv, PlayingOK, PlayOK
  <2> QED  BY <1>1, <2>1, <2>2, <2>3, <2>4
<1>5. ASSUME Disturbed, WholeInv, NEW p \in HeardLast'
      PROVE  p \in HeardLast /\ owed' = owed /\ p.last < at
  <2>1. owed' = owed /\ ~(owed.until > at)
    BY <1>5 DEF Disturbed, HeardLast
  <2>2. p \in HeardLast
    BY <1>3, <1>5, <2>1
  <2>3. p.last = owed.until - 1
    BY <2>2 DEF HeardLast, PlayLast
  <2>4. owed.until \in Nat
    BY <1>5, <2>2 DEF WholeInv, PlayedOK
  <2> QED  BY <1>1, <2>1, <2>2, <2>3, <2>4
<1> QED  BY <1>2, <1>3, <1>4, <1>5

\* The worker is done with a window: what becomes of the songs that are heard.
LEMMA WholeHop ==
    ASSUME Moves, WholeInv, AssemblyFollows',
           \A p \in HeardNow' : p \in HeardNow /\ \A r \in Nat :
                PlayOK(p) /\ PlayingWell(p, r) =>
                    Waiting(p, r)' \/ Building(p, r)' \/ (Kept(p)' /\ Harmless(p)'),
           \A p \in HeardLast' : p \in HeardLast /\ owed' = owed /\ \A r \in Nat :
                PlayOK(p) /\ r <= revision /\ PlayedWell(p, r) =>
                    Waiting(p, r)' \/ Building(p, r)' \/ Kept(p)' \/ Pending(p)'
    PROVE  WholeInv'
<1>1. /\ told' = told /\ head' = head /\ named' = named /\ revision' = revision /\ Now' = Now
      /\ revision \in Nat
  BY HopMoves, HostIs DEF Moves
<1>2. Timeline(anchors) /\ (told => head.pos # 0) /\ PlayingOK /\ PlayedOK
  BY DEF WholeInv
<1>3. Timeline(anchors') /\ \A p, r : Labels(anchors, p, r) => Labels(anchors', p, r)
  BY <1>2, AnchorsHop
<1>4. ASSUME NEW p \in HeardNow'
      PROVE  PlayOK(p)' /\ named' /\ \E r \in 0..(revision' + 1) : PlayingWell(p, r)'
  <2>1. p \in HeardNow
    OBVIOUS
  <2>2. PlayOK(p) /\ named
    BY <1>2, <2>1 DEF PlayingOK
  <2>3. PICK r \in 0..(revision + 1) : PlayingWell(p, r)
    BY <1>2, <2>1 DEF PlayingOK
  <2>4. r \in Nat
    BY <1>1
  <2>5. Waiting(p, r)' \/ Building(p, r)' \/ (Kept(p)' /\ Harmless(p)')
    BY <2>2, <2>3, <2>4
  <2>6. Current(r)'
    BY <2>3, CurrentHop DEF PlayingWell
  <2>7. Labels(anchors', p, r)
    BY <1>3, <2>3 DEF PlayingWell
  <2>8. PlayOK(p)'
    BY <2>2, PlayOKHop
  <2>9. PlayingWell(p, r)'
    BY <2>5, <2>6, <2>7 DEF PlayingWell
  <2> QED  BY <1>1, <2>2, <2>3, <2>8, <2>9
<1>5. ASSUME NEW p \in HeardLast'
      PROVE  /\ owed' \in [song : Songs, until : Nat]
             /\ PlayOK(p)' /\ p.last + 1 = p.from + LengthOf[p.song] /\ p.last < Now'
             /\ told' /\ anchors' # <<>> => Last(anchors').frame > p.last
             /\ \E r \in 0..(revision' + 1) : PlayedWell(p, r)'
  <2>1. p \in HeardLast /\ owed' = owed
    OBVIOUS
  <2>2. /\ owed \in [song : Songs, until : Nat]
        /\ PlayOK(p) /\ p.last + 1 = p.from + LengthOf[p.song] /\ p.last < Now
        /\ told /\ anchors # <<>> => Last(anchors).frame > p.last
    BY <1>2, <2>1 DEF PlayedOK
  <2>3. PICK r \in 0..(revision + 1) : PlayedWell(p, r)
    BY <1>2, <2>1 DEF PlayedOK
  <2>4. r \in Nat /\ r <= revision
    BY <1>1, <2>3 DEF PlayedWell
  <2>5. Waiting(p, r)' \/ Building(p, r)' \/ Kept(p)' \/ Pending(p)'
    BY <2>2, <2>3, <2>4
  <2>6. Labels(anchors', p, r)
    BY <1>3, <2>3 DEF PlayedWell
  <2>7. PlayOK(p)'
    BY <2>2, PlayOKHop
  <2>8. PlayedWell(p, r)'
    BY <1>1, <2>4, <2>5, <2>6 DEF PlayedWell
  <2>9. told' /\ anchors' # <<>> => Last(anchors').frame > p.last
    <3>1. CASE anchors = <<>>
      <4>1. anchors' = <<>>
        <5>1. \A i \in 1..Len(anchors') : \E j \in 1..Len(anchors) : anchors'[i] = anchors[j]
          BY <1>2, AnchorsHop
        <5>2. anchors' \in Seq(Anchors)
          BY HopMoves DEF Moves, HostOK
        <5>3. 1..Len(anchors) = {}
          BY <3>1
        <5>4. Len(anchors') \in Nat /\ ~(1 \in 1..Len(anchors'))
          BY <5>1, <5>2, <5>3
        <5> QED  BY <5>2, <5>4
      <4> QED  BY <4>1
    <3>2. CASE anchors # <<>>
      BY <1>1, <2>2, <3>2, LastHop
    <3> QED  BY <3>1, <3>2
  <2> QED  BY <1>1, <2>1, <2>2, <2>3, <2>7, <2>8, <2>9
<1> QED  BY <1>1, <1>2, <1>3, <1>4, <1>5 DEF WholeInv, PlayingOK, PlayedOK

\* A window that is not assembled, of which no frame is heard any more: the songs that begin
\* after its hop go on waiting.
LEMMA WholeDisturbed ==
    ASSUME Moves, WholeInv, CachesOK, AssemblyFollows', Disturbed,
           assembly'.builder = None, assembly'.completed = assembly.completed,
           songs' = songs \/ \E touched, served : songs' = LookedUp(touched, served)
    PROVE  WholeInv'
<1>1. /\ HostOK /\ todo = <<>> /\ torn' = torn /\ profile' = profile /\ at \in Nat /\ Hop \in Nat
      /\ Hop >= 1 /\ seq \in Nat
  BY HopMoves DEF Moves, HostOK
<1>2. /\ \A p \in HeardNow' : p \in HeardNow /\ at + Hop <= p.from
      /\ \A p \in HeardLast' : p \in HeardLast /\ owed' = owed /\ p.last < at
  BY <1>1, HeardHop
<1>3. Timeline(anchors)
  BY DEF WholeInv
<1>4. ASSUME NEW p \in HeardNow', NEW r \in Nat, PlayOK(p), PlayingWell(p, r)
      PROVE  Waiting(p, r)'
  <2>1. at + Hop <= p.from /\ p.from \in Nat
    BY <1>2, <1>4, PlayIs DEF PlayOK
  <2>2. ~(p.from < at)
    BY <1>1, <2>1
  <2>3. Waiting(p, r) /\ Labels(anchors, p, r)
    BY <1>4, <2>2 DEF PlayingWell, Building, Harmless
  <2>4. r \notin assembly'.completed
    BY <2>3 DEF Waiting
  <2> QED  BY <1>3, <1>4, <2>1, <2>3, <2>4, BeyondWaits
<1>5. ASSUME NEW p \in HeardLast', NEW r \in Nat, PlayOK(p), PlayedWell(p, r)
      PROVE  Kept(p)'
  <2>1. p.last < at /\ p.last \in Nat
    BY <1>2, <1>5, PlayIs DEF PlayOK
  <2>2. ~(at <= p.last)
    BY <1>1, <2>1
  <2>3. Kept(p)
    BY <1>1, <1>5, <2>2 DEF PlayedWell, Waiting, Building, Pending
  <2> QED  BY <1>1, <2>3, KeptLooked
<1> QED  BY <1>2, <1>4, <1>5, WholeHop

\* The source is published in place of stems.
LEMMA WholeFallBack == ServeInv /\ WholeInv /\ FallBack => WholeInv'
<1> SUFFICES ASSUME ServeInv, WholeInv, FallBack
             PROVE  WholeInv'
  OBVIOUS
<1>1. /\ HostOK /\ CachesOK /\ assembly \in Assemblies(Imprint) /\ assembly.last < seq
  BY DEF ServeInv, AssemblyOK
<1>2. /\ Captured /\ NextWindow /\ profile' = profile /\ Disturbed /\ NoSong(TRUE)
      /\ assembly' = [assembly EXCEPT !.builder = None, !.tail = <<>>]
  BY DEF FallBack, NextWindow
<1>3. Moves
  BY <1>1, <1>2 DEF Moves
<1>4. /\ assembly'.builder = None /\ assembly'.completed = assembly.completed
      /\ assembly'.history = assembly.history /\ assembly'.last = assembly.last
      /\ assembly.last \in Nat
  BY <1>1, <1>2 DEF Assemblies
<1>5. revision' = revision /\ seq' = seq + 1 /\ seq \in Nat
  BY <1>2, <1>1 DEF NextWindow, HostOK
<1>6. AssemblyFollows'
  <2>1. /\ assembly.completed \subseteq 0..revision
        /\ assembly.last = 0 => assembly.history = <<>>
        /\ Len(assembly.history) <= HistoryHops
    BY DEF WholeInv, AssemblyFollows
  <2>2. assembly'.last # seq' - 1
    BY <1>1, <1>4, <1>5
  <2>3. ~Stale' => assembly.history = <<>>
    <3>1. CASE assembly.last = 0
      BY <2>1, <3>1
    <3>2. CASE assembly.last # 0
      <4>1. assembly'.last # 0 /\ seq' # assembly'.last + 1
        BY <1>1, <1>4, <1>5, <3>2
      <4>2. Gapped(assembly', seq')
        BY <4>1 DEF Gapped
      <4> QED  BY <4>2 DEF Stale, Stales
    <3> QED  BY <3>1, <3>2
  <2>4. assembly.history = <<>> => HistoryFollows(assembly.history, at', {0})
    BY DEF HistoryFollows
  <2> QED  BY <1>4, <1>5, <2>1, <2>2, <2>3, <2>4 DEF AssemblyFollows
<1>7. songs' = songs \/ \E touched, served : songs' = LookedUp(touched, served)
  BY <1>2 DEF NoSong
<1> QED  BY <1>1, <1>2, <1>3, <1>4, <1>6, <1>7, WholeDisturbed

\* The window's sidecar cannot be trusted.
LEMMA WholeUnannotated ==
    ASSUME Moves, WholeInv, CachesOK, AssemblyOK, Disturbed, assembly' = Unannotated(assembly, seq),
           songs' = songs \/ \E touched, served : songs' = LookedUp(touched, served)
    PROVE  WholeInv'
<1>1. /\ HostOK /\ assembly \in Assemblies(Imprint) /\ seq \in Nat \ {0}
      /\ revision' = revision /\ seq' = seq + 1
  BY HopMoves DEF AssemblyOK, Moves, HostOK
<1>2. assembly' = [assembly EXCEPT !.builder = None, !.tail = <<>>, !.history = <<>>, !.last = seq]
  BY <1>1 DEF Unannotated, Dropped, Assemblies
<1>3. /\ assembly'.builder = None /\ assembly'.completed = assembly.completed
      /\ assembly'.history = <<>> /\ assembly'.last = seq
  BY <1>1, <1>2 DEF Assemblies
<1>4. AssemblyFollows'
  <2>1. assembly.completed \subseteq 0..revision
    BY DEF WholeInv, AssemblyFollows
  <2>2. HistoryFollows(<<>>, at', {0}) /\ Len(<<>>) <= HistoryHops
    BY Geometry DEF HistoryFollows
  <2> QED  BY <1>1, <1>3, <2>1, <2>2 DEF AssemblyFollows
<1> QED  BY <1>3, <1>4, WholeDisturbed

-----------------------------------------------------------------------------
(* A window that is not assembled, but cut out of songs.                   *)
\* Of a song that is heard in a window cut out of songs, a frame is stored.
LEMMA CutIsKept ==
    ASSUME HostOK, CachesOK, Captured, Covers(Segments, at, Now), NEW choice \in Matches,
           NEW p, PlayOK(p), at <= p.last, p.from < Now
    PROVE  Kept(p)
<1> DEFINE f == IF p.from > at THEN p.from ELSE at
<1>1. /\ at \in Nat /\ Now \in Nat /\ Len(stream) = Window /\ Now = at + Window
      /\ Window \in Nat \ {0}
  BY HostIs, Geometry DEF Captured
<1>2. /\ p.song \in Songs /\ p.from \in Nat /\ p.last \in Nat /\ p.from <= p.last
      /\ p.last - p.from < LengthOf[p.song] /\ LengthOf[p.song] \in Nat
  BY PlayIs DEF PlayOK, IsPlay
<1>3. f \in at..p.last /\ p.from <= f /\ f < Now /\ f - at + 1 \in 1..Window
      /\ f - p.from + 1 \in 1..LengthOf[p.song]
  <2>1. f \in Int /\ at <= f /\ p.from <= f /\ f <= p.last /\ f < Now
    BY <1>1, <1>2
  <2> HIDE DEF f
  <2>2. f - at + 1 \in 1..Window
    BY <1>1, <2>1
  <2>3. f - p.from + 1 \in 1..LengthOf[p.song]
    BY <1>2, <2>1
  <2> QED  BY <1>1, <1>2, <2>1, <2>2, <2>3
<1> HIDE DEF f
<1>4. PICK x : x = stream[f - at + 1]
  OBVIOUS
<1>5. x = [song |-> p.song, pos |-> f - p.from]
  BY <1>3, <1>4 DEF PlayOK, Sounding, Is, FrameAt
<1>6. x \in Range(Content(p.song))
  <2>1. PICK n : n = f - p.from + 1
    OBVIOUS
  <2>2. n \in 1..LengthOf[p.song]
    BY ONLY <1>3, <2>1
  <2>3. Content(p.song)[n] = [song |-> p.song, pos |-> n - 1]
    BY ONLY <2>2 DEF Content
  <2>4. n - 1 = f - p.from
    <3>1. f \in Int /\ p.from \in Int
      BY <1>1, <1>2, <1>3
    <3> QED  BY ONLY <2>1, <3>1
  <2>5. DOMAIN Content(p.song) = 1..LengthOf[p.song]
    BY DEF Content
  <2>6. Content(p.song)[n] = x
    BY ONLY <1>5, <2>3, <2>4
  <2> QED  BY ONLY <2>2, <2>5, <2>6 DEF Range
<1>7. PICK e \in Candidates : \E n \in 1..e.length : e.source[n] = x
  <2>1. \A i \in 1..Window : \E e \in Candidates : \E n \in 1..e.length :
                /\ Cut(choice)[i] = e.stems[n] /\ e.source[n] = stream[i]
                /\ e.stems[n] = <<stream[i], profile>> \/ e.stems[n] \in Garble
    BY CutFrames
  <2>2. \E e \in Candidates : \E n \in 1..e.length : e.source[n] = x
    BY <1>3, <1>4, <2>1
  <2> QED  BY <2>2
<1>8. e.source \in Seq(Heard) /\ Len(e.source) = e.length
  BY DEF Candidates, CachesOK, SongEntries
<1>9. x \in Range(e.source)
  BY <1>7, <1>8 DEF Range
<1>10. CASE e.source = Content(p.song)
  BY <1>10 DEF Kept, Held
<1>11. CASE e.source # Content(p.song)
  <2>1. Range(e.source) \cap Range(Content(p.song)) # {}
    BY <1>6, <1>9
  <2> QED  BY <1>11, <2>1 DEF Kept, Spoiled
<1> QED  BY <1>10, <1>11

\* A window is served from songs.
LEMMA WholeServeSong == ServeInv /\ WholeInv /\ ServeSong => WholeInv'
<1> SUFFICES ASSUME ServeInv, WholeInv, ServeSong
             PROVE  WholeInv'
  OBVIOUS
<1>1. /\ HostOK /\ CachesOK /\ assembly \in Assemblies(Imprint) /\ assembly.last < seq
      /\ seq \in Nat
  BY DEF ServeInv, AssemblyOK, HostOK
<1>2. PICK choice \in Matches : songs' = LookedUp(Candidates, Range(choice))
  BY DEF ServeSong
<1>3. /\ Captured /\ Covers(Segments, at, Now) /\ NextWindow /\ profile' = profile
      /\ assembly' = assembly /\ todo' = todo /\ begun' = begun /\ owed' = owed
  BY DEF ServeSong, NextWindow
<1>4. Moves
  BY <1>1, <1>3 DEF Moves
<1>5. /\ todo = <<>> /\ torn' = torn /\ at \in Nat /\ Hop \in Nat /\ Hop >= 1 /\ Now \in Nat
      /\ at' = at + Hop /\ at + Hop < Now /\ seq' = seq + 1 /\ revision' = revision
  BY <1>4, HopMoves DEF Moves
<1>6. HeardNow' = HeardNow /\ HeardLast' = HeardLast
  BY <1>3, <1>4, HeardHop
<1>7. assembly.last \in Nat
  BY <1>1 DEF Assemblies
<1>8. Stale' \/ (assembly.builder = None /\ assembly.history = <<>>)
  <2>1. CASE assembly.last = 0
    BY <2>1 DEF WholeInv, AssemblyFollows
  <2>2. CASE assembly.last # 0
    <3>1. assembly'.last # 0 /\ seq' # assembly'.last + 1
      BY <1>1, <1>3, <1>5, <1>7, <2>2
    <3>2. Gapped(assembly', seq')
      BY <3>1 DEF Gapped
    <3> QED  BY <3>2 DEF Stale, Stales
  <2> QED  BY <2>1, <2>2
<1>9. AssemblyFollows'
  <2>1. /\ assembly.completed \subseteq 0..revision
        /\ assembly.builder # None => /\ assembly.builder.revision <= revision
                                      /\ assembly.builder.rtp <= revision
                                      /\ Len(assembly.builder.source) < assembly.builder.length
                                      /\ assembly.builder.streamEnd # 0
        /\ assembly.last = 0 => assembly.builder = None /\ assembly.history = <<>>
        /\ Len(assembly.history) <= HistoryHops
    BY DEF WholeInv, AssemblyFollows
  <2>2. assembly.last # seq' - 1
    BY <1>1, <1>5, <1>7
  <2>3. assembly.history = <<>> => HistoryFollows(assembly.history, at', {0})
    BY DEF HistoryFollows
  <2> QED  BY <1>3, <1>5, <1>8, <2>1, <2>2, <2>3 DEF AssemblyFollows
<1>10. ASSUME NEW p, Kept(p) PROVE Kept(p)'
  BY <1>1, <1>2, <1>3, <1>5, <1>10, KeptLooked
<1>11. Timeline(anchors)
  BY DEF WholeInv
<1>12. ASSUME NEW p, NEW r \in Nat, PlayOK(p), Labels(anchors, p, r), Waiting(p, r),
              at + Hop <= p.from
       PROVE  Waiting(p, r)'
  <2>1. r \notin assembly'.completed /\ (assembly'.builder # None => assembly'.builder.rtp < r)
    BY <1>3, <1>12 DEF Waiting
  <2> QED  BY <1>4, <1>11, <1>12, <2>1, BeyondWaits
<1>13. ASSUME NEW p, PlayOK(p), p.from < at + Hop, at <= p.last
       PROVE  Kept(p)'
  <2>1. p.from \in Nat
    BY <1>13, PlayIs DEF PlayOK
  <2>2. p.from < Now
    BY <1>5, <1>13, <2>1
  <2>3. Kept(p)
    BY <1>1, <1>3, <1>13, <2>2, CutIsKept
  <2> QED  BY <2>3, <1>10
<1>14. ASSUME NEW p \in HeardNow', NEW r \in Nat, PlayOK(p), PlayingWell(p, r)
       PROVE  Waiting(p, r)' \/ (Kept(p)' /\ Harmless(p)')
  <2>1. p.from \in Nat /\ p.last \in Nat /\ p.last = Now
    <3>1. p \in HeardNow
      BY <1>6, <1>14
    <3>2. p.last = Now
      BY <3>1 DEF HeardNow, PlayNow
    <3>3. p.from \in Nat /\ p.last \in Nat
      BY <1>14, PlayIs DEF PlayOK
    <3> QED  BY <3>2, <3>3
  <2>2. CASE at + Hop <= p.from
    <3>1. ~(p.from < at)
      BY <1>5, <2>1, <2>2
    <3>2. Waiting(p, r) /\ Labels(anchors, p, r)
      BY <1>14, <3>1 DEF PlayingWell, Building, Harmless
    <3> QED  BY <1>12, <1>14, <2>2, <3>2
  <2>3. CASE ~(at + Hop <= p.from)
    <3>1. p.from < at + Hop /\ at <= p.last /\ p.from < at'
      BY <1>5, <2>1, <2>3
    <3>2. Kept(p)'
      BY <1>13, <1>14, <3>1
    <3>3. Idle(todo')
      BY <1>3, <1>5 DEF Idle
    <3>4. Harmless(p)'
      <4>1. CASE Stale'
        BY <3>1, <3>3, <4>1 DEF Harmless
      <4>2. CASE assembly.builder = None /\ assembly.history = <<>>
        <5>1. \A h \in Range(assembly'.history) : h.from > p.from
          BY <1>3, <4>2 DEF Range
        <5> QED  BY <1>3, <3>1, <3>3, <4>2, <5>1 DEF Harmless
      <4> QED  BY <1>8, <4>1, <4>2
    <3> QED  BY <3>2, <3>4
  <2> QED  BY <2>2, <2>3
<1>15. ASSUME NEW p \in HeardLast', NEW r \in Nat, PlayOK(p), PlayedWell(p, r)
       PROVE  Waiting(p, r)' \/ Kept(p)'
  <2>1. p.from \in Nat /\ p.last \in Nat /\ p.from <= p.last
    BY <1>15, PlayIs DEF PlayOK
  <2>2. CASE p.last < at
    <3>1. ~(at <= p.last)
      BY <1>5, <2>1, <2>2
    <3>2. Kept(p)
      BY <1>5, <1>15, <3>1 DEF PlayedWell, Waiting, Building, Pending
    <3> QED  BY <1>10, <3>2
  <2>3. CASE at <= p.last /\ p.from < at + Hop
    BY <1>13, <1>15, <2>3
  <2>4. CASE at + Hop <= p.from
    <3>1. ~(p.from < at) /\ ~(p.last < at)
      BY <1>5, <2>1, <2>4
    <3>2. Waiting(p, r) \/ Kept(p)
      BY <1>15, <3>1 DEF PlayedWell, Building, Pending
    <3>3. Labels(anchors, p, r)
      BY <1>15 DEF PlayedWell
    <3> QED  BY <1>10, <1>12, <1>15, <2>4, <3>2, <3>3
  <2> QED  BY <1>5, <2>1, <2>2, <2>3, <2>4
<1> QED  BY <1>3, <1>4, <1>6, <1>9, <1>14, <1>15, WholeHop

-----------------------------------------------------------------------------
(* A window that is assembled.                                             *)
\* What is left to do stores what was finalized, or a window.
Stores(ops, finalized) ==
    /\ \A j \in 1..Len(finalized) : \E i \in 1..Len(ops) :
            ops[i].op = "song" /\ ops[i].builder = finalized[j]
    /\ \A i \in 1..Len(ops) :
            /\ ops[i].op # "prune"
            /\ ops[i].op = "song" => \E j \in 1..Len(finalized) : ops[i].builder = finalized[j]

\* What is left to do after a window.
LEMMA StoresAre ==
    ASSUME NEW x, NEW finalized \in Seq(Builders(x)),
           NEW stores, stores = <<>> \/ stores = <<StoreWindow>>,
           NEW ops, ops = stores \o [i \in 1..Len(finalized) |->
                                    [op |-> "song", builder |-> finalized[i]]]
    PROVE  Stores(ops, finalized)
<1> DEFINE Op(i) == [op |-> "song", builder |-> finalized[i]]
           list == [i \in 1..Len(finalized) |-> Op(i)]
           All == {StoreWindow} \cup {Op(i) : i \in 1..Len(finalized)}
           n == Len(stores)
<1>1. Len(finalized) \in Nat
  OBVIOUS
<1>2. stores \in Seq(All) /\ n \in Nat /\ \A i \in 1..n : stores[i] = StoreWindow
  <2>1. CASE stores = <<>>
    BY <2>1
  <2>2. CASE stores = <<StoreWindow>>
    <3> HIDE DEF Op
    <3> QED  BY <2>2
  <2> QED  BY <2>1, <2>2
<1>3. list \in Seq(All) /\ Len(list) = Len(finalized)
  <2>1. \A i \in 1..Len(finalized) : Op(i) \in All
    OBVIOUS
  <2> HIDE DEF Op, All
  <2> QED  BY <1>1, <2>1
<1>4. /\ Len(ops) = n + Len(finalized)
      /\ \A i \in 1..(n + Len(finalized)) : ops[i] = IF i <= n THEN stores[i] ELSE list[i - n]
  <2>1. ops = stores \o list
    OBVIOUS
  <2>2. PICK m : m = Len(finalized)
    OBVIOUS
  <2> HIDE DEF All, list
  <2> QED  BY <1>2, <1>3, <2>1, ConcatProperties
<1>5. \A i \in 1..Len(finalized) : list[i].op = "song" /\ list[i].builder = finalized[i]
  OBVIOUS
<1> HIDE DEF list, All, n
<1>6. ASSUME NEW j \in 1..Len(finalized)
      PROVE  \E i \in 1..Len(ops) : ops[i].op = "song" /\ ops[i].builder = finalized[j]
  <2>1. n + j \in 1..Len(ops) /\ ~(n + j <= n) /\ n + j - n = j
    BY <1>1, <1>2, <1>4
  <2>2. PICK i : i = n + j
    OBVIOUS
  <2>3. i \in 1..(n + Len(finalized)) /\ ~(i <= n) /\ i - n = j
    BY <1>1, <1>2, <1>4, <2>1, <2>2
  <2>4. ops[i] = list[i - n]
    BY ONLY <1>4, <2>3
  <2>5. i \in 1..Len(ops) /\ ops[i] = list[j]
    BY ONLY <2>1, <2>2, <2>3, <2>4
  <2> QED  BY <1>5, <2>5
<1>7. ASSUME NEW i \in 1..Len(ops)
      PROVE  /\ ops[i].op # "prune"
             /\ ops[i].op = "song" => \E j \in 1..Len(finalized) : ops[i].builder = finalized[j]
  <2>1. CASE i <= n
    <3>1. ops[i] = StoreWindow
      <4>1. i \in 1..n
        BY <1>1, <1>2, <1>4, <2>1
      <4> QED  BY <1>2, <1>4, <2>1, <4>1
    <3> QED  BY <3>1 DEF StoreWindow
  <2>2. CASE ~(i <= n)
    <3>1. i \in 1..(n + Len(finalized))
      BY <1>4
    <3>2. i - n \in 1..Len(finalized)
      BY <1>1, <1>2, <2>2, <3>1
    <3>3. ops[i] = list[i - n]
      BY ONLY <1>4, <2>2, <3>1
    <3> QED  BY <1>5, <3>2, <3>3
  <2> QED  BY <2>1, <2>2
<1> QED  BY <1>6, <1>7 DEF Stores

\* A window is assembled: the work on its hop, and what that leaves.
Assembles(work, k, segments, past, hop) ==
    LET hops == Append(past, hop)
        w == work[Len(segments)]
    IN  /\ LoopOf(work, k, segments, Annotation, at, hops, Imprint)
        /\ WorkOf(work, segments, Imprint, past, hop, assembly, seq, at)
        /\ hop.source = SubSeq(stream, 1, Hop)
        /\ assembly'.builder = IF segments = <<>> THEN None ELSE w.builder
        /\ assembly'.completed = w.completed
        /\ assembly'.history = IF w.failed THEN <<>> ELSE LastHops(hops)
        /\ assembly'.last = seq /\ assembly'.start = at
        /\ Stores(todo', w.finalized)

\* The assembly of a window is such work.
LEMMA AssembleIs ==
    ASSUME ServeInv, Captured, Timeline(anchors), Moves,
           NEW stems, stems = SeparationOf(stream, profile), NEW stores,
           stores = <<>> \/ stores = <<StoreWindow>>, Assemble(TRUE, stems, stores)
    PROVE  \E work, k, segments, past, hop : Assembles(work, k, segments, past, hop)
<1>1. /\ HostOK /\ stream \in Seq(Heard) /\ Len(stream) = Window /\ at \in Nat
      /\ seq \in Nat /\ profile \in Profiles /\ assembly \in Assemblies(Imprint)
      /\ Imprint \in Imprints /\ Imprint[1] = profile
  BY ImprintOK DEF ServeInv, HostOK, AssemblyOK, Captured
<1>2. \/ Regressed(assembly, at) \/ Gapped(assembly, seq)
      \/ Crossfades(assembly.tail, stems, Imprint)
  BY TailGoesOn
<1>3. /\ Annotation \in Seq(Anchors) /\ Sorted(Annotation) /\ Timeline(Annotation)
  BY AnchorsHop
<1>4. PICK list : list = Annotation
  OBVIOUS
<1> DEFINE a == Assembled(assembly, seq, at, stream, stems, list)
<1>5. PICK segments : segments = OutputSegments(list, at, at + Hop)
  OBVIOUS
<1>6. \E work, past, hop :
                /\ WorkOf(work, segments, Imprint, past, hop, assembly, seq, at)
                /\ hop.source = SubSeq(stream, 1, Hop)
                /\ WorkLeaves(work[Len(segments)], segments, a, Append(past, hop))
  <2>1. list \in Seq(Anchors) /\ Sorted(list)
    BY <1>3, <1>4
  <2>2. PICK x : x = Imprint
    OBVIOUS
  <2>3. PICK b : b = assembly
    OBVIOUS
  <2>4. PICK number : number = seq
    OBVIOUS
  <2>5. PICK from : from = at
    OBVIOUS
  <2>6. PICK source : source = stream
    OBVIOUS
  <2>7. /\ x \in Imprints /\ b \in Assemblies(x) /\ number \in Nat /\ from \in Nat
        /\ source \in Seq(Heard) /\ Len(source) = Window /\ stems = SeparationOf(source, x[1])
        /\ \/ Regressed(b, from) \/ Gapped(b, number)
           \/ Crossfades(b.tail, stems, x)
    BY <1>1, <1>2, <2>2, <2>3, <2>4, <2>5, <2>6
  <2>8. WorkDone(x, b, number, from, source, list, Assembled(b, number, from, source, stems, list))
    BY ONLY <2>1, <2>7, AssembledBy
  <2>9. WorkDone(Imprint, assembly, seq, at, stream, list, a)
    BY ONLY <2>2, <2>3, <2>4, <2>5, <2>6, <2>8
  <2> HIDE DEF a
  <2> QED  BY ONLY <1>5, <2>9 DEF WorkDone
<1>7. PICK work, past, hop :
                /\ WorkOf(work, segments, Imprint, past, hop, assembly, seq, at)
                /\ hop.source = SubSeq(stream, 1, Hop)
                /\ WorkLeaves(work[Len(segments)], segments, a, Append(past, hop))
  BY <1>6
<1> DEFINE hops == Append(past, hop)
           w == work[Len(segments)]
<1>8. /\ assembly' = a.assembly /\ a.assembly.last = seq /\ a.assembly.start = at
      /\ todo' = stores \o [i \in 1..Len(a.finalized) |->
                                [op |-> "song", builder |-> a.finalized[i]]]
  <2>1. assembly' = Assembled(assembly, seq, at, stream, stems, Annotation).assembly
    BY DEF Assemble
  <2>2. todo' = stores \o [i \in 1..Len(a.finalized) |->
                                [op |-> "song", builder |-> a.finalized[i]]]
    BY <1>4 DEF Assemble
  <2>3. a.assembly.last = seq /\ a.assembly.start = at
    <3>1. stems = SeparationOf(stream, Imprint[1])
      BY <1>1
    <3> QED  BY <1>1, <1>2, <1>3, <1>4, <3>1, AssembledOK
  <2> QED  BY <1>4, <2>1, <2>2, <2>3
<1> HIDE DEF a
<1>9. Cuts(list, at, at + Hop)
  <2>1. at \in Nat /\ at + Hop \in Nat /\ at < at + Hop
    BY <1>1, Geometry
  <2> QED  BY <1>3, <1>4, <2>1 DEF Cuts, Timeline
<1>10. \E k : Told(k, segments, list, at, at + Hop)
  BY <1>5, <1>9, SegmentsTold DEF Cuts
<1>11. PICK k : Told(k, segments, list, at, at + Hop)
  BY <1>10
<1>12. LoopOf(work, k, segments, list, at, hops, Imprint)
  <2>1. /\ past \in Seq(Hops(Imprint)) /\ hop \in Hops(Imprint) /\ hop.from = at
        /\ \A n \in 0..Len(segments) : work[n] \in Works(Imprint, hops)
        /\ \A n \in 1..Len(segments) : work[n] = TakeSegment(work[n - 1], segments[n])
    BY <1>7 DEF WorkOf
  <2>2. hops \in Seq(Hops(Imprint)) /\ HopAt(hops, at)
    <3>1. /\ hops \in Seq(Hops(Imprint)) /\ Len(past) \in Nat /\ Len(hops) = Len(past) + 1
          /\ hops[Len(past) + 1] = hop
      BY <2>1
    <3>2. hops # <<>> /\ Last(hops) = hop
      BY <3>1 DEF Last
    <3> HIDE DEF hops
    <3> QED  BY <2>1, <3>1, <3>2 DEF HopAt
  <2> QED  BY <1>1, <1>9, <1>11, <2>1, <2>2 DEF LoopOf
<1>13. w \in Works(Imprint, hops)
  <2>1. Len(segments) \in 0..Len(segments)
    BY <1>12, LoopStep
  <2> QED  BY <1>12, <2>1 DEF LoopOf
<1>14. Stores(todo', w.finalized)
  <2>1. w.finalized \in Seq(Builders(Imprint)) /\ a.finalized = w.finalized
    BY <1>7, <1>13 DEF Works, WorkLeaves
  <2>2. PICK finalized : finalized = a.finalized
    OBVIOUS
  <2>3. finalized \in Seq(Builders(Imprint))
    BY <2>1, <2>2
  <2>4. todo' = stores \o [i \in 1..Len(finalized) |->
                                [op |-> "song", builder |-> finalized[i]]]
    BY <1>8, <2>2
  <2>5. Stores(todo', finalized)
    BY <2>3, <2>4, StoresAre
  <2> QED  BY <2>1, <2>2, <2>5
<1>15. Assembles(work, k, segments, past, hop)
  BY <1>4, <1>7, <1>8, <1>12, <1>14 DEF Assembles, WorkLeaves, LastHops
<1> QED  BY <1>15

\* What is known of the work on a hop: its window, its history, and the builder at its start.
LEMMA AssemblesIs ==
    ASSUME HostOK, AssemblyOK, Moves, WholeInv, PlayInv,
           NEW work, NEW k, NEW segments, NEW past, NEW hop,
           Assembles(work, k, segments, past, hop)
    PROVE  LET hops == Append(past, hop) IN
           /\ LoopOf(work, k, segments, Annotation, at, hops, Imprint)
           /\ Imprint \in Imprints /\ at \in Nat /\ Len(segments) \in Nat
           /\ past \in Seq(Hops(Imprint)) /\ hop \in Hops(Imprint) /\ hop.from = at
           /\ hops \in Seq(Hops(Imprint))
           /\ past = IF Stale THEN <<>> ELSE assembly.history
           /\ HistoryFollows(past, at, {0}) /\ HistoryFollows(hops, at + Hop, {0})
           /\ ~work[0].failed
           /\ work[0].builder = IF Stale THEN None ELSE assembly.builder
           /\ work[0].builder # None =>
                    work[0].builder \in Builders(Imprint) /\ Fits(work[0].builder, Annotation, at)
           /\ work[0].completed \subseteq assembly.completed
           /\ \A n \in 1..Len(segments) :
                    segments[n].rtp \in 0..revision /\ segments[n].revision <= revision
           /\ ~Stale'
<1>1. /\ LoopOf(work, k, segments, Annotation, at, Append(past, hop), Imprint)
      /\ WorkOf(work, segments, Imprint, past, hop, assembly, seq, at)
      /\ assembly'.last = seq /\ assembly'.start = at
  BY DEF Assembles
<1>2. /\ at \in Nat /\ Now \in Int /\ at' = at + Hop /\ seq' = seq + 1 /\ seq \in Nat \ {0}
      /\ Hop \in Nat /\ Hop >= 1 /\ at <= Now /\ anchors \in Seq(Anchors) /\ Sorted(anchors)
  BY HopMoves DEF Moves, HostOK
<1>3. /\ past \in Seq(Hops(Imprint)) /\ hop \in Hops(Imprint) /\ hop.from = at
      /\ past = IF Stale THEN <<>> ELSE assembly.history
      /\ ~work[0].failed
      /\ work[0].builder = IF Stale THEN None ELSE assembly.builder
      /\ work[0].completed = IF Regressed(assembly, at) THEN {} ELSE assembly.completed
  BY <1>1 DEF WorkOf, Stale
<1>4. Append(past, hop) \in Seq(Hops(Imprint)) /\ Imprint \in Imprints
  BY <1>1 DEF LoopOf
<1>5. HistoryFollows(past, at, {0})
  <2>1. CASE Stale
    BY <1>3, <2>1 DEF HistoryFollows
  <2>2. CASE ~Stale
    BY <1>3, <2>2 DEF WholeInv, AssemblyFollows
  <2> QED  BY <2>1, <2>2
<1>6. HistoryFollows(Append(past, hop), at + Hop, {0})
  <2>1. at \in Int
    BY <1>2
  <2> QED  BY <1>3, <1>5, <2>1, HistoryGrows
<1>7. work[0].builder # None =>
            work[0].builder \in Builders(Imprint) /\ Fits(work[0].builder, Annotation, at)
  <2> SUFFICES ASSUME work[0].builder # None
               PROVE  work[0].builder \in Builders(Imprint) /\ Fits(work[0].builder, Annotation, at)
    OBVIOUS
  <2>1. ~Stale /\ work[0].builder = assembly.builder /\ assembly.builder # None
    BY <1>3
  <2>2. assembly.builder \in Builders(Imprint)
    BY <2>1, BuilderTyped
  <2>3. Fits(assembly.builder, anchors, at)
    BY <2>1 DEF WholeInv, AssemblyFollows
  <2>4. PICK b : b = assembly.builder
    OBVIOUS
  <2>5. PICK kept : kept = Annotation
    OBVIOUS
  <2>6. /\ anchors \in Seq(Anchors) /\ Sorted(anchors) /\ at \in Int /\ Now \in Int /\ at <= Now
        /\ Fits(b, anchors, at) /\ kept = AnchorsForWindow(anchors, at, Now)
    BY <1>2, <2>3, <2>4, <2>5 DEF Annotation
  <2>7. Fits(b, kept, at)
    BY ONLY <2>6, FitsKept
  <2> QED  BY <2>1, <2>2, <2>4, <2>5, <2>7
<1>8. Len(segments) \in Nat
  BY <1>1, LoopStep
<1>9. ASSUME NEW n \in 1..Len(segments)
      PROVE  segments[n].rtp \in 0..revision /\ segments[n].revision <= revision
  <2>1. /\ Cuts(Annotation, at, at + Hop) /\ Told(k, segments, Annotation, at, at + Hop)
    BY <1>1 DEF LoopOf
  <2>2. /\ k[n] \in 1..Len(Annotation) /\ segments[n].rtp = Annotation[k[n]].rtp
        /\ segments[n].revision = Annotation[k[n]].revision
        /\ segments[n].rtp \in Nat /\ segments[n].revision \in Nat
    BY <2>1, ToldIs
  <2>3. Timeline(anchors)
    BY DEF WholeInv
  <2>4. PICK j \in 1..Len(anchors) : Annotation[k[n]] = anchors[j]
    BY <2>2, <2>3, AnchorsHop
  <2>5. anchors[j].revision <= revision /\ anchors[j].rtp <= anchors[j].revision
    BY <2>3, <2>4 DEF PlayInv, RevisionsOK, Timeline
  <2>6. revision \in Nat
    BY DEF HostOK
  <2> QED  BY <2>2, <2>4, <2>5, <2>6
<1>10. ~Stale'
  <2>1. ~Gapped(assembly', seq')
    BY <1>1, <1>2 DEF Gapped
  <2>2. ~Regressed(assembly', at')
    BY <1>1, <1>2 DEF Regressed
  <2> QED  BY <2>1, <2>2 DEF Stale, Stales
<1>11. work[0].completed \subseteq assembly.completed
  BY <1>3
<1> QED  BY <1>1, <1>2, <1>3, <1>4, <1>5, <1>6, <1>7, <1>8, <1>9, <1>10, <1>11

\* The assembly goes on at the end of the hop.
LEMMA FollowsAssembled ==
    ASSUME HostOK, AssemblyOK, Moves, WholeInv, PlayInv,
           NEW work, NEW k, NEW segments, NEW past, NEW hop,
           Assembles(work, k, segments, past, hop)
    PROVE  AssemblyFollows'
<1> DEFINE hops == Append(past, hop)
           N == Len(segments)
<1>1. /\ LoopOf(work, k, segments, Annotation, at, hops, Imprint)
      /\ Imprint \in Imprints /\ at \in Nat /\ N \in Nat
      /\ hops \in Seq(Hops(Imprint))
      /\ HistoryFollows(hops, at + Hop, {0})
      /\ ~work[0].failed
      /\ work[0].builder = IF Stale THEN None ELSE assembly.builder
      /\ work[0].completed \subseteq assembly.completed
      /\ \A n \in 1..N : segments[n].rtp \in 0..revision /\ segments[n].revision <= revision
      /\ ~Stale'
  BY AssemblesIs
<1>2. /\ at' = at + Hop /\ Now \in Int /\ Hop \in Nat /\ at + Hop <= Now
      /\ seq' = seq + 1 /\ seq \in Nat \ {0} /\ revision' = revision /\ revision \in Nat
      /\ anchors \in Seq(Anchors) /\ Sorted(anchors)
      /\ anchors' = AnchorsForWindow(anchors, at + Hop, Now)
  BY HopMoves DEF Moves, HostOK
<1>3. /\ assembly'.builder = IF segments = <<>> THEN None ELSE work[N].builder
      /\ assembly'.completed = work[N].completed
      /\ assembly'.history = IF work[N].failed THEN <<>> ELSE LastHops(hops)
      /\ assembly'.last = seq /\ assembly'.start = at
  BY DEF Assembles
<1> HIDE DEF hops, N
<1>4. assembly'.completed \subseteq 0..revision
  <2>1. assembly.completed \subseteq 0..revision
        /\ (assembly.builder # None => assembly.builder.rtp <= revision)
    BY DEF WholeInv, AssemblyFollows
  <2>2. work[0].builder # None => work[0].builder.rtp \in 0..revision
    <3> SUFFICES ASSUME work[0].builder # None PROVE work[0].builder.rtp \in 0..revision
      OBVIOUS
    <3>1. work[0].builder = assembly.builder /\ assembly.builder # None
      BY <1>1
    <3>2. assembly.builder.rtp \in Nat
      BY <1>1, <3>1, BuilderTyped DEF Builders
    <3> QED  BY <1>2, <2>1, <3>1, <3>2
  <2>3. PICK R : R = 0..revision
    OBVIOUS
  <2>4. /\ work[0].completed \subseteq R
        /\ work[0].builder # None => work[0].builder.rtp \in R
        /\ \A n \in 1..Len(segments) : segments[n].rtp \in R
    BY <1>1, <2>1, <2>2, <2>3 DEF N
  <2>5. \A n \in 0..Len(segments) : work[n].completed \subseteq R
    BY <1>1, <2>4, LoopCloses
  <2>6. N \in 0..Len(segments)
    BY <1>1 DEF N
  <2> QED  BY <1>3, <2>3, <2>5, <2>6
<1>5. assembly'.builder # None =>
        /\ assembly'.builder.revision <= revision /\ assembly'.builder.rtp <= revision
        /\ Len(assembly'.builder.source) < assembly'.builder.length
        /\ assembly'.builder.streamEnd # 0
        /\ Fits(assembly'.builder, anchors', at')
  <2> SUFFICES ASSUME assembly'.builder # None
               PROVE  /\ assembly'.builder.revision <= revision /\ assembly'.builder.rtp <= revision
                      /\ Len(assembly'.builder.source) < assembly'.builder.length
                      /\ assembly'.builder.streamEnd # 0
                      /\ Fits(assembly'.builder, anchors', at')
    OBVIOUS
  <2>1. segments # <<>> /\ assembly'.builder = work[N].builder /\ work[N].builder # None
    BY <1>3
  <2>2. N \in 1..Len(segments)
    <3>1. segments \in Seq(SegmentsIn(at, at + Hop))
      BY <1>1 DEF LoopOf, Told
    <3> QED  BY <1>1, <2>1, <3>1, EmptySeq DEF N
  <2>3. Follows(work[N].builder, segments[N])
    BY <1>1, <2>1, <2>2, LoopFollows
  <2>4. segments[N].rtp <= revision /\ segments[N].revision <= revision
    BY <1>1, <1>2, <2>2 DEF N
  <2>5. Fits(work[N].builder, anchors', at')
    <3>1. PICK list : list = Annotation
      OBVIOUS
    <3>2. PICK hi : hi = at + Hop
      OBVIOUS
    <3>3. /\ LoopOf(work, k, segments, list, at, hops, Imprint) /\ ~work[0].failed
          /\ anchors \in Seq(Anchors) /\ Sorted(anchors) /\ Timeline(anchors)
          /\ hi = at + Hop /\ Now \in Int /\ hi <= Now
          /\ list = AnchorsForWindow(anchors, at, Now) /\ segments # <<>>
          /\ work[Len(segments)].builder # None
      BY <1>1, <1>2, <2>1, <3>1, <3>2 DEF Annotation, WholeInv, N
    <3>4. Fits(work[Len(segments)].builder, AnchorsForWindow(anchors, hi, Now), hi)
      BY ONLY <3>3, LoopFits
    <3> QED  BY <1>2, <3>2, <3>4 DEF N
  <2>6. segments[N].to # 0
    <3>1. segments[N] \in SegmentsIn(at, at + Hop)
      BY <1>1, <2>2, LoopStep DEF N
    <3> QED  BY <1>1, <3>1 DEF SegmentsIn
  <2> QED  BY <2>1, <2>3, <2>4, <2>5, <2>6 DEF Follows
<1>6. /\ HistoryFollows(assembly'.history, at', {0}) /\ Len(assembly'.history) <= HistoryHops
  <2>1. CASE work[N].failed
    <3>1. assembly'.history = <<>>
      BY <1>3, <2>1
    <3> QED  BY <3>1, Geometry DEF HistoryFollows
  <2>2. CASE ~work[N].failed
    <3>1. assembly'.history = LastHops(hops)
      BY <1>3, <2>2
    <3>2. at + Hop \in Int
      BY <1>1, <1>2
    <3> QED  BY <1>1, <1>2, <3>1, <3>2, LastFollow
  <2> QED  BY <2>1, <2>2
<1>7. assembly'.last # 0 /\ assembly'.start \in Nat /\ assembly'.start = at' - Hop
  BY <1>1, <1>2, <1>3
<1> QED  BY <1>2, <1>3, <1>4, <1>5, <1>6, <1>7 DEF AssemblyFollows

\* A song in the hop is in the history with it.
LEMMA HopPlays ==
    ASSUME HostOK, AssemblyOK, Moves, WholeInv, PlayInv,
           NEW work, NEW k, NEW segments, NEW past, NEW hop,
           Assembles(work, k, segments, past, hop),
           NEW p, PlayOK(p), NEW g \in Int, Plays(past, p, g, at) \/ g >= at,
           at >= Hop \/ p.from >= Hop \/ HistoryFollows(past, at, {})
    PROVE  Plays(Append(past, hop), p, g, at + Hop)
<1>1. /\ past \in Seq(Hops(Imprint)) /\ hop \in Hops(Imprint) /\ hop.from = at
      /\ HistoryFollows(past, at, {0})
  BY AssemblesIs
<1>2. hop.source = SubSeq(stream, 1, Hop)
  BY DEF Assembles
<1>3. /\ at \in Nat /\ Hop \in Nat /\ Now = at + Window /\ Len(stream) = Window
      /\ at + Hop < Now /\ stream \in Seq(Heard)
  BY HopMoves DEF Moves, HostOK
<1>4. IsPlay(p) /\ p.from \in Nat /\ p.last \in Nat
  BY PlayIs DEF PlayOK
<1>5. ASSUME NEW f \in at..(at + Hop - 1), p.from <= f, f <= p.last
      PROVE  Is(stream[f - at + 1], p, f)
  <2>1. f \in at..p.last /\ f < Now
    BY <1>3, <1>4, <1>5
  <2>2. Is(FrameAt(f), p, f)
    BY <1>5, <2>1 DEF PlayOK, Sounding
  <2> QED  BY <2>1, <2>2 DEF FrameAt
<1>6. Hop <= Len(stream) /\ at \in Int
  BY <1>3, Geometry
<1>7. PICK source : source = stream
  OBVIOUS
<1>8. PICK lo : lo = at
  OBVIOUS
<1>9. PICK x : x = Imprint
  OBVIOUS
<1>12. Behind(past, at, p)
  BY <1>1, <1>4, <1>6, HistoryBehind
<1>10. /\ past \in Seq(Hops(x)) /\ lo \in Int /\ Behind(past, lo, p) /\ p.from \in Nat
       /\ hop \in Hops(x) /\ hop.from = lo /\ hop.source = SubSeq(source, 1, Hop)
       /\ source \in Seq(Heard) /\ Hop <= Len(source)
       /\ Plays(past, p, g, lo) \/ g >= lo
       /\ \A f \in lo..(lo + Hop - 1) : p.from <= f /\ f <= p.last => Is(source[f - lo + 1], p, f)
  BY <1>1, <1>2, <1>3, <1>4, <1>5, <1>6, <1>7, <1>8, <1>9, <1>12
<1>11. Plays(Append(past, hop), p, g, lo + Hop)
  BY ONLY <1>10, PlaysGrow
<1> QED  BY <1>8, <1>11

\* A song that was finalized in whole is to be stored.
LEMMA FinishedPends ==
    ASSUME Moves, NEW work, NEW k, NEW segments, NEW past, NEW hop,
           Assembles(work, k, segments, past, hop),
           NEW p, PlayOK(p), Finished(work[Len(segments)].finalized, p, at + Hop)
    PROVE  Pending(p)'
<1>1. /\ p.from \in Nat /\ p.last \in Nat /\ LengthOf[p.song] \in Nat
      /\ p.last - p.from < LengthOf[p.song]
  BY PlayIs DEF PlayOK
<1>2. at' = at + Hop /\ at \in Nat /\ Hop \in Nat
  BY HopMoves DEF Moves
<1>3. p.last < at'
  BY <1>1, <1>2 DEF Finished
<1>4. PICK finalized : finalized = work[Len(segments)].finalized
  OBVIOUS
<1>5. PICK j \in 1..Len(finalized) : WholeOf(finalized[j], p)
  BY <1>4 DEF Finished
<1>6. Stores(todo', finalized)
  BY <1>4 DEF Assembles
<1>7. \E i \in 1..Len(todo') : todo'[i].op = "song" /\ todo'[i].builder = finalized[j]
  BY <1>6 DEF Stores
<1> QED  BY <1>3, <1>5, <1>7 DEF Pending

\* One that is built up to the end of the hop is built on.
LEMMA BuiltGoesOn ==
    ASSUME HostOK, AssemblyOK, Moves, WholeInv, PlayInv,
           NEW work, NEW k, NEW segments, NEW past, NEW hop,
           Assembles(work, k, segments, past, hop), segments # <<>>,
           NEW p, PlayOK(p), NEW r \in Nat, Labels(anchors, p, r), Lasts(p, at + Hop),
           Spoken(anchors, r, at + Hop),
           BuildsAt(work[Len(segments)], p, r, at + Hop, Imprint)
    PROVE  Building(p, r)'
<1>1. /\ IsPlay(p) /\ p.from \in Nat /\ p.last \in Nat /\ LengthOf[p.song] \in Nat
  BY PlayIs DEF PlayOK
<1>2. /\ at' = at + Hop /\ at \in Nat /\ Hop \in Nat
      /\ anchors \in Seq(Anchors) /\ Sorted(anchors) /\ Now \in Int /\ at + Hop <= Now
      /\ anchors' = AnchorsForWindow(anchors, at + Hop, Now)
  BY HopMoves DEF Moves, HostOK
<1>3. /\ assembly'.builder = work[Len(segments)].builder
      /\ assembly'.builder \in Builders(Imprint) /\ Builds(assembly'.builder, p, r, at + Hop)
  BY DEF Assembles, BuildsAt
<1>4. assembly'.builder # None
  <2>1. Imprint \in Imprints
    BY AssemblesIs
  <2> QED  BY <1>3, <2>1, NoBuilder
<1>5. p.from < at' /\ at' <= p.last
  <2>1. PICK hi : hi = at + Hop
    OBVIOUS
  <2>2. PICK w : w = work[Len(segments)]
    OBVIOUS
  <2>3. BuildsAt(w, p, r, hi, Imprint) /\ Lasts(p, hi)
    BY <2>1, <2>2
  <2>4. p.from < hi /\ hi - p.from < LengthOf[p.song]
    BY ONLY <2>3 DEF BuildsAt, Builds
  <2>5. p.last >= hi \/ p.last + 1 = p.from + LengthOf[p.song]
    BY ONLY <2>3 DEF Lasts
  <2>6. hi \in Nat
    BY <1>2, <2>1
  <2>7. p.from < hi /\ hi <= p.last
    BY ONLY <1>1, <2>4, <2>5, <2>6
  <2> QED  BY <1>2, <2>1, <2>7
<1>6. Spoken(anchors', r, at')
  <2>1. PICK hi : hi = at + Hop
    OBVIOUS
  <2>2. PICK kept : kept = AnchorsForWindow(anchors, hi, Now)
    OBVIOUS
  <2>3. /\ anchors \in Seq(Anchors) /\ Sorted(anchors) /\ Timeline(anchors) /\ hi \in Int
        /\ Now \in Int /\ hi <= Now /\ IsPlay(p) /\ hi <= p.last /\ Labels(anchors, p, r)
        /\ Spoken(anchors, r, hi) /\ kept = AnchorsForWindow(anchors, hi, Now)
    BY <1>1, <1>2, <1>5, <2>1, <2>2 DEF WholeInv
  <2>4. Spoken(kept, r, hi)
    BY ONLY <2>3, SpokenKept
  <2> QED  BY <1>2, <2>1, <2>2, <2>4
<1>7. ~Stale'
  BY AssemblesIs
<1> QED  BY <1>2, <1>3, <1>4, <1>5, <1>6, <1>7 DEF Building

\* The song that is being built.
LEMMA BuildingHop ==
    ASSUME HostOK, AssemblyOK, Moves, WholeInv, PlayInv,
           NEW work, NEW k, NEW segments, NEW past, NEW hop,
           Assembles(work, k, segments, past, hop),
           NEW p, PlayOK(p), NEW r \in Nat, Labels(anchors, p, r), Lasts(p, at + Hop),
           Building(p, r)
    PROVE  Building(p, r)' \/ Pending(p)'
<1> DEFINE w == work[Len(segments)]
           hi == at + Hop
           hops == Append(past, hop)
<1>1. /\ IsPlay(p) /\ p.from \in Nat /\ p.last \in Nat
  BY PlayIs DEF PlayOK
<1>2. /\ at \in Nat /\ Hop \in Nat /\ Hop >= 1 /\ hi \in Int
      /\ anchors \in Seq(Anchors) /\ Sorted(anchors) /\ Now \in Int /\ at <= Now
  BY HopMoves DEF Moves, HostOK
<1>3. /\ LoopOf(work, k, segments, Annotation, at, hops, Imprint)
      /\ ~work[0].failed /\ Len(segments) \in Nat
      /\ work[0].builder = IF Stale THEN None ELSE assembly.builder
      /\ work[0].builder # None => work[0].builder \in Builders(Imprint)
  BY AssemblesIs
<1>4. /\ p.from < at /\ at <= p.last /\ ~Stale /\ Spoken(anchors, r, at)
      /\ assembly.builder # None /\ Builds(assembly.builder, p, r, at)
  BY DEF Building
<1>5. BuildsAt(work[0], p, r, at, Imprint)
  BY <1>3, <1>4 DEF BuildsAt
<1>6. Spoken(Annotation, r, at)
  <2>1. PICK kept : kept = Annotation
    OBVIOUS
  <2>2. /\ anchors \in Seq(Anchors) /\ Sorted(anchors) /\ Timeline(anchors) /\ at \in Int
        /\ Now \in Int /\ at <= Now /\ IsPlay(p) /\ at <= p.last /\ Labels(anchors, p, r)
        /\ Spoken(anchors, r, at) /\ kept = AnchorsForWindow(anchors, at, Now)
    BY <1>1, <1>2, <1>4, <2>1 DEF WholeInv, Annotation
  <2>3. Spoken(kept, r, at)
    BY ONLY <2>2, SpokenKept
  <2> QED  BY <2>1, <2>3
<1>7. Timeline(Annotation) /\ Labels(Annotation, p, r)
  BY AnchorsHop DEF WholeInv
<1>8. Plays(hops, p, at, hi)
  <2>1. at >= Hop
    <3>1. assembly.last = seq - 1 /\ at # 0
      <4>1. assembly.last # 0
        BY <1>4 DEF WholeInv, AssemblyFollows
      <4>2. seq = assembly.last + 1
        BY <1>4, <4>1 DEF Stale, Stales, Gapped
      <4>3. assembly.last \in Nat
        BY DEF AssemblyOK, Assemblies
      <4> QED  BY <1>1, <1>2, <1>4, <4>2, <4>3
    <3>2. assembly.start \in Nat /\ assembly.start = at - Hop
      BY <1>4, <3>1 DEF WholeInv, AssemblyFollows
    <3> QED  BY <1>2, <3>2
  <2> QED  BY <1>2, <2>1, HopPlays
<1> HIDE DEF w, hi, hops
<1>9. BuildsAt(w, p, r, hi, Imprint) \/ Finished(w.finalized, p, hi)
  <2>1. PICK list : list = Annotation
    OBVIOUS
  <2>2. PICK lo : lo = at
    OBVIOUS
  <2>3. /\ LoopOf(work, k, segments, list, lo, hops, Imprint) /\ Timeline(list)
        /\ IsPlay(p) /\ Labels(list, p, r) /\ 0 \in 0..Len(segments)
        /\ BuildsAt(work[0], p, r, Reached(segments, lo, 0), Imprint)
        /\ Spoken(list, r, Reached(segments, lo, 0))
        /\ hi = lo + Hop /\ lo \in Int /\ lo <= lo /\ Plays(hops, p, lo, hi) /\ Lasts(p, hi)
    BY <1>1, <1>2, <1>3, <1>5, <1>6, <1>7, <1>8, <2>1, <2>2 DEF Reached, hi
  <2>4. \/ BuildsAt(work[Len(segments)], p, r, hi, Imprint)
        \/ Finished(work[Len(segments)].finalized, p, hi)
    BY ONLY <2>3, BuildLoop
  <2> QED  BY <2>4 DEF w
<1>10. CASE Finished(w.finalized, p, hi)
  BY <1>10, FinishedPends DEF w, hi
<1>11. CASE BuildsAt(w, p, r, hi, Imprint)
  <2>1. segments # <<>>
    <3> SUFFICES ASSUME segments = <<>> PROVE FALSE
      OBVIOUS
    <3>1. w = work[0]
      BY DEF w
    <3>2. w.builder.streamEnd = hi /\ work[0].builder.streamEnd = at
      BY <1>5, <1>11 DEF BuildsAt, Builds, Begun
    <3> QED  BY <1>2, <3>1, <3>2 DEF hi
  <2>2. Spoken(anchors, r, hi)
    <3>1. PICK i \in 1..Len(anchors) : anchors[i].rtp = r /\ anchors[i].frame <= at
      BY <1>4 DEF Spoken
    <3>2. anchors[i].frame \in Nat
      BY <1>2, AnchorIs
    <3>3. anchors[i].frame <= hi
      BY <1>2, <3>1, <3>2 DEF hi
    <3> QED  BY <3>1, <3>3 DEF Spoken
  <2>3. BuildsAt(work[Len(segments)], p, r, at + Hop, Imprint) /\ Spoken(anchors, r, at + Hop)
    BY <1>11, <2>2 DEF w, hi
  <2> QED  BY <2>1, <2>3, BuiltGoesOn
<1> QED  BY <1>9, <1>10, <1>11

\* What a song that waits brings to the work on a hop.
LEMMA WaitingIs ==
    ASSUME HostOK, AssemblyOK, Moves, WholeInv, PlayInv,
           NEW work, NEW k, NEW segments, NEW past, NEW hop,
           Assembles(work, k, segments, past, hop),
           NEW p, PlayOK(p), NEW r \in Nat, Waiting(p, r)
    PROVE  /\ Waits(work[0], segments, 0, Annotation, at, Imprint, r)
           /\ Plays(Append(past, hop), p, p.from, at + Hop)
           /\ p.from >= Hop \/ HistoryFollows(past, at, {})
<1>1. /\ ~work[0].failed /\ work[0].completed \subseteq assembly.completed
      /\ work[0].builder = IF Stale THEN None ELSE assembly.builder
      /\ work[0].builder # None =>
            work[0].builder \in Builders(Imprint) /\ Fits(work[0].builder, Annotation, at)
      /\ past = IF Stale THEN <<>> ELSE assembly.history
  BY AssemblesIs
<1>2. /\ r \notin assembly.completed /\ (assembly.builder # None => assembly.builder.rtp < r)
      /\ p.from < at => ~Stale /\ Plays(assembly.history, p, p.from, at)
      /\ ~Stale => p.from >= Hop \/ HistoryFollows(assembly.history, at, {})
  BY DEF Waiting
<1>3. Waits(work[0], segments, 0, Annotation, at, Imprint, r)
  BY <1>1, <1>2 DEF Waits, FitsAt
<1>4. p.from \in Int /\ at \in Int
  BY HostIs, PlayIs DEF PlayOK
<1>5. Plays(past, p, p.from, at) \/ p.from >= at
  BY <1>1, <1>2, <1>4
<1>6. PICK g : g = p.from
  OBVIOUS
<1>7. g \in Int /\ (Plays(past, p, g, at) \/ g >= at)
  BY <1>4, <1>5, <1>6
<1>9. p.from >= Hop \/ HistoryFollows(past, at, {})
  <2>1. CASE Stale
    BY <1>1, <2>1 DEF HistoryFollows
  <2> QED  BY <1>1, <1>2, <2>1
<1>8. Plays(Append(past, hop), p, g, at + Hop)
  BY <1>7, <1>9, HopPlays
<1> QED  BY <1>3, <1>6, <1>8, <1>9

\* Its anchor is in the hop: it is built.
LEMMA WaitingArrives ==
    ASSUME HostOK, AssemblyOK, Moves, WholeInv, PlayInv,
           NEW work, NEW k, NEW segments, NEW past, NEW hop,
           Assembles(work, k, segments, past, hop),
           NEW p, PlayOK(p), NEW r \in Nat, Labels(anchors, p, r), Lasts(p, at + Hop),
           Waiting(p, r),
           NEW j \in 1..Len(Annotation), Annotation[j].rtp = r, Annotation[j].frame < at + Hop
    PROVE  Building(p, r)' \/ Pending(p)'
<1>1. PICK list : list = Annotation
  OBVIOUS
<1>2. PICK lo : lo = at
  OBVIOUS
<1>3. PICK hi : hi = at + Hop
  OBVIOUS
<1>4. PICK x : x = Imprint
  OBVIOUS
<1>5. PICK hops : hops = Append(past, hop)
  OBVIOUS
<1>6. /\ LoopOf(work, k, segments, list, lo, hops, x)
      /\ Waits(work[0], segments, 0, list, lo, x, r) /\ Plays(hops, p, p.from, hi)
  BY <1>1, <1>2, <1>3, <1>4, <1>5, AssemblesIs, WaitingIs
<1>7. /\ Timeline(list) /\ Labels(list, p, r) /\ Timeline(anchors)
  BY <1>1, AnchorsHop DEF WholeInv
<1>8. IsPlay(p)
  BY DEF PlayOK
<1>9. PICK i \in 1..Len(anchors) : anchors[i] = Annotation[j]
  BY <1>7, AnchorsHop
<1>10. anchors[i].rtp = r /\ lo <= anchors[i].frame /\ anchors[i].frame < hi
  BY <1>2, <1>3, <1>9 DEF Waiting
<1>11. j \in 1..Len(list) /\ list[j].rtp = r /\ lo <= list[j].frame /\ list[j].frame < hi
  BY <1>1, <1>9, <1>10
<1>12. hi = lo + Hop /\ Lasts(p, hi)
  BY <1>2, <1>3
<1>13. \/ BuildsAt(work[Len(segments)], p, r, hi, x)
       \/ Finished(work[Len(segments)].finalized, p, hi)
  BY ONLY <1>6, <1>7, <1>8, <1>11, <1>12, ArriveLoop
<1>14. segments # <<>>
  <2>1. Cuts(list, lo, hi) /\ Told(k, segments, list, lo, hi)
    BY ONLY <1>6, <1>12 DEF LoopOf
  <2>2. \E n \in 1..Len(segments) : segments[n].rtp = r
    BY ONLY <1>7, <1>8, <1>11, <2>1, FirstSegment
  <2>3. 1..Len(<<>>) = {}
    OBVIOUS
  <2> QED  BY ONLY <2>2, <2>3
<1>15. CASE Finished(work[Len(segments)].finalized, p, hi)
  BY <1>3, <1>15, FinishedPends
<1>16. CASE BuildsAt(work[Len(segments)], p, r, hi, x)
  <2>1. Spoken(anchors, r, hi)
    <3>1. anchors[i].frame \in Nat /\ hi \in Nat
      <4>1. anchors \in Seq(Anchors) /\ at \in Nat /\ Hop \in Nat
        BY HopMoves DEF Moves
      <4> QED  BY <1>3, <4>1, AnchorIs
    <3>2. anchors[i].frame <= hi
      BY <1>10, <3>1
    <3> QED  BY <1>10, <3>2 DEF Spoken
  <2>2. Spoken(anchors, r, at + Hop) /\ BuildsAt(work[Len(segments)], p, r, at + Hop, Imprint)
    BY <1>3, <1>4, <1>16, <2>1
  <2> QED  BY <1>14, <2>2, BuiltGoesOn
<1> QED  BY <1>13, <1>15, <1>16

\* It is not: the song goes on waiting.
LEMMA WaitingStays ==
    ASSUME HostOK, AssemblyOK, Moves, WholeInv, PlayInv,
           NEW work, NEW k, NEW segments, NEW past, NEW hop,
           Assembles(work, k, segments, past, hop),
           NEW p, PlayOK(p), NEW r \in Nat, Labels(anchors, p, r), Waiting(p, r),
           \A j \in 1..Len(Annotation) : Annotation[j].rtp = r => ~(Annotation[j].frame < at + Hop)
    PROVE  Waiting(p, r)'
<1> DEFINE N == Len(segments)
           hi == at + Hop
           hops == Append(past, hop)
           w == work[N]
<1>1. /\ IsPlay(p) /\ p.from \in Nat /\ p.last \in Nat
  BY PlayIs DEF PlayOK
<1>2. /\ at \in Nat /\ Hop \in Nat /\ Hop >= 1 /\ hi \in Nat
      /\ anchors \in Seq(Anchors) /\ Sorted(anchors) /\ Now \in Int /\ hi < Now
      /\ HistoryHops * Hop \in Nat /\ at' = hi
      /\ \A i \in 1..Len(anchors) : anchors[i].frame \in Nat /\ anchors[i].frame <= Now
  <2>1. HistoryHops * Hop \in Nat
    BY Geometry, Multiples
  <2>2. /\ at \in Nat /\ Hop \in Nat /\ Hop >= 1
        /\ anchors \in Seq(Anchors) /\ Sorted(anchors) /\ Now \in Int /\ hi < Now
        /\ at' = hi /\ HostOK
    BY HopMoves DEF Moves, HostOK
  <2>3. \A i \in 1..Len(anchors) : anchors[i].frame \in Nat /\ anchors[i].frame <= Now
    BY <2>2, AnchorIs DEF HostOK
  <2> QED  BY <2>1, <2>2, <2>3
<1>3. /\ LoopOf(work, k, segments, Annotation, at, hops, Imprint)
      /\ HistoryFollows(hops, hi, {0}) /\ hops \in Seq(Hops(Imprint)) /\ N \in Nat /\ ~Stale'
  BY AssemblesIs
<1>4. /\ Waits(work[0], segments, 0, Annotation, at, Imprint, r) /\ Plays(hops, p, p.from, hi)
      /\ p.from >= Hop \/ HistoryFollows(hops, hi, {})
  <2>1. /\ Waits(work[0], segments, 0, Annotation, at, Imprint, r) /\ Plays(hops, p, p.from, hi)
        /\ p.from >= Hop \/ HistoryFollows(past, at, {})
    BY WaitingIs
  <2>2. past \in Seq(Hops(Imprint)) /\ hop \in Hops(Imprint) /\ hop.from = at /\ at \in Int
    BY AssemblesIs
  <2>3. HistoryFollows(past, at, {}) => HistoryFollows(hops, hi, {})
    BY <2>2, HistoryGrows
  <2> QED  BY <2>1, <2>3
<1>5. /\ assembly'.builder = IF segments = <<>> THEN None ELSE w.builder
      /\ assembly'.completed = w.completed
      /\ assembly'.history = IF w.failed THEN <<>> ELSE LastHops(hops)
  BY DEF Assembles
<1>6. /\ Timeline(Annotation) /\ Labels(Annotation, p, r) /\ Timeline(anchors)
  BY AnchorsHop DEF WholeInv
<1>7. \A i \in 1..Len(anchors) : anchors[i].rtp = r => hi <= anchors[i].frame
  <2> SUFFICES ASSUME NEW i \in 1..Len(anchors), anchors[i].rtp = r, ~(hi <= anchors[i].frame)
               PROVE  FALSE
    OBVIOUS
  <2>1. at <= anchors[i].frame
    BY DEF Waiting
  <2>2. PICK list : list = Annotation
    OBVIOUS
  <2>3. /\ anchors \in Seq(Anchors) /\ Sorted(anchors) /\ Timeline(anchors) /\ IsPlay(p)
        /\ Labels(anchors, p, r) /\ at \in Int /\ Now \in Int /\ Written(list, anchors, at, Now)
        /\ i \in 1..Len(anchors) /\ anchors[i].rtp = r /\ at <= anchors[i].frame
        /\ anchors[i].frame <= Now
    BY <1>1, <1>2, <1>6, <2>1, <2>2 DEF Written, Annotation
  <2>4. \E j \in 1..Len(list) : list[j].rtp = r /\ list[j].frame = anchors[i].frame
    BY ONLY <2>3, LabelSurvives
  <2>5. PICK j \in 1..Len(list) : list[j].rtp = r /\ list[j].frame = anchors[i].frame
    BY <2>4
  <2>6. anchors[i].frame < hi
    BY <1>2
  <2> QED  BY <2>2, <2>5, <2>6
<1>8. /\ Foretold(p, r)' /\ \A i \in 1..Len(anchors') :
                                anchors'[i].rtp = r => hi <= anchors'[i].frame
  BY <1>1, <1>6, <1>7, ForetoldHop DEF Waiting
<1> HIDE DEF N, hi, hops, w
<1>9. p.last >= hi /\ hi - p.from <= HistoryHops * Hop
  <2>1. CASE \E i \in 1..Len(anchors) :
                anchors[i].rtp = r /\ anchors[i].frame - p.from <= HistoryHops * Hop
    <3>1. PICK i \in 1..Len(anchors) :
                anchors[i].rtp = r /\ anchors[i].frame - p.from <= HistoryHops * Hop
      BY <2>1
    <3>2. hi <= anchors[i].frame
      BY <1>7, <3>1
    <3>3. anchors[i].frame <= p.last
      BY <3>1, LabelsAre DEF Tags
    <3> QED  BY <1>1, <1>2, <3>1, <3>2, <3>3
  <2>2. CASE p.last = Now /\ p.last - p.from <= HistoryHops * Hop
    BY <1>1, <1>2, <2>2
  <2> QED  BY <2>1, <2>2 DEF Waiting, Foretold
<1>10. ASSUME NEW n \in 1..N PROVE segments[n].rtp < r
  <2>1. /\ Cuts(Annotation, at, hi) /\ Told(k, segments, Annotation, at, hi)
    BY <1>3 DEF LoopOf, hi
  <2>2. /\ k[n] \in 1..Len(Annotation) /\ segments[n].rtp = Annotation[k[n]].rtp
        /\ Annotation[k[n]].frame < hi /\ Annotation[k[n]].frame \in Nat
        /\ segments[n].rtp \in Nat
    BY <2>1, ToldIs DEF N
  <2>3. Annotation[k[n]].rtp # r
    BY <2>2 DEF hi
  <2>4. ~(Annotation[k[n]].rtp > r)
    <3>1. Annotation[k[n]].rtp > r => Annotation[k[n]].frame > p.last
      BY <1>6, <2>2, LabelsAre DEF Tags
    <3> QED  BY <1>1, <1>2, <1>9, <2>2, <3>1
  <2> QED  BY <2>2, <2>3, <2>4
<1>11. Waits(w, segments, N, Annotation, at, Imprint, r)
  <2>1. PICK list : list = Annotation
    OBVIOUS
  <2>2. /\ LoopOf(work, k, segments, list, at, hops, Imprint) /\ Timeline(list) /\ IsPlay(p)
        /\ Labels(list, p, r) /\ Waits(work[0], segments, 0, list, at, Imprint, r)
        /\ N \in 0..Len(segments) /\ \A n \in 1..N : segments[n].rtp < r
    <3>1. N \in 0..Len(segments)
      BY <1>3 DEF N
    <3> QED  BY <1>1, <1>3, <1>4, <1>6, <1>10, <2>1, <3>1
  <2>3. Waits(work[N], segments, N, list, at, Imprint, r)
    BY ONLY <2>2, WaitLoop
  <2> QED  BY <2>1, <2>3 DEF w
<1>12. /\ r \notin assembly'.completed /\ (assembly'.builder # None => assembly'.builder.rtp < r)
       /\ assembly'.history = LastHops(hops)
  BY <1>5, <1>11 DEF Waits
<1>13. Plays(assembly'.history, p, p.from, at')
  <2>1. PICK g : g = p.from
    OBVIOUS
  <2>2. /\ hops \in Seq(Hops(Imprint)) /\ hi \in Int /\ HistoryFollows(hops, hi, {0}) /\ g \in Int
        /\ hi - g <= HistoryHops * Hop /\ Plays(hops, p, g, hi) /\ p.from \in Nat
        /\ p.from >= Hop \/ HistoryFollows(hops, hi, {})
    BY <1>1, <1>2, <1>3, <1>4, <1>9, <2>1
  <2>3. Plays(LastHops(hops), p, g, hi)
    BY ONLY <2>2, LastPlays
  <2> QED  BY <1>2, <1>12, <2>1, <2>3
<1>14. /\ at' <= p.last
       /\ \A i \in 1..Len(anchors') : anchors'[i].rtp = r => at' <= anchors'[i].frame
  BY <1>1, <1>2, <1>8, <1>9
<1>15. p.from >= Hop \/ HistoryFollows(assembly'.history, at', {})
  <2>1. HistoryFollows(hops, hi, {}) => HistoryFollows(LastHops(hops), hi, {})
    <3>1. hops \in Seq(Hops(Imprint)) /\ hi \in Int
      BY <1>2, <1>3
    <3> QED  BY ONLY <3>1, LastFollow
  <2> QED  BY <1>2, <1>4, <1>12, <2>1
<1> QED  BY <1>3, <1>8, <1>12, <1>13, <1>14, <1>15 DEF Waiting

\* What is built of a song without its start is not stored.
LEMMA HarmlessHop ==
    ASSUME HostOK, AssemblyOK, Moves, WholeInv, PlayInv,
           NEW work, NEW k, NEW segments, NEW past, NEW hop,
           Assembles(work, k, segments, past, hop),
           NEW p, PlayOK(p), NEW r \in Nat, Labels(anchors, p, r), Current(r), Harmless(p)
    PROVE  Harmless(p)'
<1> DEFINE w == work[Len(segments)]
           hops == Append(past, hop)
<1>1. /\ LoopOf(work, k, segments, Annotation, at, hops, Imprint)
      /\ past \in Seq(Hops(Imprint)) /\ hop.from = at /\ hops \in Seq(Hops(Imprint))
      /\ past = IF Stale THEN <<>> ELSE assembly.history
      /\ work[0].builder = IF Stale THEN None ELSE assembly.builder
      /\ Len(segments) \in Nat /\ HistoryFollows(hops, at + Hop, {0})
  BY AssemblesIs
<1>2. /\ at \in Nat /\ Hop \in Nat /\ Hop >= 1 /\ at' = at + Hop /\ IsPlay(p) /\ p.from \in Nat
  BY HopMoves, PlayIs DEF Moves, PlayOK
<1>3. /\ p.from < at
      /\ \/ Stale
         \/ /\ \A h \in Range(assembly.history) : h.from > p.from
            /\ assembly.builder # None => Partial(assembly.builder, anchors)
  BY DEF Harmless
<1>4. work[0].builder # None => Partial(work[0].builder, anchors)
  BY <1>1, <1>3
<1>5. \A h \in Range(hops) : h.from > p.from
  <2>1. ASSUME NEW h \in Range(past) PROVE h.from > p.from
    <3>1. CASE Stale
      <4>1. past = <<>>
        BY <1>1, <3>1
      <4> QED  BY <2>1, <4>1 DEF Range
    <3>2. CASE ~Stale
      BY <1>1, <1>3, <2>1, <3>2
    <3> QED  BY <3>1, <3>2
  <2>2. \A h \in Range(hops) : h \in Range(past) \/ (h = hop)
    <3>1. /\ Len(past) \in Nat /\ Len(hops) = Len(past) + 1 /\ hops[Len(past) + 1] = hop
          /\ \A i \in 1..Len(past) : hops[i] = past[i]
      BY <1>1
    <3>2. DOMAIN hops = 1..Len(hops) /\ DOMAIN past = 1..Len(past)
      BY <1>1
    <3> HIDE DEF hops
    <3>3. ASSUME NEW i \in 1..Len(hops) PROVE hops[i] \in Range(past) \/ (hops[i] = hop)
      <4>1. CASE i \in 1..Len(past)
        BY <3>1, <3>2, <4>1 DEF Range
      <4>2. CASE i = Len(past) + 1
        BY <3>1, <4>2
      <4> QED  BY <3>1, <4>1, <4>2
    <3> QED  BY <3>2, <3>3 DEF Range
  <2>3. hop.from > p.from
    BY <1>1, <1>2, <1>3
  <2> QED  BY <2>1, <2>2, <2>3
<1>6. Short(work[0].finalized)
  <2>1. work[0].finalized = IF Regressed(assembly, at) /\ assembly.builder # None
                            THEN <<assembly.builder>> ELSE <<>>
    BY DEF Assembles, WorkOf
  <2>2. assembly.builder # None => Len(assembly.builder.source) < assembly.builder.length
    BY DEF WholeInv, AssemblyFollows
  <2>3. PICK b : b = assembly.builder
    OBVIOUS
  <2>4. Len(<<b>>) = 1 /\ <<b>>[1] = b /\ Len(<<>>) = 0
    OBVIOUS
  <2>5. CASE Regressed(assembly, at) /\ assembly.builder # None
    BY <2>1, <2>2, <2>3, <2>4, <2>5 DEF Short
  <2>6. CASE ~(Regressed(assembly, at) /\ assembly.builder # None)
    BY <2>1, <2>4, <2>6 DEF Short
  <2> QED  BY <2>5, <2>6
<1>7. /\ Timeline(anchors) /\ Labels(Annotation, p, r)
      /\ \A i \in 1..Len(Annotation) : \E j \in 1..Len(anchors) : Annotation[i] = anchors[j]
      /\ \A i \in 1..Len(anchors') : \E j \in 1..Len(anchors) : anchors'[i] = anchors[j]
  BY AnchorsHop DEF WholeInv
<1>8. \A i \in 1..Len(anchors) : anchors[i].rtp <= r
  BY <1>7, CurrentIsLast DEF PlayInv
<1> HIDE DEF w, hops
<1>9. (w.builder # None => Partial(w.builder, anchors)) /\ Short(w.finalized)
  <2>1. PICK list : list = Annotation
    OBVIOUS
  <2>2. /\ LoopOf(work, k, segments, list, at, hops, Imprint) /\ Timeline(anchors)
        /\ \A i \in 1..Len(list) : \E j \in 1..Len(anchors) : list[i] = anchors[j]
        /\ IsPlay(p) /\ Labels(list, p, r) /\ \A i \in 1..Len(list) : list[i].rtp <= r
        /\ p.from < at /\ \A h \in Range(hops) : h.from > p.from
        /\ work[0].builder # None => Partial(work[0].builder, anchors)
        /\ Short(work[0].finalized)
    BY <1>1, <1>2, <1>3, <1>4, <1>5, <1>6, <1>7, <1>8, <2>1
  <2>3. LET v == work[Len(segments)] IN
        (v.builder # None => Partial(v.builder, anchors)) /\ Short(v.finalized)
    BY ONLY <2>2, PartialLoop
  <2> QED  BY <2>3 DEF w
<1>10. /\ assembly'.builder = IF segments = <<>> THEN None ELSE w.builder
       /\ assembly'.history = IF w.failed THEN <<>> ELSE LastHops(hops)
       /\ Stores(todo', w.finalized)
  BY DEF Assembles, w, hops
<1>11. Idle(todo')
  <2>1. PICK finalized : finalized = w.finalized
    OBVIOUS
  <2>2. Stores(todo', finalized) /\ Short(finalized)
    BY <1>9, <1>10, <2>1
  <2>3. ASSUME NEW i \in 1..Len(todo'), todo'[i].op = "song"
        PROVE  Len(todo'[i].builder.source) < todo'[i].builder.length
    <3>1. PICK j \in 1..Len(finalized) : todo'[i].builder = finalized[j]
      BY <2>2, <2>3 DEF Stores
    <3> QED  BY <2>2, <3>1 DEF Short
  <2>4. \A i \in 1..Len(todo') : todo'[i].op # "prune"
    BY <2>2 DEF Stores
  <2> QED  BY <2>3, <2>4 DEF Idle
<1>12. \A h \in Range(assembly'.history) : h.from > p.from
  <2>1. CASE w.failed
    <3>1. assembly'.history = <<>>
      BY <1>10, <2>1
    <3> QED  BY <3>1 DEF Range
  <2>2. CASE ~w.failed
    <3>1. at + Hop \in Int
      BY <1>2
    <3>2. Range(LastHops(hops)) \subseteq Range(hops)
      BY <1>1, <3>1, LastFollow
    <3> QED  BY <1>5, <1>10, <2>2, <3>2
  <2> QED  BY <2>1, <2>2
<1>13. assembly'.builder # None => Partial(assembly'.builder, anchors')
  <2> SUFFICES ASSUME assembly'.builder # None PROVE Partial(assembly'.builder, anchors')
    OBVIOUS
  <2>1. PICK b : b = w.builder
    OBVIOUS
  <2>2. assembly'.builder = b /\ Partial(b, anchors)
    BY <1>9, <1>10, <2>1
  <2>3. Partial(b, anchors')
    BY <1>7, <2>2 DEF Partial
  <2> QED  BY <2>2, <2>3
<1>14. p.from < at'
  BY <1>2, <1>3
<1> QED  BY <1>11, <1>12, <1>13, <1>14 DEF Harmless

\* A song in any state goes on when a window is assembled.
LEMMA PlayHop ==
    ASSUME HostOK, AssemblyOK, Moves, WholeInv, PlayInv,
           NEW work, NEW k, NEW segments, NEW past, NEW hop,
           Assembles(work, k, segments, past, hop),
           NEW p, PlayOK(p), NEW r \in Nat, Labels(anchors, p, r), Lasts(p, at + Hop),
           Waiting(p, r) \/ Building(p, r)
    PROVE  Waiting(p, r)' \/ Building(p, r)' \/ Pending(p)'
<1>1. CASE Building(p, r)
  BY <1>1, BuildingHop
<1>2. CASE Waiting(p, r)
  <2>1. CASE \E j \in 1..Len(Annotation) :
                Annotation[j].rtp = r /\ Annotation[j].frame < at + Hop
    BY <1>2, <2>1, WaitingArrives
  <2>2. CASE ~\E j \in 1..Len(Annotation) :
                Annotation[j].rtp = r /\ Annotation[j].frame < at + Hop
    BY <1>2, <2>2, WaitingStays
  <2> QED  BY <2>1, <2>2
<1> QED  BY <1>1, <1>2

\* A window is assembled.
LEMMA WholeAnnotated ==
    ASSUME ServeInv, PlayInv, WholeInv, Moves, begun' = begun, owed' = owed,
           songs' = songs \/ \E touched, served : songs' = LookedUp(touched, served),
           NEW stems, stems = SeparationOf(stream, profile), NEW stores,
           stores = <<>> \/ stores = <<StoreWindow>>, Assemble(TRUE, stems, stores)
    PROVE  WholeInv'
<1>1. HostOK /\ AssemblyOK /\ CachesOK /\ Captured /\ seq \in Nat
  BY DEF ServeInv, HostOK, Moves
<1>2. Timeline(anchors)
  BY DEF WholeInv
<1>3. PICK work, k, segments, past, hop : Assembles(work, k, segments, past, hop)
  BY <1>1, <1>2, AssembleIs
<1>4. AssemblyFollows'
  BY <1>1, <1>3, FollowsAssembled
<1>5. HeardNow' = HeardNow /\ HeardLast' = HeardLast
  BY HeardHop
<1>6. /\ at \in Nat /\ Hop \in Nat /\ Now \in Nat /\ at' = at + Hop /\ at + Hop < Now
      /\ todo = <<>> /\ torn' = torn /\ profile' = profile
  BY HopMoves DEF Moves
<1>7. ASSUME NEW p, Kept(p) PROVE Kept(p)'
  BY <1>1, <1>6, <1>7, KeptLooked
<1>8. ASSUME NEW p \in HeardNow', NEW r \in Nat, PlayOK(p), PlayingWell(p, r)
      PROVE  Waiting(p, r)' \/ Building(p, r)' \/ (Kept(p)' /\ Harmless(p)')
  <2>1. p.last = Now
    <3>1. p \in HeardNow
      BY <1>5, <1>8
    <3> QED  BY <3>1 DEF HeardNow, PlayNow
  <2>2. Lasts(p, at + Hop)
    <3>1. p.last >= at + Hop
      BY <1>6, <2>1
    <3> QED  BY <3>1 DEF Lasts
  <2>3. Labels(anchors, p, r) /\ Current(r)
    BY <1>8 DEF PlayingWell
  <2>4. CASE Waiting(p, r) \/ Building(p, r)
    <3>1. Waiting(p, r)' \/ Building(p, r)' \/ Pending(p)'
      BY <1>1, <1>3, <1>8, <2>2, <2>3, <2>4, PlayHop
    <3>2. ~(p.last < at')
      BY <1>6, <2>1
    <3> QED  BY <3>1, <3>2 DEF Pending
  <2>5. CASE Kept(p) /\ Harmless(p)
    <3>1. Harmless(p)'
      BY <1>1, <1>3, <1>8, <2>3, <2>5, HarmlessHop
    <3> QED  BY <1>7, <2>5, <3>1
  <2> QED  BY <1>8, <2>4, <2>5 DEF PlayingWell
<1>9. ASSUME NEW p \in HeardLast', NEW r \in Nat, PlayOK(p), PlayedWell(p, r)
      PROVE  Waiting(p, r)' \/ Building(p, r)' \/ Kept(p)' \/ Pending(p)'
  <2>1. p \in HeardLast
    BY <1>5, <1>9
  <2>2. Lasts(p, at + Hop)
    BY <2>1 DEF WholeInv, PlayedOK, Lasts
  <2>3. Labels(anchors, p, r)
    BY <1>9 DEF PlayedWell
  <2>4. ~Pending(p)
    BY <1>6 DEF Pending
  <2>5. CASE Waiting(p, r) \/ Building(p, r)
    BY <1>1, <1>3, <1>9, <2>2, <2>3, <2>5, PlayHop
  <2> QED  BY <1>7, <1>9, <2>4, <2>5 DEF PlayedWell
<1> QED  BY <1>4, <1>5, <1>8, <1>9, WholeHop

\* A window is played and assembled, or only played.
LEMMA WholeAssemble ==
    ASSUME ServeInv, PlayInv, WholeInv, Captured, NextWindow, NEW annotated \in BOOLEAN,
           NoSong(annotated), NEW stems, stems = SeparationOf(stream, profile), NEW stores,
           stores = <<>> \/ stores = <<StoreWindow>>, Assemble(annotated, stems, stores)
    PROVE  WholeInv'
<1>1. Moves
  BY DEF Moves, NextWindow, ServeInv
<1>2. songs' = songs \/ \E touched, served : songs' = LookedUp(touched, served)
  BY DEF NoSong
<1>3. CASE annotated
  <2>1. Assemble(TRUE, stems, stores)
    BY <1>3 DEF Assemble
  <2>2. begun' = begun /\ owed' = owed
    BY <1>3 DEF Assemble
  <2> QED  BY <1>1, <1>2, <2>1, <2>2, WholeAnnotated
<1>4. CASE ~annotated
  <2>1. Disturbed /\ assembly' = Unannotated(assembly, seq)
    BY <1>4 DEF Assemble
  <2> QED  BY <1>1, <1>2, <2>1, WholeUnannotated DEF ServeInv
<1> QED  BY <1>3, <1>4

-----------------------------------------------------------------------------
(* The steps.                                                              *)
\* A window played from the window cache has the stems of its frames.
LEMMA WholeServeWindow == ServeInv /\ PlayInv /\ WholeInv /\ ServeWindow => WholeInv'
<1> SUFFICES ASSUME ServeInv, PlayInv, WholeInv, ServeWindow PROVE WholeInv'
  OBVIOUS
<1>1. PICK annotated \in BOOLEAN, w \in Hits :
        /\ Captured /\ NoSong(annotated) /\ Assemble(annotated, w.stems, <<>>) /\ NextWindow
  BY DEF ServeWindow
<1>2. w.stems = SeparationOf(stream, profile)
  BY DEF ServeInv, Hits, SameWindow, CachesOK, WindowEntries
<1>3. <<>> = <<>> \/ <<>> = <<StoreWindow>>
  OBVIOUS
<1> DEFINE stems == w.stems
<1>4. Assemble(annotated, stems, <<>>) /\ stems = SeparationOf(stream, profile)
  BY <1>1, <1>2
<1> HIDE DEF stems
<1> QED  BY <1>1, <1>3, <1>4, WholeAssemble

\* A window is separated.
LEMMA WholeSeparate == ServeInv /\ PlayInv /\ WholeInv /\ Separate => WholeInv'
<1> SUFFICES ASSUME ServeInv, PlayInv, WholeInv, Separate PROVE WholeInv'
  OBVIOUS
<1> DEFINE stores(annotated) == IF annotated /\ Supported THEN <<>> ELSE <<StoreWindow>>
<1>1. PICK annotated \in BOOLEAN :
        /\ Captured /\ NoSong(annotated) /\ NextWindow
        /\ Assemble(annotated, Separated, stores(annotated))
  BY DEF Separate
<1>2. Separated = SeparationOf(stream, profile)
  BY <1>1 DEF Separated, SeparationOf, Captured
<1>3. stores(annotated) = <<>> \/ stores(annotated) = <<StoreWindow>>
  OBVIOUS
<1> HIDE DEF stores
<1> QED  BY <1>1, <1>2, <1>3, WholeAssemble

\* Nothing is done.
LEMMA WholeStutter ==
    ASSUME WholeInv, UNCHANGED vars
    PROVE  WholeInv'
<1>1. DiskOnly /\ songs' = songs /\ owed' = owed /\ todo' = todo
  BY DEF vars, DiskOnly, host, disk, ghosts
<1>2. ASSUME NEW p PROVE (Kept(p) => Kept(p)') /\ (Pending(p) => Pending(p)')
  <2>1. profile' = profile /\ torn' = torn /\ at' = at
    BY <1>1 DEF DiskOnly, host
  <2>2. Kept(p) => Kept(p)'
    BY <1>1, <2>1, KeptOn
  <2>3. Pending(p) => Pending(p)'
    BY <1>1, <2>1 DEF Pending
  <2> QED  BY <2>2, <2>3
<1> QED  BY <1>1, <1>2, DiskGoes

\* Every step keeps the invariant.
LEMMA WholeNext ==
    ServeInv /\ PlayInv /\ CountInv /\ WholeInv /\ [Next]_vars => WholeInv'
<1> SUFFICES ASSUME ServeInv, PlayInv, CountInv, WholeInv, [Next]_vars
             PROVE  WholeInv'
  OBVIOUS
<1>1. HostOK /\ AssemblyOK /\ Catalogue
  BY DEF ServeInv, CountInv
<1>2. CASE PlayFrame \/ PlayUnannounced \/ PlayMistold
  BY <1>1, <1>2, WholePlayFrame, WholePlayUnannounced, WholePlayMistold
<1>3. CASE Correct \/ Skip \/ Metadata
  BY <1>1, <1>3, WholeCorrect, WholeSkip, WholeMetadata
<1>4. CASE ServeSong \/ ServeWindow \/ Separate \/ FallBack
  BY <1>4, WholeServeSong, WholeServeWindow, WholeSeparate, WholeFallBack
<1>5. CASE StoreSong \/ Prune \/ Count
  BY <1>1, <1>5, WholeStoreSong, WholePrune, WholeCount
<1>6. CASE StoreChunk \/ CompleteWindow \/ SweepWindows
  BY <1>6, WholeWindows
<1>7. CASE HostRestarts \/ Stop
  BY <1>1, <1>7, WholeHostRestarts, WholeStop
<1>8. CASE SwitchProfile \/ Crash
  BY <1>1, <1>8, WholeSwitchProfile, WholeCrash
<1>9. CASE UNCHANGED vars
  BY <1>9, WholeStutter
<1> QED  BY <1>2, <1>3, <1>4, <1>5, <1>6, <1>7, <1>8, <1>9 DEF Next

\* A song that the worker has done with is stored, when nothing is left to do.
LEMMA WholeKept == WholeInv /\ HostOK => FullPlayIsStored
<1> SUFFICES ASSUME WholeInv, HostOK, owed # None, owed.until <= at, todo = <<>>
             PROVE  Held(owed.song) \/ Spoiled(owed.song)
  BY DEF FullPlayIsStored
<1> DEFINE p == PlayLast
<1>1. p \in HeardLast
  BY DEF HeardLast
<1>2. /\ owed \in [song : Songs, until : Nat]
      /\ \E r \in 0..(revision + 1) : PlayedWell(p, r)
  BY <1>1 DEF WholeInv, PlayedOK
<1>3. PICK r : PlayedWell(p, r)
  BY <1>2
<1>4. p.song = owed.song /\ p.last = owed.until - 1
  BY DEF PlayLast
<1>5. at \in Nat /\ p.last < at
  BY <1>2, <1>4 DEF HostOK
<1> HIDE DEF p
<1>6. p.last \in Int
  BY <1>2, <1>4
<1>7. ~Waiting(p, r) /\ ~Building(p, r)
  BY <1>5, <1>6 DEF Waiting, Building
<1>8. ~Pending(p)
  BY DEF Pending
<1>9. Kept(p)
  BY <1>3, <1>7, <1>8 DEF PlayedWell
<1> QED  BY <1>4, <1>9 DEF Kept

\* A song heard from its start to its end while the worker assembled is stored, whatever the
\* phase of the windows, and though its announcement came late
\* (docs/product-audio-acceptance.md:25).
THEOREM WholePlaysAreStored == Spec => []FullPlayIsStored
<1> DEFINE Inv == ServeInv /\ PlayInv /\ CountInv /\ WholeInv
<1>1. Init => Inv
  BY ServeInit, PlayInit, CountInit, WholeInit
<1>2. Inv /\ [Next]_vars => Inv'
  <2>1. Inv /\ [Next]_vars => ServeInv' /\ HostOK /\ HostOK'
    BY ServeNext DEF ServeInv
  <2> QED  BY <2>1, PlayNext, CountNext, WholeNext
<1>3. Inv => FullPlayIsStored
  BY WholeKept DEF ServeInv
<1> HIDE DEF Inv
<1> QED  BY <1>1, <1>2, <1>3, PTL DEF Spec

=============================================================================
