--------------------------- MODULE AirPlayTimeline ---------------------------
(***************************************************************************)
(* What an AirPlay host says of the songs in its stream                    *)
(* (airplay_track_state.cpp) and how the worker reads it                   *)
(* (airplay_timeline.py).  An anchor ties a frame of the stream to a       *)
(* position in a song of some length; a song is named by the RTP time of   *)
(* its start.  The anchors of a window cut it into segments, each a run of *)
(* frames of one song.  A range [from, to) does not hold its end.          *)
(***************************************************************************)
EXTENDS Integers, SequencesExt

Apart(a, b) == IF a > b THEN a - b ELSE b - a

\* The last of the anchors told by a frame, 0 if there is none.  Anchors are in the order
\* of their frames: the worker refuses a sidecar where they are not.
ToldBy(anchors, frame) == Max({0} \cup {i \in 1..Len(anchors) : anchors[i].frame <= frame})

\* MUTANT: the anchor in force when the window begins is left out.
AnchorsForWindow_Inside(anchors, from, to) ==
    SubSeq(anchors, ToldBy(anchors, from) + 1, ToldBy(anchors, to))

\* The anchors written beside a window: the one in force at its start and those inside it.
AnchorsForWindow(anchors, from, to) ==
    SubSeq(anchors, Max({1, ToldBy(anchors, from)}), ToldBy(anchors, to))

\* append_segment: the part of [from, to) that lies in the song, as a sequence of at
\* most one segment.
Segment(a, from, to) ==
    LET track == a.pos + from - a.frame
        end   == Min({to, from + a.length - track})
    IN  IF to <= from \/ track \notin 0..(a.length - 1)
        THEN <<>>
        ELSE <<[from |-> from, to |-> end, track |-> track, length |-> a.length,
                revision |-> a.revision, rtp |-> a.rtp, titled |-> a.titled]>>

\* Every anchor speaks of the frames up to the next one.  With none in force at the
\* start the first also speaks of the frames before it, when its song reaches back
\* that far.
OutputSegments(anchors, from, to) ==
    LET first == Max({1, ToldBy(anchors, from)})
        last  == ToldBy(anchors, to - 1)
        Starts(i) ==
            IF i > first \/ (anchors[i].frame > from /\ anchors[i].pos < anchors[i].frame - from)
            THEN anchors[i].frame ELSE from
        Ends(i) == IF i = last THEN to ELSE anchors[i + 1].frame
    IN  FlattenSeq([i \in 1..(last - first + 1) |->
            Segment(anchors[first + i - 1], Starts(first + i - 1), Ends(first + i - 1))])

TrackEnd(s) == s.track + s.to - s.from

\* The segments reach from one end of [from, to) to the other.
Spans(segments, from, to) ==
    segments # <<>> /\ Head(segments).from = from /\ Last(segments).to = to

\* They also leave no frame out.
Covers(segments, from, to) ==
    /\ Spans(segments, from, to)
    /\ \A i \in 2..Len(segments) : segments[i - 1].to = segments[i].from

\* _song_cache_hit looks up runs of segments that continue one another.
Groups(segments) ==
    LET n == Len(segments)
        Joined(i) ==
            /\ segments[i - 1].revision = segments[i].revision
            /\ segments[i - 1].length = segments[i].length
            /\ TrackEnd(segments[i - 1]) = segments[i].track
        Begins == {i \in 1..n : i = 1 \/ ~Joined(i)}
        Ends(i) == Min({j \in i..n : j = n \/ j + 1 \in Begins})
    IN  {[from   |-> segments[i].from,
          to     |-> segments[Ends(i)].to,
          track  |-> segments[i].track,
          titled |-> \E k \in i..Ends(i) : segments[k].titled] : i \in Begins}
=============================================================================
