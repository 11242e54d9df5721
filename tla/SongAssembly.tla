---------------------------- MODULE SongAssembly ----------------------------
(***************************************************************************)
(* How the worker puts the hops of played windows together to whole songs  *)
(* (_update_song_assembly of live_worker.py, the stitcher and the builder  *)
(* of song_cache.py).  Frames are opaque here: a hop carries the frames of *)
(* the source and, beside each, the stem frame that was published for it.  *)
(***************************************************************************)
EXTENDS AirPlayTimeline

CONSTANTS
    Hop,        \* frames of a hop
    Overlap,    \* frames a result goes on after its hop, for the crossfade
    Prefix,     \* frames of a song's start that may be missing (2 seconds)
    Resync,     \* frames by which a new revision may move a song (0.5 seconds)
    HistoryHops, \* hops kept to recover the start of a song from (3)
    Garbled,    \* a crossfade of stems that differ
    None

ASSUME GeometryAssumption ==
    /\ {Hop, Overlap, HistoryHops} \subseteq Nat \ {0}
    /\ {Prefix, Resync} \subseteq Nat
    /\ Overlap <= Hop
ASSUME NoneAssumption == None \notin Nat

\* _reset_song_assembly, and a new worker.
Empty == [builder |-> None, completed |-> {}, tail |-> <<>>, history |-> <<>>,
          last |-> 0, start |-> None]

\* MUTANT: the crossfade goes on from a window that was not the last one.
Dropped_KeepsTail(a) == [a EXCEPT !.builder = None, !.history = <<>>]

\* The builder goes, the crossfade and the history are forgotten.
Dropped(a) == [a EXCEPT !.builder = None, !.tail = <<>>, !.history = <<>>]

\* Pcm16OverlapStitcher.push: the tail of the last result is faded into the hop.
Stitched(tail, stems) ==
    [i \in 1..Hop |-> IF i > Len(tail) \/ tail[i] = stems[i] THEN stems[i] ELSE Garbled]

Beyond(stems) == SubSeq(stems, Hop + 1, Hop + Overlap)

Within(f, hop) == f \in hop.from..(hop.from + Hop - 1)

\* The frames [from, to) of the stream out of hops, in the given field: each out of the
\* first hop that has it.
Slice(hops, field, from, to) ==
    [i \in 1..(to - from) |->
        LET f == from + i - 1
            k == CHOOSE k \in DOMAIN hops :
                    Within(f, hops[k]) /\ \A j \in 1..(k - 1) : ~Within(f, hops[j])
        IN  hops[k][field][f + 1 - hops[k].from]]

\* _song_history_slice finds the range.
Remembered(hops, from, to) ==
    /\ 0 <= from /\ from < to
    /\ \A f \in from..(to - 1) : \E k \in DOMAIN hops : Within(f, hops[k])

\* w is the work on one hop: the assembly with that hop in its history, the builders that
\* were finalized, and whether an exception ended it.
Finalized(w) ==
    IF w.builder = None THEN w
    ELSE [w EXCEPT !.builder = None, !.completed = @ \cup {w.builder.rtp},
                   !.finalized = Append(@, w.builder)]

Failed(w) == [w EXCEPT !.builder = None, !.failed = TRUE]

\* MUTANT: what was played before the anchor came is not recovered.
NewBuilder_NoPrefix(w, s) ==
    [rtp |-> s.rtp, revision |-> s.revision, length |-> s.length, first |-> s.track,
     trackEnd |-> s.track, streamEnd |-> s.from, source |-> <<>>, stems |-> <<>>]

\* start_build, with the song's start out of the last hops when the anchor came late.
NewBuilder(w, s) ==
    LET from == s.from - s.track
        new  == [rtp |-> s.rtp, revision |-> s.revision, length |-> s.length,
                 first |-> s.track, trackEnd |-> s.track, streamEnd |-> s.from,
                 source |-> <<>>, stems |-> <<>>]
    IN  IF Remembered(w.history, from, s.from)
        THEN [new EXCEPT !.first = 0,
                         !.source = Slice(w.history, "source", from, s.from),
                         !.stems = Slice(w.history, "stems", from, s.from)]
        ELSE new

\* SongCacheBuilder.append of a segment of the current hop, and the finalize of a
\* song that is complete.
Appended(w, s) ==
    LET b == w.builder
        current == <<Last(w.history)>>
        longer == [b EXCEPT !.source = @ \o Slice(current, "source", s.from, s.to),
                            !.stems = @ \o Slice(current, "stems", s.from, s.to),
                            !.streamEnd = s.to, !.trackEnd = TrackEnd(s),
                            !.revision = s.revision]
        v == [w EXCEPT !.builder = longer]
    IN  CASE s.from # b.streamEnd -> Failed(w)
          [] s.from = b.streamEnd /\ Len(longer.source) >= b.length -> Finalized(v)
          [] OTHER -> v

\* The segment goes on where the song of the builder was left.
Continues(b, s) ==
    /\ \/ s.track = b.trackEnd
       \/ s.revision # b.revision /\ Apart(s.track, b.trackEnd) <= Resync
    /\ Apart(s.length, b.length) <= Resync

\* The loop over the segments of a hop.  A song without title and artist raises.
TakeSegment(w, s) ==
    LET same == w.builder # None /\ w.builder.rtp = s.rtp
        v == CASE same /\ Continues(w.builder, s) -> w
               [] same /\ ~Continues(w.builder, s) -> [Finalized(w) EXCEPT !.completed = {}]
               [] OTHER -> Finalized(w)
    IN  CASE w.failed -> w
          [] ~w.failed /\ ~s.titled -> Failed(w)
          [] ~w.failed /\ s.titled /\ v.builder # None -> Appended(v, s)
          [] ~w.failed /\ s.titled /\ v.builder = None ->
                IF s.rtp \in v.completed THEN v
                ELSE Appended([v EXCEPT !.builder = NewBuilder(v, s)], s)

\* The worker sees a new timeline, or windows it has not assembled.
Regressed(a, from) == a.start # None /\ from < a.start
Gapped(a, seq) == a.last # 0 /\ seq # a.last + 1

\* _update_song_assembly of a window seq at frame from, with its annotation's anchors:
\* the assembly after it and the builders finalized.
Assembled(a, seq, from, source, stems, anchors) ==
    LET opened == [builder |-> a.builder, completed |-> a.completed, tail |-> a.tail,
                   history |-> a.history, finalized |-> <<>>, failed |-> FALSE]
        fresh == CASE Regressed(a, from) -> [Dropped(Finalized(opened)) EXCEPT !.completed = {}]
                   [] ~Regressed(a, from) /\ Gapped(a, seq) -> Dropped(opened)
                   [] OTHER -> opened
        hop   == [from |-> from, source |-> SubSeq(source, 1, Hop),
                  stems |-> Stitched(fresh.tail, stems)]
        segments == OutputSegments(anchors, from, from + Hop)
        work[n \in 0..Len(segments)] ==
            IF n = 0 THEN [fresh EXCEPT !.history = Append(@, hop)]
            ELSE TakeSegment(work[n - 1], segments[n])
        w     == work[Len(segments)]
        kept  == Max({1, Len(w.history) - HistoryHops + 1})
    IN  [assembly |->
            [builder   |-> IF segments = <<>> THEN None ELSE w.builder,
             completed |-> w.completed,
             tail      |-> IF w.failed THEN <<>> ELSE Beyond(stems),
             history   |-> IF w.failed THEN <<>>
                           ELSE SubSeq(w.history, kept, Len(w.history)),
             last      |-> seq,
             start     |-> from],
         finalized |-> w.finalized]

\* _update_song_assembly of a window whose sidecar cannot be trusted.
Unannotated(a, seq) == [Dropped(a) EXCEPT !.last = seq]
=============================================================================
