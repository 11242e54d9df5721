----------------------------- MODULE SongWorker -----------------------------
(***************************************************************************)
(* The caches of the GPU worker over the life of an AirPlay session: a     *)
(* phone plays songs, its host says where they are in the stream, and the  *)
(* worker serves every window from a song it has stored, from a window it  *)
(* has stored, or by separating it; of the windows it did not serve from a *)
(* song it assembles songs, and stores those that are whole.               *)
(*                                                                         *)
(* A frame of audio is [song, pos] and stands for a good second; a window  *)
(* is its stable range, a hop and the overlap after it.  A stem frame is   *)
(* what it was separated from: [frame, profile].  All songs carry the same *)
(* title, so that only what they sound like tells them apart.  The phone   *)
(* and the worker share nothing but windows, so the phone plays on when    *)
(* the worker is done with the last one.                                   *)
(***************************************************************************)
EXTENDS SongAssembly, FiniteSets

CONSTANTS
    Songs, LengthOf, \* the songs and their frames
    Profiles,        \* separation profiles of the page
    Radius,          \* frames an alignment is searched around its position (8 seconds)
    SongQuota,       \* frames of songs that fit the song cache
    WindowQuota,     \* windows that fit the window cache
    MaxWindows,      \* bound: windows
    MaxSurprises     \* bound: whatever is no plain playing of songs

ASSUME SongsAssumption == LengthOf \in [Songs -> Nat \ {0}]
ASSUME BoundsAssumption == {MaxWindows, MaxSurprises} \subseteq Nat
ASSUME QuotaAssumption == {Radius, SongQuota, WindowQuota} \subseteq Nat
ASSUME NoBuilderAssumption == \* of the builder of a song, frames being [song, pos]
    LET frames == [song : Songs, pos : Nat] IN
    None \notin [rtp : Nat, revision : Nat, length : Nat, first : Int, trackEnd : Int,
                 streamEnd : Int, source : Seq(frames),
                 stems : Seq((frames \X Profiles) \cup {Garbled})]

Never == (MaxWindows + 2) * Hop \* ghost: later than any frame

VARIABLES
    stream,     \* frames of the stream from the next window's start on
    at,         \* the stream frame at that start
    anchors,    \* what the host keeps of the song timeline
    head,       \* the frame the phone plays next
    told,       \* the host knows of that frame's song
    named,      \* the host has its title and artist
    revision,   \* the last track revision
    profile,    \* _active_profile
    assembly,   \* song builder, stitcher and history
    todo,       \* disk operations the worker still has to do
    songs,      \* the directories of the song cache
    windows,    \* the directories of the window cache
    count,      \* _songs_cached
    seq,        \* the next window's sequence
    out,        \* the last result published: its window's frames, its stems, its scope
    right,      \* ghost: the stream frame since which the timeline is true
    begun,      \* ghost: where the song at hand began, Never if it is not heard in whole
    owed,       \* ghost: the song last heard in whole, and the frame after it
    missed,     \* ghost: the worker was not aware of a new host
    torn,       \* ghost: a deletion was interrupted
    surprises

host == <<stream, at, anchors, head, told, named, revision>>
disk == <<songs, windows>>
ghosts == <<right, begun, owed>>
vars == <<host, profile, assembly, todo, disk, count, seq, out, ghosts, missed, torn, surprises>>

Window == Hop + Overlap
Starts == [song : Songs, pos : {0}]

\* The stream frame of the next frame played.
Now == at + Len(stream)

Complete(e) == e.state = "complete"
Listed(e) == e.state # "husk"   \* its manifest can be read

Surprise == surprises < MaxSurprises /\ surprises' = surprises + 1

----------------------------------------------------------------------------
(* The phone and its host.                                                  *)

Init ==
    /\ stream = <<>> /\ at = 0 /\ anchors = <<>> /\ told = FALSE /\ revision = 0
    /\ head \in Starts /\ named \in BOOLEAN
    /\ profile \in Profiles
    /\ assembly = Empty /\ todo = <<>> /\ songs = {} /\ windows = {}
    /\ count = 0 /\ seq = 1
    /\ out = [source |-> <<>>, profile |-> profile, stems |-> <<>>, scope |-> "none"]
    /\ right = Never /\ begun = Never /\ owed = None
    /\ missed = FALSE /\ torn = FALSE /\ surprises = 0

\* There is room in the window being captured.
Captures == todo = <<>> /\ Len(stream) < Window /\ seq <= MaxWindows

\* The frame at head is played, and the phone goes on to the next, or to any song.
Sounds ==
    /\ stream' = Append(stream, head)
    /\ IF head.pos + 1 < LengthOf[head.song]
       THEN head' = [head EXCEPT !.pos = @ + 1] /\ UNCHANGED owed
       ELSE /\ head' \in Starts
            /\ owed' = IF begun' = Never THEN owed
                       ELSE [song |-> head.song, until |-> Now + 1]

\* Ghost: a window from frame 0 on is to the worker the one after the last it assembled,
\* whatever host has written that one: the comparison is strict, and neither the sequences
\* nor the frames tell.
Unaware == assembly.history # <<>> /\ ~Regressed(assembly, 0) /\ ~Gapped(assembly, seq)

\* Ghost: a song begins.  It will be stored if it has a name, and if no frame in the same
\* hop is of a song without one, or of a song whose length was corrected: either can drop
\* the hop.  In the first hop of a host that the worker is not aware of, its start may be
\* recovered out of the hop of the host before.
Begins ==
    IF /\ named /\ \A a \in Range(anchors) : a.titled /\ a.revision = a.rtp
       /\ at = 0 /\ Unaware => Now >= Hop
    THEN Now ELSE Never

\* update_progress.  A song unheard of, or of another length, is a new revision.
Anchor(pos, length, rtp, rev) ==
    [frame |-> Now, pos |-> pos, length |-> length, rtp |-> rtp, revision |-> rev,
     titled |-> named]

Progress(length) ==
    /\ anchors' = Append(anchors, Anchor(head.pos, length, revision + 1, revision + 1))
    /\ revision' = revision + 1

\* A frame of a song the host knows, or its first, announced as it is played.
PlayFrame ==
    /\ Captures
    /\ IF told
       THEN UNCHANGED <<anchors, revision, right, begun>>
       ELSE /\ Progress(LengthOf[head.song])
            /\ right' = IF named THEN Min({right, Now}) ELSE Never
            /\ begun' = IF head.pos = 0 THEN Begins ELSE begun
    /\ Sounds
    /\ told' = (head'.pos # 0)
    /\ UNCHANGED <<at, named, profile, assembly, todo, disk, count, seq, out, missed, torn, surprises>>

\* A frame whose song is announced later.
PlayUnannounced ==
    /\ Captures /\ ~told /\ Surprise
    /\ right' = Never
    /\ begun' = CASE head.pos + 1 = LengthOf[head.song] \/ head.pos >= HistoryHops * Hop -> Never
                  [] head.pos = 0 /\ LengthOf[head.song] > 1 -> Begins
                  [] OTHER -> begun
    /\ Sounds
    /\ told' = FALSE
    /\ UNCHANGED <<at, anchors, revision, named, profile, assembly, todo, disk, count, seq,
                   out, missed, torn>>

\* The song is announced with the length of another one.
PlayMistold ==
    /\ Captures /\ ~told /\ Surprise
    /\ \E song \in Songs :
        /\ LengthOf[song] # LengthOf[head.song] /\ head.pos < LengthOf[song]
        /\ Progress(LengthOf[song])
    /\ right' = Never /\ begun' = Never
    /\ Sounds
    /\ told' = (head'.pos # 0)
    /\ UNCHANGED <<at, named, profile, assembly, todo, disk, count, seq, out, missed, torn>>

\* The host hears of the same song again: a corrected position, or a corrected length,
\* which is a new revision.
Correct ==
    /\ Captures /\ told /\ anchors # <<>> /\ Surprise
    /\ \E pos \in 0..(head.pos + 1), length \in {LengthOf[s] : s \in Songs} :
        /\ Apart(pos, head.pos) <= 1 /\ pos < length
        /\ LET rev == IF length = Last(anchors).length THEN revision ELSE revision + 1 IN
            /\ anchors' = Append(anchors, Anchor(pos, length, Last(anchors).rtp, rev))
            /\ revision' = rev
            /\ IF pos = head.pos /\ length = LengthOf[head.song]
               THEN UNCHANGED begun /\ right' = IF named THEN Min({right, Now}) ELSE Never
               ELSE right' = Never /\ begun' = Never
    /\ UNCHANGED <<stream, at, head, told, named, profile, assembly, todo, disk, count, seq,
                   out, owed, missed, torn>>

\* The listener skips to another song, or within the song.
Skip ==
    /\ Captures /\ Surprise
    /\ \E song \in Songs : \E pos \in 0..(LengthOf[song] - 1) :
        head' = [song |-> song, pos |-> pos] /\ head' # head
    /\ told' = FALSE /\ begun' = Never
    /\ UNCHANGED <<stream, at, anchors, named, revision, profile, assembly, todo, disk, count,
                   seq, out, right, owed, missed, torn>>

\* Ghost: the anchor is right about the frame at head.
Truthful(a) == a.pos + Now - a.frame = head.pos /\ a.length = LengthOf[head.song]

\* set_metadata: title and artist also reach the anchors of a song not far from its start.
Metadata ==
    /\ Captures /\ ~named /\ Surprise
    /\ named' = TRUE
    /\ IF anchors # <<>> /\ Last(anchors).pos + Now - Last(anchors).frame <= Prefix
       THEN /\ anchors' = [i \in 1..Len(anchors) |->
                            [anchors[i] EXCEPT !.titled = @ \/ anchors[i].revision = revision]]
            /\ right' = IF Truthful(Last(anchors)) THEN Now ELSE Never
       ELSE UNCHANGED <<anchors, right>>
    /\ UNCHANGED <<stream, at, head, told, revision, profile, assembly, todo, disk, count, seq,
                   out, begun, owed, missed, torn>>

----------------------------------------------------------------------------
(* The worker and a window.                                                 *)

\* What the loops over a song's source look for (align_source): the place nearest to the
\* position where the frames of the group are.
Places(e, pcm, track) ==
    {p \in 0..(e.length - Len(pcm)) :
        Apart(p, track) <= Radius /\ SubSeq(e.source, p + 1, p + Len(pcm)) = pcm}

Nearest(e, pcm, track) ==
    CHOOSE p \in Places(e, pcm, track) :
        \A q \in Places(e, pcm, track) :
            \/ Apart(p, track) < Apart(q, track)
            \/ Apart(p, track) = Apart(q, track) /\ p <= q

Pcm(g) == SubSeq(stream, g.from - at + 1, g.to - at)

\* SongCache.lookup: the listed songs of this profile, the damaged ones removed.
Candidates == {e \in songs : Complete(e) /\ e.profile = profile}

LookedUp(touched, served) ==
    {IF e \in served THEN [e EXCEPT !.used = 2 * seq + 1]
     ELSE IF e \in touched THEN [e EXCEPT !.used = 2 * seq] ELSE e :
        e \in {f \in songs : ~(Listed(f) /\ ~Complete(f) /\ f.profile = profile)}}

Annotation == AnchorsForWindow(anchors, at, Now)
Segments == OutputSegments(Annotation, at, Now)

\* A song of the cache for every group.
Matches == {choice \in [Groups(Segments) -> Candidates] :
    \A g \in DOMAIN choice : g.titled /\ Places(choice[g], Pcm(g), g.track) # {}}

\* publish_range, publish_composite.
Cut(choice) ==
    [i \in 1..Window |->
        LET g == CHOOSE g \in DOMAIN choice : at + i - 1 \in g.from..(g.to - 1)
            e == choice[g]
        IN  e.stems[Nearest(e, Pcm(g), g.track) + at + i - g.from]]

\* The next window, which begins a hop later.  The host keeps more of its anchors than
\* it will write again.
NextWindow ==
    /\ stream' = SubSeq(stream, Hop + 1, Window)
    /\ at' = at + Hop
    /\ anchors' = AnchorsForWindow(anchors, at + Hop, Now)
    /\ seq' = seq + 1
    /\ UNCHANGED <<head, told, named, revision, profile, count, missed, torn>>

\* The songs with frames in this hop will not be stored.
Disturbed ==
    /\ begun' = IF begun < at + Hop THEN Never ELSE begun
    /\ owed' = IF owed # None /\ owed.until > at THEN None ELSE owed

Publish(stems, scope) ==
    out' = [source |-> stream, profile |-> profile, stems |-> stems, scope |-> scope]

Captured == todo = <<>> /\ Len(stream) = Window

\* _song_cache_hit serves the window, which is not assembled then.
ServeSong ==
    /\ Captured /\ Covers(Segments, at, Now)
    /\ \E choice \in Matches :
        /\ Publish(Cut(choice), "song")
        /\ songs' = LookedUp(Candidates, Range(choice))
    /\ NextWindow
    /\ UNCHANGED <<assembly, todo, windows, right, begun, owed, surprises>>

\* _song_cache_hit finds no song for some group; it has looked if the first has a title.
NoSong(annotated) ==
    /\ annotated /\ Covers(Segments, at, Now) => Matches = {}
    /\ songs' = IF /\ annotated /\ Covers(Segments, at, Now)
                   /\ \E g \in Groups(Segments) : g.from = at /\ g.titled
                THEN LookedUp(Candidates, {}) ELSE songs

\* _annotation_supports_song_cache: the hop has a song, so that no window is stored.
Supported ==
    LET segments == OutputSegments(Annotation, at, at + Hop) IN
    /\ Spans(segments, at, at + Hop)
    /\ \A s \in Range(segments) : s.titled

\* TrackCache.lookup: an entry that fails validation is removed.
SameWindow(w) == w.source = stream /\ w.profile = profile
Hits == {w \in windows : SameWindow(w) /\ Complete(w)}
Invalid == {w \in windows : SameWindow(w) /\ w.state = "damaged"}

StoreWindow == [op |-> "window", source |-> stream, profile |-> profile]

\* The window is played from the window cache or separated, and then assembled.
Assemble(annotated, stems, stores) ==
    LET a == Assembled(assembly, seq, at, stream, stems, Annotation) IN
    IF annotated
    THEN /\ assembly' = a.assembly
         /\ todo' = stores \o [i \in 1..Len(a.finalized) |->
                [op |-> "song", builder |-> a.finalized[i]]]
         /\ UNCHANGED <<right, begun, owed, surprises>>
    ELSE /\ Surprise
         /\ assembly' = Unannotated(assembly, seq)
         /\ todo' = stores
         /\ Disturbed
         /\ UNCHANGED right

ServeWindow ==
    \E annotated \in BOOLEAN, w \in Hits :
        /\ Captured /\ NoSong(annotated)
        /\ Publish(w.stems, "window")
        /\ windows' = (windows \ {w}) \cup {[w EXCEPT !.used = seq]}
        /\ Assemble(annotated, w.stems, <<>>)
        /\ NextWindow

Separated == [i \in 1..Window |-> <<stream[i], profile>>]

Separate ==
    \E annotated \in BOOLEAN :
        /\ Captured /\ NoSong(annotated) /\ Hits = {}
        /\ Publish(Separated, "separated")
        /\ windows' = windows \ Invalid
        /\ Assemble(annotated, Separated,
                    IF annotated /\ Supported THEN <<>> ELSE <<StoreWindow>>)
        /\ NextWindow

\* Separation fails or is not tried: the source is published, and the assembly dropped
\* but for its history and its last sequence.
FallBack ==
    /\ Captured /\ Surprise /\ NoSong(TRUE) /\ Hits = {}
    /\ Publish(<<>>, "fallback")
    /\ windows' = windows \ Invalid
    /\ assembly' = [assembly EXCEPT !.builder = None, !.tail = <<>>]
    /\ Disturbed
    /\ NextWindow
    /\ UNCHANGED <<todo, right>>

----------------------------------------------------------------------------
(* The worker and its disk, one operation at a time.                        *)

Finish == todo' = Tail(todo)
Doing(op) == todo # <<>> /\ Head(todo).op = op
DiskOnly == UNCHANGED <<host, profile, assembly, seq, out, right, begun, missed, torn, surprises>>

\* _publish_builder accepts what has the start of a song, and as much as it is long.
Whole(b) == b.first <= Prefix /\ Len(b.source) >= b.length

Entry(b) == [source |-> SubSeq(b.source, 1, b.length), stems |-> SubSeq(b.stems, 1, b.length),
             length |-> b.length, profile |-> profile, state |-> "complete",
             used |-> 2 * seq + 1]

SameSong(e, f) == e.source = f.source /\ e.length = f.length /\ e.profile = f.profile

\* _finalize_song_builder: a song is stored under its content, unless there is a directory
\* of that name already.
StoreSong ==
    /\ Doing("song")
    /\ LET b == Head(todo).builder
           same == {e \in songs : SameSong(e, Entry(b))}
       IN  \/ /\ ~Whole(b) /\ Finish
              /\ UNCHANGED songs
           \/ /\ Whole(b) /\ same = {}
              /\ songs' = songs \cup {Entry(b)}
              /\ todo' = <<[op |-> "prune"]>> \o Tail(todo)
           \/ /\ Whole(b) /\ \E e \in same : Complete(e)
              /\ todo' = <<[op |-> "prune"]>> \o Tail(todo)
              /\ UNCHANGED songs
           \/ /\ Whole(b) /\ \E e \in same : ~Complete(e)
              /\ songs' = {e \in songs : e \in same => ~Listed(e)}
              /\ Finish
    /\ DiskOnly /\ UNCHANGED <<windows, count, owed>>

Used(entries) == MapThenSumSet(LAMBDA e : e.length, {e \in entries : Listed(e)})
Oldest(entries) == {e \in entries : Listed(e) /\ \A f \in entries : Listed(f) => e.used <= f.used}

\* Ghost: what the song last heard is owed is stored no more, or could not be stored.
Owes(e) == owed # None /\ \E f \in Range(e.source) : f.song = owed.song

\* MUTANT: the page's number is not renewed when songs were evicted.
Prune_Uncounted ==
    /\ Doing("prune") /\ Used(songs) > SongQuota
    /\ \E e \in Oldest(songs) :
        /\ songs' = songs \ {e}
        /\ todo' = IF Used(songs') <= SongQuota THEN Tail(todo) ELSE todo
        /\ owed' = IF Owes(e) THEN None ELSE owed
    /\ DiskOnly /\ UNCHANGED <<windows, count>>

\* prune_to_quota removes the song that was not used for longest until the rest fits.
Prune ==
    /\ Doing("prune") /\ Used(songs) > SongQuota
    /\ \E e \in Oldest(songs) :
        /\ songs' = songs \ {e}
        /\ owed' = IF Owes(e) THEN None ELSE owed
    /\ DiskOnly /\ UNCHANGED <<todo, windows, count>>

\* complete_entry_count, once it fits.
Count ==
    /\ Doing("prune") /\ Used(songs) <= SongQuota
    /\ count' = Cardinality({e \in songs : Listed(e)})
    /\ Finish
    /\ DiskOnly /\ UNCHANGED <<songs, windows, owed>>

\* TrackCache.store_chunk writes the stems and a manifest that says building.
StoreChunk ==
    /\ Doing("window")
    /\ LET w == [source |-> Head(todo).source, profile |-> Head(todo).profile,
                 stems |-> out.stems, state |-> "building", used |-> seq]
       IN  windows' = {v \in windows : v.source # w.source \/ v.profile # w.profile} \cup {w}
    /\ todo' = [todo EXCEPT ![1].op = "complete"]
    /\ DiskOnly /\ UNCHANGED <<songs, count, owed>>

\* TrackCache.finalize.
CompleteWindow ==
    /\ Doing("complete")
    /\ windows' = {IF w.source = Head(todo).source /\ w.profile = Head(todo).profile
                   THEN [w EXCEPT !.state = "complete"] ELSE w : w \in windows}
    /\ Finish
    /\ DiskOnly /\ UNCHANGED <<songs, count, owed>>

\* TrackCache.prune_to_quota, when a session stops.
SweepWindows ==
    /\ Doing("sweep")
    /\ LET complete == {w \in windows : Complete(w) \/ w.state = "damaged"} IN
       IF Cardinality(complete) <= WindowQuota
       THEN Finish /\ UNCHANGED windows
       ELSE /\ \E w \in complete :
                /\ \A v \in complete : w.used <= v.used
                /\ windows' = windows \ {w}
            /\ UNCHANGED todo
    /\ DiskOnly /\ UNCHANGED <<songs, count, owed>>

----------------------------------------------------------------------------
(* Commands, ends and restarts.                                             *)

\* A host that starts has no timeline and counts its stream from zero.
NewHost ==
    /\ stream' = <<>> /\ at' = 0 /\ anchors' = <<>> /\ told' = FALSE /\ revision' = revision
    /\ named' \in BOOLEAN
    /\ right' = Never /\ begun' = Never /\ owed' = None
    /\ UNCHANGED <<head, seq, out>>

\* The host ends and is started again, after any number of windows; the worker is only to
\* see that they begin anew.
HostRestarts ==
    /\ todo = <<>> /\ Surprise
    /\ NewHost
    /\ missed' = (missed \/ Unaware)
    /\ UNCHANGED <<profile, assembly, todo, disk, count, torn>>

\* The stop command: the assembly is dropped, and the window cache pruned.
Stop ==
    /\ todo = <<>> /\ at > 0 /\ Surprise
    /\ NewHost
    /\ assembly' = Empty /\ todo' = <<[op |-> "sweep"]>>
    /\ UNCHANGED <<profile, disk, count, missed, torn>>

\* A start command with another profile.
SwitchProfile ==
    /\ todo = <<>> /\ Surprise
    /\ profile' \in Profiles \ {profile}
    /\ assembly' = Empty
    /\ begun' = IF begun < at THEN Never ELSE begun
    /\ owed' = None
    /\ UNCHANGED <<host, todo, disk, count, seq, out, right, missed, torn>>

\* What a deletion leaves that ends half way: files without some of the audio, or without
\* the manifest.  For a window the latter is as good as nothing.
Remains(e) == {[e EXCEPT !.state = s] : s \in {"damaged", "husk"}}

\* The worker ends between two operations, or within a deletion, and starts again.
Crash ==
    /\ Surprise
    /\ \/ UNCHANGED <<disk, torn>>
       \/ /\ Doing("prune") /\ Used(songs) > SongQuota
          /\ \E e \in Oldest(songs) : \E r \in Remains(e) : songs' = (songs \ {e}) \cup {r}
          /\ torn' = TRUE /\ UNCHANGED windows
       \/ /\ Doing("sweep") /\ Cardinality(windows) > WindowQuota
          /\ \E w \in windows : windows' = (windows \ {w}) \cup {[w EXCEPT !.state = "damaged"]}
          /\ torn' = TRUE /\ UNCHANGED songs
    /\ assembly' = Empty /\ todo' = <<>>
    /\ count' = Cardinality({e \in songs' : Listed(e)})
    /\ begun' = IF begun < at THEN Never ELSE begun
    /\ owed' = None
    /\ UNCHANGED <<host, profile, seq, out, right, missed>>

Next ==
    \/ PlayFrame \/ PlayUnannounced \/ PlayMistold \/ Correct \/ Skip \/ Metadata
    \/ ServeSong \/ ServeWindow \/ Separate \/ FallBack
    \/ StoreSong \/ Prune \/ Count \/ StoreChunk \/ CompleteWindow \/ SweepWindows
    \/ HostRestarts \/ Stop \/ SwitchProfile \/ Crash

Spec == Init /\ [][Next]_vars

----------------------------------------------------------------------------
(* Properties.                                                              *)

\* The frames of a song, as they are played.
Content(song) == [i \in 1..LengthOf[song] |-> [song |-> song, pos |-> i - 1]]

Held(song) == \E e \in Candidates : e.source = Content(song)

\* What is played from a cache is the separation, by the profile of the window, of the very
\* frames in the window: never another song's, another place's or another profile's
\* (docs/product-audio-acceptance.md:26).  Only out of a stored song, and only once the
\* worker was not aware of a new host, a frame may be a crossfade of two.
ServedIsOwnSeparation ==
    out.scope \in {"song", "window"} =>
        /\ Len(out.stems) = Window
        /\ \A i \in 1..Window :
            \/ out.stems[i] = <<out.source[i], out.profile>>
            \/ missed /\ out.scope = "song" /\ out.stems[i] = Garbled

\* The documents say that a crossfade is one along the same timeline (README.md:18), so that
\* what is played from a cache is nothing but the separation.
ServedIsSeparation ==
    out.scope \in {"song", "window"} =>
        out.stems = [i \in 1..Window |-> <<out.source[i], out.profile>>]

\* A song heard from its start to its end while the worker assembled is stored, whatever
\* the phase of the windows, and though its announcement came late
\* (docs/product-audio-acceptance.md:25).  Begins says which songs count.  Two things stand
\* in the way: what a deletion left under its name, and an entry that took frames of it
\* after others.
Spoiled(song) ==
    \/ torn
    \/ \E e \in Candidates :
        e.source # Content(song) /\ Range(e.source) \cap Range(Content(song)) # {}

FullPlayIsStored ==
    owed # None /\ owed.until <= at /\ todo = <<>> => Held(owed.song) \/ Spoiled(owed.song)

\* Once the songs of a window are stored it is not separated again, at whatever phase they
\* are played, across their borders, and by a restarted worker
\* (docs/product-audio-acceptance.md:25).
ReplaysNeedNoGpu == [][
    seq' # seq /\ surprises' = surprises /\ right <= at =>
        out'.scope = "song" \/ \E f \in Range(stream) : ~Held(f.song)]_vars

\* The page's number of songs is what the cache holds, also after a restart, unless a
\* deletion was cut short (README.md:101).
CountIsTrue == todo = <<>> /\ ~torn => count = Cardinality({e \in songs : Complete(e)})
=============================================================================
