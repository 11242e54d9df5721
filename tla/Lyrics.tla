------------------------------- MODULE Lyrics -------------------------------
(***************************************************************************)
(* The lyrics service of the desktop app (lyrics.py) between the host that *)
(* says what the phone plays, the provider on the network, the cache on    *)
(* disk and the page.  A lookup takes seconds; the track it was made for   *)
(* may be gone when its answer is written, and the page decides by         *)
(* revision, title and artist alone whether the lyrics are shown.          *)
(***************************************************************************)
EXTENDS Naturals

CONSTANTS
    Titles,     \* what metadata may name: title and artist, normalized
    Lengths,    \* durations of recordings, in seconds
    Near,       \* by how many seconds a candidate of a search may differ
    Retry,      \* retry_seconds, in ticks of the clock
    NoTitle,    \* no metadata received
    None,       \* no token, and no document
    MaxNews,    \* bound: changes of the phone's, the host's and the app's state
    MaxFaults   \* bound: requests and writes that fail

ASSUME LengthsAssumption == Lengths \subseteq Nat \ {0}
ASSUME NumbersAssumption == {Near, Retry, MaxNews, MaxFaults} \subseteq Nat
ASSUME NamesAssumption ==
    /\ NoTitle \notin Titles
    /\ None \notin [title : Titles, length : Lengths]
    /\ None \notin [revision : Nat, key : [title : Titles, length : Lengths]]

VARIABLES
    airplay,    \* airplay-status.json: whether it streams or is paused, and its track
    life,       \* ghost: which host process wrote airplay-status.json
    step,       \* where refresh is
    track,      \* its local track
    source,     \* ghost: the host process that track was read from
    document,   \* its local document: the recording whose lines it holds
    last,       \* _last_track_token
    retry,      \* _retry_track_token
    wait,       \* ticks until _next_retry_monotonic
    status,     \* lyrics-status.json
    cache,      \* the files of LyricsCache by key
    asked,      \* ghost: the token of the last lookup since which no other track was seen
    since,      \* ghost: ticks since that lookup began, at most Retry
    news, faults

service == <<step, track, source, document, last, retry, wait, asked>>
lyrics_vars == <<airplay, life, service, status, cache, since, news, faults>>

Recordings == [title : Titles, length : Lengths]
Tracks == [revision : Nat, title : Titles \cup {NoTitle}, length : Lengths \cup {0}]

\* A cache file, or a token without its revision: cache_key.
Key(t) == [title |-> t.title, length |-> t.length]

\* from_airplay_status returns a track.
Wanted == airplay.on /\ airplay.track.title # NoTitle /\ airplay.track.length # 0

Apart(a, b) == IF a > b THEN a - b ELSE b - a

\* lyrics-status.json; life is a ghost: the host process that the track was read from.
Status(state, t) == [state |-> state, track |-> t, lines |-> document, life |-> source]

\* What the page shows under the track that plays (same_track and state ready).
SameTrack ==
    /\ status.state # "absent"
    /\ airplay.track.revision > 0
    /\ status.track.revision = airplay.track.revision
    /\ status.track.title = airplay.track.title
Shown == SameTrack /\ status.state = "ready"

FreshHost == [on |-> FALSE, track |-> [revision |-> 0, title |-> NoTitle, length |-> 0]]

\* The app may be started when a song is already playing.
LyricsInit ==
    /\ airplay \in {FreshHost} \cup
         [on : {TRUE}, track : [revision : {1}, title : Titles, length : Lengths]]
    /\ life = 0
    /\ step = "rest" /\ track = FreshHost.track /\ source = 0 /\ document = None
    /\ last = None /\ retry = None /\ wait = 0
    /\ status = Status("absent", FreshHost.track)
    /\ cache = [k \in Recordings |-> None]
    /\ asked = None /\ since = Retry
    /\ news = 0 /\ faults = 0

-----------------------------------------------------------------------------
(* The phone and the host *)

Changed == news < MaxNews /\ news' = news + 1

Renewed(t, n) == [revision |-> t.revision + 1, title |-> t.title, length |-> n]

\* update_progress with another range: a new revision; the metadata follow by themselves.
NewTrack ==
    /\ Changed
    /\ \E n \in Lengths :
        airplay' = [airplay EXCEPT !.track = Renewed(airplay.track, n)]
    /\ UNCHANGED <<life, service, status, cache, since, faults>>

\* set_metadata: no new revision.
Metadata ==
    /\ Changed
    /\ \E n \in Titles :
        /\ n # airplay.track.title
        /\ airplay' = [airplay EXCEPT !.track.title = n]
    /\ UNCHANGED <<life, service, status, cache, since, faults>>

\* The phone connects and streams, or closes its connection.
Connection ==
    /\ Changed
    /\ airplay' = [airplay EXCEPT !.on = ~@]
    /\ UNCHANGED <<life, service, status, cache, since, faults>>

\* A new host process counts its revisions from zero.
HostRestarts ==
    /\ Changed
    /\ airplay' = FreshHost
    /\ life' = life + 1
    /\ UNCHANGED <<service, status, cache, since, faults>>

-----------------------------------------------------------------------------
(* The service *)

Fault == faults < MaxFaults /\ faults' = faults + 1
NoFault == UNCHANGED faults

Token(t) == [revision |-> t.revision, key |-> Key(t)]

Fails_Forgets == retry' = None /\ wait' = Retry /\ step' = "error" /\ document' = None
Fails_AtOnce == retry' = Token(track) /\ wait' = 0 /\ step' = "error" /\ document' = None

\* The except branch of refresh, before it writes a status without lines.
Fails ==
    /\ retry' = Token(track)
    /\ wait' = Retry
    /\ step' = "error" /\ document' = None

\* refresh without a track: the tokens are dropped, and the status is replaced once.
RefreshIdle ==
    /\ step = "rest" /\ ~Wanted
    /\ last' = None /\ retry' = None /\ asked' = None /\ since' = Retry
    /\ \/ status.state = "waiting" /\ UNCHANGED status /\ NoFault
       \/ status.state # "waiting" /\ status' = Status("waiting", FreshHost.track) /\ NoFault
       \/ status.state # "waiting" /\ UNCHANGED status /\ Fault
    /\ UNCHANGED <<airplay, life, step, track, source, document, wait, cache, news>>

\* refresh returns what is on disk: the same track, answered or not yet to be asked again.
Settled ==
    /\ Token(airplay.track) = last
    /\ status.state # "absent"
    /\ ~(last = retry /\ wait = 0)

\* refresh takes up the track of this moment.
RefreshTrack ==
    /\ step = "rest" /\ Wanted /\ ~Settled
    /\ track' = airplay.track /\ source' = life
    /\ last' = Token(airplay.track)
    /\ step' = "load"
    /\ document' = None
    /\ IF asked = Token(airplay.track)
       THEN UNCHANGED <<asked, since>>
       ELSE asked' = None /\ since' = Retry
    /\ UNCHANGED <<airplay, life, retry, wait, status, cache, news, faults>>

\* LyricsCache.load; without a document the lookup begins.
Load ==
    /\ step = "load"
    /\ document' = cache[Key(track)]
    /\ IF cache[Key(track)] # None
       THEN step' = "ready" /\ UNCHANGED <<asked, since>>
       ELSE step' = "cached" /\ asked' = Token(track) /\ since' = 0
    /\ UNCHANGED <<airplay, life, track, source, last, retry, wait, status, cache, news, faults>>

\* A request fails, or is answered with anything but 200 and 404.
RequestFails ==
    /\ step \in {"cached", "search", "get"}
    /\ Fault
    /\ Fails
    /\ UNCHANGED <<airplay, life, track, source, last, status, cache, asked, since, news>>

\* get-cached and get: the provider answers for title, album and duration, or not at all.
AskExactly(here, otherwise) ==
    /\ step = here
    /\ \/ document' = Key(track) /\ step' = "store"
       \/ document' = document /\ step' = otherwise
    /\ UNCHANGED <<airplay, life, track, source, last, retry, wait, status, cache, asked, since, news, faults>>

\* The candidates of a search that fetch keeps.
Accepted(found) ==
    {r \in found : r.title = track.title /\ Apart(r.length, track.length) <= Near}

\* search: the closest of the accepted recordings, whatever the provider thinks alike.
Search ==
    /\ step = "search"
    /\ \E found \in SUBSET Recordings :
        LET close == Accepted(found)
        IN \/ close = {} /\ step' = "get" /\ document' = document
           \/ /\ step' = "store"
              /\ document' \in {r \in close : \A other \in close :
                    Apart(r.length, track.length) <= Apart(other.length, track.length)}
    /\ UNCHANGED <<airplay, life, track, source, last, retry, wait, status, cache, asked, since, news, faults>>

\* LyricsCache.store, under the key of the track that was looked up.
Store ==
    /\ step = "store"
    /\ \/ /\ NoFault
          /\ cache' = [cache EXCEPT ![Key(track)] = document]
          /\ step' = "ready"
          /\ UNCHANGED <<retry, wait, document>>
       \/ Fault /\ Fails /\ UNCHANGED cache
    /\ UNCHANGED <<airplay, life, track, source, last, status, asked, since, news>>

\* refresh returns, and its locals are gone.
Returns == step' = "rest" /\ track' = FreshHost.track /\ source' = 0 /\ document' = None

Report_CurrentTrack == Status(step, airplay.track)

\* What refresh writes: the track it took up and the outcome it came to.
Report == Status(step, track)

\* The status is written for the track that was taken up; a failed write is one more error.
Write ==
    /\ step \in {"ready", "not_found"}
    /\ \/ /\ NoFault
          /\ status' = Report
          /\ retry' = None
          /\ Returns
          /\ UNCHANGED wait
       \/ Fault /\ Fails /\ UNCHANGED <<status, track, source>>
    /\ UNCHANGED <<airplay, life, last, cache, asked, since, news>>

\* The status of a failure; run swallows the OSError of a write that fails too.
WriteError ==
    /\ step = "error"
    /\ \/ NoFault /\ status' = Report
       \/ Fault /\ UNCHANGED status
    /\ Returns
    /\ UNCHANGED <<airplay, life, last, retry, wait, cache, asked, since, news>>

\* The app is started again: a fresh service before the files of the last one.
AppRestarts ==
    /\ Changed
    /\ Returns
    /\ last' = None /\ retry' = None /\ wait' = 0
    /\ asked' = None /\ since' = Retry
    /\ UNCHANGED <<airplay, life, status, cache, faults>>

\* Time passes, as far as anyone looks at it.
Tick ==
    /\ wait > 0 \/ since < Retry
    /\ wait' = IF wait > 0 THEN wait - 1 ELSE wait
    /\ since' = IF since < Retry THEN since + 1 ELSE since
    /\ UNCHANGED <<airplay, life, step, track, source, document, last, retry, status, cache, asked, news, faults>>

Environment == NewTrack \/ Metadata \/ Connection \/ HostRestarts \/ AppRestarts

Service ==
    \/ RefreshIdle \/ RefreshTrack \/ Load
    \/ AskExactly("cached", "search") \/ Search \/ AskExactly("get", "not_found")
    \/ RequestFails \/ Store \/ Write \/ WriteError

LyricsNext == Environment \/ Service \/ Tick

\* run polls for ever, every request ends within its timeout, and time passes.
Fairness == WF_lyrics_vars(Service) /\ WF_lyrics_vars(Tick)

LyricsSpec == LyricsInit /\ [][LyricsNext]_lyrics_vars /\ Fairness
-----------------------------------------------------------------------------
(* Properties *)

Steps == {"rest", "load", "cached", "search", "get", "store", "ready", "not_found", "error"}
Tokens == [revision : Nat, key : Recordings]

\* Types of the files, of the service and of the ghosts.
LyricsTypeOK ==
    /\ airplay \in [on : BOOLEAN, track : Tracks]
    /\ step \in Steps /\ track \in Tracks /\ document \in Recordings \cup {None}
    /\ last \in Tokens \cup {None} /\ retry \in Tokens \cup {None} /\ asked \in Tokens \cup {None}
    /\ wait \in 0..Retry /\ since \in 0..Retry
    /\ status \in [state : {"absent", "waiting", "ready", "not_found", "error"},
                   track : Tracks, lines : Recordings \cup {None}, life : Nat]
    /\ cache \in [Recordings -> Recordings \cup {None}]
    /\ life \in Nat /\ source \in Nat /\ news \in Nat /\ faults \in Nat

\* Lyrics that the page shows are of the title that plays and of a recording of its length,
\* however the track changed while they were looked up (README.md:94, "any mismatch of
\* revision, title or artist hides the old lyrics at once", and README.md:95).  The length
\* may be wrong only until the service has seen the first track of a new host process.
ShownLyricsBelong ==
    Shown =>
        /\ status.lines # None
        /\ status.lines.title = airplay.track.title
        /\ status.life = life => Apart(status.lines.length, airplay.track.length) <= Near

\* A track whose lookup failed is not looked up again before its time (README.md:92), as
\* long as no other track was seen, the app was not restarted, and there is a status file.
RetryLimited ==
    [][ /\ step = "load" /\ step' = "cached"
        /\ asked = Token(track) /\ status.state # "absent"
        => since = Retry ]_lyrics_vars

\* When faults and changes end, the status comes to say waiting without a track, and to give
\* the answer for the track there is: neither a stale track nor an error stays for ever.
StatusSettles ==
    <>[] IF Wanted
         THEN SameTrack /\ status.track.length = airplay.track.length
              /\ status.state \in {"ready", "not_found"}
         ELSE status.state = "waiting"
=============================================================================
