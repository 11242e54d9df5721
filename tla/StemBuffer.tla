----------------------------- MODULE StemBuffer -----------------------------
(***************************************************************************)
(* SynchronizedStemBuffer (src/host/src/stem_stream_buffer.cpp): the ring  *)
(* between the loader thread, which pushes separated windows, and the      *)
(* WASAPI render thread, which pops one device period at a time.           *)
(*                                                                         *)
(* A push reserves its frames under mutex_, copies every stem WITHOUT the  *)
(* mutex, and commits under the mutex again; producer_mutex_ keeps two     *)
(* pushes apart.  A pop holds mutex_ from its first test to its return,    *)
(* so its copies interleave with the copies of a push and with nothing     *)
(* else.  One frame is one natural number, its position on the stream, in  *)
(* every stem: the samples themselves do not matter.                       *)
(*                                                                         *)
(* A try_push that finds no room and the argument errors (throw) change    *)
(* nothing and are not actions.                                            *)
(***************************************************************************)
EXTENDS Integers

CONSTANTS Stems,        \* active_stems_
          Capacity,     \* capacity_frames_
          Prebuffer,    \* prebuffer_frames_
          PushSizes,    \* frames of the blocks the loader pushes
          PopSizes,     \* frames the device may ask for
          TotalFrames,  \* bound: frames ever pushed
          Silence       \* the zero sample

ASSUME StemBufferAssumption ==
    /\ Stems # {}
    /\ Capacity \in Nat \ {0}
    /\ Prebuffer \in 1..Capacity
    /\ PushSizes \subseteq Nat \ {0}
    /\ PopSizes \subseteq 1..Capacity
    /\ TotalFrames \in Nat
    /\ Silence \notin Int

VARIABLES storage,      \* storage_: per stem, the ring of frames
          read_frame, write_frame,
          buffered_frames, reserved_frames,
          minimum_buffered_frames,
          total_written_frames, total_read_frames,
          underruns, last_underrun,
          playing, has_rendered_audio,
          push,         \* the push that holds producer_mutex_, if any
          pop,          \* the pop that holds mutex_, if any
          scratch,      \* the stems that pop has copied out so far
          output,       \* the block the last finished pop handed back
          state         \* the BufferReadState it returned

counters == <<buffered_frames, reserved_frames, total_written_frames, total_read_frames>>
telemetry == <<minimum_buffered_frames, underruns, last_underrun, has_rendered_audio>>
answer == <<output, state>>
vars == <<storage, read_frame, write_frame, counters, telemetry, playing,
          push, pop, scratch, answer>>

Slots == 0..(Capacity - 1)
Wrap(i) == i % Capacity
Lesser(a, b) == IF a <= b THEN a ELSE b

NoPush == [phase |-> "idle", start |-> 0, count |-> 0, copied |-> {}]
NoPop == [phase |-> "idle", count |-> 0]
EmptyScratch == [s \in {} |-> <<>>]

\* clear_outputs: every sample of every stem of the request.
Silent(n) == [s \in Stems |-> [i \in 1..n |-> Silence]]

\* mutex_ is free for a short critical section.
Unlocked == pop.phase = "idle"

Init ==
    /\ storage = [s \in Stems |-> [i \in Slots |-> Silence]]
    /\ read_frame = 0 /\ write_frame = 0
    /\ buffered_frames = 0 /\ reserved_frames = 0
    /\ minimum_buffered_frames = Capacity
    /\ total_written_frames = 0 /\ total_read_frames = 0
    /\ underruns = 0 /\ last_underrun = [buffered |-> 0, total_read |-> 0]
    /\ playing = FALSE /\ has_rendered_audio = FALSE
    /\ push = NoPush /\ pop = NoPop
    /\ scratch = EmptyScratch
    /\ output = Silent(0) /\ state = "prebuffering"

-----------------------------------------------------------------------------
(* try_push *)

\* MUTANT: admission that forgets what is still waiting to be read.
PushReserve_Overwrites(n) ==
    /\ push.phase = "idle" /\ Unlocked
    /\ total_written_frames + n <= TotalFrames
    /\ n <= Capacity - reserved_frames
    /\ push' = [phase |-> "copying", start |-> write_frame, count |-> n, copied |-> {}]
    /\ write_frame' = Wrap(write_frame + n)
    /\ reserved_frames' = reserved_frames + n
    /\ UNCHANGED <<storage, read_frame, buffered_frames, total_written_frames,
                   total_read_frames, telemetry, playing, pop, scratch, answer>>

\* MUTANT: frames become readable when they are reserved, before the copy.
PushReserve_CommitsEarly(n) ==
    /\ push.phase = "idle" /\ Unlocked
    /\ total_written_frames + n <= TotalFrames
    /\ n <= Capacity - buffered_frames - reserved_frames
    /\ push' = [phase |-> "copying", start |-> write_frame, count |-> 0, copied |-> {}]
    /\ write_frame' = Wrap(write_frame + n)
    /\ buffered_frames' = buffered_frames + n
    /\ total_written_frames' = total_written_frames + n
    /\ UNCHANGED <<storage, read_frame, reserved_frames,
                   total_read_frames, telemetry, playing, pop, scratch, answer>>

\* The first critical section: all-or-nothing admission of the block.
PushReserve(n) ==
    /\ push.phase = "idle" /\ Unlocked
    /\ total_written_frames + n <= TotalFrames
    /\ n <= Capacity - buffered_frames - reserved_frames
    /\ push' = [phase |-> "copying", start |-> write_frame, count |-> n, copied |-> {}]
    /\ write_frame' = Wrap(write_frame + n)
    /\ reserved_frames' = reserved_frames + n
    /\ UNCHANGED <<storage, read_frame, buffered_frames, total_written_frames,
                   total_read_frames, telemetry, playing, pop, scratch, answer>>

\* MUTANT: the tail of a wrapped block continues at the block's own start.
Filled_NoRestart(ring, start, count, first_frame) ==
    LET first == Lesser(count, Capacity - start)
    IN  [i \in Slots |-> IF i \in start..(start + first - 1)
                         THEN first_frame + (i - start)
                         ELSE IF i < count - first
                              THEN first_frame + i
                              ELSE ring[i]]

\* The ring of one stem after copy_n to the end of the storage and, for what
\* is left of the block, copy_n from its beginning.
Filled(ring, start, count, first_frame) ==
    LET first == Lesser(count, Capacity - start)
    IN  [i \in Slots |-> IF i \in start..(start + first - 1)
                         THEN first_frame + (i - start)
                         ELSE IF i < count - first
                              THEN first_frame + first + i
                              ELSE ring[i]]

\* The copy of one stem, outside mutex_.  The order of the stems is immaterial.
PushCopy(s) ==
    /\ push.phase = "copying" /\ s \notin push.copied
    /\ storage' = [storage EXCEPT ![s] =
                       Filled(@, push.start, push.count, total_written_frames)]
    /\ push' = [push EXCEPT !.copied = @ \cup {s}]
    /\ UNCHANGED <<read_frame, write_frame, counters, telemetry, playing,
                   pop, scratch, answer>>

\* MUTANT: the reservation is never given back.
PushCommit_Leaks ==
    /\ push.phase = "copying" /\ push.copied = Stems /\ Unlocked
    /\ buffered_frames' = buffered_frames + push.count
    /\ total_written_frames' = total_written_frames + push.count
    /\ push' = NoPush
    /\ UNCHANGED <<storage, read_frame, write_frame, reserved_frames,
                   total_read_frames, telemetry, playing, pop, scratch, answer>>

\* The second critical section makes the whole block readable at once.
PushCommit ==
    /\ push.phase = "copying" /\ push.copied = Stems /\ Unlocked
    /\ reserved_frames' = reserved_frames - push.count
    /\ buffered_frames' = buffered_frames + push.count
    /\ total_written_frames' = total_written_frames + push.count
    /\ push' = NoPush
    /\ UNCHANGED <<storage, read_frame, write_frame, total_read_frames,
                   telemetry, playing, pop, scratch, answer>>

-----------------------------------------------------------------------------
(* pop *)

\* MUTANT: an underrun is counted again by every silent request that follows.
PopPrebuffering_Counts(n) ==
    /\ Unlocked /\ ~playing
    /\ buffered_frames < Prebuffer \/ buffered_frames < n
    /\ underruns' = IF has_rendered_audio THEN underruns + 1 ELSE underruns
    /\ output' = Silent(n) /\ state' = "prebuffering"
    /\ UNCHANGED <<storage, read_frame, write_frame, counters, minimum_buffered_frames,
                   last_underrun, has_rendered_audio, playing, push, pop, scratch>>

\* Not playing and not enough to start: silence, nothing consumed.
PopPrebuffering(n) ==
    /\ Unlocked /\ ~playing
    /\ buffered_frames < Prebuffer \/ buffered_frames < n
    /\ output' = Silent(n) /\ state' = "prebuffering"
    /\ UNCHANGED <<storage, read_frame, write_frame, counters, telemetry, playing,
                   push, pop, scratch>>

LowWater == IF has_rendered_audio
            THEN Lesser(minimum_buffered_frames, buffered_frames)
            ELSE buffered_frames

\* Playing and not enough for this request: silence, and prebuffer again.
PopUnderrun(n) ==
    /\ Unlocked /\ playing /\ buffered_frames < n
    /\ minimum_buffered_frames' = LowWater
    /\ underruns' = underruns + 1
    /\ last_underrun' = [buffered |-> buffered_frames, total_read |-> total_read_frames]
    /\ playing' = FALSE
    /\ output' = Silent(n) /\ state' = "underrun"
    /\ UNCHANGED <<storage, read_frame, write_frame, counters, has_rendered_audio,
                   push, pop, scratch>>

\* MUTANT: sound starts on whatever is there.
PopBegin_NoPrebuffer(n) ==
    /\ Unlocked
    /\ buffered_frames >= n
    /\ playing' = TRUE
    /\ pop' = [phase |-> "reading", count |-> n]
    /\ UNCHANGED <<storage, read_frame, write_frame, counters, telemetry,
                   push, scratch, answer>>

\* Enough frames: mutex_ is kept while every stem is copied out.
PopBegin(n) ==
    /\ Unlocked
    /\ playing \/ buffered_frames >= Prebuffer
    /\ buffered_frames >= n
    /\ playing' = TRUE
    /\ pop' = [phase |-> "reading", count |-> n]
    /\ UNCHANGED <<storage, read_frame, write_frame, counters, telemetry,
                   push, scratch, answer>>

\* The frames a pop of n copies out of one ring: to its end, then from slot 0.
Extract(ring, n) ==
    LET first == Lesser(n, Capacity - read_frame)
    IN  [j \in 1..n |-> IF j <= first THEN ring[read_frame + j - 1]
                                      ELSE ring[j - first - 1]]

PopCopy(s) ==
    /\ pop.phase = "reading" /\ s \notin DOMAIN scratch
    /\ scratch' = [t \in DOMAIN scratch \cup {s} |->
                      IF t = s THEN Extract(storage[s], pop.count) ELSE scratch[t]]
    /\ UNCHANGED <<storage, read_frame, write_frame, counters, telemetry, playing,
                   push, pop, answer>>

PopEnd ==
    /\ pop.phase = "reading" /\ DOMAIN scratch = Stems
    /\ read_frame' = Wrap(read_frame + pop.count)
    /\ buffered_frames' = buffered_frames - pop.count
    /\ total_read_frames' = total_read_frames + pop.count
    /\ minimum_buffered_frames' =
          IF has_rendered_audio
          THEN Lesser(minimum_buffered_frames, buffered_frames - pop.count)
          ELSE buffered_frames - pop.count
    /\ has_rendered_audio' = TRUE
    /\ output' = scratch /\ state' = "audio"
    /\ pop' = NoPop /\ scratch' = EmptyScratch
    /\ UNCHANGED <<storage, write_frame, reserved_frames, total_written_frames,
                   underruns, last_underrun, playing, push>>

-----------------------------------------------------------------------------
Loader == \/ \E n \in PushSizes : PushReserve(n)
          \/ \E s \in Stems : PushCopy(s)
          \/ PushCommit

Renderer == \/ \E n \in PopSizes : PopPrebuffering(n) \/ PopUnderrun(n) \/ PopBegin(n)
            \/ \E s \in Stems : PopCopy(s)
            \/ PopEnd

Next == Loader \/ Renderer

Spec == Init /\ [][Next]_vars

\* Both threads keep running: the render thread is woken by every device
\* period, the loader retries a refused block.  mutex_ is held for one copy at
\* most and the render thread waits for the device between pops, so a thread
\* that keeps finding the mutex free now and then does get it.
Fairness == /\ SF_vars(\E n \in PushSizes : PushReserve(n))
            /\ WF_vars(\E s \in Stems : PushCopy(s))
            /\ SF_vars(PushCommit)
            /\ WF_vars(Renderer)

FairSpec == Spec /\ Fairness

-----------------------------------------------------------------------------
(* Properties *)

\* Type invariant: every counter and index stays inside the ring, a push or a
\* pop in flight describes a block that fits it.
TypeOK ==
    /\ storage \in [Stems -> [Slots -> Nat \cup {Silence}]]
    /\ read_frame \in Slots /\ write_frame \in Slots
    /\ buffered_frames \in 0..Capacity /\ reserved_frames \in 0..Capacity
    /\ minimum_buffered_frames \in 0..Capacity
    /\ total_written_frames \in 0..TotalFrames /\ total_read_frames \in Nat
    /\ underruns \in Nat
    /\ last_underrun \in [buffered : 0..Capacity, total_read : Nat]
    /\ playing \in BOOLEAN /\ has_rendered_audio \in BOOLEAN
    /\ push \in [phase : {"idle", "copying"}, start : Slots,
                 count : 0..Capacity, copied : SUBSET Stems]
    /\ pop \in [phase : {"idle", "reading"}, count : 0..Capacity]
    /\ DOMAIN scratch \subseteq Stems
    /\ state \in {"prebuffering", "audio", "underrun"}

\* The i-th frame still to be read, and the slot it lives in.
ReadSlot(i) == Wrap(read_frame + i)

\* The ring is one interval of the stream: what is buffered, then what is
\* reserved, and write_frame_ is where it ends.
Geometry ==
    /\ buffered_frames + reserved_frames <= Capacity
    /\ write_frame = Wrap(read_frame + buffered_frames + reserved_frames)
    /\ total_written_frames = total_read_frames + buffered_frames

\* Every readable frame of every stem is the frame the stream has there: the
\* unlocked copies of a push (l.92-109) never reach a slot pop may read.
CommittedFramesIntact ==
    \A s \in Stems : \A i \in 0..(buffered_frames - 1) :
        storage[s][ReadSlot(i)] = total_read_frames + i

\* A push in flight owns exactly the reserved slots, behind the readable ones,
\* and the stems it has copied hold the frames to come.
PushInFlight ==
    /\ push.phase = "idle" => push = NoPush /\ reserved_frames = 0
    /\ push.phase = "copying" =>
          /\ push.count = reserved_frames /\ push.count \in PushSizes
          /\ push.start = ReadSlot(buffered_frames)
          /\ total_written_frames + push.count <= TotalFrames
          /\ \A s \in push.copied : \A i \in 0..(push.count - 1) :
                storage[s][Wrap(push.start + i)] = total_written_frames + i

\* A pop in flight was admitted on frames it still has, and what it has copied
\* out is the head of the stream.
PopInFlight ==
    /\ pop.phase = "idle" => pop = NoPop /\ scratch = EmptyScratch
    /\ pop.phase = "reading" =>
          /\ pop.count \in PopSizes /\ pop.count <= buffered_frames /\ playing
          /\ scratch = [s \in DOMAIN scratch |->
                           [j \in 1..pop.count |-> total_read_frames + j - 1]]

\* Inductive invariant of the ring.
RingInv == /\ Geometry
           /\ CommittedFramesIntact
           /\ PushInFlight
           /\ PopInFlight

\* Whatever the two threads do, what pop handed back is either the frames of the
\* stream directly before those still to be read, the same ones in every stem,
\* or explicit silence in every stem (stem_stream_buffer.h:54, "Non-audio
\* states always clear every output sample to silence").
StemsInStep ==
    \E n \in 0..Capacity :
        IF state = "audio"
        THEN /\ n <= total_read_frames
             /\ output = [s \in Stems |-> [j \in 1..n |-> total_read_frames - n + j - 1]]
        ELSE output = Silent(n)

\* Telemetry counts rebuffering episodes: between two underruns some audio was
\* heard, so repeated polling of a dry ring never inflates the count, and the
\* reported low-water mark is never above what is buffered now.
UnderrunEpisodes ==
    /\ underruns <= total_read_frames
    /\ playing /\ pop.phase = "idle" => underruns < total_read_frames
    /\ has_rendered_audio => minimum_buffered_frames <= buffered_frames

\* The ring implements the abstract stream.
Stream == INSTANCE StemStream WITH
              written <- total_written_frames, read <- total_read_frames,
              sounding <- playing, heard <- output

ImplementsStream == Stream!Spec

\* After an underrun, or at the start, sound comes back as long as the loader
\* still has a ring's worth of stream to push: a remainder left by an underrun
\* never wedges the reserve below the prebuffer mark.
PlaybackResumes ==
    (~playing /\ TotalFrames - total_written_frames >= Capacity) ~> playing
=============================================================================
