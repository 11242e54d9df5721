-------------------------- MODULE StemBufferProofs --------------------------
(***************************************************************************)
(* For every set of stems, capacity, prebuffer and block sizes: the ring   *)
(* keeps its types, never lets a push overwrite what is still to be read,  *)
(* hands back the stems in step, and implements the abstract stream.       *)
(***************************************************************************)
EXTENDS StemBuffer, TLAPS

-----------------------------------------------------------------------------
(* The ring index: on the values it is ever applied to, % is one subtraction. *)

\* Below two turns, the index is the offset or the offset less one turn.
LEMMA WrapLinear ==
    ASSUME NEW i \in Nat, i < 2 * Capacity
    PROVE  Wrap(i) = IF i < Capacity THEN i ELSE i - Capacity
  BY StemBufferAssumption DEF Wrap

\* An index is always a slot.
LEMMA WrapInSlots ==
    ASSUME NEW i \in Nat
    PROVE  Wrap(i) \in Slots
  BY StemBufferAssumption DEF Wrap, Slots

\* Advancing in two steps is advancing once.
LEMMA WrapAdd ==
    ASSUME NEW base \in Slots, NEW i \in 0..Capacity, NEW j \in 0..Capacity,
           i + j <= Capacity
    PROVE  Wrap(Wrap(base + i) + j) = Wrap(base + i + j)
  BY StemBufferAssumption, WrapLinear, WrapInSlots DEF Slots

\* What lies before the start of a push is what its slots meet after its end.
LEMMA WrapBehind ==
    ASSUME NEW base \in Slots, NEW b \in 0..Capacity, NEW i \in 0..(b - 1)
    PROVE  Wrap(Wrap(base + b) + (Capacity - b + i)) = Wrap(base + i)
  BY StemBufferAssumption, WrapLinear, WrapInSlots DEF Slots

\* The two-part copy of a push writes the block's k-th frame into the k-th slot
\* after its start, and no other slot.
LEMMA FilledContents ==
    ASSUME NEW ring \in [Slots -> Nat \cup {Silence}],
           NEW start \in Slots, NEW count \in 1..Capacity, NEW frame \in Nat
    PROVE  /\ Filled(ring, start, count, frame) \in [Slots -> Nat \cup {Silence}]
           /\ \A k \in 0..(count - 1) :
                 Filled(ring, start, count, frame)[Wrap(start + k)] = frame + k
           /\ \A k \in count..(Capacity - 1) :
                 Filled(ring, start, count, frame)[Wrap(start + k)] = ring[Wrap(start + k)]
  <1> DEFINE F == Filled(ring, start, count, frame)
             first == Lesser(count, Capacity - start)
  <1>1. /\ first \in 1..count
        /\ first = count \/ first = Capacity - start
        /\ first <= Capacity - start
    BY StemBufferAssumption DEF Lesser, Slots
  <1>2. F = [i \in Slots |-> IF i \in start..(start + first - 1)
                             THEN frame + (i - start)
                             ELSE IF i < count - first
                                  THEN frame + first + i
                                  ELSE ring[i]]
    BY DEF Filled
  <1> HIDE DEF F, first
  <1>3. F \in [Slots -> Nat \cup {Silence}]
    <2>1. ASSUME NEW i \in Slots
          PROVE  (IF i \in start..(start + first - 1)
                  THEN frame + (i - start)
                  ELSE IF i < count - first THEN frame + first + i ELSE ring[i])
                     \in Nat \cup {Silence}
      <3>1. CASE i \in start..(start + first - 1)
        <4>1. frame + (i - start) \in Nat
          BY <1>1, <3>1 DEF Slots
        <4>2. QED BY <3>1, <4>1
      <3>2. CASE i \notin start..(start + first - 1) /\ i < count - first
        <4>1. frame + first + i \in Nat
          BY <1>1, <3>2 DEF Slots
        <4>2. QED BY <3>2, <4>1
      <3>3. CASE i \notin start..(start + first - 1) /\ ~(i < count - first)
        BY <3>3
      <3>4. QED BY <3>1, <3>2, <3>3
    <2> DEFINE V(i) == IF i \in start..(start + first - 1)
                       THEN frame + (i - start)
                       ELSE IF i < count - first THEN frame + first + i ELSE ring[i]
    <2>2. \A i \in Slots : V(i) \in Nat \cup {Silence}
      BY <2>1
    <2>3. F = [i \in Slots |-> V(i)]
      BY <1>2
    <2> HIDE DEF V
    <2>4. QED BY <2>2, <2>3
  <1>4. ASSUME NEW k \in 0..(count - 1)
        PROVE  F[Wrap(start + k)] = frame + k
    <2>1. Wrap(start + k) = IF start + k < Capacity THEN start + k
                                                    ELSE start + k - Capacity
      BY WrapLinear, StemBufferAssumption DEF Slots
    <2>2. CASE k < first
      <3>1. start + k \in Slots /\ Wrap(start + k) = start + k
        BY <1>1, <2>1, <2>2, StemBufferAssumption DEF Slots
      <3>2. start + k \in start..(start + first - 1)
        BY <1>1, <2>2 DEF Slots
      <3>3. QED
        BY <1>2, <3>1, <3>2 DEF Slots
    <2>3. CASE k >= first
      <3> DEFINE i == start + k - Capacity
      <3>1. first = Capacity - start /\ Wrap(start + k) = i
        BY <1>1, <2>1, <2>3, StemBufferAssumption DEF Slots
      <3>2. i \in Slots /\ i < start /\ i < count - first
        BY <1>1, <2>3, <3>1, StemBufferAssumption DEF Slots
      <3>3. F[i] = frame + first + i
        BY <1>1, <1>2, <3>2 DEF Slots
      <3>4. frame + first + i = frame + k
        BY <1>1, <3>1, StemBufferAssumption DEF Slots
      <3>5. QED
        BY <3>1, <3>3, <3>4
    <2>4. QED
      BY <1>1, <2>2, <2>3
  <1>5. ASSUME NEW k \in count..(Capacity - 1)
        PROVE  F[Wrap(start + k)] = ring[Wrap(start + k)]
    <2> DEFINE i == Wrap(start + k)
    <2>1. i = IF start + k < Capacity THEN start + k ELSE start + k - Capacity
      BY WrapLinear, StemBufferAssumption DEF Slots
    <2>2. i \in Slots /\ i \notin start..(start + first - 1) /\ ~(i < count - first)
      BY <1>1, <2>1, StemBufferAssumption DEF Slots
    <2> HIDE DEF i
    <2>3. F[i] = ring[i]
      BY <1>2, <2>2
    <2>4. QED
      BY <2>3 DEF i
  <1>6. QED
    BY <1>3, <1>4, <1>5 DEF F

\* The two-part copy of a pop reads the n slots from read_frame_ on.
LEMMA ExtractContents ==
    ASSUME NEW ring \in [Slots -> Nat \cup {Silence}], read_frame \in Slots,
           NEW n \in 1..Capacity
    PROVE  Extract(ring, n) = [j \in 1..n |-> ring[Wrap(read_frame + j - 1)]]
  <1> DEFINE first == Lesser(n, Capacity - read_frame)
  <1>1. /\ first \in 1..n
        /\ first = n \/ first = Capacity - read_frame
        /\ first <= Capacity - read_frame
    BY StemBufferAssumption DEF Lesser, Slots
  <1> HIDE DEF first
  <1>2. ASSUME NEW j \in 1..n
        PROVE  (IF j <= first THEN ring[read_frame + j - 1] ELSE ring[j - first - 1])
                  = ring[Wrap(read_frame + j - 1)]
    BY <1>1, WrapLinear, StemBufferAssumption DEF Slots
  <1>3. QED
    BY <1>2 DEF Extract, first

-----------------------------------------------------------------------------
(* The inductive invariant: the ring's geometry and contents, what the two   *)
(* threads have in flight, and the types they rest on.                       *)

IInv == TypeOK /\ RingInv /\ StemsInStep /\ UnderrunEpisodes

\* The empty ring satisfies the invariant.
LEMMA InitInv == Init => IInv
  <1> SUFFICES ASSUME Init PROVE IInv
    OBVIOUS
  <1> USE StemBufferAssumption DEF Init
  <1>1. Wrap(0) = 0 /\ 0 \in Slots
    BY WrapLinear DEF Slots
  <1>2. TypeOK
    <2>1. storage \in [Stems -> [Slots -> Nat \cup {Silence}]]
      OBVIOUS
    <2>2. push \in [phase : {"idle", "copying"}, start : Slots,
                    count : 0..Capacity, copied : SUBSET Stems]
      BY <1>1 DEF NoPush
    <2>3. pop \in [phase : {"idle", "reading"}, count : 0..Capacity]
      BY DEF NoPop
    <2>4. last_underrun \in [buffered : 0..Capacity, total_read : Nat]
      OBVIOUS
    <2>5. DOMAIN scratch \subseteq Stems
      BY DEF EmptyScratch
    <2>6. QED
      BY <1>1, <2>1, <2>2, <2>3, <2>4, <2>5 DEF TypeOK
  <1>3. RingInv
    BY <1>1 DEF RingInv, Geometry, CommittedFramesIntact, PushInFlight, PopInFlight,
                NoPush, NoPop
  <1>4. StemsInStep
    BY DEF StemsInStep
  <1>5. UnderrunEpisodes
    BY DEF UnderrunEpisodes
  <1>6. QED
    BY <1>2, <1>3, <1>4, <1>5 DEF IInv

\* Reserving takes free slots only, behind everything reserved before.
LEMMA PushReserveInv ==
    ASSUME IInv, NEW n \in PushSizes, PushReserve(n)
    PROVE  IInv'
  <1> USE StemBufferAssumption DEF IInv, PushReserve, counters, telemetry, answer, Unlocked
  <1>1. /\ n \in 1..Capacity
        /\ push.phase = "idle" /\ pop.phase = "idle"
        /\ reserved_frames = 0
        /\ write_frame = Wrap(read_frame + buffered_frames)
    <2>1. /\ push.phase = "idle" /\ pop.phase = "idle"
          /\ reserved_frames = 0
      BY DEF RingInv, PushInFlight
    <2>2. n \in 1..Capacity
      BY <2>1 DEF TypeOK
    <2>3. read_frame + buffered_frames + reserved_frames = read_frame + buffered_frames
      BY <2>1 DEF TypeOK, Slots
    <2>4. QED
      BY <2>1, <2>2, <2>3 DEF RingInv, Geometry
  <1>2. write_frame' = Wrap(read_frame + buffered_frames + n)
    BY <1>1, WrapAdd DEF TypeOK, RingInv, Geometry
  <1>3. TypeOK'
    <2>1. write_frame' \in Slots
      BY <1>1, WrapInSlots, SMTT(20) DEF TypeOK, Slots
    <2>2. push' \in [phase : {"idle", "copying"}, start : Slots,
                     count : 0..Capacity, copied : SUBSET Stems]
      BY <1>1 DEF TypeOK
    <2>3. reserved_frames' \in 0..Capacity
      BY <1>1 DEF TypeOK
    <2>4. QED
      BY <2>1, <2>2, <2>3 DEF TypeOK
  <1>4. Geometry'
    BY <1>1, <1>2 DEF TypeOK, RingInv, Geometry
  <1>5. CommittedFramesIntact'
    BY DEF RingInv, CommittedFramesIntact, ReadSlot
  <1>6. PushInFlight'
    BY <1>1 DEF TypeOK, PushInFlight, ReadSlot
  <1>7. PopInFlight'
    BY DEF RingInv, PopInFlight
  <1>8. StemsInStep' /\ UnderrunEpisodes'
    BY DEF StemsInStep, UnderrunEpisodes
  <1>9. QED
    BY <1>3, <1>4, <1>5, <1>6, <1>7, <1>8 DEF RingInv

\* Copying a stem fills the reserved slots and leaves the readable ones alone.
LEMMA PushCopyInv ==
    ASSUME IInv, NEW s \in Stems, PushCopy(s)
    PROVE  IInv'
  <1> USE StemBufferAssumption DEF IInv, PushCopy, counters, telemetry, answer
  <1> DEFINE start == push.start
             count == push.count
             ring == storage[s]
             filled == Filled(ring, start, count, total_written_frames)
  <1>1. /\ start \in Slots /\ count \in 1..Capacity
        /\ count = reserved_frames
        /\ start = Wrap(read_frame + buffered_frames)
        /\ total_written_frames \in Nat
        /\ ring \in [Slots -> Nat \cup {Silence}]
    BY DEF TypeOK, RingInv, PushInFlight, ReadSlot
  <1>2. /\ filled \in [Slots -> Nat \cup {Silence}]
        /\ \A k \in 0..(count - 1) : filled[Wrap(start + k)] = total_written_frames + k
        /\ \A k \in count..(Capacity - 1) : filled[Wrap(start + k)] = ring[Wrap(start + k)]
    BY <1>1, FilledContents
  <1>3. storage' = [storage EXCEPT ![s] = filled]
    OBVIOUS
  <1> HIDE DEF filled
  <1>4. TypeOK'
    BY <1>2, <1>3 DEF TypeOK
  <1>5. Geometry'
    BY DEF RingInv, Geometry
  <1>6. CommittedFramesIntact'
    <2> SUFFICES ASSUME NEW t \in Stems, NEW i \in 0..(buffered_frames - 1)
                 PROVE  storage'[t][ReadSlot(i)] = total_read_frames + i
      BY DEF CommittedFramesIntact, ReadSlot
    <2>1. storage[t][ReadSlot(i)] = total_read_frames + i
      BY DEF RingInv, CommittedFramesIntact
    <2>2. CASE t # s
      BY <1>3, <2>1, <2>2 DEF TypeOK
    <2>3. CASE t = s
      <3> DEFINE k == Capacity - buffered_frames + i
      <3>1. k \in count..(Capacity - 1)
        BY <1>1 DEF TypeOK, RingInv, Geometry
      <3>2. ReadSlot(i) = Wrap(start + k)
        BY <1>1, WrapBehind DEF TypeOK, ReadSlot
      <3>3. filled[ReadSlot(i)] = ring[ReadSlot(i)]
        BY <1>2, <3>1, <3>2
      <3>4. QED
        BY <1>3, <2>1, <2>3, <3>3 DEF TypeOK
    <2>4. QED
      BY <2>2, <2>3
  <1>7. PushInFlight'
    <2>1. /\ push'.phase = "copying" /\ push'.count = count /\ push'.start = start
          /\ push'.copied = push.copied \cup {s}
      BY DEF TypeOK
    <2>2. ASSUME NEW t \in push'.copied, NEW i \in 0..(count - 1)
          PROVE  storage'[t][Wrap(start + i)] = total_written_frames + i
      <3>1. CASE t = s
        BY <1>2, <1>3, <3>1 DEF TypeOK
      <3>2. CASE t # s
        BY <1>3, <2>1, <3>2 DEF TypeOK, RingInv, PushInFlight
      <3>3. QED
        BY <3>1, <3>2
    <2>3. QED
      BY <2>1, <2>2 DEF RingInv, PushInFlight, ReadSlot
  <1>8. PopInFlight'
    BY DEF RingInv, PopInFlight
  <1>9. StemsInStep' /\ UnderrunEpisodes'
    BY DEF StemsInStep, UnderrunEpisodes
  <1>10. QED
    BY <1>4, <1>5, <1>6, <1>7, <1>8, <1>9 DEF RingInv

\* Committing turns the reserved slots, all copied, into readable ones.
LEMMA PushCommitInv ==
    ASSUME IInv, PushCommit
    PROVE  IInv'
  <1> USE StemBufferAssumption DEF IInv, PushCommit, telemetry, answer, Unlocked
  <1> DEFINE count == push.count
  <1>1. /\ count \in 1..Capacity /\ count = reserved_frames
        /\ push.start = Wrap(read_frame + buffered_frames)
        /\ buffered_frames + count <= Capacity
        /\ total_written_frames + count <= TotalFrames
        /\ pop.phase = "idle"
    BY DEF TypeOK, RingInv, PushInFlight, ReadSlot, Geometry
  <1>2. /\ reserved_frames' = 0 /\ buffered_frames' = buffered_frames + count
        /\ total_written_frames' = total_written_frames + count
    BY <1>1 DEF TypeOK
  <1>3. TypeOK'
    BY <1>1, <1>2 DEF TypeOK, NoPush, Slots
  <1>4. Geometry'
    <2>1. read_frame + buffered_frames + reserved_frames
             = read_frame + buffered_frames' + reserved_frames'
      BY <1>1, <1>2 DEF TypeOK, Slots
    <2>2. write_frame' = Wrap(read_frame' + buffered_frames' + reserved_frames')
      BY <2>1 DEF RingInv, Geometry
    <2>3. QED
      BY <1>1, <1>2, <2>2 DEF TypeOK, RingInv, Geometry
  <1>5. CommittedFramesIntact'
    <2>1. ASSUME NEW t \in Stems, NEW i \in 0..(buffered_frames + count - 1)
          PROVE  storage[t][ReadSlot(i)] = total_read_frames + i
      <3>1. CASE i < buffered_frames
        BY <3>1 DEF TypeOK, RingInv, CommittedFramesIntact
      <3>2. CASE i >= buffered_frames
        <4> DEFINE k == i - buffered_frames
        <4>1. k \in 0..(count - 1) /\ i = buffered_frames + k
          BY <1>1, <3>2 DEF TypeOK
        <4>2. ReadSlot(i) = Wrap(push.start + k)
          <5> HIDE DEF k
          <5>1. Wrap(Wrap(read_frame + buffered_frames) + k)
                   = Wrap(read_frame + buffered_frames + k)
            BY <1>1, <4>1, WrapAdd DEF TypeOK
          <5>2. read_frame + i = read_frame + buffered_frames + k
            BY <4>1 DEF TypeOK, Slots
          <5>3. QED
            BY <1>1, <5>1, <5>2 DEF ReadSlot
        <4>3. storage[t][Wrap(push.start + k)] = total_written_frames + k
          BY <4>1 DEF RingInv, PushInFlight
        <4>4. total_written_frames + k = total_read_frames + i
          BY <4>1 DEF TypeOK, RingInv, Geometry
        <4>5. QED
          BY <4>2, <4>3, <4>4
      <3>3. QED
        BY <3>1, <3>2 DEF TypeOK
    <2>2. /\ storage' = storage /\ read_frame' = read_frame
          /\ total_read_frames' = total_read_frames
      OBVIOUS
    <2>3. \A t \in Stems, i \in 0..(buffered_frames' - 1) :
             storage'[t][Wrap(read_frame' + i)] = total_read_frames' + i
      BY <1>1, <1>2, <2>1, <2>2 DEF ReadSlot, TypeOK
    <2>4. QED
      BY <2>3 DEF CommittedFramesIntact, ReadSlot
  <1>6. PushInFlight'
    BY <1>2 DEF PushInFlight, NoPush
  <1>7. PopInFlight'
    BY <1>1 DEF RingInv, PopInFlight, NoPop
  <1>8. StemsInStep'
    BY DEF StemsInStep
  <1>9. UnderrunEpisodes'
    BY <1>1, <1>2 DEF TypeOK, UnderrunEpisodes
  <1>10. QED
    BY <1>3, <1>4, <1>5, <1>6, <1>7, <1>8, <1>9 DEF RingInv

\* A poll of a ring that is still filling changes the answer only.
LEMMA PopPrebufferingInv ==
    ASSUME IInv, NEW n \in PopSizes, PopPrebuffering(n)
    PROVE  IInv'
  <1> USE StemBufferAssumption DEF IInv, PopPrebuffering, counters, telemetry
  <1>1. TypeOK'
    BY DEF TypeOK
  <1>2. RingInv'
    BY DEF RingInv, Geometry, CommittedFramesIntact, PushInFlight, PopInFlight, ReadSlot
  <1>3. StemsInStep'
    <2>1. n \in 0..Capacity
      OBVIOUS
    <2>2. QED
      BY <2>1 DEF StemsInStep
  <1>4. UnderrunEpisodes'
    BY DEF UnderrunEpisodes
  <1>5. QED
    BY <1>1, <1>2, <1>3, <1>4

\* An underrun is counted when sound stops, which takes sound since the last one.
LEMMA PopUnderrunInv ==
    ASSUME IInv, NEW n \in PopSizes, PopUnderrun(n)
    PROVE  IInv'
  <1> USE StemBufferAssumption DEF IInv, PopUnderrun, counters, Unlocked
  <1>1. /\ LowWater \in 0..Capacity /\ LowWater <= buffered_frames
        /\ pop.phase = "idle"
    BY DEF LowWater, Lesser, TypeOK, UnderrunEpisodes
  <1>2. TypeOK'
    <2>1. last_underrun' \in [buffered : 0..Capacity, total_read : Nat]
      BY DEF TypeOK
    <2>2. underruns' \in Nat /\ minimum_buffered_frames' \in 0..Capacity
      BY <1>1 DEF TypeOK
    <2>3. QED
      BY <2>1, <2>2 DEF TypeOK
  <1>3. RingInv'
    BY <1>1 DEF RingInv, Geometry, CommittedFramesIntact, PushInFlight, PopInFlight, ReadSlot
  <1>4. StemsInStep'
    <2>1. n \in 0..Capacity
      OBVIOUS
    <2>2. QED
      BY <2>1 DEF StemsInStep
  <1>5. UnderrunEpisodes'
    BY <1>1 DEF TypeOK, UnderrunEpisodes
  <1>6. QED
    BY <1>2, <1>3, <1>4, <1>5

\* Admission of a pop fixes frames that are there.
LEMMA PopBeginInv ==
    ASSUME IInv, NEW n \in PopSizes, PopBegin(n)
    PROVE  IInv'
  <1> USE StemBufferAssumption DEF IInv, PopBegin, counters, telemetry, answer, Unlocked
  <1>1. n \in 1..buffered_frames /\ n \in 1..Capacity
    BY DEF TypeOK
  <1>2. TypeOK'
    BY <1>1 DEF TypeOK
  <1>3. Geometry' /\ CommittedFramesIntact' /\ PushInFlight'
    BY DEF RingInv, Geometry, CommittedFramesIntact, PushInFlight, ReadSlot
  <1>4. PopInFlight'
    BY <1>1 DEF RingInv, PopInFlight, EmptyScratch
  <1>5. StemsInStep'
    BY DEF StemsInStep
  <1>6. UnderrunEpisodes'
    BY DEF UnderrunEpisodes
  <1>7. QED
    BY <1>2, <1>3, <1>4, <1>5, <1>6 DEF RingInv

\* A stem copied out is the head of the stream.
LEMMA PopCopyInv ==
    ASSUME IInv, NEW s \in Stems, PopCopy(s)
    PROVE  IInv'
  <1> USE StemBufferAssumption DEF IInv, PopCopy, counters, telemetry, answer
  <1> DEFINE n == pop.count
             head == [j \in 1..n |-> total_read_frames + j - 1]
  <1>1. n \in 1..buffered_frames /\ n \in 1..Capacity
    BY DEF TypeOK, RingInv, PopInFlight
  <1>2. Extract(storage[s], n) = head
    <2>1. Extract(storage[s], n) = [j \in 1..n |-> storage[s][Wrap(read_frame + j - 1)]]
      BY <1>1, ExtractContents DEF TypeOK
    <2>2. ASSUME NEW j \in 1..n
          PROVE  storage[s][Wrap(read_frame + j - 1)] = total_read_frames + j - 1
      <3>1. j - 1 \in 0..(buffered_frames - 1)
        BY <1>1 DEF TypeOK
      <3>2. read_frame + (j - 1) = read_frame + j - 1
            /\ total_read_frames + (j - 1) = total_read_frames + j - 1
        BY <1>1 DEF TypeOK, Slots
      <3>3. storage[s][ReadSlot(j - 1)] = total_read_frames + (j - 1)
        BY <3>1 DEF RingInv, CommittedFramesIntact
      <3>4. QED
        BY <3>2, <3>3 DEF ReadSlot
    <2>3. QED
      BY <2>1, <2>2
  <1> HIDE DEF head
  <1>3. scratch = [t \in DOMAIN scratch |-> head]
    BY DEF RingInv, PopInFlight, head
  <1>4. scratch' = [t \in DOMAIN scratch \cup {s} |-> head]
    BY <1>2, <1>3
  <1>5. TypeOK'
    BY <1>4 DEF TypeOK
  <1>6. Geometry' /\ CommittedFramesIntact' /\ PushInFlight'
    BY DEF RingInv, Geometry, CommittedFramesIntact, PushInFlight, ReadSlot
  <1>7. PopInFlight'
    <2>1. DOMAIN scratch' = DOMAIN scratch \cup {s}
      BY <1>4
    <2>2. scratch' = [t \in DOMAIN scratch' |-> head]
      BY <1>4, <2>1
    <2>3. QED
      BY <2>2 DEF RingInv, PopInFlight, head
  <1>8. StemsInStep' /\ UnderrunEpisodes'
    BY DEF StemsInStep, UnderrunEpisodes
  <1>9. QED
    BY <1>5, <1>6, <1>7, <1>8 DEF RingInv

\* Finishing a pop moves the head past exactly what was copied out.
LEMMA PopEndInv ==
    ASSUME IInv, PopEnd
    PROVE  IInv'
  <1> USE StemBufferAssumption DEF IInv, PopEnd
  <1> DEFINE n == pop.count
  <1>1. /\ n \in 1..buffered_frames /\ n \in 1..Capacity
        /\ buffered_frames + reserved_frames <= Capacity
        /\ pop.phase = "reading"
        /\ playing
    BY DEF TypeOK, RingInv, PopInFlight, Geometry
  <1>2. /\ read_frame' = Wrap(read_frame + n) /\ read_frame' \in Slots
        /\ buffered_frames' = buffered_frames - n
        /\ total_read_frames' = total_read_frames + n
    <2>1. read_frame + n \in Nat
      BY <1>1, SMTT(20) DEF TypeOK, Slots
    <2>2. QED
      BY <2>1, WrapInSlots
  <1>3. minimum_buffered_frames' \in 0..Capacity
        /\ minimum_buffered_frames' <= buffered_frames'
    BY <1>1, <1>2 DEF TypeOK, Lesser
  <1>4. TypeOK'
    BY <1>1, <1>2, <1>3, SMTT(20) DEF TypeOK, NoPop, EmptyScratch
  \* An offset from the new head is the same slot seen from the old one.
  <1>5. ASSUME NEW i \in 0..(Capacity - n)
        PROVE  Wrap(read_frame' + i) = Wrap(read_frame + (n + i))
    <2>1. Wrap(Wrap(read_frame + n) + i) = Wrap(read_frame + n + i)
      BY <1>1, WrapAdd DEF TypeOK
    <2>2. read_frame + n + i = read_frame + (n + i)
      BY <1>1 DEF TypeOK, Slots
    <2>3. QED
      BY <1>2, <2>1, <2>2
  <1>6. Geometry'
    <2> DEFINE i == buffered_frames - n + reserved_frames
    <2>1. i \in 0..(Capacity - n) /\ n + i = buffered_frames + reserved_frames
      BY <1>1 DEF TypeOK
    <2>2. Wrap(read_frame' + i) = Wrap(read_frame + (buffered_frames + reserved_frames))
      <3> HIDE DEF i
      <3>1. QED
        BY <1>5, <2>1
    <2>3. /\ read_frame' + i = read_frame' + buffered_frames' + reserved_frames'
          /\ read_frame + (buffered_frames + reserved_frames)
                = read_frame + buffered_frames + reserved_frames
      BY <1>1, <1>2 DEF TypeOK, Slots
    <2>4. write_frame' = Wrap(read_frame' + buffered_frames' + reserved_frames')
      BY <2>2, <2>3 DEF RingInv, Geometry
    <2>5. QED
      BY <1>1, <1>2, <2>4 DEF TypeOK, RingInv, Geometry
  <1>7. CommittedFramesIntact'
    <2>1. ASSUME NEW t \in Stems, NEW i \in 0..(buffered_frames - n - 1)
          PROVE  storage[t][Wrap(read_frame' + i)] = total_read_frames + n + i
      <3>1. n + i \in 0..(buffered_frames - 1) /\ i \in 0..(Capacity - n)
        BY <1>1 DEF TypeOK
      <3>2. storage[t][ReadSlot(n + i)] = total_read_frames + (n + i)
        BY <3>1 DEF RingInv, CommittedFramesIntact
      <3>3. total_read_frames + (n + i) = total_read_frames + n + i
        BY <1>1 DEF TypeOK
      <3>4. QED
        BY <1>5, <3>1, <3>2, <3>3 DEF ReadSlot
    <2>2. QED
      BY <1>1, <1>2, <2>1 DEF CommittedFramesIntact, ReadSlot, TypeOK
  <1>8. PushInFlight'
    <2>1. Wrap(read_frame' + buffered_frames') = Wrap(read_frame + buffered_frames)
      <3> DEFINE i == buffered_frames - n
      <3>1. i \in 0..(Capacity - n) /\ n + i = buffered_frames
        BY <1>1 DEF TypeOK
      <3> HIDE DEF i
      <3>2. Wrap(read_frame' + i) = Wrap(read_frame + buffered_frames)
        BY <1>5, <3>1
      <3>3. QED
        BY <1>2, <3>2 DEF i
    <2>2. QED
      BY <2>1 DEF RingInv, PushInFlight, ReadSlot
  <1>9. PopInFlight'
    BY DEF PopInFlight, NoPop
  <1>10. StemsInStep'
    <2>1. output' = [s \in Stems |-> [j \in 1..n |-> total_read_frames + j - 1]]
      BY <1>1 DEF RingInv, PopInFlight
    <2>2. ASSUME NEW j \in 1..n
          PROVE  total_read_frames + j - 1 = total_read_frames' - n + j - 1
      BY <1>1, <1>2 DEF TypeOK
    <2>3. output' = [s \in Stems |-> [j \in 1..n |-> total_read_frames' - n + j - 1]]
      BY <2>1, <2>2
    <2>4. n \in 0..Capacity /\ n <= total_read_frames' /\ state' = "audio"
      BY <1>1, <1>2 DEF TypeOK
    <2>5. QED
      BY <2>3, <2>4 DEF StemsInStep
  <1>11. UnderrunEpisodes'
    BY <1>1, <1>2, <1>3 DEF TypeOK, UnderrunEpisodes
  <1>12. QED
    BY <1>4, <1>6, <1>7, <1>8, <1>9, <1>10, <1>11 DEF RingInv

\* Every step keeps the invariant: one case per action.
LEMMA NextInv == IInv /\ [Next]_vars => IInv'
  <1> SUFFICES ASSUME IInv, [Next]_vars PROVE IInv'
    OBVIOUS
  <1>1. ASSUME NEW n \in PushSizes, PushReserve(n) PROVE IInv'
    BY <1>1, PushReserveInv
  <1>2. ASSUME NEW s \in Stems, PushCopy(s) PROVE IInv'
    BY <1>2, PushCopyInv
  <1>3. CASE PushCommit
    BY <1>3, PushCommitInv
  <1>4. ASSUME NEW n \in PopSizes, PopPrebuffering(n) PROVE IInv'
    BY <1>4, PopPrebufferingInv
  <1>5. ASSUME NEW n \in PopSizes, PopUnderrun(n) PROVE IInv'
    BY <1>5, PopUnderrunInv
  <1>6. ASSUME NEW n \in PopSizes, PopBegin(n) PROVE IInv'
    BY <1>6, PopBeginInv
  <1>7. ASSUME NEW s \in Stems, PopCopy(s) PROVE IInv'
    BY <1>7, PopCopyInv
  <1>8. CASE PopEnd
    BY <1>8, PopEndInv
  <1>9. CASE UNCHANGED vars
    BY <1>9 DEF vars, counters, telemetry, answer, IInv, TypeOK, RingInv, Geometry,
                CommittedFramesIntact, PushInFlight, PopInFlight, ReadSlot,
                StemsInStep, UnderrunEpisodes
  <1>10. QED
    BY <1>1, <1>2, <1>3, <1>4, <1>5, <1>6, <1>7, <1>8, <1>9 DEF Next, Loader, Renderer

\* The inductive invariant holds of every behaviour.
THEOREM Invariance == Spec => []IInv
  BY InitInv, NextInv, PTL DEF Spec

\* The ring is one interval of the stream at all times: readable frames first,
\* the reserved ones of a push in flight behind them.
THEOREM RingStaysWhole == Spec => []RingInv
  BY Invariance, PTL DEF IInv

\* Type correctness, for every geometry of the ring.
THEOREM TypeCorrect == Spec => []TypeOK
  BY Invariance, PTL DEF IInv

\* A push in flight never overwrites a frame that is still to be read.
THEOREM FramesIntact == Spec => []CommittedFramesIntact
  <1>1. IInv => CommittedFramesIntact
    BY DEF IInv, RingInv
  <1>2. QED
    BY Invariance, <1>1, PTL

\* The device hears the stream in order and every stem at the same place.
THEOREM InStep == Spec => []StemsInStep
  BY Invariance, PTL DEF IInv

\* Underruns are counted once per episode, whatever the polling.
THEOREM Episodes == Spec => []UnderrunEpisodes
  BY Invariance, PTL DEF IInv

-----------------------------------------------------------------------------
(* Refinement: the ring implements StemStream.  Only a commit, the start of  *)
(* sound and the answers of pop are visible there; every copy is a stutter.  *)

\* The ring starts where the stream starts.
LEMMA StreamInit == Init => Stream!Init
  BY DEF Init, Silent, Stream!Init, Stream!SilentBlock

\* Every step of the ring is a step of the stream or a stutter.
LEMMA StreamStep == IInv /\ [Next]_vars => [Stream!Next]_(Stream!vars)
  <1> SUFFICES ASSUME IInv, [Next]_vars PROVE [Stream!Next]_(Stream!vars)
    OBVIOUS
  <1> USE StemBufferAssumption DEF Stream!vars, Stream!Held
  <1>1. /\ total_written_frames - total_read_frames = buffered_frames
        /\ buffered_frames \in 0..Capacity /\ reserved_frames \in 0..Capacity
        /\ buffered_frames + reserved_frames <= Capacity
        /\ total_read_frames \in Nat /\ total_written_frames \in Nat
    BY DEF IInv, TypeOK, RingInv, Geometry
  <1>2. ASSUME NEW n \in PushSizes, PushReserve(n)
        PROVE  UNCHANGED Stream!vars
    BY <1>2 DEF PushReserve, answer
  <1>3. ASSUME NEW s \in Stems, PushCopy(s) \/ PopCopy(s)
        PROVE  UNCHANGED Stream!vars
    BY <1>3 DEF PushCopy, PopCopy, counters, answer
  <1>4. ASSUME PushCommit
        PROVE  \E n \in PushSizes : Stream!AppendBlock(n)
    <2>1. /\ push.count \in PushSizes /\ push.count = reserved_frames
          /\ total_written_frames + push.count <= TotalFrames
      BY <1>4 DEF PushCommit, IInv, RingInv, PushInFlight
    <2>2. Stream!AppendBlock(push.count)
      BY <1>1, <1>4, <2>1 DEF PushCommit, answer, Stream!AppendBlock
    <2>3. QED
      BY <2>1, <2>2
  <1>5. ASSUME NEW n \in PopSizes, PopPrebuffering(n)
        PROVE  Stream!StaySilent(n)
    BY <1>5 DEF PopPrebuffering, counters, Silent, Stream!StaySilent, Stream!SilentBlock
  <1>6. ASSUME NEW n \in PopSizes, PopUnderrun(n)
        PROVE  Stream!StaySilent(n)
    BY <1>1, <1>6 DEF PopUnderrun, counters, Silent, Stream!StaySilent, Stream!SilentBlock
  <1>7. ASSUME NEW n \in PopSizes, PopBegin(n)
        PROVE  Stream!Resume \/ UNCHANGED Stream!vars
    BY <1>1, <1>7 DEF PopBegin, counters, answer, IInv, TypeOK, Stream!Resume
  <1>8. ASSUME PopEnd
        PROVE  \E n \in PopSizes : Stream!Play(n)
    <2>1. /\ pop.count \in PopSizes /\ pop.count <= buffered_frames /\ playing
          /\ scratch = [s \in DOMAIN scratch |->
                           [j \in 1..pop.count |-> total_read_frames + j - 1]]
      BY <1>8 DEF PopEnd, IInv, RingInv, PopInFlight
    <2>2. output' = Stream!Block(total_read_frames, pop.count)
      BY <1>8, <2>1 DEF PopEnd, Stream!Block
    <2>3. Stream!Play(pop.count)
      BY <1>1, <1>8, <2>1, <2>2 DEF PopEnd, Stream!Play
    <2>4. QED
      BY <2>1, <2>3
  <1>9. ASSUME UNCHANGED vars
        PROVE  UNCHANGED Stream!vars
    BY <1>9 DEF vars, counters, answer
  <1>10. QED
    BY <1>2, <1>3, <1>4, <1>5, <1>6, <1>7, <1>8, <1>9
       DEF Next, Loader, Renderer, Stream!Next

\* The detailed ring implements the abstract listening session.
THEOREM Refinement == Spec => ImplementsStream
  BY StreamInit, StreamStep, Invariance, PTL DEF Spec, ImplementsStream, Stream!Spec
=============================================================================
