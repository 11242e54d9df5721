--------------------------- MODULE HostAudioProofs ---------------------------
(***************************************************************************)
(* Proofs about the two outputs of the host's render thread.  MixerGains,  *)
(* for any stems, scale of gains, smoothing time and block length: the     *)
(* reported snapshot is whole, and a ramp ends on its target exactly.      *)
(* DeviceQueue, for any number of slots, packet and block sizes and        *)
(* sequence span: blocks enter the queue whole, every gap of the stream is *)
(* visible in the numbers of the packets around it, and every frame of the *)
(* timeline is accounted for.                                              *)
(***************************************************************************)
EXTENDS MixerGains, DeviceQueue, TLAPS, WellFoundedInduction

-----------------------------------------------------------------------------
(* MixerGains. *)

Snapshots == [sequence : 0..MaxSnapshots, gains : [Stems -> Gains]]
GainStates == [current : Gains, target : Gains, remaining : 0..Smoothing]

\* What the control thread holds is a snapshot the page has written: the one in the file,
\* or an older one.
SnapshotOfThePage ==
    /\ control.snapshot.sequence <= file.sequence
    /\ control.snapshot.sequence = file.sequence => control.snapshot.gains = file.gains

\* The targets are the snapshot's as far as it has been applied.
TargetsFollow ==
    /\ applied_control_sequence <= file.sequence
    /\ \A s \in control.set : target_gains[s] = control.snapshot.gains[s]
    /\ control.phase = "poll" =>
        /\ applied_control_sequence = control.snapshot.sequence
        /\ target_gains = control.snapshot.gains

MixerInv == MixerTypeOK /\ SnapshotOfThePage /\ TargetsFollow /\ RampsEndOnTarget

-----------------------------------------------------------------------------
(* What set_gain and advance_gain leave of a gain. *)

LEMMA SetGainIs ==
    ASSUME NEW state \in GainStates, NEW g \in Gains
    PROVE  SetGain(state, g) \in GainStates /\ SetGain(state, g).remaining # 0
  BY MixerGainsAssumption DEF SetGain, GainStates

\* A frame count goes down to zero and no further.
LEMMA FramesLeftType ==
    ASSUME NEW state \in GainStates
    PROVE  FramesLeft(state) \in 0..Smoothing
  BY MixerGainsAssumption DEF FramesLeft, GainStates

\* A gain whose ramp is over is on its target.
LEMMA ReachedOnTarget ==
    ASSUME NEW state \in GainStates, state.remaining = 0 => state.current = state.target,
           NEW g \in ReachedGains(state), FramesLeft(state) = 0
    PROVE  g = state.target
  BY DEF ReachedGains

-----------------------------------------------------------------------------
LEMMA MixerInitInv == MixerInit => MixerInv
  <1> SUFFICES ASSUME MixerInit PROVE MixerInv
    OBVIOUS
  <1>1. Full \in [Stems -> Gains] /\ Unity \in Gains /\ 0 \in 0..MaxSnapshots /\ 0 \in 0..Smoothing
    BY MixerGainsAssumption DEF Full, Gains
  <1>2. MixerTypeOK
    BY <1>1, MixerGainsAssumption DEF MixerInit, MixerTypeOK
  <1> QED
    BY <1>1, <1>2 DEF MixerInit, MixerInv, SnapshotOfThePage, TargetsFollow, RampsEndOnTarget

LEMMA WriteInv == MixerInv /\ WriteMixerControl => MixerInv'
  <1> SUFFICES ASSUME MixerInv, WriteMixerControl PROVE MixerInv'
    OBVIOUS
  <1>1. PICK g \in [Stems -> Gains] : file' = [sequence |-> file.sequence + 1, gains |-> g]
    BY DEF WriteMixerControl
  <1>2. file'.sequence = file.sequence + 1 /\ file'.sequence \in 0..MaxSnapshots
    BY <1>1, MixerGainsAssumption DEF MixerInv, MixerTypeOK, WriteMixerControl
  <1>3. MixerTypeOK'
    BY <1>1, <1>2 DEF MixerInv, MixerTypeOK, WriteMixerControl
  <1>4. SnapshotOfThePage' /\ TargetsFollow'
    BY <1>2 DEF MixerInv, MixerTypeOK, WriteMixerControl, SnapshotOfThePage, TargetsFollow
  <1> QED
    BY <1>3, <1>4 DEF MixerInv, WriteMixerControl, RampsEndOnTarget

LEMMA ControlReadsInv == MixerInv /\ ControlReads => MixerInv'
  <1> SUFFICES ASSUME MixerInv, ControlReads PROVE MixerInv'
    OBVIOUS
  <1>1. /\ control'.phase = "apply" /\ control'.snapshot = file /\ control'.set = {}
        /\ control' \in [phase : {"poll", "apply"}, set : SUBSET Stems, snapshot : Snapshots]
    BY DEF ControlReads, MixerInv, MixerTypeOK, Snapshots
  <1>2. MixerTypeOK'
    BY <1>1 DEF MixerInv, MixerTypeOK, ControlReads, Snapshots
  <1>3. SnapshotOfThePage' /\ TargetsFollow'
    BY <1>1 DEF MixerInv, MixerTypeOK, ControlReads, SnapshotOfThePage, TargetsFollow
  <1> QED
    BY <1>2, <1>3 DEF MixerInv, ControlReads, RampsEndOnTarget

LEMMA ControlSetsInv == ASSUME NEW s \in Stems, MixerInv, ControlSets(s) PROVE MixerInv'
  <1>1. /\ control'.phase = "apply" /\ control'.snapshot = control.snapshot
        /\ control'.set = control.set \cup {s}
        /\ control' \in [phase : {"poll", "apply"}, set : SUBSET Stems, snapshot : Snapshots]
    BY DEF ControlSets, MixerInv, MixerTypeOK, Snapshots
  <1>2. /\ target_gains' \in [Stems -> Gains]
        /\ target_gains'[s] = control.snapshot.gains[s]
        /\ \A t \in Stems \ {s} : target_gains'[t] = target_gains[t]
    BY DEF ControlSets, MixerInv, MixerTypeOK
  <1>3. MixerTypeOK'
    BY <1>1, <1>2 DEF MixerInv, MixerTypeOK, ControlSets, Snapshots
  <1>4. SnapshotOfThePage' /\ TargetsFollow'
    BY <1>1, <1>2 DEF MixerInv, MixerTypeOK, ControlSets, SnapshotOfThePage, TargetsFollow
  <1> QED
    BY <1>3, <1>4 DEF MixerInv, ControlSets, RampsEndOnTarget

LEMMA ControlDoneInv == MixerInv /\ ControlDone => MixerInv'
  <1> SUFFICES ASSUME MixerInv, ControlDone PROVE MixerInv'
    OBVIOUS
  <1>1. /\ control'.phase = "poll" /\ control'.snapshot = control.snapshot
        /\ control'.set = control.set
        /\ control' \in [phase : {"poll", "apply"}, set : SUBSET Stems, snapshot : Snapshots]
    BY DEF ControlDone, MixerInv, MixerTypeOK, Snapshots
  <1>2. MixerTypeOK'
    BY <1>1 DEF MixerInv, MixerTypeOK, ControlDone, Snapshots
  <1>3. target_gains = control.snapshot.gains
    BY DEF ControlDone, MixerInv, MixerTypeOK, TargetsFollow
  <1>4. SnapshotOfThePage' /\ TargetsFollow'
    BY <1>1, <1>3 DEF MixerInv, MixerTypeOK, ControlDone, SnapshotOfThePage, TargetsFollow
  <1> QED
    BY <1>2, <1>4 DEF MixerInv, ControlDone, RampsEndOnTarget

LEMMA OpensInv == MixerInv /\ RendererOpens => MixerInv'
  <1> SUFFICES ASSUME MixerInv, RendererOpens PROVE MixerInv'
    OBVIOUS
  <1>1. Full \in [Stems -> Gains]
    BY MixerGainsAssumption DEF Full, Gains
  <1>2. MixerTypeOK'
    BY <1>1 DEF MixerInv, MixerTypeOK, RendererOpens
  <1> QED
    BY <1>2 DEF MixerInv, RendererOpens, SnapshotOfThePage, TargetsFollow, RampsEndOnTarget

LEMMA LooksInv == ASSUME NEW s \in Stems, MixerInv, RendererLooks(s) PROVE MixerInv'
  <1>1. gains \in [Stems -> GainStates]
    BY DEF MixerInv, MixerTypeOK, GainStates
  <1>2. renderer' \in [phase : {"closed", "render"}, looked : SUBSET Stems]
    BY DEF MixerInv, MixerTypeOK, RendererLooks
  <1>3. SnapshotOfThePage' /\ TargetsFollow'
    BY DEF MixerInv, RendererLooks, SnapshotOfThePage, TargetsFollow
  <1>4. CASE target_gains[s] = applied_gains[s]
    <2>1. UNCHANGED <<applied_gains, gains>>
      BY <1>4 DEF RendererLooks
    <2> QED
      BY <1>2, <1>3, <2>1 DEF MixerInv, MixerTypeOK, RendererLooks, RampsEndOnTarget
  <1>5. CASE target_gains[s] # applied_gains[s]
    <2> DEFINE set == SetGain(gains[s], target_gains[s])
    <2>1. gains[s] \in GainStates /\ target_gains[s] \in Gains
      BY <1>1 DEF MixerInv, MixerTypeOK
    <2>2. set \in GainStates /\ set.remaining # 0
      BY <2>1, SetGainIs
    <2>3. gains' = [gains EXCEPT ![s] = set]
      BY <1>5 DEF RendererLooks
    <2> HIDE DEF set
    <2>4. gains' \in [Stems -> GainStates]
      BY <1>1, <2>2, <2>3
    <2>5. applied_gains' \in [Stems -> Gains]
      BY <1>5, <2>1 DEF RendererLooks, MixerInv, MixerTypeOK
    <2>6. RampsEndOnTarget'
      BY <1>1, <2>2, <2>3 DEF MixerInv, RampsEndOnTarget
    <2>7. MixerTypeOK'
      BY <1>2, <2>4, <2>5 DEF MixerInv, MixerTypeOK, RendererLooks, GainStates
    <2> QED
      BY <1>3, <2>6, <2>7 DEF MixerInv
  <1> QED
    BY <1>4, <1>5

LEMMA RenderAudioInv == MixerInv /\ RenderAudio => MixerInv'
  <1> SUFFICES ASSUME MixerInv, RenderAudio PROVE MixerInv'
    OBVIOUS
  <1>1. gains \in [Stems -> GainStates]
    BY DEF MixerInv, MixerTypeOK, GainStates
  <1>2. PICK reached \in [Stems -> Gains] :
          /\ \A s \in Stems : reached[s] \in ReachedGains(gains[s])
          /\ gains' = [s \in Stems |-> [current |-> reached[s], target |-> gains[s].target,
                                        remaining |-> FramesLeft(gains[s])]]
    BY DEF RenderAudio
  <1>3. ASSUME NEW s \in Stems
        PROVE  /\ gains'[s] = [current |-> reached[s], target |-> gains[s].target,
                               remaining |-> FramesLeft(gains[s])]
               /\ FramesLeft(gains[s]) \in 0..Smoothing
    <2>1. gains[s] \in GainStates
      BY <1>1
    <2>2. FramesLeft(gains[s]) \in 0..Smoothing
      BY <2>1, FramesLeftType
    <2> QED
      BY <1>2, <2>1, <2>2 DEF GainStates
  <1>4. gains' \in [Stems -> GainStates]
    <2>1. \A s \in Stems : gains'[s] \in GainStates
      <3> TAKE s \in Stems
      <3>1. /\ gains'[s] = [current |-> reached[s], target |-> gains[s].target,
                            remaining |-> FramesLeft(gains[s])]
            /\ FramesLeft(gains[s]) \in 0..Smoothing
        BY <1>3
      <3>2. gains[s].target \in Gains /\ reached[s] \in Gains
        BY <1>1 DEF GainStates
      <3> QED
        BY <3>1, <3>2 DEF GainStates
    <2> QED
      BY <1>2, <2>1
  <1>5. RampsEndOnTarget'
    <2> SUFFICES ASSUME NEW s \in Stems, gains'[s].remaining = 0
                 PROVE  gains'[s].current = gains'[s].target
      BY DEF RampsEndOnTarget
    <2>1. /\ FramesLeft(gains[s]) = 0 /\ gains'[s].current = reached[s]
          /\ gains'[s].target = gains[s].target
      <3>1. gains'[s] = [current |-> reached[s], target |-> gains[s].target,
                         remaining |-> FramesLeft(gains[s])]
        BY <1>3
      <3> QED
        BY <3>1
    <2>2. reached[s] = gains[s].target
      BY <1>1, <1>2, <2>1, ReachedOnTarget DEF MixerInv, RampsEndOnTarget
    <2> QED
      BY <2>1, <2>2
  <1>6. renderer' \in [phase : {"closed", "render"}, looked : SUBSET Stems]
    BY DEF MixerInv, MixerTypeOK, RenderAudio, EndBlock
  <1>7. MixerTypeOK'
    BY <1>4, <1>6 DEF MixerInv, MixerTypeOK, RenderAudio, GainStates
  <1> QED
    BY <1>5, <1>7 DEF MixerInv, RenderAudio, SnapshotOfThePage, TargetsFollow

\* Silence and a lost device leave every gain as it is.
LEMMA PauseInv == MixerInv /\ (RenderSilence \/ DeviceLost) => MixerInv'
  <1> SUFFICES ASSUME MixerInv, RenderSilence \/ DeviceLost PROVE MixerInv'
    OBVIOUS
  <1>1. UNCHANGED <<file, control, applied_control_sequence, target_gains, applied_gains, gains>>
    BY DEF RenderSilence, DeviceLost
  <1>2. renderer' \in [phase : {"closed", "render"}, looked : SUBSET Stems]
    BY DEF MixerInv, MixerTypeOK, RenderSilence, DeviceLost, EndBlock
  <1>3. failures' \in 0..MaxFailures
    BY MixerGainsAssumption DEF MixerInv, MixerTypeOK, RenderSilence, DeviceLost
  <1>4. MixerTypeOK'
    BY <1>1, <1>2, <1>3 DEF MixerInv, MixerTypeOK
  <1> QED
    BY <1>1, <1>4 DEF MixerInv, SnapshotOfThePage, TargetsFollow, RampsEndOnTarget

LEMMA MixerNextInv == MixerInv /\ [MixerNext]_mixer_vars => MixerInv'
  <1> SUFFICES ASSUME MixerInv, [MixerNext]_mixer_vars PROVE MixerInv'
    OBVIOUS
  <1>1. CASE UNCHANGED mixer_vars
    BY <1>1 DEF mixer_vars, MixerInv, MixerTypeOK, SnapshotOfThePage, TargetsFollow,
                RampsEndOnTarget
  <1>2. CASE WriteMixerControl
    BY <1>2, WriteInv
  <1>3. CASE ControlThread
    BY <1>3, ControlReadsInv, ControlSetsInv, ControlDoneInv DEF ControlThread
  <1>4. CASE RenderThread
    BY <1>4, OpensInv, LooksInv, RenderAudioInv, PauseInv DEF RenderThread
  <1>5. CASE DeviceLost
    BY <1>5, PauseInv
  <1> QED
    BY <1>1, <1>2, <1>3, <1>4, <1>5 DEF MixerNext

-----------------------------------------------------------------------------
\* The inductive invariant of faders and mixer (stem_mixer.cpp, main.cpp control_thread).
THEOREM MixerInvariance == MixerSpec => []MixerInv
  BY MixerInitInv, MixerNextInv, PTL DEF MixerSpec

\* Gains stay on the scale, ramps within the smoothing time (stem_mixer.cpp set_gain).
THEOREM MixerTypeCorrect == MixerSpec => []MixerTypeOK
  BY MixerInvariance, PTL DEF MixerInv

\* A sequence that is reported as applied is that of one snapshot, stored in whole, however
\* page and control thread interleave (main.cpp control_thread).
THEOREM WholeSnapshots == MixerSpec => []AppliedSnapshotIsWhole
  <1>1. MixerInv => AppliedSnapshotIsWhole
    BY DEF MixerInv, SnapshotOfThePage, TargetsFollow, AppliedSnapshotIsWhole
  <1> QED
    BY <1>1, MixerInvariance, PTL

\* A ramp ends exactly on its target, whatever the block length and however often the
\* device is lost in it (stem_mixer.cpp advance_gain).
THEOREM ExactRamps == MixerSpec => []RampsEndOnTarget
  BY MixerInvariance, PTL DEF MixerInv

-----------------------------------------------------------------------------
(* DeviceQueue. *)

F == FramesPerPacket
S == SequenceSpan

Packets == [sequence : 0..(S - 1), start : Nat, frames : Nat \ {0}, number : Nat,
            block : Nat, last : BOOLEAN]
Blocks == [frames : Nat \ {0}, sequence : 0..(S - 1), start : Nat, number : Nat]

\* Packet number n at frame s comes after packet p: as the next one exactly where p ends,
\* or as a later one at a later frame.
Before(p, n, s) ==
    \/ n = p.number + 1 /\ s = p.start + p.frames
    \/ n > p.number + 1 /\ s > p.start + p.frames

\* The number and the frame that go on with the timeline at the queue's end.
FrontNumber == IF block = NoBlock THEN spent_packets ELSE block.number
FrontStart == IF block = NoBlock THEN next_presentation_frame ELSE block.start

NumbersFollow ==
    /\ next_presentation_frame \in 0..MaxFrames /\ spent_packets \in Nat
    /\ next_sequence = spent_packets % S
    /\ block = NoBlock \/
        /\ block \in Blocks
        /\ block.sequence = block.number % S
        /\ block.number + PacketCount(block.frames) = spent_packets
        /\ block.start + block.frames = next_presentation_frame

CountersFollow ==
    /\ dropped_packets \in Nat /\ dropped_frames \in Nat
    /\ dropped_frames + block.frames <= next_presentation_frame
    /\ enqueued_packets \in Nat /\ dequeued_packets \in Nat
    /\ enqueued_packets = dequeued_packets + Len(slots)

MutexHolds ==
    /\ mutex \in {"free", "submit", "pop", "status"}
    /\ mutex = "submit" => block # NoBlock /\ Fits(block.frames)
    /\ mutex = "pop" => slots # <<>> /\ sender = NoPacket
    /\ Len(slots) <= Capacity

\* A packet on its way to the device.
Numbered(p) == p \in Packets /\ p.sequence = p.number % S

\* The last packet sent, the one in hand and the ones queued, in the order of the timeline.
InOrder ==
    /\ slots \in Seq(Packets)
    /\ \A i \in 1..Len(slots) :
        /\ slots[i].sequence = slots[i].number % S
        /\ Before(slots[i], FrontNumber, FrontStart)
        /\ \A j \in 1..Len(slots) : i < j => Before(slots[i], slots[j].number, slots[j].start)
    /\ wire # NoPacket =>
        /\ Numbered(wire) /\ Before(wire, FrontNumber, FrontStart)
        /\ \A i \in 1..Len(slots) : Before(wire, slots[i].number, slots[i].start)
    /\ sender # NoPacket =>
        /\ Numbered(sender) /\ Before(sender, FrontNumber, FrontStart)
        /\ \A i \in 1..Len(slots) : Before(sender, slots[i].number, slots[i].start)
    /\ wire # NoPacket /\ sender # NoPacket => Before(wire, sender.number, sender.start)

IInv == NumbersFollow /\ CountersFollow /\ MutexHolds /\ InOrder /\ WholeBlocks

USE DEF F, S

-----------------------------------------------------------------------------
(* Division by the length of a packet and by the sequence span. *)

LEMMA Constants == F \in Nat \ {0} /\ S \in Nat \ {0} /\ Capacity \in Nat \ {0} /\ MaxFrames \in Nat
  BY DeviceQueueAssumption

LEMMA CountOfFrames ==
    ASSUME NEW f \in Nat \ {0}
    PROVE  /\ PacketCount(f) \in Nat \ {0}
           /\ (PacketCount(f) - 1) * F < f
           /\ f <= PacketCount(f) * F
  BY Constants DEF PacketCount

LEMMA Divided ==
    ASSUME NEW n \in Nat \ {0}, NEW a \in Nat
    PROVE  a \div n \in Nat /\ a % n \in 0..(n - 1) /\ a = n * (a \div n) + (a % n)
  OBVIOUS

LEMMA Remainder ==
    ASSUME NEW n \in Nat \ {0}, NEW a \in Nat, NEW q \in Int, NEW r \in 0..(n - 1),
           a = n * q + r
    PROVE  a % n = r
  BY Z3

LEMMA ModSum ==
    ASSUME NEW n \in Nat \ {0}, NEW a \in Nat, NEW k \in Nat
    PROVE  ((a % n) + k) % n = (a + k) % n
<1> DEFINE c == (a % n) + k
           q == (a \div n) + (c \div n)
<1>1. a \div n \in Nat /\ a % n \in 0..(n - 1) /\ a = n * (a \div n) + (a % n)
  BY Divided
<1>2. c \in Nat
  BY <1>1
<1>3. c \div n \in Nat /\ c % n \in 0..(n - 1) /\ c = n * (c \div n) + (c % n)
  BY <1>2, Divided
<1>4. q \in Int /\ n * q = n * (a \div n) + n * (c \div n)
  BY <1>1, <1>3
<1>5. a + k = n * q + (c % n) /\ a + k \in Nat
  BY <1>1, <1>3, <1>4
<1>6. (a + k) % n = c % n
  <2> HIDE DEF q, c
  <2> QED  BY <1>3, <1>4, <1>5, Remainder
<1> QED  BY <1>6

\* Within one span of the sequence, numbers are told apart.
LEMMA ModNear ==
    ASSUME NEW n \in Nat \ {0}, NEW a \in Nat, NEW b \in Nat,
           a <= b, b - a < n, a % n = b % n
    PROVE  a = b
<1> DEFINE d == (b \div n) - (a \div n)
<1>1. a \div n \in Nat /\ a % n \in 0..(n - 1) /\ a = n * (a \div n) + (a % n)
  BY Divided
<1>2. b \div n \in Nat /\ b % n \in 0..(n - 1) /\ b = n * (b \div n) + (b % n)
  BY Divided
<1>3. d \in Int /\ b - a = n * d
  BY <1>1, <1>2
<1>4. /\ d > 0 => n * d >= n
      /\ d < 0 => n * d <= -n
      /\ d = 0 => n * d = 0
  BY <1>3
<1> HIDE DEF d
<1> QED  BY <1>3, <1>4

LEMMA SpentIs ==
    ASSUME NEW a \in Nat, NEW k \in Nat
    PROVE  Spent(a % S, k) = (a + k) % S /\ (a + k) % S \in 0..(S - 1)
<1>1. a + k \in Nat /\ SequenceSpan \in Nat \ {0}
  BY Constants
<1>2. ((a % SequenceSpan) + k) % SequenceSpan = (a + k) % SequenceSpan
  BY <1>1, ModSum
<1>3. (a + k) % SequenceSpan \in 0..(SequenceSpan - 1)
  BY <1>1, Divided
<1> QED  BY <1>2, <1>3 DEF Spent

\* Multiples of the length of a packet.
LEMMA Times ==
    ASSUME NEW i \in Int, NEW j \in Int
    PROVE  /\ i * F \in Int /\ (i + 1) * F = i * F + F /\ (i - 1) * F = i * F - F
           /\ i <= j => i * F <= j * F
           /\ i < j => i * F < j * F
           /\ i >= 0 => i * F >= 0
  BY Constants

-----------------------------------------------------------------------------
(* The packets of the block in hand. *)

LEMMA PacketIs ==
    ASSUME block \in Blocks, block.sequence = block.number % S,
           NEW i \in 1..PacketCount(block.frames)
    PROVE  /\ Numbered(Packet(i))
           /\ Packet(i).number = block.number + i - 1
           /\ Packet(i).start = block.start + (i - 1) * F
           /\ Packet(i).block = block.start
           /\ Packet(i).last = (i = PacketCount(block.frames))
           /\ i < PacketCount(block.frames) => Packet(i).frames = F
           /\ i = PacketCount(block.frames) => Packet(i).start + Packet(i).frames
                                                = block.start + block.frames
<1> DEFINE n == PacketCount(block.frames)
           before == (i - 1) * F
<1>1. block.frames \in Nat \ {0} /\ block.start \in Nat /\ block.number \in Nat
  BY DEF Blocks
<1>2. n \in Nat \ {0} /\ (n - 1) * F < block.frames /\ block.frames <= n * F
  BY <1>1, CountOfFrames
<1>3. i - 1 \in Nat /\ i \in Nat
  BY <1>2
<1>4. before \in Nat /\ before <= (n - 1) * F /\ before + F = i * F
  BY <1>2, <1>3, Times, Constants
<1>5. i < n => i * F <= (n - 1) * F
  BY <1>2, <1>3, Times, Constants
<1>6. Spent(block.sequence, i - 1) = (block.number + i - 1) % S
      /\ (block.number + i - 1) % S \in 0..(S - 1)
  <2>1. block.number + (i - 1) = block.number + i - 1
    BY <1>1, <1>3
  <2> QED  BY <1>1, <1>3, <2>1, SpentIs
<1>7. i < n => ~(block.frames - before < F)
  BY <1>1, <1>2, <1>4, <1>5, Constants
<1>8. i = n => block.frames - before <= F
  BY <1>1, <1>2, <1>4, Constants
<1> DEFINE fr == IF block.frames - before < F THEN block.frames - before ELSE F
<1>9. fr \in Nat \ {0} /\ (i < n => fr = F) /\ (i = n => before + fr = block.frames)
  BY <1>1, <1>2, <1>4, <1>7, <1>8, Constants
<1>10. Packet(i) = [sequence |-> (block.number + i - 1) % S, start |-> block.start + before,
                    frames |-> fr, number |-> block.number + i - 1, block |-> block.start,
                    last |-> i = n]
  BY <1>6 DEF Packet
<1> HIDE DEF fr, before, n
<1>11. block.number + i - 1 \in Nat /\ block.start + before \in Nat /\ (i = n) \in BOOLEAN
  BY <1>1, <1>3, <1>4
<1>12. Packet(i) \in Packets
  BY <1>6, <1>1, <1>9, <1>10, <1>11 DEF Packets
<1>13. /\ Packet(i).number = block.number + i - 1 /\ Packet(i).start = block.start + before
       /\ Packet(i).frames = fr /\ Packet(i).block = block.start
       /\ Packet(i).sequence = (block.number + i - 1) % S
       /\ Packet(i).last = (i = n)
  BY <1>10
<1>14. i = n => block.start + before + fr = block.start + block.frames
  BY <1>1, <1>4, <1>9
<1> QED  BY <1>9, <1>12, <1>13, <1>14 DEF Numbered, before, n

\* They follow each other, and the next block follows them.
LEMMA PacketsFollow ==
    ASSUME block \in Blocks, block.sequence = block.number % S,
           NEW i \in 1..PacketCount(block.frames)
    PROVE  /\ Before(Packet(i), block.number + PacketCount(block.frames),
                     block.start + block.frames)
           /\ \A j \in 1..PacketCount(block.frames) :
                i < j => Before(Packet(i), Packet(j).number, Packet(j).start)
           /\ \A p \in Packets : Before(p, block.number, block.start) =>
                Before(p, Packet(i).number, Packet(i).start)
<1> DEFINE n == PacketCount(block.frames)
<1>1. block.frames \in Nat \ {0} /\ block.start \in Nat /\ block.number \in Nat
  BY DEF Blocks
<1>2. n \in Nat \ {0} /\ (n - 1) * F < block.frames /\ block.frames <= n * F
  BY <1>1, CountOfFrames
<1>3. i - 1 \in Nat /\ i \in Nat /\ i <= n
  BY <1>2
<1>4. /\ (i - 1) * F \in Nat /\ (i - 1) * F + F = i * F /\ i * F \in Nat
      /\ i < n => i * F <= (n - 1) * F
      /\ i > 1 => (i - 1) * F > 0
      /\ i = 1 => (i - 1) * F = 0
  BY <1>2, <1>3, Times, Constants
<1>5. /\ Packet(i).number = block.number + i - 1
      /\ Packet(i).start = block.start + (i - 1) * F
      /\ i < n => Packet(i).frames = F
      /\ i = n => Packet(i).start + Packet(i).frames = block.start + block.frames
  BY PacketIs
<1> HIDE DEF n
<1>6. Before(Packet(i), block.number + n, block.start + block.frames)
  <2>1. CASE i = n
    BY <2>1, <1>1, <1>2, <1>3, <1>5 DEF Before
  <2>2. CASE i < n
    <3>1. block.number + n > Packet(i).number + 1
      BY <2>2, <1>1, <1>2, <1>3, <1>5
    <3>2. Packet(i).start + Packet(i).frames = block.start + i * F
      BY <2>2, <1>1, <1>4, <1>5, Constants
    <3>3. i * F < block.frames
      BY <2>2, <1>1, <1>2, <1>3, <1>4, Times, Constants
    <3> QED  BY <3>1, <3>2, <3>3, <1>1, <1>4 DEF Before
  <2> QED  BY <2>1, <2>2, <1>2, <1>3
<1>7. ASSUME NEW j \in 1..n, i < j
      PROVE  Before(Packet(i), Packet(j).number, Packet(j).start)
  <2>1. Packet(j).number = block.number + j - 1 /\ Packet(j).start = block.start + (j - 1) * F
    BY PacketIs DEF n
  <2>2. i < n /\ j - 1 \in Nat /\ j \in Nat
    BY <1>7, <1>2, <1>3
  <2>3. Packet(i).start + Packet(i).frames = block.start + i * F
    BY <2>2, <1>1, <1>4, <1>5, Constants
  <2>4. i = j - 1 \/ i < j - 1
    BY <1>7, <2>2, <1>3
  <2>5. CASE i = j - 1
    BY <2>5, <2>1, <2>2, <2>3, <1>1, <1>3, <1>5 DEF Before
  <2>6. CASE i < j - 1
    <3>1. i * F < (j - 1) * F /\ (j - 1) * F \in Int
      BY <2>6, <2>2, <1>3, Times
    <3>2. Packet(j).start > Packet(i).start + Packet(i).frames
      BY <3>1, <2>1, <2>3, <1>1, <1>4
    <3>3. Packet(j).number > Packet(i).number + 1
      BY <2>6, <2>1, <2>2, <1>1, <1>3, <1>5
    <3> QED  BY <3>2, <3>3 DEF Before
  <2> QED  BY <2>4, <2>5, <2>6
<1>8. ASSUME NEW p \in Packets, Before(p, block.number, block.start)
      PROVE  Before(p, Packet(i).number, Packet(i).start)
  <2>1. p.number \in Nat /\ p.start \in Nat /\ p.frames \in Nat
    BY DEF Packets
  <2>2. CASE i = 1
    BY <2>2, <1>1, <1>4, <1>5, <1>8 DEF Before
  <2>3. CASE i > 1
    BY <2>1, <2>3, <1>1, <1>3, <1>4, <1>5, <1>8 DEF Before
  <2> QED  BY <2>2, <2>3, <1>3
<1> QED  BY <1>6, <1>7, <1>8 DEF n

\* What lies before a number lies before every later one.
LEMMA BeforeLater ==
    ASSUME NEW p \in Packets, NEW n \in Nat, NEW s \in Nat, NEW m \in Nat, NEW t \in Nat,
           Before(p, n, s), n < m, s < t
    PROVE  Before(p, m, t)
  BY DEF Before, Packets

LEMMA NoBlockIsNone == NoBlock \notin Blocks /\ NoBlock.frames = 0
  BY DEF NoBlock, Blocks

LEMMA NoPacketIsNone == NoPacket \notin Packets
  BY DEF NoPacket, Packets

\* The frames, number and start at the queue's end.
LEMMA FrontIs ==
    ASSUME NumbersFollow
    PROVE  /\ FrontNumber \in Nat /\ FrontStart \in Nat
           /\ block.frames \in Nat
           /\ block # NoBlock => block \in Blocks /\ PacketCount(block.frames) \in Nat \ {0}
  BY Constants, CountOfFrames, NoBlockIsNone
     DEF NumbersFollow, FrontNumber, FrontStart, Blocks

-----------------------------------------------------------------------------
(* The initial state, and one lemma per action. *)

LEMMA InitInv == ASSUME Init PROVE IInv
<1>1. 0 % S = 0
  BY Constants
<1> QED  BY <1>1, Constants
         DEF Init, IInv, NumbersFollow, CountersFollow, MutexHolds, InOrder, WholeBlocks, NoBlock

LEMMA StartsInv ==
    ASSUME IInv, NEW frames \in BlockSizes, SubmitStarts(frames)
    PROVE  IInv'
<1> USE DEF SubmitStarts, numbers, stats, sent
<1>1. frames \in Nat \ {0} /\ PacketCount(frames) \in Nat \ {0}
  BY CountOfFrames, DeviceQueueAssumption
<1>2. /\ next_presentation_frame \in 0..MaxFrames /\ spent_packets \in Nat
      /\ next_sequence = spent_packets % S
      /\ block = NoBlock /\ mutex # "submit" /\ block.frames = 0
  BY NoBlockIsNone DEF IInv, NumbersFollow, MutexHolds
<1>3. /\ next_sequence' = (spent_packets + PacketCount(frames)) % S
      /\ next_sequence \in 0..(S - 1)
  BY <1>1, <1>2, SpentIs, Divided, Constants
<1>4. block' \in Blocks /\ block' # NoBlock
  BY <1>1, <1>2, <1>3, NoBlockIsNone DEF Blocks
<1>5. /\ block'.frames = frames /\ block'.number = spent_packets
      /\ block'.start = next_presentation_frame /\ block'.sequence = next_sequence
  OBVIOUS
<1>6. NumbersFollow'
  BY <1>1, <1>2, <1>3, <1>4, <1>5, Constants DEF NumbersFollow, PacketCount
<1>7. CountersFollow'
  BY <1>1, <1>2, <1>5 DEF IInv, CountersFollow
<1>8. MutexHolds'
  BY <1>2 DEF IInv, MutexHolds
<1>9. FrontNumber' = FrontNumber /\ FrontStart' = FrontStart
  BY <1>2, <1>4, <1>5 DEF FrontNumber, FrontStart
<1>10. InOrder'
  BY <1>9 DEF IInv, InOrder, Numbered, Before
<1>11. WholeBlocks'
  BY DEF IInv, WholeBlocks, Contiguous
<1> QED  BY <1>6, <1>7, <1>8, <1>10, <1>11 DEF IInv

LEMMA DropsInv ==
    ASSUME IInv, SubmitDrops
    PROVE  IInv'
<1> USE DEF SubmitDrops, numbers, sent
<1>1. block \in Blocks /\ PacketCount(block.frames) \in Nat \ {0}
      /\ FrontNumber \in Nat /\ FrontStart \in Nat
  BY FrontIs DEF IInv
<1>2. NumbersFollow'
  BY DEF IInv, NumbersFollow
<1>3. CountersFollow'
  <2>1. block'.frames = 0 /\ block.frames \in Nat /\ next_presentation_frame \in Nat
    BY <1>1, NoBlockIsNone DEF IInv, NumbersFollow, Blocks
  <2>2. /\ dropped_packets' = dropped_packets + PacketCount(block.frames)
        /\ dropped_frames' = dropped_frames + block.frames
        /\ UNCHANGED <<next_presentation_frame, slots, enqueued_packets, dequeued_packets>>
    OBVIOUS
  <2> QED  BY <2>1, <2>2, <1>1 DEF IInv, CountersFollow
<1>4. MutexHolds'
  BY DEF IInv, MutexHolds
<1>5. /\ FrontNumber' \in Nat /\ FrontStart' \in Nat
      /\ FrontNumber < FrontNumber' /\ FrontStart < FrontStart'
  BY <1>1, Constants DEF IInv, NumbersFollow, FrontNumber, FrontStart, Blocks
<1>6. \A p \in Packets : Before(p, FrontNumber, FrontStart) => Before(p, FrontNumber', FrontStart')
  BY <1>1, <1>5, BeforeLater
<1>7. \A i \in 1..Len(slots) : slots[i] \in Packets
  BY DEF IInv, InOrder
<1>8. InOrder'
  BY <1>6, <1>7 DEF IInv, InOrder, Numbered, Before
<1>9. WholeBlocks'
  BY DEF IInv, WholeBlocks, Contiguous
<1> QED  BY <1>2, <1>3, <1>4, <1>8, <1>9 DEF IInv

\* What only takes or gives back the mutex leaves everything else alone.
LEMMA MutexOnly ==
    ASSUME IInv, UNCHANGED <<numbers, block, slots, stats, sent>>, MutexHolds'
    PROVE  IInv'
<1> USE DEF numbers, stats, sent
<1>1. NumbersFollow' /\ CountersFollow'
  BY DEF IInv, NumbersFollow, CountersFollow, PacketCount
<1>2. InOrder'
  BY DEF IInv, InOrder, Numbered, Before, FrontNumber, FrontStart
<1>3. WholeBlocks'
  BY DEF IInv, WholeBlocks, Contiguous
<1> QED  BY <1>1, <1>2, <1>3 DEF IInv

LEMMA SubmitLocksInv ==
    ASSUME IInv, SubmitLocks
    PROVE  IInv'
<1>1. MutexHolds'
  BY DEF SubmitLocks, IInv, MutexHolds, Fits, PacketCount
<1> QED  BY <1>1, MutexOnly DEF SubmitLocks

LEMMA SenderLocksInv ==
    ASSUME IInv, SenderLocks
    PROVE  IInv'
<1>1. MutexHolds'
  BY DEF SenderLocks, IInv, MutexHolds, sent
<1> QED  BY <1>1, MutexOnly DEF SenderLocks

LEMMA StatusInv ==
    ASSUME IInv, Status
    PROVE  IInv'
<1>1. MutexHolds'
  BY DEF Status, StatusLocks, StatusUnlocks, IInv, MutexHolds
<1> QED  BY <1>1, MutexOnly DEF Status, StatusLocks, StatusUnlocks

LEMMA CommitsInv ==
    ASSUME IInv, SubmitCommits
    PROVE  IInv'
<1> DEFINE n == PacketCount(block.frames)
           new == [i \in 1..n |-> Packet(i)]
           m == Len(slots)
<1>0. /\ mutex = "submit" /\ mutex' = "free" /\ block' = NoBlock
      /\ slots' = slots \o new
      /\ enqueued_packets' = enqueued_packets + n
      /\ UNCHANGED <<numbers, dropped_packets, dropped_frames, sent>>
  BY DEF SubmitCommits
<1>1. /\ block \in Blocks /\ block # NoBlock /\ n \in Nat \ {0}
      /\ block.sequence = block.number % S
      /\ FrontNumber = block.number /\ FrontStart = block.start
      /\ FrontNumber' = block.number + n /\ FrontStart' = block.start + block.frames
  BY <1>0, FrontIs DEF IInv, MutexHolds, NumbersFollow, FrontNumber, FrontStart, numbers
<1>2. \A i \in 1..n : Numbered(Packet(i))
  BY <1>1, PacketIs
<1>3. new \in Seq(Packets) /\ Len(new) = n /\ \A i \in 1..n : new[i] = Packet(i)
  BY <1>1, <1>2 DEF Numbered
<1>4. slots \in Seq(Packets) /\ m \in Nat /\ m + n <= Capacity
  BY <1>0, <1>1, Constants DEF IInv, InOrder, MutexHolds, Fits
<1> HIDE DEF new, n, m
<1>5. slots \o new \in Seq(Packets) /\ Len(slots \o new) = m + n
      /\ \A i \in 1..(m + n) : (slots \o new)[i] = IF i <= m THEN slots[i] ELSE new[i - m]
  BY <1>1, <1>3, <1>4 DEF m
<1>6. /\ slots' \in Seq(Packets) /\ Len(slots') = m + n
      /\ \A i \in 1..m : slots'[i] = slots[i]
      /\ \A i \in (m + 1)..(m + n) : slots'[i] = Packet(i - m) /\ i - m \in 1..n
  <2>1. \A i \in (m + 1)..(m + n) : i \in 1..(m + n) /\ ~(i <= m) /\ i - m \in 1..n
    BY <1>1, <1>4
  <2>2. \A i \in 1..m : i \in 1..(m + n) /\ i <= m
    BY <1>1, <1>4
  <2> QED  BY <2>1, <2>2, <1>0, <1>3, <1>5
<1>7. NumbersFollow'
  BY <1>0 DEF IInv, NumbersFollow, numbers
<1>8. CountersFollow'
  <2>1. block'.frames = 0 /\ block.frames \in Nat /\ next_presentation_frame \in Nat
    BY <1>0, <1>1, NoBlockIsNone DEF IInv, NumbersFollow, Blocks
  <2>2. UNCHANGED <<next_presentation_frame, dropped_packets, dropped_frames, dequeued_packets>>
    BY <1>0 DEF numbers, sent
  <2> QED  BY <2>1, <2>2, <1>0, <1>1, <1>4, <1>6, SMTT(20) DEF IInv, CountersFollow, m
<1>9. MutexHolds'
  BY <1>0, <1>4, <1>6 DEF IInv, MutexHolds
<1>10. /\ FrontNumber \in Nat /\ FrontStart \in Nat /\ FrontNumber' \in Nat /\ FrontStart' \in Nat
       /\ FrontNumber < FrontNumber' /\ FrontStart < FrontStart'
  BY <1>1 DEF Blocks
<1>11. \A p \in Packets : Before(p, FrontNumber, FrontStart) =>
          /\ Before(p, FrontNumber', FrontStart')
          /\ \A i \in 1..n : Before(p, Packet(i).number, Packet(i).start)
  BY <1>1, <1>10, BeforeLater, PacketsFollow DEF n
<1>12. \A i \in 1..n :
          /\ Before(Packet(i), FrontNumber', FrontStart')
          /\ \A j \in 1..n : i < j => Before(Packet(i), Packet(j).number, Packet(j).start)
  BY <1>1, PacketsFollow DEF n
<1>13. \A i \in 1..m :
          /\ slots[i] \in Packets /\ slots[i].sequence = slots[i].number % S
          /\ Before(slots[i], FrontNumber, FrontStart)
          /\ \A j \in 1..m : i < j => Before(slots[i], slots[j].number, slots[j].start)
  BY DEF IInv, InOrder, m
<1>14. InOrder'
  <2>1. ASSUME NEW i \in 1..Len(slots')
        PROVE  /\ slots'[i].sequence = slots'[i].number % S
               /\ Before(slots'[i], FrontNumber', FrontStart')
               /\ \A j \in 1..Len(slots') : i < j =>
                    Before(slots'[i], slots'[j].number, slots'[j].start)
    <3>1. CASE i \in 1..m
      <4>1. slots'[i] = slots[i]
        BY <3>1, <1>6
      <4>2. ASSUME NEW j \in 1..Len(slots'), i < j
            PROVE  Before(slots'[i], slots'[j].number, slots'[j].start)
        BY <3>1, <4>1, <4>2, <1>4, <1>6, <1>11, <1>13
      <4> QED  BY <3>1, <4>1, <4>2, <1>11, <1>13
    <3>2. CASE i \in (m + 1)..(m + n)
      <4>1. slots'[i] = Packet(i - m) /\ i - m \in 1..n
        BY <3>2, <1>6
      <4>2. ASSUME NEW j \in 1..Len(slots'), i < j
            PROVE  Before(slots'[i], slots'[j].number, slots'[j].start)
        <5>1. j \in (m + 1)..(m + n) /\ i - m < j - m
          BY <3>2, <4>2, <1>1, <1>4, <1>6
        <5>2. slots'[j] = Packet(j - m) /\ j - m \in 1..n
          BY <5>1, <1>6
        <5> QED  BY <4>1, <5>1, <5>2, <1>12
      <4> QED  BY <4>1, <4>2, <1>2, <1>12 DEF Numbered
    <3> QED  BY <3>1, <3>2, <1>1, <1>4, <1>6
  <2>2. ASSUME NEW p \in Packets, Before(p, FrontNumber, FrontStart),
               \A i \in 1..m : Before(p, slots[i].number, slots[i].start)
        PROVE  /\ Before(p, FrontNumber', FrontStart')
               /\ \A i \in 1..Len(slots') : Before(p, slots'[i].number, slots'[i].start)
    <3>1. ASSUME NEW i \in 1..Len(slots')
          PROVE  Before(p, slots'[i].number, slots'[i].start)
      <4>1. CASE i \in 1..m
        BY <4>1, <2>2, <1>6
      <4>2. CASE i \in (m + 1)..(m + n)
        BY <4>2, <2>2, <1>6, <1>11
      <4> QED  BY <4>1, <4>2, <1>1, <1>4, <1>6
    <3> QED  BY <3>1, <2>2, <1>11
  <2>3. wire' = wire /\ sender' = sender
    BY <1>0 DEF sent
  <2>4. wire # NoPacket => wire \in Packets /\ Before(wire, FrontNumber, FrontStart)
                           /\ \A i \in 1..m : Before(wire, slots[i].number, slots[i].start)
    BY DEF IInv, InOrder, Numbered, m
  <2>5. sender # NoPacket => sender \in Packets /\ Before(sender, FrontNumber, FrontStart)
                             /\ \A i \in 1..m : Before(sender, slots[i].number, slots[i].start)
    BY DEF IInv, InOrder, Numbered, m
  <2>6. wire # NoPacket =>
          /\ Before(wire, FrontNumber', FrontStart')
          /\ \A i \in 1..Len(slots') : Before(wire, slots'[i].number, slots'[i].start)
    BY <2>2, <2>4
  <2>7. sender # NoPacket =>
          /\ Before(sender, FrontNumber', FrontStart')
          /\ \A i \in 1..Len(slots') : Before(sender, slots'[i].number, slots'[i].start)
    BY <2>2, <2>5
  <2>8. /\ wire # NoPacket => Numbered(wire)
        /\ sender # NoPacket => Numbered(sender)
        /\ wire # NoPacket /\ sender # NoPacket => Before(wire, sender.number, sender.start)
    BY DEF IInv, InOrder
  <2> QED  BY <2>1, <2>3, <2>6, <2>7, <2>8, <1>6 DEF InOrder, Numbered, Before
<1>15. WholeBlocks'
  <2>0. ASSUME NEW k \in 1..n PROVE slots'[m + k] = Packet(k)
    <3>1. m + k \in (m + 1)..(m + n) /\ (m + k) - m = k
      BY <1>1, <1>4
    <3>2. slots'[m + k] = Packet((m + k) - m)
      BY <3>1, <1>6
    <3> QED  BY <3>1, <3>2
  <2>1. \A i \in 1..n : /\ Packet(i).block = block.start
                        /\ Packet(i).last = (i = n)
                        /\ i = 1 => Packet(i).start = block.start
    <3>1. 0 * F = 0
      BY Constants
    <3> QED  BY <3>1, <1>1, PacketIs DEF n, Blocks
  <2>2. \A i \in 1..n : i + 1 \in 1..n => Contiguous(Packet(i), Packet(i + 1))
    <3> SUFFICES ASSUME NEW i \in 1..n, i + 1 \in 1..n
                 PROVE  Contiguous(Packet(i), Packet(i + 1))
      OBVIOUS
    <3>1. /\ Packet(i).start = block.start + (i - 1) * F /\ Packet(i).frames = F
          /\ Packet(i + 1).start = block.start + (i + 1 - 1) * F
      BY <1>1, PacketIs DEF n
    <3>2. (i + 1 - 1) * F = (i - 1) * F + F /\ (i - 1) * F \in Int
      <4>1. i + 1 - 1 = i /\ (i - 1) + 1 = i /\ i - 1 \in Int
        OBVIOUS
      <4>2. (i - 1 + 1) * F = (i - 1) * F + F /\ (i - 1) * F \in Int
        BY <4>1, Times
      <4> QED  BY <4>1, <4>2
    <3> QED  BY <3>1, <3>2, <1>1, Constants DEF Contiguous, Blocks
  <2>3. slots' # <<>> => slots'[Len(slots')].last
    <3>1. slots'[m + n] = Packet(n)
      BY <1>1, <1>4, <1>6
    <3>2. n \in 1..n
      BY <1>1
    <3>3. Packet(n).last
      BY <3>2, <2>1
    <3> QED  BY <3>1, <3>3, <1>6
  <2>4. ASSUME NEW i \in 1..(Len(slots') - 1)
        PROVE  IF slots'[i].last THEN slots'[i + 1].start = slots'[i + 1].block
               ELSE slots'[i + 1].block = slots'[i].block /\ Contiguous(slots'[i], slots'[i + 1])
    <3>1. CASE i + 1 \in 1..m
      <4>1. slots'[i] = slots[i] /\ slots'[i + 1] = slots[i + 1] /\ i \in 1..(m - 1)
        BY <3>1, <1>4, <1>6
      <4> QED  BY <4>1 DEF IInv, WholeBlocks, m
    <3>2. CASE i = m
      <4>1. slots'[i] = slots[m] /\ slots'[i + 1] = Packet(1) /\ slots # <<>> /\ 1 \in 1..n
        BY <3>2, <1>1, <1>4, <1>6 DEF m
      <4>2. slots[m].last
        BY <4>1 DEF IInv, WholeBlocks, m
      <4> QED  BY <4>1, <4>2, <2>1
    <3>3. CASE i \in (m + 1)..(m + n)
      <4> DEFINE k == i - m
      <4>1. m \in Nat /\ n \in Nat /\ i \in Nat /\ m + 1 <= i /\ i + 1 <= m + n
        <5>1. Len(slots') = m + n
          BY <1>6
        <5> QED  BY <5>1, <3>3, <1>1, <1>4
      <4>2. k \in 1..n /\ k + 1 \in 1..n /\ k # n /\ m + k = i /\ m + (k + 1) = i + 1
        BY <4>1
      <4> HIDE DEF k
      <4>3. slots'[i] = Packet(k) /\ slots'[i + 1] = Packet(k + 1)
        <5>1. slots'[m + k] = Packet(k) /\ slots'[m + (k + 1)] = Packet(k + 1)
          BY <4>2, <2>0
        <5> QED  BY <4>2, <5>1
      <4>4. Packet(k + 1).block = Packet(k).block /\ Contiguous(Packet(k), Packet(k + 1))
            /\ ~Packet(k).last
        BY <4>2, <2>1, <2>2
      <4> QED  BY <4>3, <4>4
    <3> QED  BY <3>1, <3>2, <3>3, <1>1, <1>4, <1>6
  <2> QED  BY <2>3, <2>4 DEF WholeBlocks, Contiguous
<1> QED  BY <1>7, <1>8, <1>9, <1>14, <1>15 DEF IInv

LEMMA PopsInv ==
    ASSUME IInv, SenderPops
    PROVE  IInv'
<1> USE DEF SenderPops, numbers, stats
<1>1. slots # <<>> /\ sender = NoPacket /\ slots \in Seq(Packets)
  BY DEF IInv, MutexHolds, InOrder
<1>2. /\ slots' \in Seq(Packets) /\ Len(slots) \in Nat \ {0} /\ Len(slots') = Len(slots) - 1
      /\ \A i \in 1..Len(slots') : slots'[i] = slots[i + 1] /\ i + 1 \in 1..Len(slots)
      /\ sender' = slots[1] /\ 1 \in 1..Len(slots)
  BY <1>1
<1>3. NumbersFollow'
  BY DEF IInv, NumbersFollow, PacketCount
<1>4. CountersFollow'
  BY <1>2 DEF IInv, CountersFollow
<1>5. MutexHolds'
  BY <1>2, Constants DEF IInv, MutexHolds
<1>6. FrontNumber' = FrontNumber /\ FrontStart' = FrontStart /\ wire' = wire
  BY DEF FrontNumber, FrontStart
<1>7. \A i \in 1..Len(slots) :
        /\ slots[i] \in Packets /\ slots[i].sequence = slots[i].number % S
        /\ Before(slots[i], FrontNumber, FrontStart)
        /\ \A j \in 1..Len(slots) : i < j => Before(slots[i], slots[j].number, slots[j].start)
  BY <1>1 DEF IInv, InOrder
<1>8. InOrder'
  <2>1. \A i \in 1..Len(slots') :
          /\ slots'[i].sequence = slots'[i].number % S
          /\ Before(slots'[i], FrontNumber', FrontStart')
          /\ \A j \in 1..Len(slots') : i < j => Before(slots'[i], slots'[j].number, slots'[j].start)
    BY <1>2, <1>6, <1>7
  <2>2. wire' # NoPacket =>
          /\ Numbered(wire') /\ Before(wire', FrontNumber', FrontStart')
          /\ \A i \in 1..Len(slots') : Before(wire', slots'[i].number, slots'[i].start)
          /\ Before(wire', sender'.number, sender'.start)
    BY <1>2, <1>6 DEF IInv, InOrder
  <2>3. /\ Numbered(sender') /\ Before(sender', FrontNumber', FrontStart')
        /\ \A i \in 1..Len(slots') : Before(sender', slots'[i].number, slots'[i].start)
    BY <1>2, <1>6, <1>7 DEF Numbered
  <2> QED  BY <1>2, <2>1, <2>2, <2>3 DEF InOrder, Numbered, Before
<1>9. WholeBlocks'
  <2>1. slots' # <<>> => slots'[Len(slots')].last
    <3> SUFFICES ASSUME slots' # <<>> PROVE slots'[Len(slots')].last
      OBVIOUS
    <3>1. slots'[Len(slots')] = slots[Len(slots)]
      BY <1>2
    <3> QED  BY <1>1, <3>1 DEF IInv, WholeBlocks
  <2>2. ASSUME NEW i \in 1..(Len(slots') - 1)
        PROVE  IF slots'[i].last THEN slots'[i + 1].start = slots'[i + 1].block
               ELSE slots'[i + 1].block = slots'[i].block /\ Contiguous(slots'[i], slots'[i + 1])
    <3>1. slots'[i] = slots[i + 1] /\ slots'[i + 1] = slots[i + 1 + 1] /\ i + 1 \in 1..(Len(slots) - 1)
      BY <1>2
    <3> QED  BY <3>1 DEF IInv, WholeBlocks
  <2> QED  BY <2>1, <2>2 DEF WholeBlocks, Contiguous
<1> QED  BY <1>3, <1>4, <1>5, <1>8, <1>9 DEF IInv

LEMMA SendInv ==
    ASSUME IInv, Sends \/ SendFails
    PROVE  IInv'
<1> USE DEF Sends, SendFails, numbers, stats
<1>1. /\ UNCHANGED <<numbers, block, mutex, slots, stats, dequeued_packets>>
      /\ sender' = NoPacket /\ (wire' = sender \/ wire' = wire)
  OBVIOUS
<1>2. NumbersFollow'
  BY <1>1 DEF IInv, NumbersFollow, PacketCount
<1>3. CountersFollow'
  BY <1>1 DEF IInv, CountersFollow
<1>4. MutexHolds'
  BY <1>1 DEF IInv, MutexHolds, Fits, PacketCount
<1>5. FrontNumber' = FrontNumber /\ FrontStart' = FrontStart
  BY <1>1 DEF FrontNumber, FrontStart
<1>6. InOrder'
  BY <1>1, <1>5 DEF IInv, InOrder, Numbered, Before
<1>7. WholeBlocks'
  BY <1>1 DEF IInv, WholeBlocks, Contiguous
<1> QED  BY <1>2, <1>3, <1>4, <1>6, <1>7 DEF IInv

LEMMA NextInv ==
    ASSUME IInv, [Next]_vars
    PROVE  IInv'
<1>1. CASE UNCHANGED vars
  <2>1. MutexHolds'
    BY <1>1 DEF IInv, MutexHolds, Fits, PacketCount, vars, sent
  <2> QED  BY <1>1, <2>1, MutexOnly DEF vars
<1>2. CASE Renderer
  BY <1>2, StartsInv, DropsInv, SubmitLocksInv, CommitsInv DEF Renderer
<1>3. CASE Sender
  BY <1>3, SenderLocksInv, PopsInv, SendInv DEF Sender
<1>4. CASE Status
  BY <1>4, StatusInv
<1> QED  BY <1>1, <1>2, <1>3, <1>4 DEF Next

-----------------------------------------------------------------------------
(* What every behaviour keeps. *)

\* The inductive invariant: what is on its way is one timeline with gaps.
THEOREM Invariance == Spec => []IInv
  BY InitInv, NextInv, PTL DEF Spec

\* The queue stays within its slots, and its counters agree with what it holds.
THEOREM TypeCorrect == Spec => []TypeOK
<1>1. IInv => TypeOK
  <2> SUFFICES ASSUME IInv PROVE TypeOK
    OBVIOUS
  <2>1. next_sequence \in 0..(SequenceSpan - 1)
    BY Constants, Divided DEF IInv, NumbersFollow
  <2>2. dropped_frames \in 0..MaxFrames
    <3>1. block.frames \in Nat
      BY FrontIs DEF IInv
    <3> QED  BY <3>1, Constants DEF IInv, NumbersFollow, CountersFollow
  <2> QED  BY <2>1, <2>2 DEF IInv, NumbersFollow, CountersFollow, MutexHolds, TypeOK
<1> QED  BY <1>1, Invariance, PTL

\* A block enters the queue with all its packets or not at all.
THEOREM Whole == Spec => []WholeBlocks
<1>1. IInv => WholeBlocks
  BY DEF IInv
<1> QED  BY <1>1, Invariance, PTL

LEMMA Joined ==
    ASSUME NEW a \in Seq(Packets), NEW b \in Seq(Packets)
    PROVE  /\ Len(b) \in Nat /\ Len(a \o b) = Len(a) + Len(b)
           /\ \A j \in 1..(Len(a) + Len(b)) :
                (a \o b)[j] = IF j <= Len(a) THEN a[j] ELSE b[j - Len(a)]
  OBVIOUS

\* Of two packets in order, the later one's number is the next one exactly when its sound is.
LEMMA OrderTells ==
    ASSUME NEW p, NEW q, Numbered(p), Numbered(q), Before(p, q.number, q.start)
    PROVE  /\ p.number < q.number /\ p.start + p.frames <= q.start
           /\ Contiguous(p, q) => q.sequence = Spent(p.sequence, 1)
           /\ q.sequence = Spent(p.sequence, 1) /\ q.number - p.number <= SequenceSpan
                => Contiguous(p, q)
<1>1. /\ p.number \in Nat /\ p.start \in Nat /\ p.frames \in Nat
      /\ q.number \in Nat /\ q.start \in Nat
      /\ p.sequence = p.number % S /\ q.sequence = q.number % S
  BY DEF Numbered, Packets
<1>2. Spent(p.sequence, 1) = (p.number + 1) % S
  BY <1>1, SpentIs
<1>3. Contiguous(p, q) => q.number = p.number + 1
  BY <1>1 DEF Before, Contiguous
<1>4. ASSUME q.sequence = Spent(p.sequence, 1), q.number - p.number <= SequenceSpan
      PROVE  Contiguous(p, q)
  <2>1. p.number + 1 <= q.number /\ q.number - (p.number + 1) < S /\ p.number + 1 \in Nat
    BY <1>1, <1>4, Constants DEF Before
  <2>2. (p.number + 1) % S = q.number % S
    BY <1>1, <1>2, <1>4
  <2>3. p.number + 1 = q.number
    BY <2>1, <2>2, <1>1, Constants, ModNear
  <2> QED  BY <2>3, <1>1 DEF Before, Contiguous
<1> QED  BY <1>1, <1>2, <1>3, <1>4 DEF Before

\* A refused or unsent block is told to the device as a gap, and the timeline never shifts.
THEOREM GapsTold == Spec => []GapsAreTold
<1>1. ASSUME IInv
      PROVE  GapsAreTold
  <2>1. /\ slots \in Seq(Packets)
        /\ \A i \in 1..Len(slots) : slots[i] \in Packets /\ Numbered(slots[i])
        /\ \A i, j \in 1..Len(slots) : i < j =>
              Before(slots[i], slots[j].number, slots[j].start)
    BY <1>1 DEF IInv, InOrder, Numbered
  <2>2. /\ wire # NoPacket => Numbered(wire)
        /\ sender # NoPacket => Numbered(sender)
        /\ wire # NoPacket /\ sender # NoPacket => Before(wire, sender.number, sender.start)
        /\ wire # NoPacket => \A i \in 1..Len(slots) : Before(wire, slots[i].number, slots[i].start)
        /\ sender # NoPacket => \A i \in 1..Len(slots) : Before(sender, slots[i].number, slots[i].start)
    BY <1>1 DEF IInv, InOrder
  <2>3. ASSUME NEW i \in 1..(Len(Line) - 1)
        PROVE  Numbered(Line[i]) /\ Numbered(Line[i + 1])
               /\ Before(Line[i], Line[i + 1].number, Line[i + 1].start)
    <3>1. CASE wire = NoPacket /\ sender = NoPacket
      <4>1. Line = slots
        BY <3>1, <2>1 DEF Line
      <4> QED  BY <4>1, <2>1
    <3>2. CASE wire # NoPacket /\ sender = NoPacket
      <4>1. Line = <<wire>> \o slots
        BY <3>2, <2>1 DEF Line
      <4>2. Len(Line) = 1 + Len(slots) /\ Line[1] = wire
            /\ \A j \in 2..Len(Line) : Line[j] = slots[j - 1] /\ j - 1 \in 1..Len(slots)
        BY <4>1, <2>1
      <4> QED  BY <3>2, <4>2, <2>1, <2>2, SMTT(20)
    <3>3. CASE wire = NoPacket /\ sender # NoPacket
      <4>1. Line = <<sender>> \o slots
        BY <3>3, <2>1 DEF Line
      <4>2. Len(Line) = 1 + Len(slots) /\ Line[1] = sender
            /\ \A j \in 2..Len(Line) : Line[j] = slots[j - 1] /\ j - 1 \in 1..Len(slots)
        BY <4>1, <2>1
      <4> QED  BY <3>3, <4>2, <2>1, <2>2, SMTT(20)
    <3>4. CASE wire # NoPacket /\ sender # NoPacket
      <4> DEFINE two == <<wire>> \o <<sender>>
      <4>1. Line = two \o slots
        BY <3>4 DEF Line
      <4>2. two \in Seq(Packets) /\ Len(two) = 2 /\ two[1] = wire /\ two[2] = sender
        BY <3>4, <2>2 DEF Numbered
      <4> HIDE DEF two
      <4>3. Len(Line) = 2 + Len(slots) /\ Line[1] = wire /\ Line[2] = sender
            /\ \A j \in 3..Len(Line) : Line[j] = slots[j - 2] /\ j - 2 \in 1..Len(slots)
        <5>1. /\ Len(two \o slots) = 2 + Len(slots) /\ Len(slots) \in Nat
              /\ \A j \in 1..(2 + Len(slots)) :
                   (two \o slots)[j] = IF j <= 2 THEN two[j] ELSE slots[j - 2]
          <6>1. two \in Seq(Packets) /\ slots \in Seq(Packets)
            BY <4>2, <2>1
          <6>2. /\ Len(slots) \in Nat /\ Len(two \o slots) = Len(two) + Len(slots)
                /\ \A j \in 1..(Len(two) + Len(slots)) :
                     (two \o slots)[j] = IF j <= Len(two) THEN two[j] ELSE slots[j - Len(two)]
            BY <6>1, Joined
          <6> QED  BY <6>2, <4>2
        <5>2. ASSUME NEW j \in 3..(2 + Len(slots))
              PROVE  (two \o slots)[j] = slots[j - 2] /\ j - 2 \in 1..Len(slots)
          BY <5>1
        <5>3. (two \o slots)[1] = wire /\ (two \o slots)[2] = sender
          BY <4>2, <5>1
        <5> QED  BY <4>1, <5>1, <5>2, <5>3
      <4>4. CASE i = 1
        BY <4>4, <3>4, <4>3, <2>2
      <4>5. CASE i = 2
        <5>1. Line[3] = slots[1] /\ 1 \in 1..Len(slots)
          BY <4>5, <4>3, <2>1
        <5> QED  BY <5>1, <4>5, <3>4, <4>3, <2>1, <2>2
      <4>6. CASE i \in 3..Len(Line)
        <5>1. /\ i + 1 \in 3..Len(Line) /\ i - 2 \in 1..Len(slots) /\ i + 1 - 2 \in 1..Len(slots)
              /\ Line[i] = slots[i - 2] /\ Line[i + 1] = slots[i + 1 - 2] /\ i - 2 < i + 1 - 2
          BY <4>6, <4>3, <2>1
        <5> QED  BY <5>1, <2>1
      <4> QED  BY <4>3, <4>4, <4>5, <4>6, <2>1
    <3> QED  BY <3>1, <3>2, <3>3, <3>4
  <2> QED  BY <2>3, OrderTells DEF GapsAreTold
<1> QED  BY <1>1, Invariance, PTL

-----------------------------------------------------------------------------
(* Sums over the queue.  Induction over its length is the argument of the     *)
(* smallest counterexample.                                                   *)

LEMMA LeastIsThere ==
    ASSUME NEW A \in SUBSET Nat, A # {}
    PROVE  \E n \in A : \A m \in A : n <= m
<1> DEFINE R == {p \in Nat \X Nat : p[1] < p[2]}
<1>1. IsWellFoundedOn(R, Nat)
  BY NatLessThanWellFounded DEF OpToRel
<1>2. PICK n \in A : \A m \in A : <<m, n>> \notin R
  <2> HIDE DEF R
  <2> QED  BY <1>1, WFMin
<1>3. \A m \in A : ~(m < n)
  BY <1>2
<1> QED  BY <1>3

LEMMA UpTo ==
    ASSUME NEW N \in Nat, NEW A, 0 \in A, \A n \in 0..(N - 1) : n \in A => n + 1 \in A
    PROVE  0..N \subseteq A
<1> DEFINE Without == {n \in 0..N : n \notin A}
<1>1. SUFFICES ASSUME Without # {} PROVE FALSE
  OBVIOUS
<1>2. PICK n \in Without : \A m \in Without : n <= m
  <2>1. Without \in SUBSET Nat
    OBVIOUS
  <2> HIDE DEF Without
  <2> QED  BY <1>1, <2>1, LeastIsThere
<1>3. n \in 0..N /\ n \notin A /\ n # 0
  BY <1>2
<1>4. n - 1 \in 0..(N - 1) /\ n - 1 \in A
  BY <1>2, <1>3
<1> QED  BY <1>3, <1>4

\* QueuedFrames of any contents of the slots.
SumsOf(s) == CHOOSE f : f = [n \in 0..Capacity |->
                                IF n = 0 THEN 0 ELSE f[n - 1] + s[n].frames]

LEMMA QueuedFramesIs ==
    /\ QueuedFrames = SumsOf(slots)
    /\ QueuedFrames' = SumsOf(slots')
  BY DEF QueuedFrames, SumsOf

\* The function that adds up the frames exists.
LEMMA SumsAre ==
    ASSUME NEW s
    PROVE  /\ SumsOf(s)[0] = 0
           /\ \A n \in 1..Capacity : SumsOf(s)[n] = SumsOf(s)[n - 1] + s[n].frames
<1> DEFINE Sums(f, N) == f = [n \in 0..N |-> IF n = 0 THEN 0 ELSE f[n - 1] + s[n].frames]
           A == {N \in 0..Capacity : \E f : Sums(f, N)}
<1>0. Capacity \in Nat
  BY Constants
<1>1. 0 \in A
  <2> DEFINE f == [n \in 0..0 |-> 0]
  <2>1. Sums(f, 0)
    OBVIOUS
  <2> HIDE DEF Sums, f
  <2> QED  BY <1>0, <2>1
<1>2. ASSUME NEW N \in 0..(Capacity - 1), N \in A
      PROVE  N + 1 \in A
  <2>1. PICK f : Sums(f, N)
    BY <1>2
  <2> DEFINE g == [n \in 0..(N + 1) |-> IF n <= N THEN f[n] ELSE f[N] + s[N + 1].frames]
  <2>2. \A n \in 0..(N + 1) : g[n] = IF n = 0 THEN 0 ELSE g[n - 1] + s[n].frames
    <3> SUFFICES ASSUME NEW n \in 0..(N + 1)
                 PROVE  g[n] = IF n = 0 THEN 0 ELSE g[n - 1] + s[n].frames
      OBVIOUS
    <3>1. CASE n = 0
      <4>1. f[0] = 0
        BY <2>1
      <4> QED  BY <3>1, <4>1
    <3>2. CASE n \in 1..N
      <4>1. f[n] = f[n - 1] + s[n].frames
        BY <2>1, <3>2
      <4>2. g[n] = f[n] /\ g[n - 1] = f[n - 1]
        BY <3>2
      <4> HIDE DEF g
      <4> QED  BY <4>1, <4>2, <3>2
    <3>3. CASE n = N + 1
      <4>1. g[n] = f[N] + s[N + 1].frames /\ g[n - 1] = f[N]
        BY <3>3
      <4> HIDE DEF g
      <4> QED  BY <4>1, <3>3
    <3> QED  BY <3>1, <3>2, <3>3
  <2>3. Sums(g, N + 1)
    <3>1. g = [n \in 0..(N + 1) |-> g[n]]
      OBVIOUS
    <3> HIDE DEF g
    <3> QED  BY <2>2, <3>1
  <2> HIDE DEF Sums, g
  <2> QED  BY <1>0, <2>3
<1>3. Capacity \in A
  <2> HIDE DEF A
  <2>1. 0..Capacity \subseteq A
    BY <1>0, <1>1, <1>2, UpTo
  <2> QED  BY <1>0, <2>1
<1>4. PICK f : Sums(f, Capacity)
  BY <1>3
<1>5. SumsOf(s) = [n \in 0..Capacity |->
                      IF n = 0 THEN 0 ELSE SumsOf(s)[n - 1] + s[n].frames]
  BY <1>4 DEF SumsOf
<1> DEFINE h == SumsOf(s)
<1>6. h = [n \in 0..Capacity |-> IF n = 0 THEN 0 ELSE h[n - 1] + s[n].frames]
  BY <1>5
<1> HIDE DEF h
<1>7. ASSUME NEW n \in 0..Capacity
      PROVE  h[n] = IF n = 0 THEN 0 ELSE h[n - 1] + s[n].frames
  BY <1>6
<1>8. h[0] = 0
  <2>1. 0 \in 0..Capacity
    BY <1>0
  <2> QED  BY <1>7, <2>1
<1>9. ASSUME NEW n \in 1..Capacity PROVE h[n] = h[n - 1] + s[n].frames
  <2>1. n \in 0..Capacity /\ n # 0
    BY <1>0
  <2> QED  BY <1>7, <2>1
<1> QED  BY <1>8, <1>9 DEF h

LEMMA SumsInNat ==
    ASSUME NEW s \in Seq(Packets), Len(s) <= Capacity
    PROVE  \A n \in 0..Len(s) : SumsOf(s)[n] \in Nat
<1> DEFINE A == {n \in 0..Len(s) : SumsOf(s)[n] \in Nat}
<1>0. Len(s) \in Nat /\ Capacity \in Nat
  BY Constants
<1>1. 0 \in A
  BY <1>0, SumsAre
<1>2. ASSUME NEW n \in 0..(Len(s) - 1), n \in A PROVE n + 1 \in A
  <2>1. n + 1 \in 1..Capacity /\ n + 1 \in 1..Len(s) /\ (n + 1) - 1 = n
    BY <1>0
  <2>2. SumsOf(s)[n + 1] = SumsOf(s)[n] + s[n + 1].frames
    BY <2>1, SumsAre
  <2>3. s[n + 1] \in Packets
    BY <2>1
  <2> QED  BY <1>2, <2>1, <2>2, <2>3 DEF Packets
<1>3. 0..Len(s) \subseteq A
  <2> HIDE DEF A
  <2> QED  BY <1>0, <1>1, <1>2, UpTo
<1> QED  BY <1>3

\* What is first in the queue is in every sum.
LEMMA SumsOfTail ==
    ASSUME NEW s \in Seq(Packets), s # <<>>, Len(s) <= Capacity
    PROVE  SumsOf(s)[Len(s)] = s[1].frames + SumsOf(Tail(s))[Len(Tail(s))]
<1> DEFINE t == Tail(s)
           A == {n \in 0..Len(t) : SumsOf(s)[n + 1] = s[1].frames + SumsOf(t)[n]}
<1>0. /\ Len(s) \in Nat \ {0} /\ Capacity \in Nat /\ t \in Seq(Packets) /\ Len(t) = Len(s) - 1
      /\ \A n \in 1..Len(t) : t[n] = s[n + 1]
      /\ s[1].frames \in Nat
  <2>1. s[1] \in Packets
    OBVIOUS
  <2> QED  BY <2>1, Constants DEF Packets
<1> HIDE DEF t
<1>1. 0 \in A
  <2>1. SumsOf(s)[0] = 0 /\ SumsOf(t)[0] = 0
    BY SumsAre
  <2>2. 1 \in 1..Capacity /\ 1 - 1 = 0
    BY <1>0
  <2>3. SumsOf(s)[1] = SumsOf(s)[1 - 1] + s[1].frames
    BY <2>2, SumsAre
  <2> QED  BY <1>0, <2>1, <2>2, <2>3
<1>2. ASSUME NEW n \in 0..(Len(t) - 1), n \in A PROVE n + 1 \in A
  <2>1. /\ n + 1 \in 1..Len(t) /\ n + 1 \in 1..Capacity /\ (n + 1) - 1 = n /\ n \in 0..Len(t)
        /\ n + 1 + 1 \in 1..Capacity /\ (n + 1 + 1) - 1 = n + 1
    BY <1>0
  <2>2. SumsOf(t)[n + 1] = SumsOf(t)[n] + t[n + 1].frames
    BY <2>1, SumsAre
  <2>3. SumsOf(s)[n + 1 + 1] = SumsOf(s)[n + 1] + s[n + 1 + 1].frames
    BY <2>1, SumsAre
  <2>4. t[n + 1] = s[n + 1 + 1] /\ t[n + 1] \in Packets
    BY <1>0, <2>1
  <2>5. SumsOf(t)[n] \in Nat /\ t[n + 1].frames \in Nat
    <3>1. Len(t) <= Capacity
      BY <1>0
    <3>2. SumsOf(t)[n] \in Nat
      BY <1>0, <2>1, <3>1, SumsInNat
    <3> QED  BY <2>4, <3>2 DEF Packets
  <2> QED  BY <1>0, <1>2, <2>1, <2>2, <2>3, <2>4, <2>5
<1>3. 0..Len(t) \subseteq A
  <2>1. Len(t) \in Nat
    BY <1>0
  <2> HIDE DEF A
  <2> QED  BY <2>1, <1>1, <1>2, UpTo
<1>4. Len(t) \in A /\ Len(t) + 1 = Len(s)
  BY <1>0, <1>3
<1> QED  BY <1>4 DEF t

\* Behind what is in the queue already, nothing changes.
LEMMA SumsOfLonger ==
    ASSUME NEW s, NEW t, NEW m \in 0..Capacity, \A n \in 1..m : t[n] = s[n]
    PROVE  SumsOf(t)[m] = SumsOf(s)[m]
<1> DEFINE A == {n \in 0..m : SumsOf(t)[n] = SumsOf(s)[n]}
<1>0. m \in Nat /\ Capacity \in Nat
  BY Constants
<1>1. 0 \in A
  BY <1>0, SumsAre
<1>2. ASSUME NEW n \in 0..(m - 1), n \in A PROVE n + 1 \in A
  <2>1. n + 1 \in 1..Capacity /\ n + 1 \in 1..m /\ n + 1 \in 0..m /\ (n + 1) - 1 = n
    BY <1>0
  <2>2. /\ SumsOf(s)[n + 1] = SumsOf(s)[n] + s[n + 1].frames
        /\ SumsOf(t)[n + 1] = SumsOf(t)[n] + t[n + 1].frames
    BY <2>1, SumsAre
  <2> QED  BY <1>2, <2>1, <2>2
<1>3. 0..m \subseteq A
  <2> HIDE DEF A
  <2> QED  BY <1>0, <1>1, <1>2, UpTo
<1> QED  BY <1>0, <1>3

\* The packets of a block carry its frames.
LEMMA SumsOfBlock ==
    ASSUME block \in Blocks, block.sequence = block.number % S,
           NEW t, NEW m \in Nat, m + PacketCount(block.frames) <= Capacity,
           \A i \in 1..PacketCount(block.frames) : t[m + i] = Packet(i),
           SumsOf(t)[m] \in Nat
    PROVE  SumsOf(t)[m + PacketCount(block.frames)] = SumsOf(t)[m] + block.frames
<1> DEFINE n == PacketCount(block.frames)
           A == {i \in 0..(n - 1) : SumsOf(t)[m + i] = SumsOf(t)[m] + i * F}
<1>0. n \in Nat \ {0} /\ block.frames \in Nat /\ block.start \in Nat /\ Capacity \in Nat
  BY CountOfFrames, Constants DEF Blocks
<1>1. \A i \in 1..n : /\ m + i \in 1..Capacity
                      /\ SumsOf(t)[m + i] = SumsOf(t)[m + i - 1] + Packet(i).frames
  <2> SUFFICES ASSUME NEW i \in 1..n
               PROVE  /\ m + i \in 1..Capacity
                      /\ SumsOf(t)[m + i] = SumsOf(t)[m + i - 1] + Packet(i).frames
    OBVIOUS
  <2>1. m + i \in 1..Capacity /\ t[m + i] = Packet(i)
    BY <1>0
  <2> QED  BY <2>1, SumsAre
<1>2. 0 \in A
  BY <1>0, Constants
<1>3. ASSUME NEW i \in 0..((n - 1) - 1), i \in A PROVE i + 1 \in A
  <2>1. i + 1 \in 1..n /\ i + 1 < n /\ i + 1 \in 0..(n - 1) /\ m + (i + 1) - 1 = m + i
    BY <1>0
  <2>2. Packet(i + 1).frames = F
    BY <2>1, PacketIs
  <2>3. SumsOf(t)[m + (i + 1)] = SumsOf(t)[m + i] + F
    BY <1>1, <2>1, <2>2
  <2>4. i * F \in Int /\ (i + 1) * F = i * F + F
    BY <1>0, Times
  <2> QED  BY <1>3, <2>1, <2>3, <2>4, Constants
<1>4. n - 1 \in A
  <2>1. n - 1 \in Nat /\ n - 1 \in 0..(n - 1)
    BY <1>0
  <2> HIDE DEF A
  <2>2. 0..(n - 1) \subseteq A
    BY <2>1, <1>2, <1>3, UpTo
  <2> QED  BY <2>1, <2>2
<1>5. SumsOf(t)[m + n] = SumsOf(t)[m + n - 1] + Packet(n).frames
  BY <1>0, <1>1
<1>6. /\ Packet(n).start = block.start + (n - 1) * F
      /\ Packet(n).start + Packet(n).frames = block.start + block.frames
      /\ Packet(n).frames \in Nat
  <2>1. n \in 1..n
    BY <1>0
  <2> QED  BY <2>1, PacketIs DEF Numbered, Packets
<1>7. (n - 1) * F \in Int
  BY <1>0, Times
<1>8. m + (n - 1) = m + n - 1
  BY <1>0
<1> HIDE DEF n
<1> QED  BY <1>0, <1>4, <1>5, <1>6, <1>7, <1>8 DEF n

\* Every frame of the timeline is somewhere.
Accounted == FramesAccounted /\ popped_frames \in Nat

LEMMA SumsKept ==
    ASSUME slots' = slots
    PROVE  QueuedFrames'[Len(slots)'] = QueuedFrames[Len(slots)]
  BY QueuedFramesIs

LEMMA AccountedInit == ASSUME Init PROVE Accounted
<1>1. QueuedFrames[0] = 0
  BY QueuedFramesIs, SumsAre
<1> QED  BY <1>1 DEF Init, Accounted, FramesAccounted, NoBlock

LEMMA AccountedNext ==
    ASSUME IInv, IInv', Accounted, [Next]_vars
    PROVE  Accounted'
<1> DEFINE q == QueuedFrames[Len(slots)]
<1>1. /\ slots \in Seq(Packets) /\ Len(slots) <= Capacity /\ Len(slots) \in Nat
      /\ slots' \in Seq(Packets) /\ Len(slots') <= Capacity
      /\ block.frames \in Nat /\ dropped_frames \in Nat /\ next_presentation_frame \in Nat
      /\ popped_frames \in Nat
  BY FrontIs DEF IInv, InOrder, MutexHolds, CountersFollow, NumbersFollow, Accounted
<1>2. q \in Nat
  BY <1>1, QueuedFramesIs, SumsInNat
<1>3. next_presentation_frame = dropped_frames + block.frames + q + popped_frames
  BY DEF Accounted, FramesAccounted
<1> HIDE DEF q
<1>4. ASSUME slots' = slots, popped_frames' = popped_frames,
             next_presentation_frame' = dropped_frames' + block'.frames + q + popped_frames
      PROVE  Accounted'
  <2>1. QueuedFrames'[Len(slots)'] = q
    BY <1>4, SumsKept DEF q
  <2> QED  BY <2>1, <1>1, <1>4 DEF Accounted, FramesAccounted
<1>5. ASSUME NEW n \in BlockSizes, SubmitStarts(n) PROVE Accounted'
  <2>1. n \in Nat /\ block.frames = 0
    BY <1>5, NoBlockIsNone, DeviceQueueAssumption DEF SubmitStarts
  <2>2. /\ slots' = slots /\ popped_frames' = popped_frames
        /\ dropped_frames' = dropped_frames /\ block'.frames = n
        /\ next_presentation_frame' = next_presentation_frame + n
    BY <1>5 DEF SubmitStarts, stats, sent
  <2>3. next_presentation_frame' = dropped_frames' + block'.frames + q + popped_frames
    BY <2>1, <2>2, <1>1, <1>2, <1>3
  <2> QED  BY <1>4, <2>2, <2>3
<1>6. ASSUME SubmitDrops PROVE Accounted'
  <2>1. /\ slots' = slots /\ popped_frames' = popped_frames
        /\ dropped_frames' = dropped_frames + block.frames /\ block'.frames = 0
        /\ next_presentation_frame' = next_presentation_frame
    BY <1>6, NoBlockIsNone DEF SubmitDrops, numbers, sent
  <2>2. next_presentation_frame' = dropped_frames' + block'.frames + q + popped_frames
    BY <2>1, <1>1, <1>2, <1>3
  <2> QED  BY <1>4, <2>1, <2>2
<1>7. ASSUME SubmitCommits PROVE Accounted'
  <2> DEFINE m == Len(slots)
             n == PacketCount(block.frames)
  <2>1. /\ block \in Blocks /\ block.sequence = block.number % S /\ n \in Nat \ {0}
        /\ m + n <= Capacity /\ m \in Nat
    BY <1>7, <1>1, FrontIs, Constants
       DEF SubmitCommits, IInv, MutexHolds, NumbersFollow, Fits
  <2>2. /\ slots' = slots \o [i \in 1..n |-> Packet(i)]
        /\ next_presentation_frame' = next_presentation_frame
        /\ dropped_frames' = dropped_frames /\ popped_frames' = popped_frames
        /\ block'.frames = 0
    BY <1>7, NoBlockIsNone DEF SubmitCommits, numbers, sent
  <2>3. /\ Len(slots') = m + n
        /\ \A i \in 1..m : slots'[i] = slots[i]
        /\ \A i \in 1..n : slots'[m + i] = Packet(i)
    <3>1. \A i \in 1..n : Packet(i) \in Packets
      BY <2>1, PacketIs DEF Numbered
    <3>2. [i \in 1..n |-> Packet(i)] \in Seq(Packets) /\ Len([i \in 1..n |-> Packet(i)]) = n
      BY <3>1, <2>1
    <3> DEFINE b == [i \in 1..n |-> Packet(i)]
    <3>3. \A i \in 1..n : b[i] = Packet(i)
      OBVIOUS
    <3> HIDE DEF b
    <3>4. /\ Len(slots \o b) = m + n
          /\ \A j \in 1..(m + n) : (slots \o b)[j] = IF j <= m THEN slots[j] ELSE b[j - m]
      BY <3>2, <1>1, Joined DEF b
    <3>5. ASSUME NEW i \in 1..n PROVE (slots \o b)[m + i] = b[i]
      <4>1. m + i \in 1..(m + n) /\ ~(m + i <= m) /\ (m + i) - m = i
        BY <2>1
      <4> QED  BY <3>4, <4>1
    <3>6. ASSUME NEW i \in 1..m PROVE (slots \o b)[i] = slots[i]
      BY <3>4, <2>1
    <3>7. slots' = slots \o b
      BY <2>2 DEF b
    <3> QED  BY <3>3, <3>4, <3>5, <3>6, <3>7
  <2>4. SumsOf(slots')[m] = q
    <3>1. m \in 0..Capacity
      BY <2>1, Constants
    <3>2. SumsOf(slots')[m] = SumsOf(slots)[m]
      BY <3>1, <2>3, SumsOfLonger
    <3> QED  BY <3>2, QueuedFramesIs DEF q
  <2>5. SumsOf(slots')[m + n] = q + block.frames
    <3> DEFINE t == slots'
    <3>1. SumsOf(t)[m] \in Nat /\ \A i \in 1..n : t[m + i] = Packet(i)
      BY <2>3, <2>4, <1>2
    <3> HIDE DEF t
    <3>2. SumsOf(t)[m + n] = SumsOf(t)[m] + block.frames
      BY <3>1, <2>1, SumsOfBlock
    <3> QED  BY <3>2, <2>4 DEF t
  <2>6. QueuedFrames'[Len(slots)'] = q + block.frames
    BY <2>3, <2>5, QueuedFramesIs
  <2>7. next_presentation_frame' = dropped_frames' + block'.frames
                                     + QueuedFrames'[Len(slots)'] + popped_frames'
    BY <2>2, <2>6, <1>1, <1>2, <1>3
  <2> QED  BY <2>2, <2>7, <1>1 DEF Accounted, FramesAccounted
<1>8. ASSUME SenderPops PROVE Accounted'
  <2>1. /\ slots # <<>> /\ slots' = Tail(slots) /\ slots[1] \in Packets
        /\ popped_frames' = popped_frames + slots[1].frames
        /\ dropped_frames' = dropped_frames /\ block' = block
        /\ next_presentation_frame' = next_presentation_frame
    BY <1>8, <1>1 DEF SenderPops, IInv, MutexHolds, numbers, stats
  <2>2. q = slots[1].frames + QueuedFrames'[Len(slots)']
    BY <2>1, <1>1, QueuedFramesIs, SumsOfTail DEF q
  <2>3. QueuedFrames'[Len(slots)'] \in Nat
    BY <1>1, QueuedFramesIs, SumsInNat
  <2>4. slots[1].frames \in Nat
    BY <2>1 DEF Packets
  <2>5. next_presentation_frame' = dropped_frames' + block'.frames
                                     + QueuedFrames'[Len(slots)'] + popped_frames'
    <3>1. PICK r \in Nat : r = QueuedFrames'[Len(slots)']
      BY <2>3
    <3>2. q = slots[1].frames + r
      BY <2>2, <3>1
    <3>3. PICK d, b, p \in Nat : /\ d = dropped_frames /\ b = block.frames
                                 /\ p = popped_frames
      BY <1>1
    <3>4. next_presentation_frame = d + b + (slots[1].frames + r) + p
      BY <1>3, <3>2, <3>3
    <3>5. next_presentation_frame = d + b + r + (p + slots[1].frames)
      BY <2>4, <3>4
    <3>6. /\ dropped_frames' = d /\ block'.frames = b
          /\ popped_frames' = p + slots[1].frames
          /\ next_presentation_frame' = next_presentation_frame
      BY <2>1, <3>3
    <3> QED  BY <3>1, <3>5, <3>6
  <2> QED  BY <2>1, <2>4, <2>5, <1>1 DEF Accounted, FramesAccounted
<1>9. CASE SubmitLocks \/ SenderLocks \/ Sends \/ SendFails \/ Status \/ UNCHANGED vars
  <2>1. /\ slots' = slots /\ popped_frames' = popped_frames
        /\ UNCHANGED <<next_presentation_frame, dropped_frames, block>>
    BY <1>9 DEF SubmitLocks, SenderLocks, Sends, SendFails, Status, StatusLocks, StatusUnlocks,
                vars, numbers, stats, sent
  <2> QED  BY <2>1, <1>3, <1>4
<1> QED  BY <1>5, <1>6, <1>7, <1>8, <1>9 DEF Next, Renderer, Sender

\* Every frame of the timeline was dropped and counted, is in hand, is queued, or was popped.
THEOREM AllAccounted == Spec => []FramesAccounted
<1>1. Accounted => FramesAccounted
  BY DEF Accounted
<1>2. Init => Accounted
  BY AccountedInit
<1>3. IInv /\ IInv' /\ Accounted /\ [Next]_vars => Accounted'
  BY AccountedNext
<1> QED  BY <1>1, <1>2, <1>3, Invariance, PTL DEF Spec
=============================================================================
