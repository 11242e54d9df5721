---------------------------- MODULE DeviceQueue ----------------------------
(***************************************************************************)
(* DeviceAudioPacketQueue and the thread that sends from it                *)
(* (src/host/src/device_audio_queue.cpp, device_udp_sender.cpp).  The      *)
(* render thread submits one mixed block per device period and never       *)
(* waits: a block that meets a held mutex_ or too few free slots is        *)
(* dropped whole, but its packet numbers and its frames are spent.  The    *)
(* sender pops under mutex_ and sends outside it; a packet whose send      *)
(* fails is gone.  The status thread holds mutex_ to read the counters.    *)
(*                                                                         *)
(* A packet is its sequence number, which wraps, and the presentation      *)
(* frame, count and block it carries.                                      *)
(***************************************************************************)
EXTENDS Integers, Sequences

CONSTANTS Capacity,         \* capacity_packets
          FramesPerPacket,  \* frames_per_packet_
          BlockSizes,       \* frames the device asks for
          SequenceSpan,     \* 2^32: next_sequence_ is a uint32_t
          MaxFrames         \* bound: frames ever submitted

ASSUME DeviceQueueAssumption ==
    /\ Capacity \in Nat \ {0} /\ FramesPerPacket \in Nat \ {0}
    /\ BlockSizes \subseteq Nat \ {0}
    /\ SequenceSpan \in Nat \ {0} /\ MaxFrames \in Nat

VARIABLES next_sequence, next_presentation_frame,
          block,            \* the block being submitted
          mutex,            \* the thread inside mutex_
          slots,            \* the packets queued, in order
          dropped_packets, dropped_frames, enqueued_packets, dequeued_packets,
          sender,           \* the packet popped and not yet sent
          wire,             \* the last packet that left
          spent_packets,    \* history: packet numbers spent, not wrapped
          popped_frames     \* history: frames that left the queue

stats == <<dropped_packets, dropped_frames, enqueued_packets>>
sent == <<sender, wire, dequeued_packets, popped_frames>>
numbers == <<next_sequence, next_presentation_frame, spent_packets>>
vars == <<numbers, block, mutex, slots, stats, sent>>

NoBlock == [frames |-> 0, sequence |-> 0, start |-> 0, number |-> 0]
NoPacket == [sequence |-> -1, start |-> 0, frames |-> 0, number |-> -1,
             block |-> -1, last |-> TRUE]

PacketCount(frames) == (frames + FramesPerPacket - 1) \div FramesPerPacket
Spent(sequence, n) == (sequence + n) % SequenceSpan

Init ==
    /\ next_sequence = 0 /\ next_presentation_frame = 0
    /\ block = NoBlock
    /\ mutex = "free"
    /\ slots = <<>>
    /\ dropped_packets = 0 /\ dropped_frames = 0
    /\ enqueued_packets = 0 /\ dequeued_packets = 0
    /\ sender = NoPacket /\ wire = NoPacket
    /\ spent_packets = 0 /\ popped_frames = 0

-----------------------------------------------------------------------------
(* The render thread: try_submit *)

\* MUTANT: the numbers are spent only by a block that gets in.
SubmitStarts_KeepsNumbers(frames) ==
    /\ block = NoBlock
    /\ next_presentation_frame + frames <= MaxFrames
    /\ block' = [frames |-> frames, sequence |-> next_sequence,
                 start |-> next_presentation_frame, number |-> spent_packets]
    /\ next_sequence' = Spent(next_sequence, 0)
    /\ next_presentation_frame' = next_presentation_frame + frames
    /\ spent_packets' = spent_packets + PacketCount(frames)
    /\ UNCHANGED <<mutex, slots, stats, sent>>

\* The numbers of the block are spent before anything can refuse it.
SubmitStarts(frames) ==
    /\ block = NoBlock
    /\ next_presentation_frame + frames <= MaxFrames
    /\ block' = [frames |-> frames, sequence |-> next_sequence,
                 start |-> next_presentation_frame, number |-> spent_packets]
    /\ next_sequence' = Spent(next_sequence, PacketCount(frames))
    /\ next_presentation_frame' = next_presentation_frame + frames
    /\ spent_packets' = spent_packets + PacketCount(frames)
    /\ UNCHANGED <<mutex, slots, stats, sent>>

\* MUTANT: one free slot is enough for any block.
Fits_Any(frames) == Len(slots) < Capacity

Fits(frames) == PacketCount(frames) <= Capacity - Len(slots)

\* MUTANT: the drop is counted in packets only.
SubmitDrops_Uncounted ==
    /\ block # NoBlock /\ mutex # "submit"
    /\ mutex # "free" \/ ~Fits(block.frames)
    /\ dropped_packets' = dropped_packets + PacketCount(block.frames)
    /\ block' = NoBlock
    /\ UNCHANGED <<numbers, mutex, slots, dropped_frames, enqueued_packets, sent>>

\* MUTANT: lock() instead of try_lock.
SubmitDrops_Waits ==
    /\ block # NoBlock /\ mutex = "free" /\ ~Fits(block.frames)
    /\ dropped_packets' = dropped_packets + PacketCount(block.frames)
    /\ dropped_frames' = dropped_frames + block.frames
    /\ block' = NoBlock
    /\ UNCHANGED <<numbers, mutex, slots, enqueued_packets, sent>>

\* try_lock fails, or there is no room: the whole block is dropped.
SubmitDrops ==
    /\ block # NoBlock /\ mutex # "submit"
    /\ mutex # "free" \/ ~Fits(block.frames)
    /\ dropped_packets' = dropped_packets + PacketCount(block.frames)
    /\ dropped_frames' = dropped_frames + block.frames
    /\ block' = NoBlock
    /\ UNCHANGED <<numbers, mutex, slots,
                   enqueued_packets, sent>>

SubmitLocks ==
    /\ block # NoBlock /\ mutex = "free" /\ Fits(block.frames)
    /\ mutex' = "submit"
    /\ UNCHANGED <<numbers, block, slots, stats, sent>>

\* The i-th packet of the block in hand.
Packet(i) ==
    LET before == (i - 1) * FramesPerPacket
    IN  [sequence |-> Spent(block.sequence, i - 1), start |-> block.start + before,
         frames |-> IF block.frames - before < FramesPerPacket
                    THEN block.frames - before ELSE FramesPerPacket,
         number |-> block.number + i - 1, block |-> block.start,
         last |-> i = PacketCount(block.frames)]

\* MUTANT: a short last packet is left for the next block.
SubmitCommits_HalfBlock ==
    /\ mutex = "submit"
    /\ slots' = slots \o [i \in 1..(block.frames \div FramesPerPacket) |-> Packet(i)]
    /\ enqueued_packets' = enqueued_packets + block.frames \div FramesPerPacket
    /\ block' = NoBlock
    /\ mutex' = "free"
    /\ UNCHANGED <<numbers, dropped_packets, dropped_frames, sent>>

\* Every packet is encoded into a free slot, then the block counts as queued.
SubmitCommits ==
    /\ mutex = "submit"
    /\ slots' = slots \o [i \in 1..PacketCount(block.frames) |-> Packet(i)]
    /\ enqueued_packets' = enqueued_packets + PacketCount(block.frames)
    /\ block' = NoBlock
    /\ mutex' = "free"
    /\ UNCHANGED <<numbers, dropped_packets,
                   dropped_frames, sent>>

-----------------------------------------------------------------------------
(* The sender: try_pop, then send *)

SenderLocks ==
    /\ sender = NoPacket /\ slots # <<>> /\ mutex = "free"
    /\ mutex' = "pop"
    /\ UNCHANGED <<numbers, block, slots, stats, sent>>

\* MUTANT: the read position does not move.
SenderPops_Again ==
    /\ mutex = "pop"
    /\ sender' = Head(slots)
    /\ slots' = slots
    /\ popped_frames' = popped_frames
    /\ dequeued_packets' = dequeued_packets
    /\ mutex' = "free"
    /\ UNCHANGED <<numbers, block, stats, wire>>

SenderPops ==
    /\ mutex = "pop"
    /\ sender' = Head(slots)
    /\ slots' = Tail(slots)
    /\ popped_frames' = popped_frames + Head(slots).frames
    /\ dequeued_packets' = dequeued_packets + 1
    /\ mutex' = "free"
    /\ UNCHANGED <<numbers, block, stats, wire>>

Sends ==
    /\ sender # NoPacket
    /\ wire' = sender
    /\ sender' = NoPacket
    /\ UNCHANGED <<numbers, block, mutex, slots, stats, dequeued_packets, popped_frames>>

\* A socket error: nothing is retried.
SendFails ==
    /\ sender # NoPacket
    /\ sender' = NoPacket
    /\ UNCHANGED <<numbers, block, mutex, slots, stats, wire, dequeued_packets,
                   popped_frames>>

-----------------------------------------------------------------------------
(* The status thread: stats() *)

StatusLocks ==
    /\ mutex = "free"
    /\ mutex' = "status"
    /\ UNCHANGED <<numbers, block, slots, stats, sent>>

StatusUnlocks ==
    /\ mutex = "status"
    /\ mutex' = "free"
    /\ UNCHANGED <<numbers, block, slots, stats, sent>>

-----------------------------------------------------------------------------
Renderer == \/ \E n \in BlockSizes : SubmitStarts(n)
            \/ SubmitDrops \/ SubmitLocks \/ SubmitCommits

Answering == SubmitDrops \/ SubmitLocks \/ SubmitCommits

Sender == SenderLocks \/ SenderPops \/ Sends \/ SendFails

Status == StatusLocks \/ StatusUnlocks

Next == Renderer \/ Sender \/ Status

Spec == Init /\ [][Next]_vars

\* The threads keep running; lock() gets a mutex that keeps being released.
FairSpec == /\ Spec
            /\ WF_vars(Answering) /\ WF_vars(StatusUnlocks)
            /\ SF_vars(SenderLocks) /\ WF_vars(SenderPops) /\ WF_vars(Sends \/ SendFails)

-----------------------------------------------------------------------------
(* Properties *)

\* Type invariant: the queue never holds more packets than it has slots, and
\* its counters agree with what it holds.
TypeOK ==
    /\ next_sequence \in 0..(SequenceSpan - 1)
    /\ next_presentation_frame \in 0..MaxFrames
    /\ mutex \in {"free", "submit", "pop", "status"}
    /\ mutex = "submit" => block # NoBlock
    /\ Len(slots) <= Capacity
    /\ enqueued_packets = dequeued_packets + Len(slots)
    /\ dropped_packets \in Nat /\ dropped_frames \in 0..MaxFrames

\* What the device receives, has received and will receive, in order.
Line == (IF wire = NoPacket THEN <<>> ELSE <<wire>>)
        \o (IF sender = NoPacket THEN <<>> ELSE <<sender>>) \o slots

Contiguous(p, q) == q.start = p.start + p.frames

\* A refused or unsent block is told to the device as a gap and never as a
\* shifted timeline (README: "sequence and playback frame keep advancing so
\* that the device detects the gap"): of two packets that follow each other
\* on the wire, the numbers are consecutive exactly when the sound is.
\* (A silence of SequenceSpan packets is the one gap the number alone hides.)
GapsAreTold ==
    \A i \in 1..(Len(Line) - 1) :
        LET p == Line[i]
            q == Line[i + 1]
        IN  /\ p.number < q.number /\ p.start + p.frames <= q.start
            /\ Contiguous(p, q) => q.sequence = Spent(p.sequence, 1)
            /\ q.sequence = Spent(p.sequence, 1) /\ q.number - p.number <= SequenceSpan
                 => Contiguous(p, q)

\* A block enters the queue with all its packets or not at all
\* (device-audio-protocol-v1.md: "never submits half a block").
WholeBlocks ==
    /\ slots # <<>> => slots[Len(slots)].last
    /\ \A i \in 1..(Len(slots) - 1) :
          IF slots[i].last THEN slots[i + 1].start = slots[i + 1].block
          ELSE slots[i + 1].block = slots[i].block /\ Contiguous(slots[i], slots[i + 1])

QueuedFrames[n \in 0..Capacity] ==
    IF n = 0 THEN 0 ELSE QueuedFrames[n - 1] + slots[n].frames

\* "Dropped frames must enter the status counters": every frame of the
\* timeline was dropped and counted, is in hand, is queued, or was popped.
FramesAccounted ==
    next_presentation_frame =
        dropped_frames + block.frames + QueuedFrames[Len(slots)] + popped_frames

\* The render thread is never made to wait for the sender, the status thread or
\* a full queue.
RendererNeverWaits == block # NoBlock => ENABLED Answering

\* What was queued is taken out, however often the mutex is held by others.
QueueDrains ==
    \A k \in 1..MaxFrames : enqueued_packets >= k ~> dequeued_packets >= k
=============================================================================
