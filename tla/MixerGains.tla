----------------------------- MODULE MixerGains -----------------------------
(***************************************************************************)
(* A fader, from the page to the sound.  The app replaces the snapshot     *)
(* mixer-control-N.tsv (live_control.py write_mixer_control); the control  *)
(* thread of the host polls it and stores one target per stem in the       *)
(* renderer's atomics (main.cpp); the render thread compares the targets   *)
(* with the gains it last handed to its mixer, and the mixer ramps to them *)
(* (wasapi_stem_renderer.cpp, stem_mixer.cpp).  The device may be lost at  *)
(* any call of the render thread, which then opens it again.               *)
(*                                                                         *)
(* Gains are steps 0..Unity.  A gain half way up its ramp is any value     *)
(* between where it was and where it goes.                                 *)
(***************************************************************************)
EXTENDS Integers

CONSTANTS Stems, Unity,
          Smoothing,       \* smoothing_frames_
          Frames,          \* frames of a rendered block
          MaxSnapshots,    \* bound: snapshots the app writes
          MaxFailures      \* bound: device failures

ASSUME MixerGainsAssumption ==
    /\ Stems # {}
    /\ Unity \in Nat \ {0} /\ Smoothing \in Nat \ {0} /\ Frames \in Nat \ {0}
    /\ MaxSnapshots \in Nat /\ MaxFailures \in Nat

VARIABLES file,        \* mixer-control-N.tsv
          control,     \* the control thread, and the snapshot it is applying
          applied_control_sequence,
          target_gains,
          renderer,    \* the render thread: which targets has it looked at
          applied_gains, gains,   \* gains: the mixer's GainState per stem
          failures

mixer_vars == <<file, control, applied_control_sequence, target_gains, renderer,
          applied_gains, gains, failures>>

Gains == 0..Unity
Full == [s \in Stems |-> Unity]

MixerInit ==
    /\ file = [sequence |-> 0, gains |-> Full]
    /\ control = [phase |-> "poll", snapshot |-> file, set |-> {}]
    /\ applied_control_sequence = 0
    /\ target_gains = Full
    /\ renderer = [phase |-> "closed", looked |-> {}]
    /\ applied_gains = Full
    /\ gains = [s \in Stems |-> [current |-> Unity, target |-> Unity, remaining |-> 0]]
    /\ failures = 0

-----------------------------------------------------------------------------
\* One complete snapshot replaces the last, under _MIXER_WRITE_LOCK.
WriteMixerControl ==
    /\ file.sequence < MaxSnapshots
    /\ \E g \in [Stems -> Gains] : file' = [sequence |-> file.sequence + 1, gains |-> g]
    /\ UNCHANGED <<control, applied_control_sequence, target_gains, renderer,
                   applied_gains, gains, failures>>

ControlReads ==
    /\ control.phase = "poll" /\ file.sequence > applied_control_sequence
    /\ control' = [phase |-> "apply", snapshot |-> file, set |-> {}]
    /\ UNCHANGED <<file, applied_control_sequence, target_gains, renderer,
                   applied_gains, gains, failures>>

ControlSets(s) ==
    /\ control.phase = "apply" /\ s \notin control.set
    /\ target_gains' = [target_gains EXCEPT ![s] = control.snapshot.gains[s]]
    /\ control' = [control EXCEPT !.set = @ \cup {s}]
    /\ UNCHANGED <<file, applied_control_sequence, renderer, applied_gains, gains,
                   failures>>

\* MUTANT: the sequence is taken from the file as it is by now.
ControlDone_Rereads ==
    /\ control.phase = "apply" /\ control.set = Stems
    /\ applied_control_sequence' = file.sequence
    /\ control' = [control EXCEPT !.phase = "poll"]
    /\ UNCHANGED <<file, target_gains, renderer, applied_gains, gains, failures>>

ControlDone ==
    /\ control.phase = "apply" /\ control.set = Stems
    /\ applied_control_sequence' = control.snapshot.sequence
    /\ control' = [control EXCEPT !.phase = "poll"]
    /\ UNCHANGED <<file, target_gains, renderer, applied_gains, gains, failures>>

-----------------------------------------------------------------------------
\* MUTANT: the gains handed over before the device was lost are remembered,
\* together with a mixer that starts again at unity.
RendererOpens_FreshMixer ==
    /\ renderer.phase = "closed"
    /\ renderer' = [phase |-> "render", looked |-> {}]
    /\ gains' = [s \in Stems |-> [current |-> Unity, target |-> Unity, remaining |-> 0]]
    /\ UNCHANGED <<file, control, applied_control_sequence, target_gains,
                   applied_gains, failures>>

\* The device is open: applied_gains is a local that starts at 1.0 each time,
\* mixer_ is a member that does not.
RendererOpens ==
    /\ renderer.phase = "closed"
    /\ renderer' = [phase |-> "render", looked |-> {}]
    /\ applied_gains' = Full
    /\ UNCHANGED <<file, control, applied_control_sequence, target_gains, gains,
                   failures>>

\* RealtimeStemMixer::set_gain
SetGain(state, gain) ==
    [current |-> state.current, target |-> gain, remaining |-> Smoothing]

\* The target of one stem, read once per block.
RendererLooks(s) ==
    /\ renderer.phase = "render" /\ s \notin renderer.looked
    /\ renderer' = [renderer EXCEPT !.looked = @ \cup {s}]
    /\ IF target_gains[s] = applied_gains[s]
       THEN UNCHANGED <<applied_gains, gains>>
       ELSE /\ gains' = [gains EXCEPT ![s] = SetGain(@, target_gains[s])]
            /\ applied_gains' = [applied_gains EXCEPT ![s] = target_gains[s]]
    /\ UNCHANGED <<file, control, applied_control_sequence, target_gains, failures>>

EndBlock ==
    /\ renderer.phase = "render" /\ renderer.looked = Stems
    /\ renderer' = [renderer EXCEPT !.looked = {}]

\* MUTANT: a ramp that has ended is counted down once more.
FramesLeft_Unguarded(state) == IF state.remaining = Frames THEN 0 ELSE state.remaining - Frames

FramesLeft(state) == IF state.remaining <= Frames THEN 0 ELSE state.remaining - Frames

\* MUTANT: the last frame of a ramp is computed like the others.
ReachedGains_Inexact(state) ==
    IF state.remaining = 0
    THEN {state.current}
    ELSE {g \in Gains : \/ state.current <= g /\ g <= state.target
                        \/ state.target <= g /\ g <= state.current}

\* Where advance_gain may have taken a stem after the frames of a block.
ReachedGains(state) ==
    IF FramesLeft(state) = 0
    THEN {IF state.remaining = 0 THEN state.current ELSE state.target}
    ELSE {g \in Gains : \/ state.current <= g /\ g <= state.target
                        \/ state.target <= g /\ g <= state.current}

RenderAudio ==
    /\ EndBlock
    /\ \E reached \in [Stems -> Gains] :
          /\ \A s \in Stems : reached[s] \in ReachedGains(gains[s])
          /\ gains' = [s \in Stems |-> [current |-> reached[s], target |-> gains[s].target,
                                        remaining |-> FramesLeft(gains[s])]]
    /\ UNCHANGED <<file, control, applied_control_sequence, target_gains,
                   applied_gains, failures>>

\* Nothing to play: the mixer is not called and its ramps stand still.
RenderSilence ==
    /\ EndBlock
    /\ UNCHANGED <<file, control, applied_control_sequence, target_gains,
                   applied_gains, gains, failures>>

\* GetBuffer, ReleaseBuffer, GetCurrentPadding, Start: any call may lose the
\* device, in the middle of a block too.
DeviceLost ==
    /\ renderer.phase = "render" /\ failures < MaxFailures
    /\ failures' = failures + 1
    /\ renderer' = [phase |-> "closed", looked |-> {}]
    /\ UNCHANGED <<file, control, applied_control_sequence, target_gains,
                   applied_gains, gains>>

-----------------------------------------------------------------------------
ControlThread == ControlReads \/ (\E s \in Stems : ControlSets(s)) \/ ControlDone

RenderThread == \/ RendererOpens \/ RenderAudio \/ RenderSilence
                \/ \E s \in Stems : RendererLooks(s)

MixerNext == WriteMixerControl \/ ControlThread \/ RenderThread \/ DeviceLost

MixerSpec == MixerInit /\ [][MixerNext]_mixer_vars

\* Both threads keep running and there is sound to play again and again.
FairMixerSpec == /\ MixerSpec
            /\ WF_mixer_vars(ControlThread) /\ WF_mixer_vars(RenderThread)
            /\ SF_mixer_vars(RenderAudio)

-----------------------------------------------------------------------------
(* Properties *)

\* Type invariant: gains stay on the scale, and no ramp is longer than the
\* smoothing time.
MixerTypeOK ==
    /\ file \in [sequence : 0..MaxSnapshots, gains : [Stems -> Gains]]
    /\ control \in [phase : {"poll", "apply"}, set : SUBSET Stems,
                    snapshot : [sequence : 0..MaxSnapshots, gains : [Stems -> Gains]]]
    /\ applied_control_sequence \in 0..MaxSnapshots
    /\ target_gains \in [Stems -> Gains]
    /\ renderer \in [phase : {"closed", "render"}, looked : SUBSET Stems]
    /\ applied_gains \in [Stems -> Gains]
    /\ gains \in [Stems -> [current : Gains, target : Gains, remaining : 0..Smoothing]]
    /\ failures \in 0..MaxFailures

\* The sequence the status file reports as applied is one whose gains are
\* the targets, all of them: the thread that polls never mixes two snapshots
\* and never reports the sequence of one it has not stored.
AppliedSnapshotIsWhole ==
    /\ applied_control_sequence <= file.sequence
    /\ control.phase = "poll" /\ file.sequence = applied_control_sequence
          => target_gains = file.gains

\* A ramp that has ended has ended on its target.
RampsEndOnTarget ==
    \A s \in Stems : gains[s].remaining = 0 => gains[s].current = gains[s].target

\* A fader that stands below full reaches the sound, whatever devices are lost
\* on the way: a muted stem is not heard again because the device came back.
LoweredFadersTakeEffect ==
    \A s \in Stems : \A g \in Gains \ {Unity} :
        (file.sequence = MaxSnapshots /\ file.gains[s] = g) ~> [](gains[s].target = g
                                                              /\ gains[s].current = g)

\* Every fader reaches the sound: "gain changes start to take effect within
\* 50 ms of the page changing them" and end exactly on the target.
FadersTakeEffect ==
    \A s \in Stems : \A g \in Gains :
        (file.sequence = MaxSnapshots /\ file.gains[s] = g) ~> (gains[s].current = g)
=============================================================================
