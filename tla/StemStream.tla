----------------------------- MODULE StemStream -----------------------------
(***************************************************************************)
(* What the live player promises about one listening session, without the  *)
(* ring, the mutexes or the copies: all stems share one timeline of        *)
(* frames, whole blocks are appended to it, and the device hears either    *)
(* the next frames of that timeline - the same ones in every stem - or     *)
(* silence.  StemBuffer implements this specification.                     *)
(***************************************************************************)
EXTENDS Integers

CONSTANTS Stems,        \* the stems of the active profile
          Capacity,     \* frames the player may hold
          Prebuffer,    \* frames required before sound (re)starts
          PushSizes,    \* frames in one appended block
          PopSizes,     \* frames in one device request
          TotalFrames,  \* bound: frames ever appended
          Silence       \* a zero sample

VARIABLES written,      \* frames appended so far
          read,         \* frames heard so far
          sounding,     \* the device is being fed
          heard         \* what the last device request received, per stem

vars == <<written, read, sounding, heard>>

Held == written - read

Block(from, n) == [s \in Stems |-> [i \in 1..n |-> from + i - 1]]
SilentBlock(n) == [s \in Stems |-> [i \in 1..n |-> Silence]]

Init == /\ written = 0
        /\ read = 0
        /\ sounding = FALSE
        /\ heard = SilentBlock(0)

\* A whole block joins the timeline, never part of one.
AppendBlock(n) == /\ written + n <= TotalFrames
                  /\ Held + n <= Capacity
                  /\ written' = written + n
                  /\ UNCHANGED <<read, sounding, heard>>

\* Sound starts, or starts again, only on a full reserve.
Resume == /\ ~sounding
          /\ Held >= Prebuffer
          /\ sounding' = TRUE
          /\ UNCHANGED <<written, read, heard>>

Play(n) == /\ sounding
           /\ n <= Held
           /\ heard' = Block(read, n)
           /\ read' = read + n
           /\ UNCHANGED <<written, sounding>>

\* Nothing is consumed by silence, and running dry stops the sound.
StaySilent(n) == /\ sounding => Held < n
                 /\ heard' = SilentBlock(n)
                 /\ sounding' = FALSE
                 /\ UNCHANGED <<written, read>>

Next == \/ \E n \in PushSizes : AppendBlock(n)
        \/ Resume
        \/ \E n \in PopSizes : Play(n) \/ StaySilent(n)

Spec == Init /\ [][Next]_vars
=============================================================================
