---------------------------- MODULE MCSongWorker ----------------------------
(***************************************************************************)
(* Two songs, of three and of two frames, with hops of two: a song spans   *)
(* windows at either phase, windows span two songs, and a replay begins at *)
(* another phase.  Both songs fit the cache in one profile.                *)
(***************************************************************************)
EXTENDS SongWorker, TLC

CONSTANTS long, short

MCLengthOf == (long :> 3) @@ (short :> 2)

\* Profiles are only ever compared.
AnyProfile == Permutations(Profiles)
=============================================================================
