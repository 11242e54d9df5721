---------------------------- MODULE MCStemBuffer ----------------------------
(***************************************************************************)
(* The ring near the proportions of the player, which prebuffers three     *)
(* hops of four (default_live_prebuffer_hops,                              *)
(* default_live_buffer_capacity_hops).  A hop is two frames, so that       *)
(* device requests of one and three frames leave odd remainders, and the   *)
(* ring is one frame short of four hops, so that pushes straddle its end   *)
(* as well as pops do.  A hop still fits above the prebuffer mark.         *)
(***************************************************************************)
EXTENDS StemBuffer

MCHop == 2
MCCapacity == 4 * MCHop - 1
MCPrebuffer == 3 * MCHop - 1
MCPushSizes == {MCHop}
MCPopSizes == {1, 3}
=============================================================================
