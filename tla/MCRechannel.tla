---------------------------- MODULE MCRechannel ----------------------------
(***************************************************************************)
(* Associations on its own: two memories of the bridge channel, and the    *)
(* migration that moves one of them to its concrete channel.               *)
(***************************************************************************)
EXTENDS Associations

OneBound == {[hops |-> 1, limit |-> 1, entities |-> 1]}
=============================================================================
