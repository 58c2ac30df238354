---------------------------- MODULE MCMostVolume ----------------------------
(* Two nodes: node 1 carries a master value and a left channel, node 2 only *)
(* a master value, so that one key reaches two nodes and one node two keys. *)
EXTENDS MostVolume

MCAddress  == <<1, 1, 2>>
MCKey      == <<"master", "left", "master">>

(* The functions of the model are indexed from 0. *)
FromZero(seq) == [i \in Values |-> seq[i + 1]]
ThreeAddress  == FromZero(MCAddress)
ThreeKey      == FromZero(MCKey)

OkOrFailed == {0, -1}
=============================================================================
