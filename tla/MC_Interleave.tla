--------------------------- MODULE MC_Interleave ----------------------------
(***************************************************************************)
(* Instances of Interleave for TLC: 8 addresses, blocks of two, the       *)
(* regions that 1node.py computes for one and for two nodes, and others on *)
(* the edges of adjustRegionToMemSize.                                     *)
(***************************************************************************)
EXTENDS Interleave

Region(s, e, size, step) ==
    [start |-> s, end |-> e, interleaveSize |-> size, interleaveStep |-> step]

(* INTERLEAVE "small" for two nodes of 4 cells: the second part of the     *)
(* last step belongs to the other node.                                    *)
Nodes == {Region(0, 5, 2, 4), Region(2, 7, 2, 4)}

MC_Regions == Nodes \cup
    {Region(0, 7, 0, 0),    (* no parameters                               *)
     Region(6, 7, 0, 0),    (* up to the last address                      *)
     Region(0, 7, 2, 4),    (* interleaved over all of memory              *)
     Region(4, 7, 2, 3)}    (* a step that is no multiple of a block       *)
=============================================================================
