---------------------------- MODULE MCGraphLayout ----------------------------
(***************************************************************************)
(* Names with gaps between them.  A star of seven vertices has two groups, *)
(* a whole one and one of three vertices, with partitions of 1, 2 or 4     *)
(* vertices in either; a graph of four vertices of degrees 4 to 1 has one  *)
(* group, a double edge and a loop; a directed graph is read one way.      *)
(***************************************************************************)
EXTENDS GraphLayout

MCRawGraphs ==
    {[undirected |-> TRUE,  edges |-> << <<5, 9>>, <<9, 2>>, <<4, 9>>, <<4, 7>>, <<0, 1>> >>],
     [undirected |-> TRUE,  edges |-> << <<3, 8>>, <<8, 3>>, <<3, 3>>, <<6, 8>>, <<1, 6>> >>],
     [undirected |-> FALSE, edges |-> << <<7, 2>>, <<2, 5>>, <<5, 2>>, <<2, 2>> >>]}

ASSUME MCGroupsFit == GroupsFit
=============================================================================
