--------------------------- MODULE MCNeighborQuery ---------------------------
(* Values of the constants for the run of NeighborQuery. *)
EXTENDS NeighborQuery, TLC

MCVertices == 0 .. 3

\* Vertices 2 and 3 share a partition.
MCPartitionOf == [v \in MCVertices |-> IF v < 2 THEN v ELSE 2]

\* A path with a double edge, and a directed graph: a cycle with a chord that has its reverse.
MCGraphs ==
    { [lists |-> (0 :> <<3, 1, 1>> @@ 1 :> <<0, 0>> @@ 2 :> <<3>> @@ 3 :> <<2, 0>>),
       undirected |-> TRUE],
      [lists |-> (0 :> <<2, 1>> @@ 1 :> <<2>> @@ 2 :> <<3, 0>> @@ 3 :> <<0>>),
       undirected |-> FALSE] }

\* Pairs with 0 or 1 as the lesser vertex fall into one word with bits in common: a pair
\* without an edge hides behind them.
MCMixed == [e \in MCVertices \X MCVertices |-> IF e[1] < 2 THEN 1 ELSE 6]
MCBloom == [e \in MCVertices \X MCVertices |-> {e[1], e[2]}]

\* p = 1/2 and q = 2; p = 2 and q = 1/2; p = 4 and q = 2; p = q = 1.
MCBiases ==
    { [one |-> 2, divP |-> 4, divQ |-> 1], [one |-> 2, divP |-> 1, divQ |-> 4],
      [one |-> 4, divP |-> 1, divQ |-> 2], [one |-> 1, divP |-> 1, divQ |-> 1] }
=============================================================================
