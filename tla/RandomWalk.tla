---------------------------- MODULE RandomWalk -----------------------------
(***************************************************************************)
(* What FlashMob promises its caller, without threads, tasks, partitions   *)
(* or buffers: WalkerNum walks of WalkLen vertices each, handed over in    *)
(* epochs.  The walkers of an epoch advance in lock step, each along an    *)
(* edge of the graph; an epoch's paths are delivered when all are full.    *)
(***************************************************************************)
EXTENDS Integers, Sequences

CONSTANTS Vertices,    \* 0 .. v_num - 1
          Neighbors,   \* the adjacency lists, in [Vertices -> SUBSET Vertices]
          WalkerNum,
          WalkLen

VARIABLES
    waiting,     \* walkers no epoch has taken yet
    delivered,   \* walkers whose paths the caller has got
    paths        \* the paths of the walkers of the running epoch, by walker

rwVars == <<waiting, delivered, paths>>

RWInit ==
    /\ waiting = WalkerNum
    /\ delivered = 0
    /\ paths = << >>

RWBegin ==
    /\ paths = << >>
    /\ \E n \in 1 .. waiting :
          /\ waiting' = waiting - n
          /\ \E start \in [1 .. n -> Vertices] : paths' = [w \in 1 .. n |-> <<start[w]>>]
    /\ UNCHANGED delivered

\* Some of the walkers that are behind take a step each.
RWAdvance ==
    /\ \E moving \in SUBSET DOMAIN paths :
          /\ moving # {}
          /\ \A w \in moving :
                /\ Len(paths[w]) < WalkLen
                /\ \A v \in DOMAIN paths : Len(paths[w]) <= Len(paths[v])
          /\ DOMAIN paths' = DOMAIN paths
          /\ \A w \in DOMAIN paths :
                IF w \in moving
                THEN \E to \in Neighbors[paths[w][Len(paths[w])]] : paths'[w] = Append(paths[w], to)
                ELSE paths'[w] = paths[w]
    /\ UNCHANGED <<waiting, delivered>>

RWDeliver ==
    /\ paths # << >>
    /\ \A w \in DOMAIN paths : Len(paths[w]) = WalkLen
    /\ delivered' = delivered + Len(paths)
    /\ paths' = << >>
    /\ UNCHANGED waiting

RWNext == RWBegin \/ RWAdvance \/ RWDeliver

RWSpec == RWInit /\ [][RWNext]_rwVars
=============================================================================
