--------------------------- MODULE MCMiniBenchmark ---------------------------
(***************************************************************************)
(* Two threads, three degrees, of which the largest is benchmarked with    *)
(* both classes of sampler.  Runs ask for different sizes of partition, as *)
(* graphs of different size do.                                            *)
(***************************************************************************)
EXTENDS MiniBenchmark

MCDegrees == <<1, 4, 5>>

M(bits, degree, class) == [bits |-> bits, degree |-> degree, class |-> class]

MCRequests ==
    {{M(4, 1, "UDS"), M(4, 4, "UDS"), M(4, 5, "UDS"), M(4, 5, "EBS")},
     {M(4, 5, "UDS"), M(4, 5, "EBS"), M(5, 1, "UDS")}}
=============================================================================
