------------------------ MODULE MCComputeController ------------------------
\* Two NFs: one that needs two cores, and one that is native, with a DPDK version
\* or without.
EXTENDS ComputeController, TLC

MCNFs == {1, 2}
MCOffers == 1 :> {<<"dpdk">>} @@ 2 :> {<<"native", "dpdk">>, <<"native">>}
MCNeed == 1 :> 2 @@ 2 :> 1
=============================================================================
