-------------------------- MODULE MCMetricsRollup --------------------------
EXTENDS MetricsRollup, TLC

MCKinds == <<"NETWORK_RX", "NETWORK_TX">>
MCTabs == {{"NETWORK_RX", "NETWORK_TX"}}

\* Two ticks differ in nothing but what they are doing, nor do two containers.
Alike == Permutations(Ticks) \union Permutations(Containers)
=============================================================================
