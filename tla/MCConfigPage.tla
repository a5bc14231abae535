---------------------------- MODULE MCConfigPage ----------------------------
\* Two fields of the tun object, as enable and device of the six there are.
EXTENDS ConfigPage, TLC
MCNetworkFields == <<"tun-enable", "tun-device">>
MCKeyOf == [f \in {"tun-enable", "tun-device"} |-> "tun"]
Symmetry == Permutations(Slots) \cup Permutations(Vals)
=============================================================================
