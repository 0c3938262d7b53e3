---------------------------- MODULE MC_KdeClient ----------------------------
(* Up to three xremap processes, two windows, three activations: enough    *)
(* for a restart that finds the script loaded, overlapping runs racing on  *)
(* load/unload and on the bus name, a name passed on twice by exits, and   *)
(* two calls queued for one server.                                        *)
EXTENDS KdeClient, TLC

CONSTANTS p1, p2, p3, w1, w2

MCProcs == {p1, p2}
MCProcs3 == {p1, p2, p3}
MCWindows == {w1, w2}

MCSymmetry == Permutations(MCProcs) \cup Permutations(MCWindows)
MCSymmetry3 == Permutations(MCProcs3) \cup Permutations(MCWindows)
=============================================================================
