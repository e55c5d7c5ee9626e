---------------------------- MODULE MCHostSurfaces ----------------------------
(* Two roots and a few runtimes. *)
EXTENDS HostSurfaces, TLC

CONSTANTS left, right

Symmetry == Permutations({left, right})
===============================================================================
