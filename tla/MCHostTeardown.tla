---------------------------- MODULE MCHostTeardown ----------------------------
(* A runtime with two surfaces. *)
EXTENDS HostTeardown

TwoSurfaces == <<1, 11>>
===============================================================================
