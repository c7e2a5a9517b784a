------------------------------ MODULE MCServer ------------------------------
(***************************************************************************)
(* Names for the requests of a small server.                               *)
(***************************************************************************)
EXTENDS Server

CONSTANTS p1, p2, probe
=============================================================================
