------------------------------ MODULE MCRender -------------------------------
(* The instances of Render that TLC checks.                                 *)
EXTENDS Render
==============================================================================
