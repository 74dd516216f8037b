----------------------------- MODULE MCSession -----------------------------
(* Constant values for checking Session: one name, under which servers set      *)
(* cookies of their host and of its domain, and scripts others.                 *)
EXTENDS Session

Cookies == {"n"}
=============================================================================
