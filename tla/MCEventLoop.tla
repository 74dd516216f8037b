---------------------------- MODULE MCEventLoop ----------------------------
(* A small page: a node inside another, one observer watching the outer one's  *)
(* subtree and one the inner one.                                              *)
EXTENDS EventLoop
CONSTANTS w, m1, m2, outer, inner
MCWatchers == {w}
MCObservers == {m1, m2}
MCNodes == {outer, inner}
MCSetups == {<< <<m1, outer, TRUE>>, <<m2, inner, FALSE>> >>}
=============================================================================
