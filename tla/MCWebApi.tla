------------------------------ MODULE MCWebApi -------------------------------
(* The instances of WebApi and StructuredClone that TLC checks.             *)
EXTENDS WebApi, StructuredClone

\* BOUND: script makes one response of its own, and then at most five calls, none of
\* them to others, which shares no state with the caches.
FewMade ==
  LET own == {i \in DOMAIN responses : responses[i].text \notin {"pair", "promise"}}
  IN own # {} => /\ Cardinality(own) = 1 /\ calls <= 5
                  /\ ~ xhr.opened /\ socket.ready = "none" /\ defined = {} /\ waiting = <<>>

\* structuredClone shares no state with the other calls: a behaviour clones a
\* value or makes other calls (BOUND: not both).
MCNext ==
  \/ Next /\ outcome = "none" /\ FewMade' /\ UNCHANGED cloneVars
  \/ calls = 0 /\ CloneNext /\ UNCHANGED vars

MCInit == Init /\ CloneInit

MCSpec ==
  /\ MCInit
  /\ [][MCNext]_<< vars, cloneVars >>
  /\ WF_vars(Fire) /\ WF_vars(RunJob)
==============================================================================
