--------------------------- MODULE MCHttpClient ---------------------------
(* Constant values for checking HttpClient: two hosts, one of them also by    *)
(* https, an address literal of the refused class in its IPv4-mapped form, an *)
(* address of another scheme, and a name that sometimes answers a refused     *)
(* address next to a good one.                                                *)
EXTENDS HttpClient

Web == [scheme |-> "http", host |-> "a", literal |-> None]
Secure == [scheme |-> "https", host |-> "b", literal |-> None]
Metadata == [scheme |-> "http", host |-> "m", literal |-> <<"mapped", "link_local">>]
Script == [scheme |-> "javascript", host |-> "a", literal |-> None]

SomeUrls == {Web, Secure, Metadata, Script}
Good == {<<"v4", "routable">>}
Rebound == {<<"v4", "routable">>, <<"v6", "link_local">>}
SomeAnswers == {Good, Rebound}
OneClient == {"session"}
AllKinds == [c \in OneClient |-> {"document", "data", "fetch", "xhr"}]
Body(coding, framing, large, whole) ==
  [head |-> "whole", coding |-> coding, framing |-> framing, large |-> large, whole |-> whole]
SomeBodies == {Body("identity", "length", FALSE, TRUE), Body("gzip", "length", FALSE, TRUE),
               Body("identity", "chunked", FALSE, FALSE), Body("gzip", "chunked", TRUE, TRUE),
               Body("identity", "unknown", FALSE, TRUE), Body("identity", "close", FALSE, FALSE)}
             \cup {[Body("identity", "length", FALSE, FALSE) EXCEPT !.head = h] : h \in {"large", "cut"}}
SomeMethods == {"GET", "POST"}
=============================================================================
