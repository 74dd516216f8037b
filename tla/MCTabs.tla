------------------------------- MODULE MCTabs -------------------------------
(* Constant values for checking Tabs: addresses of one origin or of two.      *)
EXTENDS Tabs

OneUrl == {"https://a/1"}
TwoUrls == {"https://a/1", "https://b/1"}
OneOrigin == {"a"}
TwoOrigins == {"a", "b"}
OriginOfOne == [u \in OneUrl |-> "a"]
OriginOfTwo == [u \in TwoUrls |-> IF u = "https://a/1" THEN "a" ELSE "b"]
OriginOfNone == [u \in {} |-> "a"]
TwoIds == 1..2
ThreeIds == 1..3
=============================================================================
