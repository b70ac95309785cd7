------------------------------ MODULE MCBroker ------------------------------
(***************************************************************************)
(* Two subscribers, one of which names its topic twice, and two            *)
(* publications, one of a topic that only one of them wants, over a queue  *)
(* of two messages.                                                        *)
(***************************************************************************)
EXTENDS Broker, TLC

CONSTANTS s1, s2, p1, p2, news, sport

MCWants == s1 :> <<news, sport>> @@ s2 :> <<news, news>>
MCPosts == p1 :> news @@ p2 :> sport
MCLeaves == {<<s1, news>>}
=============================================================================
