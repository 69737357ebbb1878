---------------------------- MODULE MCMessageBus ----------------------------
(***************************************************************************)
(* Model values for MessageBus.  Topics are character sequences: "ab" and  *)
(* the pattern "a*" are subscribed, and the bus publishes on "ab" (both    *)
(* match) and on "ac" (only the pattern matches).                          *)
(***************************************************************************)
EXTENDS MessageBus, TLC

CONSTANTS h1, h2

MCSubTopics == {<<"a", "b">>, <<"a", "*">>}
MCPubTopics == {<<"a", "b">>, <<"a", "c">>}

(* h1 on the literal topic and on the pattern, h2 on the literal topic.   *)
MCSubscribers == {<<<<"a", "b">>, h1>>, <<<<"a", "*">>, h1>>, <<<<"a", "b">>, h2>>}

(* One subscriber, for the runs about endpoints and requests.             *)
MCOneSubscriber == {<<<<"a", "b">>, h1>>}
=============================================================================
