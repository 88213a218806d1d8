---------------------------- MODULE MCBridgeWire ----------------------------
(* BridgeWire for TLC: the messages of a sign-in, framed in every way.       *)
EXTENDS BridgeWire

Key == <<1, 130, 255, 7>>
Answer101 == <<72, 13, 10, 13, 10>>

Connected == [kind |-> "connection", token |-> <<65, 66>>, status |-> 0, time |-> -1]
WrongNonce == [kind |-> "connection", token |-> <<>>, status |-> 2, time |-> 20000]
Subscribed == [kind |-> "subscription", id |-> 0, status |-> 0, retry |-> 200,
               topics |-> <<<<9>>, <<>>>>]
NoTopic == [Subscribed EXCEPT !.status = 1]
Prompt == [kind |-> "push", topic |-> <<17, 200>>, id |-> 300, payload |-> <<123>>]
Seen == [kind |-> "ack", topic |-> <<17>>, id |-> 1, status |-> 0]

MCPlans == {<<<<Connected>>, <<Prompt>>>>, <<<<Connected>>, <<Subscribed, Prompt>>>>,
            <<<<Seen, Prompt>>, <<WrongNonce>>>>, <<<<Connected>>, <<NoTopic, Prompt>>>>}
MCKeys == {<<>>, Key}
MCCuts == {4}
MCPings == {<<1, 2, 3, 4, 5, 6>>}
MCStrays == {3, 8, 10}
=============================================================================
