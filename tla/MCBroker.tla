------------------------------ MODULE MCBroker ------------------------------
(* Two messages, both well-formed or one malformed, and one outsider. *)
EXTENDS RabbitBroker

CONSTANTS m1, m2, o1
TwoMessages == {m1, m2}
OneOutsider == {o1}

Init == BrokerInit /\ malformed \in {{}, {m2}}
Broker == Init /\ [][BrokerNext]_brokerVars /\ BrokerFairness
=============================================================================
