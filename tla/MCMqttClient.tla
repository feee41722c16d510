----------------------------- MODULE MCMqttClient -----------------------------
(***************************************************************************)
(* MqttClient with the subscription of prvMQTTEchoTask, "FreeRTOS/sample/#",*)
(* and a second one, with one letter for a level, and with the relation    *)
(* between filters and topics that deliverMessage goes by.                 *)
(***************************************************************************)
EXTENDS MqttClient, MqttTopics

Characters(s) == CASE s = "s/#" -> <<"s", "/", "#">>
                   [] s = "t"   -> <<"t">>
                   [] s = "s/a" -> <<"s", "/", "a">>

MCFilters == {"s/#", "t"}
MCTopics  == {"s/a"}
MCMatching == {ft \in MCFilters \X MCTopics :
                 Delivers(Characters(ft[1]), Characters(ft[2]))}

=============================================================================
