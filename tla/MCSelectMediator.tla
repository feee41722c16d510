-------------------------- MODULE MCSelectMediator --------------------------
(* Small instances of SelectMediator for TLC.                              *)
EXTENDS SelectMediator

CONSTANTS lwm2m, mqtt  \* two entries of enum wifi_socket_id_e

Lwm2mOnly == {lwm2m}
Lwm2mAndMqtt == {lwm2m, mqtt}
NoTask == {}
=============================================================================
