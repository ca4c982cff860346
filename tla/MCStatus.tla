------------------------------ MODULE MCStatus ------------------------------
(* An instance of Status: two configurations with different handlers.        *)
EXTENDS Status

CONSTANTS w1, w2

MCWorker == {w1, w2}
MCConfigs == {<<"StatusHandler", "EchoHandler">>, <<"StatusHandler">>}
=============================================================================
