---------------------------- MODULE MCMqttClient ----------------------------
(***************************************************************************)
(* An instance of MqttClient for TLC.                                       *)
(***************************************************************************)
EXTENDS MqttClient

CONSTANTS m0, m1, m2, t1, t2

MCQosOf == [m \in Msg |-> IF m = m0 THEN 0 ELSE IF m = m1 THEN 1 ELSE 2]
=============================================================================
