---------------------------- MODULE MCPlcClients ----------------------------
(* The instance of PlcClients for TLC. *)
EXTENDS PlcClients

Number(n) == [type |-> "integer", val |-> n]
NoValue == [type |-> "null", val |-> 0]

\* A register that shows 1 or has no value.
OneOrNull == {Number(1), NoValue}
=============================================================================
