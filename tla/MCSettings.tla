----------------------------- MODULE MCSettings -----------------------------
(***************************************************************************)
(* A small instance of Settings for TLC.                                   *)
(***************************************************************************)
EXTENDS Settings, TLC

CONSTANTS t1, t2

MCFileConfig == [tag |-> t1, days |-> 0]

\* Days that are off, that fit, and that wrap around.
MCConfigs == {MCFileConfig, [tag |-> t2, days |-> 1], [tag |-> t1, days |-> 3]}
=============================================================================
