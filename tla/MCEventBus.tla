----------------------------- MODULE MCEventBus -----------------------------
(***************************************************************************)
(* EventBus for TLC: its constants are model values of EventBus.cfg.       *)
(***************************************************************************)
EXTENDS EventBus
=============================================================================
