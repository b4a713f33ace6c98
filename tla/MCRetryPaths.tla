---------------------------- MODULE MCRetryPaths ----------------------------
(***************************************************************************)
(* A small instance of RetryPaths for TLC, as built for amd64.             *)
(***************************************************************************)
EXTENDS RetryPaths

\* The largest duration, and what a larger float64 converts to.
MCMaxDuration == 12
MCOverflow == -MCMaxDuration - 1
=============================================================================
