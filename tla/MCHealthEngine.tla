--------------------------- MODULE MCHealthEngine ---------------------------
(***************************************************************************)
(* HealthEngine for TLC: a target that becomes Healthy on one verdict      *)
(* ("zero retry") and Unhealthy on two; the minimal interval of two ticks  *)
(* is given in the configuration.                                          *)
(***************************************************************************)
EXTENDS HealthEngine

MCUpRetry   == ZeroRetry
MCDownRetry == 2
=============================================================================
