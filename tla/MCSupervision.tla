---------------------------- MODULE MCSupervision ----------------------------
(* One strategy of the fleet is deployed, one no longer is.                *)
EXTENDS Supervision

MCServices == {"boundary", "session"}
MCActive == {"boundary"}
=============================================================================
