-------------------------- MODULE MCEventConsumer --------------------------
(* Four events in batches of up to three, so that a stop can meet a batch  *)
(* with a committed, a failed and an unhandled event.                      *)
EXTENDS EventConsumer
============================================================================
