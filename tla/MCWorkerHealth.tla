--------------------------- MODULE MCWorkerHealth ---------------------------
(* WorkerHealth with the model values of health.cfg and health_signal.cfg. *)
EXTENDS WorkerHealth
=============================================================================
