---------------------------- MODULE MCMockSource ----------------------------
(* MockSource with the model values of mock.cfg.                           *)
EXTENDS MockSource
=============================================================================
