--------------------------- MODULE MCBindingOutbox ---------------------------
(* BindingOutbox on small instances: one caller, created and disabled.     *)
EXTENDS BindingOutbox, TLC

CONSTANTS c1, w1, w2

=============================================================================
