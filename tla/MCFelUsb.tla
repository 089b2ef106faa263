------------------------------ MODULE MCFelUsb ------------------------------
(* FelUsb on a target with three bytes of memory; see MCFelUsb.cfg.        *)
EXTENDS FelUsb

=============================================================================
