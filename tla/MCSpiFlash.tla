----------------------------- MODULE MCSpiFlash -----------------------------
(* SpiFlash on a chip of 208 bytes with pages of two.  A buffer of 100     *)
(* bytes holds two pages with Slack as in the code, so that a large block  *)
(* takes several flushes; reads take up to two chunks of full size.        *)
EXTENDS SpiFlash

=============================================================================
