------------------------------ MODULE MCLoader ------------------------------
(* Loader on small instances.                                              *)
EXTENDS Loader

=============================================================================
