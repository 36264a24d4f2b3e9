------------------------ MODULE MCDispatcherFactory ------------------------
(* DispatcherFactory for TLC: three descriptors, and room for only two in   *)
(* each back end.                                                           *)
EXTENDS DispatcherFactory
=============================================================================
