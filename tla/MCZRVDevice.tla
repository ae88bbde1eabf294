---------------------------- MODULE MCZRVDevice ----------------------------
(* A small instance of ZRVDevice for TLC.                                  *)
EXTENDS ZRVDevice

CONSTANTS d1, d2
=============================================================================
