---------------------------- MODULE MCHaFailover ----------------------------
(* A small instance of HaFailover for TLC.                                 *)
EXTENDS HaFailover
=============================================================================
