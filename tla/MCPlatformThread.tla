-------------------------- MODULE MCPlatformThread --------------------------
(* Small instances of PlatformThread for TLC.                              *)
EXTENDS PlatformThread

Auto         == [mode |-> 0, begin |-> 0, end |-> 0]
FromTo(b, e) == [mode |-> 1, begin |-> b, end |-> e]

(* Manual plans: without an end, one that is over, one that ends in the    *)
(* future, and one that has not begun.                                     *)
AllPlans == {Auto, FromTo(1, 0), FromTo(1, 3), FromTo(2, 6), FromTo(6, 7)}
=============================================================================
