--------------------------- MODULE MCPlatformList ---------------------------
(* A small instance of PlatformList for TLC.                               *)
EXTENDS PlatformList, TLC

CONSTANTS a, b, a1, a2, b1

TwoPlatforms == {a, b}
TwoHomes     == (a :> {a1, a2}) @@ (b :> {b1})
=============================================================================
