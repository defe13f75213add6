---------------------------- MODULE MCCoreEvents ----------------------------
EXTENDS CoreEvents, TLC

CONSTANTS c1, c2, t1, t2

MCTypeOf == (c1 :> t1) @@ (c2 :> t2)
MCFirstRooms == c1 :> 101
=============================================================================
