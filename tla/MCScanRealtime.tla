--------------------------- MODULE MCScanRealtime ---------------------------
(* Two pages, one of which reconnects.                                      *)
EXTENDS ScanRealtime

CONSTANTS p1, p2, a1, a2, b1, alice, bob

OwnerOf == [c \in Conns |-> IF c = b1 THEN bob ELSE alice]
=============================================================================
