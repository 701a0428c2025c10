--------------------------- MODULE MCSafePromise ---------------------------
(***************************************************************************)
(* Three promises and three races that share them; one has no rival.       *)
(***************************************************************************)
EXTENDS SafePromise

CONSTANTS p1, p2, p3, ra, rb, rc

MCRaceables == [r \in {ra, rb, rc} |->
    CASE r = ra -> <<p1, p2>> [] r = rb -> <<p2, p3>> [] r = rc -> <<p3>>]
=============================================================================
