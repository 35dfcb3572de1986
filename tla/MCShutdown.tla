----------------------------- MODULE MCShutdown -----------------------------
(* Shutdown for TLC: two providers and two workers, named in start order.   *)
EXTENDS Shutdown

CONSTANTS p1, p2, w1, w2

Order == [c \in Component |->
            CASE c = p1 -> 1 [] c = p2 -> 2 [] c = w1 -> 3 [] c = w2 -> 4]
=============================================================================
