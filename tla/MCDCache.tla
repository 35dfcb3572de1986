------------------------------ MODULE MCDCache ------------------------------
(* DCache for TLC: three caches, of two types or of one, and the clock       *)
(* readings of a run.                                                       *)
EXTENDS DCache, TLC

CONSTANTS a, b, c

Three == {a, b, c}

Kinds   == [i \in Instance |-> IF i = c THEN "u" ELSE "t"]
OneKind == [i \in Instance |-> "t"]

\* The clocks of a and b may read alike, stand still and go back; c's is ahead.
AnyReading == [i \in Instance |-> IF i = c THEN {3} ELSE {1, 2}]

\* Clocks that never read alike.
OwnReadings == [i \in Instance |-> IF i = a THEN {1} ELSE IF i = b THEN {2} ELSE {4}]

Symmetry == Permutations({a, b})
=============================================================================
