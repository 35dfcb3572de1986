---------------------------- MODULE OneRoundEach ----------------------------
(***************************************************************************)
(* What the scheduler promises of a job run once across a deployment,      *)
(* without replicas, leases or statements: its instants are claimed from   *)
(* the earlier to the later, each for one round; the latest may be claimed *)
(* for one round more for as long as it is not recorded finished, and only *)
(* the latest is ever recorded so.  An instant that is passed over, and a  *)
(* round cut short that a later instant overtakes, stay behind.            *)
(***************************************************************************)
EXTENDS Naturals

VARIABLES
    latest,  \* the instant claimed last, zero for none
    again,   \* whether it was claimed a second time
    done     \* the instants recorded finished

vars == <<latest, again, done>>

Init == latest = 0 /\ again = FALSE /\ done = {}

\* A later instant, which the schedule decides, is claimed.
Begin ==
    /\ latest' \in Nat /\ latest' > latest
    /\ again' = FALSE
    /\ UNCHANGED done

BeginAgain ==
    /\ latest > 0 /\ latest \notin done /\ ~again
    /\ again' = TRUE
    /\ UNCHANGED <<latest, done>>

Finish ==
    /\ latest > 0
    /\ done' = done \cup {latest}
    /\ UNCHANGED <<latest, again>>

Next == Begin \/ BeginAgain \/ Finish

Spec == Init /\ [][Next]_vars
=============================================================================
