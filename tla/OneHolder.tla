----------------------------- MODULE OneHolder -----------------------------
(***************************************************************************)
(* What a lease promises, without clocks, statements or failures: claims   *)
(* win the name one after the other, each with the next term; only the     *)
(* claim that won last can be in charge, and no claim wins the name while  *)
(* one is in charge.  A claim may be out of charge and back in it: its     *)
(* deadline passed and the renewal already on its way is answered.         *)
(***************************************************************************)
EXTENDS Naturals

CONSTANTS Holder, NoHolder

VARIABLES
    champion,  \* the claim that won the name last
    fence,     \* the number of claims won
    owner      \* the claim in charge, or NoHolder

vars == <<champion, fence, owner>>

Init == champion = NoHolder /\ fence = 0 /\ owner = NoHolder

Win(h) ==
    /\ owner = NoHolder
    /\ h # champion
    /\ champion' = h
    /\ fence' = fence + 1
    /\ UNCHANGED owner

TakeCharge ==
    /\ owner = NoHolder
    /\ champion # NoHolder
    /\ owner' = champion
    /\ UNCHANGED <<champion, fence>>

StepDown ==
    /\ owner # NoHolder
    /\ owner' = NoHolder
    /\ UNCHANGED <<champion, fence>>

Next == TakeCharge \/ StepDown \/ \E h \in Holder : Win(h)

Spec == Init /\ [][Next]_vars
=============================================================================
