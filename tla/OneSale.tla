------------------------------- MODULE OneSale -------------------------------
(***************************************************************************)
(* What the synchronisation of one object over several channels promises:  *)
(* it is sold at most once, for ever, and from that moment on no other     *)
(* channel has it for sale, or can come to have it again.                  *)
(***************************************************************************)
CONSTANTS Channel, NoWinner

VARIABLES winner,   \* the channel the object was sold on
          onSale    \* the channels that have it for sale, or may come to

Init == winner = NoWinner /\ onSale \in SUBSET Channel

Sell ==
    /\ winner = NoWinner
    /\ winner' \in Channel
    /\ onSale' = {}

Browse ==
    /\ winner = NoWinner
    /\ onSale' \in SUBSET Channel
    /\ UNCHANGED winner

Next == Sell \/ Browse

Spec == Init /\ [][Next]_<<winner, onSale>>
=============================================================================
