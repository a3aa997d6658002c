--------------------------- MODULE ListingContract ---------------------------
(***************************************************************************)
(* What the billing of a listing promises to the seller, without saying    *)
(* how: nothing is charged while the listing is open; it is bought at most *)
(* once; what was bought ends served (an annonce is live or has run its    *)
(* course) or refunded, and neither is ever undone.                        *)
(***************************************************************************)
CONSTANT Listing

VARIABLE phase   \* of each listing

Phases == {"open", "closed", "bought", "served", "refunded"}

Init == phase \in [Listing -> {"open", "bought"}]

Step(l, from, to) ==
    /\ phase[l] = from
    /\ phase' = [phase EXCEPT ![l] = to]

Buy(l) == Step(l, "open", "bought")
Close(l) == Step(l, "open", "closed")
Serve(l) == Step(l, "bought", "served")
GiveBack(l) == Step(l, "bought", "refunded")

Next == \E l \in Listing : Buy(l) \/ Close(l) \/ Serve(l) \/ GiveBack(l)

Spec == Init /\ [][Next]_phase
=============================================================================
