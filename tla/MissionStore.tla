----------------------------- MODULE MissionStore -----------------------------
(***************************************************************************)
(* What the mission protocol promises of the mission on the card: it is    *)
(* empty or one whole upload, each upload becomes the mission at most      *)
(* once, while it is the one under way, and nothing else changes it.       *)
(***************************************************************************)
EXTENDS Naturals, Sequences

CONSTANT MaxItems

VARIABLES mission,  \* the items, each named by its upload
          begun,    \* uploads begun
          open      \* the last upload begun may still become the mission

vars == <<mission, begun, open>>

Init == mission = <<>> /\ begun = 0 /\ open = FALSE

Begin == begun' = begun + 1 /\ open' = TRUE /\ UNCHANGED mission

Install ==
    /\ open /\ open' = FALSE
    /\ \E n \in 1 .. MaxItems : mission' = [i \in 1 .. n |-> begun]
    /\ UNCHANGED begun

Abandon == open' = FALSE /\ UNCHANGED <<mission, begun>>

Clear == mission' = <<>> /\ UNCHANGED <<begun, open>>

Next == Begin \/ Install \/ Abandon \/ Clear

Spec == Init /\ [][Next]_vars
=============================================================================
