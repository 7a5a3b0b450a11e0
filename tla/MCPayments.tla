----------------------------- MODULE MCPayments -----------------------------
(* Finite instances of Payments: what each session buys. *)
EXTENDS Payments

CONSTANTS s1, s2, h1, h2

MCSessions == {s1, s2}
MCOne      == {s1}
MCHandlers == {h1, h2}
\* One session per tier.
MCBothTiers == [s \in Sessions |-> IF s = s1 THEN "case_pass" ELSE "claim_pack"]

=============================================================================
