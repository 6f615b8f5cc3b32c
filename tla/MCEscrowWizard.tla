--------------------------- MODULE MCEscrowWizard ---------------------------
(***************************************************************************)
(* Two agreements with one payload, and a third one with another.          *)
(***************************************************************************)
EXTENDS EscrowWizard

CONSTANTS a1, a2, a3

MCAgreements == {a1, a2, a3}
MCpayloadOf == [a \in Agreements |-> IF a = a3 THEN "other" ELSE "one"]
=============================================================================
