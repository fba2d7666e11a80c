----------------------------- MODULE MCAirdrop -----------------------------
(***************************************************************************)
(* Five lines in three batches; one address is listed twice.               *)
(***************************************************************************)
EXTENDS AirdropProperties

Line(address, amount) == [address |-> address, amount |-> amount]
MCLines == <<Line("ann", 1), Line("bob", 1), Line("cat", 1), Line("ann", 2),
            Line("dan", 1)>>
=============================================================================
