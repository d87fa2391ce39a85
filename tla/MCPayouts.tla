------------------------------ MODULE MCPayouts ------------------------------
(***************************************************************************)
(* A small instance of Payouts for TLC: an old payout to one address, and  *)
(* two outputs of one transaction to come to the other.                    *)
(***************************************************************************)
EXTENDS Payouts

McPaysTo == 1 :> "a" @@ 2 :> "b" @@ 3 :> "b"
McTxOf == 1 :> "t" @@ 2 :> "u" @@ 3 :> "u"
=============================================================================
