---------------------------- MODULE MCBraiinsBid ----------------------------
(***************************************************************************)
(* A small instance of BraiinsBid for TLC: two ask books, one cheap enough *)
(* for the cheap mode and one above the cap, and an unknown hashprice.     *)
(***************************************************************************)
EXTENDS BraiinsBid

Ask(price, available, matched) ==
    [price |-> price, available |-> available, matched |-> matched]

McBooks == {<<Ask(5, 1, 0), Ask(1, 1, 0), Ask(0, 1, 1)>>, <<Ask(7, 1, 0)>>, <<>>}
McHashprices == {4, NotSet}
=============================================================================
