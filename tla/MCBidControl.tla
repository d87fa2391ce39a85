---------------------------- MODULE MCBidControl ----------------------------
(***************************************************************************)
(* A small instance of BidControl for TLC.                                 *)
(***************************************************************************)
EXTENDS BidControl

McHashprices == {NotSet, 8}
=============================================================================
