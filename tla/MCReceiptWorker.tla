---------------------------- MODULE MCReceiptWorker -----------------------------
(***************************************************************************)
(* Small instances of the receipt worker for TLC.                          *)
(***************************************************************************)
EXTENDS ReceiptWorker, TLC

CONSTANTS k1, k2, k3

MCSize == k1 :> 1 @@ k2 :> 1 @@ k3 :> 2
Mixed  == {<<k1>>, <<k3, k1>>, <<k2>>}
=============================================================================
