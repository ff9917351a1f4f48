------------------------------ MODULE MCCanTx ------------------------------
(***************************************************************************)
(* CanTx with two buses, as the harness may connect them, joined both ways   *)
(* by the forward hook.                                                      *)
(***************************************************************************)
EXTENDS CanTx, TLC

Swapped == (0 :> 1) @@ (1 :> 0)
BothWays == {<<0, 1>>, <<1, 0>>}
=============================================================================
