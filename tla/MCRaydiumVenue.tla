--------------------------- MODULE MCRaydiumVenue ---------------------------
(* An instance of RaydiumVenue on 5-bit amounts: vaults from empty to full, fees  *)
(* of a quarter, of three fifths and of nothing, with and without pnl, pools that *)
(* use the order book and one of an unknown status.                               *)
EXTENDS RaydiumVenue

Info(status, pnl_pc, pnl_coin, num, den) ==
  [status |-> status, need_take_pnl_pc |-> pnl_pc, need_take_pnl_coin |-> pnl_coin,
   swap_fee_numerator |-> num, swap_fee_denominator |-> den]

Infos == {Info(6, 0, 0, 1, 4), Info(6, 5, 1, 1, 4), Info(6, 1, 0, 3, 5), Info(6, 0, 0, 0, 4),
          Info(5, 0, 0, 1, 4), Info(8, 0, 0, 1, 4)}

AllAmounts == 0 .. MaxU64
=============================================================================
