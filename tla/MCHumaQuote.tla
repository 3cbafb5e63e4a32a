---------------------------- MODULE MCHumaQuote -----------------------------
(* Snapshots for HumaQuote: fee schedules over pools of a few dozen atoms.    *)
EXTENDS HumaQuote

MCAccrue(assets, apy, seconds) ==
  LET grown == assets + (assets * apy * seconds) \div 100
  IN  IF grown > MaxU64 THEN MaxU64 ELSE grown

Tier(lt, fee) == [liquid_asset_ratio_lt_bps |-> lt, fee_bps |-> fee]

Schedules ==
  {<<Tier(10, 0)>>, <<Tier(10, 1)>>,
   <<Tier(3, 5), Tier(6, 2), Tier(10, 1)>>,
   <<Tier(4, 10), Tier(10, 3)>>,
   <<Tier(2, 3), Tier(3, 2), Tier(4, 1), Tier(10, 0)>>}

Base ==
  [on |-> TRUE, paused |-> FALSE, current_ts |-> 9, apy |-> 0,
   assets |-> 24, assets_refreshed_at |-> 7, others |-> 7,
   others_refreshed_at |-> 6, mode_supply |-> 16, balance |-> 15,
   disbursement_reserve |-> 2, reserve_limit |-> 1,
   liquid_assets_deployed |-> 8, strategy |-> 6, brackets |-> << >>,
   liquidity_cap |-> 45, min_deposit_amount |-> 2,
   max_instant |-> 40, max_total |-> 30,
   instant_withdrawal_gating |->
     [total_shares_requested |-> 4, window_starts_at |-> 4],
   global_redemption_gating |->
     [total_shares_requested |-> 6, window_starts_at |-> 4]]

\* More and less liquid, more and fewer shares than assets, with and without
\* accrued yield, a mode that owns the whole pool, a mode without shares.
Sound ==
  {[Base EXCEPT !.brackets = b, !.mode_supply = s, !.others = o, !.balance = l,
                !.apy = a, !.strategy = (o % 5) + 3] :
     b \in Schedules, s \in {16, 37}, o \in {0, 7}, l \in {9, 33}, a \in {9}}

Odd ==
  {[Base EXCEPT !.brackets = <<Tier(10, 1)>>, !.on = FALSE],
   [Base EXCEPT !.brackets = <<Tier(10, 1)>>, !.paused = TRUE],
   [Base EXCEPT !.brackets = <<Tier(10, 1)>>, !.current_ts = 12],
   [Base EXCEPT !.brackets = <<Tier(10, 1)>>,
                !.instant_withdrawal_gating.window_starts_at = 8],
   [Base EXCEPT !.brackets = <<Tier(10, 1)>>,
                !.global_redemption_gating.window_starts_at = 8],
   [Base EXCEPT !.brackets = <<Tier(10, 1)>>, !.assets = MaxU64 + 1 + 24,
                !.disbursement_reserve = MaxU64 + 1 + 2,
                !.global_redemption_gating =
                  [total_shares_requested |-> MaxU64 + 1 + 6, window_starts_at |-> 8]],
   [Base EXCEPT !.brackets = <<Tier(10, 1)>>, !.liquidity_cap = 20],
   [Base EXCEPT !.brackets = <<Tier(10, 1)>>, !.liquidity_cap = MaxU64 + 1 + 31],
   [Base EXCEPT !.brackets = <<Tier(10, 1)>>, !.mode_supply = 0, !.assets = 0],
   [Base EXCEPT !.brackets = <<Tier(10, 1)>>, !.mode_supply = 5, !.assets = 0],
   [Base EXCEPT !.brackets = <<Tier(10, 1)>>, !.mode_supply = 0],
   [Base EXCEPT !.brackets = <<Tier(10, 1)>>, !.balance = 0, !.strategy = 0],
   [Base EXCEPT !.brackets = <<Tier(5, 1)>>],
   [Base EXCEPT !.brackets = <<Tier(5, 1)>>, !.balance = 33],
   [Base EXCEPT !.brackets = << >>]}

SnapshotPools == Sound \cup Odd
=============================================================================
