# Verification of the Titan integration template

This directory models the program in `src/`: the venue crate (`src/src`) with
its Huma integration and its Raydium example, and the on-chain router template
(`src/program-template`). Paths below are relative to the repository root
`src/`; `swap_route_v3.rs` stands for
`program-template/programs/titan-v3-venue-template/src/instructions/swap_route_v3.rs`.

    tlc -config <Run>.cfg <MCModule>      checks one run
    tlapm <Module>Proofs.tla              checks the proofs of a module

`PROJECT.json` lists runs, theorems, hazards, findings and, for every
definition that models code, the source lines it stands for.

## 1. The system

| Component | State | Operations | Interacts with |
|---|---|---|---|
| Boundary search (`src/trading_venue/bounds.rs`) | four coarse brackets, one refinement interval | `find_boundaries` = coarse doubling, `refine_lower`, `refine_upper` | probes `TradingVenue::quote` |
| On-chain router (`swap_route_v3.rs`) | token accounts of the TitanPDA and the user, lamports; per transaction: created ATAs, balance snapshot, bitmap, leg cursor | `SwapRouteV3::execute` | token, ATA and system programs, venue programs by CPI with the PDA's signature |
| Account cache (`src/account_caching`) | `DashMap<Pubkey, Option<Account>>` | `get_account`, `get_accounts`, `reset_cache` | RPC node; shared by concurrent venue updates |
| Huma venue update (`src/huma/venue.rs`, `src/huma/strategy`) | `Option<InitializedState>` | `update_state`, `get_required_pubkeys_for_update` | reads through an `AccountsCache` in three or four awaited rounds |
| Huma quoting (`venue.rs`, `math.rs`, `state.rs`) | none (a snapshot) | `quote` in both directions, progressive fee | called by routing and by the boundary search |
| Raydium example venue (`src/example`) | vault balances, token info, `calculate_result`, flags | `from_account`, `update_state`, `quote`, `generate_swap_instruction` | account cache; boundary search; route builder |
| Route builder (`src/swap_route`) and venue adapters (`instructions/venues`) | none | `build_swap_leg`, `encode_swap_route_v3_data`; `perform_cpi_swap` | turns a venue's instruction into the router's, and back into a CPI |
| Token info, creation parsers, PDAs, instruction encoders, error types | none | decoding and encoding | |

Hard behaviours: venue programs run with the PDA's signature in the middle of a
transaction; a transaction may fail after tokens moved; calls on the cache
interleave at every map access and RPC answer; a venue snapshot is assembled
from reads at several moments, any of which may fail; unsigned and truncating
arithmetic with rounding in fees and shares; a search that must end and must be
right for quoting functions nobody constrained; an update that writes field by
field and may stop in between; an instruction that is taken apart off chain and
put together again on chain by another crate.

What makes each component correct: the search returns amounts that quote and
misses no more than its tolerance; the router never loses what the PDA held,
forwards the whole output and charges exactly the amount; the cache returns
what was asked for and nothing from before a reset; a venue snapshot is one
update's, in order, and the venue catches up after failures; quotes are
monotone, correctly priced and covered; the CPI of a leg is the instruction its
venue generated, and it spends the account the router weighed.

## 2. Modules

| Module | Role |
|---|---|
| `BoundsSearch` / `MCBoundsSearch` / `BoundsSearchProofs` | the search, one step per probe |
| `SwapRoute` / `MCSwapRoute` / `SwapRouteProofs` / `SwapRouteCustodyProofs` | the router, one step per phase of `execute` and per leg |
| `Custody` | what the router promises, without its mechanism |
| `RpcCache` / `MCRpcCache` / `RpcCacheProofs` | the cache under concurrent callers |
| `HumaVenueUpdate` / `MCHumaVenueUpdate` / `HumaVenueUpdateProofs` | the update rounds |
| `HumaQuote` / `MCHumaQuote` / `HumaQuoteProofs` | quoting over a snapshot, the fee loop one step per bracket |
| `RaydiumVenue` / `MCRaydiumVenue` / `RaydiumVenueProofs` | the Raydium venue: its updates, and its quotes on every venue they leave behind |
| `RouteBuilder` / `MCRouteBuilder` / `RouteBuilderProofs` | composition: the venues' instructions, the builder, the wire format, and the program's decoding, slicing and dispatch |

Definitions whose name ends in `_Something` and whose comment begins with
"Fault" are deliberately wrong variants of the definition below them. They are
not used by the specifications; each shows that a property would notice that bug.

### BoundsSearch
`pc` is the loop the code is in; the variables are the code's locals.
`ExpandLower`/`FoundLower` and `ExpandUpper`/`FoundUpper` are the two outcomes
of a probe in phases 1 and 2, `Classify` the two error returns of
`find_boundaries`, `RefineLower`/`RefineUpper` one iteration of a refinement.
The quoting function is the constant `QuoteAt`: it is pure because `bounds`
borrows the venue. The only assumption about it is that a zero input does not
quote as usable (no output for no input); `refine_lower` relies on it.

### SwapRoute
`bank` holds the committed accounts, `pda`, `control`, `user`, `exposed`,
`lamports` and `pool` the working copy of the running transaction. `Submit` covers the `require!`s, the
ledger and the decimals reads, `Prepare` the ATA creation, the snapshot and the
amount, `Fund` the wrapping, transfer and closing of the input, `Leg` one
iteration of the swap loop, `PayOut` the output, `Commit` the closing of created
ATAs and the final reserve check. Every `...Fails` action is an error return:
the runtime drops the working copy.

A venue is external. `HonestSwap` takes the input and pays some output.
`RogueSwap` does with the signatures that reach it what the token and system
programs allow. The TitanPDA's signature is added to every CPI, so all its token
accounts in the leg's slice (`LegReach`) can be emptied, burnt, closed, approved to
a delegate or given to another owner; `control` records the last two, because the
final check (`swap_route_v3.rs:322-332`) reads amounts and nothing else. An account
that signed the transaction keeps its signature in the CPI (line 236), so a slice
that lists the user's key (`UserSigns`) opens the user's accounts in it and the
user's lamports in the same way (`UserReach`), and `exposed` remembers for which
mints. Without a signature a venue can only pay into an account. `Drain`, also
external, is the use of what was handed over, between transactions. Burning makes
tokens disappear; nothing makes them appear.

`user[m]` is whatever token account of mint `m` the caller passes as input or
output account: the code checks neither, and which one it is matters only when
it is not the user's. `dest` is therefore the user's account, the TitanPDA's own
account or somebody else's.
A slot is identified by its token account; its mint account is separate, since
the code compares the two only by creating missing ATAs.

Abstracted: rent, the payer (a signer whose lamports a venue could take like the
user's; the payer is not followed), Token-2022 (its transfer fees and its own mint
check), address derivation (an owner has one token account per mint), what the
venue tag selects.

`Custody` has the functions `held`, `wealth`, `pools`, `control` and the set
`exposed`, and two actions. In a `Route` no token appears, no account that the PDA
still owns shrinks, and the user pays in no mint but the input, apart from mints
whose accounts were signed over. In a `Take`, between routes, only what was
handed over shrinks. `SwapRoute` maps the committed bank to it (`Custodian`,
`KeepsCustody`). How much of the input mint a route may take is `UserPaysAtMost`.

What this says of the code: the amounts are safe within every transaction, and
for as long as the PDA's control over an account has not been given away. That
a venue gives it away is not noticed by the program, so trusting the venues that
`perform_cpi_swap` can call is part of the router's contract.

### RpcCache
A step is one access to the `DashMap` or the moment the RPC node reads. The
lookup of `get_accounts` visits keys one at a time, as `get_multiple` does, and
so does the storing loop; `reset_cache` needs no call in flight because it takes
`&mut self`. `past` and `alone` are history variables: the chain states since the
last reset, and whether a call overlapped another one.
`get_account` caches only accounts it finds; an account missing at the node is
an error of that call.

### HumaVenueUpdate
A step is one awaited `get_accounts` with the decoding after it. `job` is the
running call with the state it has assembled and, as history, the keys read and
announced, and what the cache held or was receiving at the call (`warm`). An
account is the chain version at which it was fetched and, for the three fields
that steer the update, its content. Errors leave `state` alone, the commit is one
assignment; only `pool_authority_key` (`authority`) is written before it, in round 1.

Reads go through the cache: `Answer` is the cached account if there is one,
whatever its age, and otherwise what the node has now, which is then stored
(`Loaded`). An account cached as missing is fetched again, as `RpcCache` shows.
Around the update Titan prefetches the announced keys (`Prefetch`) and resets the
cache (`ResetCache`, only with no call on it: `&mut self`); other venues that
share accounts fetch them (`OtherVenueFetches`) and store the answer later
(`OtherVenueStores`), over whatever is cached by then. The venue's own `get_accounts`
is one step here; its inside is the subject of `RpcCache`.

Hence what `CommitsFresh` can and cannot promise. Nothing committed is older than
the last reset. It may be older than the call: then it was in the cache, or on
its way into it, when the call began. And a snapshot goes back in time only at
an account that other venues read, when one of them stores an older answer after
the venue had read a newer one. TLC reaches both exceptions. `SnapshotCoherent` is
about the mixture: a snapshot has all accounts of one deployment, none of another,
and that deployment's strategy, and after a successful update the pool authority
is that of its own `PoolConfig`. After a failed one the authority may be newer than
the snapshot; that is harmless as long as the bump stored by `create_pool` never
changes (the comment at venue.rs:562).

Abstracted: decoding failures end a round like missing accounts (one after line
566 has written the authority already, as a missing liquidity source has); a
reserve's lending market, hence the obligation's address, is fixed.

### HumaQuote
The snapshot is one record. `WithdrawGate` is everything before the fee,
`FeeSlice` one iteration of the bracket loop, `FinishWithdraw` the rest.
Arithmetic is exact, `as u64` truncates (`AsU64`), saturating operations
saturate. The amounts that are u128 on chain (assets, the disbursement reserve,
the redemptions counted by a gating, the cap and the limits) are natural numbers
that the code truncates where it reads them; a sum of u128 beyond 2^128, which
would panic or wrap in the code, is not modelled. Each of the two redemption
gatings has its own window. The f64 growth of assets is the constant operator `Accrue`; prices are
exact fractions. `ExactOut`, a foreign mint and a venue without a snapshot are
rejected before any of this and are left out. Fee schedules are assumed
ascending in ratio, as the lookups with `position` need. `fee_bps` is a u16 and
may exceed 100% in the format; where that matters a theorem says so.

`DepositLands` is the on-chain deposit, external: it mints the quoted shares and
adds the amount to the refreshed assets and to the balance. Quotes go on over
the snapshot it leads to, so `NoRoundTripGain` compares a deposit with the
withdrawal of its shares as it would be quoted afterwards. The amount paid is not
the only bound: a mode without shares that still has assets mints 1:1 and its
first depositor owns what was left (`unowned_assets`). That is the only gain
possible. `PriceNonIncreasing` covers both halves of the trait's requirement on
prices, that they never rise with the amount and that they are positive; the latter
on modes with assets for their shares (`Solvent`). A mode with shares and no
assets answers a zero request with price 0 (withdrawal) or a division by zero
(deposit), against trading_venue/mod.rs:115.

### RaydiumVenue
One action, `UpdateState`, is a whole `update_state`: the cache answers all five
keys at once and nothing else runs in between (`&mut self`), so what matters is
where it stops. `Updated` follows the code's order (pc balance, coin balance,
`calculate_result`, `token_info`, `found_all_pubkeys`) and returns the venue as
far as it was written. An account may be missing, undecodable, a vault that is no
SPL account but long enough for the balance slice, or too short for it (the slice
panics). An unknown `status` panics in `from_u64`. `quote` is a pure operator,
because it takes `&self`: its properties are invariants over all requests.
Errors and panics are distinct outcomes. `source` is a history variable, the
venue that the last calculating update would have made from scratch.

Abstracted: `U128` products are exact where they cannot overflow, prices are
exact fractions instead of f64, a foreign mint is rejected before any of this,
and decimals are not kept. `AmmInfo` bytes of the wrong length panic already in
`from_account`; a venue starts from one that loaded.

### RouteBuilder
A behaviour is the life of one route. `BuildLeg` is one `build_swap_leg` (or its
error), `Submit` puts the instruction together as
`tests/common/mod.rs` of the program template does, `Enter` is the Borsh decoding
of the arguments and the `require!`s of `execute`, `Leg` one iteration of the
swap loop with any amount that balances and weight may yield, also zero. Data
and accounts are followed exactly: the wire format is bytes, since both ends
define it separately; account lists are in the code's order with their flags;
the data of a venue instruction is its operation and arguments, written down once
for each side because the code does so. External are the flags of an account in
a transaction (the strongest of its mentions), the rejection of missing
signatures, and the CPI's need for its program's account. Addresses are tuples,
hence distinct. A token account is identified by owner, token program and mint.
`Token2022` is the set of mints owned by Token-2022; a Huma venue passes and derives
with the programs its snapshot found (`token_program`), underlying and mode in that
order, and the Raydium venue always takes SPL Token, so `SpendsMeasuredSlot` is about
Raydium pools whose mints belong to it (`Consistent`). `RouteAssumption`
gives a route the widths of the Rust signatures: `mints`, `from` and `to` are u8,
a weight and the number of swaps u32, the amount u64. Nothing else is assumed of
a route; the venue, the request and the indices of a leg need not agree.

`SwapRoute` models the same loop for what it does to balances and takes the
slices as given; here the balances are left out and the slices are the subject.

## 3. Runs

| Run | Instance | Shows |
|---|---|---|
| `bounds_search` | u64 of 5 bits, tolerance 2, every interval venue and every interval with one hole | all safety properties and termination |
| `swap_route_honest` | 3 mints, 28 routes good and bad, 12 initial banks, unbounded sequence of transactions | exact payment, wSOL and ATA clean-up, no false alarm |
| `swap_route_rogue` | 2 mints, supply 2, rogue venues, slices with and without the user's key and accounts | `Custody` is implemented, reserves are kept, output forwarded, the user pays at most the amount |
| `rpc_cache` | 2 keys, 2 tasks, 1 write per account | resets and interleavings; entries regress only through overlapping calls; every call returns |
| `huma_quote` | 5 fee schedules x liquidity x supply, 15 edge pools, 7 amounts, all pairs of consecutive quotes, before and after a deposit lands | fee loop, pricing requirements, coverage, round trips |
| `huma_update` | one deployment of each type, five accounts that may be missing, `PoolConfig` shared with other venues, 1 chain change | coherence, freshness, prefetch, catching up |
| `raydium_venue` | u64 of 5 bits, 3 balances, AMM accounts with pnl, fees and statuses of every kind, every request in both directions | half-finished updates never show in quotes and are repaired; product, price, contiguity and absence of panics |
| `route_builder` | 113 routes of up to 3 legs over one Raydium pool and Huma modes with each strategy, some malformed; leg amounts 0, 7, 300 | built routes run, CPIs are the venues' swaps, and spend the measured slot |

Bounds. Five bits leave room for every phase of the search to run several times
and to saturate; a tolerance of 2 is the smallest the midpoint's dropped
remainders allow, as the proofs show. Three mints give direct, two-hop, split,
cyclic and native routes, `WeightAll` = 2 a split with rounding, initial PDA
balances of 0, 1 and no account every case of the clean-up. Rogue venues get two
mints: one for the input and one for the output, or the account next to it that
is not a slot; a supply of 2 lets an account rise, fall, be emptied and closed.
Two tasks race in
every pair of steps; a key list with a repetition and one in another order
exercise the reassembly. One chain change makes two versions, which is all that
freshness compares, and it may come before, between and after the rounds, the
prefetch, the reset and another venue's fetch; the theorems cover any number. In `HumaQuote` 100% is 10 points and amounts have two
digits: brackets are crossed one, two and three at a time and every rounding
occurs. In `RaydiumVenue` the largest balance is `u64::MAX`, so the overflow check
binds at every amount, and a fee below and one above one half put
`checked_ceil_div` on both sides of its rounding; `PricingRequirements` allows one
output atom and the worth of one input atom, the two roundings of the code. In
`RouteBuilder` a leg has 9 to 32 accounts and a skipped leg can come first,
in the middle or last, which is all the cursor depends on; 256 accounts in a leg
cannot come from these venues.

Deadlock checking is off for `bounds_search` and `route_builder`: a search and a
route end.

Runs that are expected to fail compare a sentence of the repository with the
code:

| Run | Sentence | What happens |
|---|---|---|
| `rpc_cache_doc_missing` | rpc_cache.rs:30 "avoids retrying missing accounts" | `get_accounts` cannot tell a cached `None` from a miss |
| `huma_quote_doc_zero_input` | trading_venue/mod.rs:236 "must handle zero input amounts" | `price_for(0)?` may be an error |
| `huma_update_doc_ata` | venue.rs:580 "re-derive after that read" | it is not derived again |
| `raydium_doc_exact_out` | trading_venue/mod.rs:241 "must not panic on it" | an `ExactOut` amount of at least the reserve panics |

Six more sentences are stronger than the code, as the passing runs' weaker
properties state: the bounds are not the "maximal valid input range"
(bounds.rs:253) but within the tolerance of it (`NearMaximal`); a result of the
cache is not a "consistent account snapshot" (rpc_cache.rs:5), since entries
cached earlier are combined with entries fetched now (`AnswersRequest`); and the
`None` of `marginal_fee_bps` does not quite mirror the fee's (state.rs:147): only
the fee looks up the bracket before the withdrawal (`FeeDefined`). `NoQuotableValue`
does not mean that "no valid quote exists at any input" (bounds.rs:257): usable
amounts between two doublings are stepped over (`MissesOnlyNarrow`). And the keys
announced by the Huma venue are not all those "required to update venue state"
(trading_venue/mod.rs:222) once the pool's liquidity source has changed
(`PrefetchCoversSameSource`). The price of a quote is not positive on every pool
(trading_venue/mod.rs:115), as said above (`PriceNonIncreasing`).

## 4. Fairness

- `BoundsSearch`: weak fairness of the whole step; the search is one synchronous call.
- `RpcCache`: weak fairness of each step of a started call; an awaited future is
  polled, and the RPC client answers or reports an error (it has a timeout).
- `HumaVenueUpdate`: weak fairness of `Call` (Titan keeps updating venues), strong
  fairness of `ResetCache` (Titan resets the cache between updates, again and again),
  weak fairness of the stores of other venues (their calls end, as `CallsReturn`
  shows) and strong fairness of each round: reads may fail any number of times, but a read
  that is tried again and again eventually succeeds. `CatchesUp` is claimed
  only for a chain that is quiet and routable.

## 5. Proofs

All theorems hold for every value of the constants.

- `BoundsSearchProofs`. The invariant adds to the types which end of each bracket
  is usable, phase by phase, that `lower_low` is 0 or the half of `lower_high`,
  and that nothing usable was probed below. With it `SearchInvariant`,
  `NeverCollapses`, `EndpointsQuote`, `NearMaximal` and `MissesOnlyNarrow` follow;
  `Narrows` needs that an interval wider than a tolerance of at least 2 has its
  midpoint strictly inside.
- `SwapRouteProofs`. `ReservesKept` is not inductive: what protects an account
  depends on where the transaction stands. `Frame` says that the guarded accounts
  include the slots and have their committed holding in the snapshot, that
  reachable accounts outside the guard held nothing, and that unreachable ones are
  unchanged. The final check then covers exactly what could have changed. It
  rests on `InputAssumption`: an instruction has at most `BitmapSize` accounts. An
  account that the PDA lost before the transaction is outside the guard
  (`is_titan_pda_token_account`), one that it loses within it is still in the
  snapshot, which is why a route cannot lower what was its own at the start.
- `SwapRouteCustodyProofs` builds on that invariant. `AInv` adds the accounting
  of the running transaction: no token appears (`NothingAppeared`); the user still has
  everything but the amount in every mint that was not signed over (`UserKept`);
  nothing has moved before `Fund` (`Prepared`); after it exactly the amount
  is gone and the wSOL account is as it was (`Funded`, with the output on top once
  it is paid); the created ATAs are the slots that were absent. With honest venues
  no guarded account falls below the snapshot (`NothingBorrowed`), which a leg
  keeps because it spends only what exceeds the snapshot. `UserPaysExactly`,
  `UserPaysAtMost`, `WsolRestored`, `AtasTidied` and `HonestNeverBlamed` follow, and so does the
  refinement `KeepsCustody`: `Commit` is one `Route` step of `Custody`, `Drain` one `Take`,
  every other action leaves the bank alone.
- `RpcCacheProofs`. Every value in the cache, in a call's `found` map and in an
  RPC answer was on the chain since the last reset (`AllKnown`, `TaskOk`; it needs that
  a reset finds no call in flight), and every key looked up is found or will be
  fetched (`Covered`), so the reassembly never misses one. `CacheMonotone` needs
  that what a task running alone has still to store is no older than the cache
  (`Fresh`, `Solo`, `History`).
- `HumaVenueUpdateProofs`. The argument is about `FetchedAt(k)`, the version that a read
  of `k` would get now, and `FlightAt(k)`, the one that another venue could put in its
  place. Neither is before the last reset, and neither is before the call unless `k`
  was warm at it (`Times`, `Reading`); only a store by another venue lowers `FetchedAt`.
  `Stage` says which accounts each round has read, `Derived` which `PoolConfig` the pool
  authority comes from, `Announced` what was announced.
- `RaydiumVenueProofs`. `VInv` says that the venue's `calculate_result` is that of
  `source`, however far later updates got. The other theorems are about the
  quoting operators on any such venue: what the rounded fee leaves of the input
  (`SwapFee` grows by at most the input's growth), what the constant product pays
  for it (`SoldFacts`), and monotonicity of both. `ExactInNeverPanics` is stated
  for fees below one half, where `checked_ceil_div` cannot round a fee past its
  amount.
- `HumaQuoteProofs`. `QInv` ties the loop and its answers to the snapshot: the
  loop stands on a bracket boundary (`Enter`), its fee is the entry of every fee table
  `F` that satisfies the loop's recurrence (`FeeTable`), and both remembered
  answers have the amount, output and price of their request (`AnswerOk`). The
  argument: a boundary is the last atom before the liquidity ratio drops below the
  bracket's, so brackets are visited in descending order and end at the one the
  lookup names; a fee rounded up per bracket grows by no more than the withdrawal
  does (`OutputsNeverFall`) and lies between the rates of the first and the last
  bracket crossed (`PricesBracketTheChord`); the atoms of a bracket are those
  between two boundaries, which makes the loop's total the sum per atom of
  `ReferenceFee` (`FeesAreProgressive`). Two hypotheses are explicit. `FeesFair`: no
  bracket after a served one charges over 100%, which rising fees (`FeesRise`)
  imply, since fees fall along the schedule; without it the unchecked
  `amount - fee` would underflow. `DepositFits`: the shares of a deposit fit a u64,
  because `shares_for_deposit` truncates them with `as u64`. For the round trip
  `LandedOk` says that the shares minted are worth at most what was paid and left
  over, at the price of the snapshot after the deposit; a withdrawal rounds down and
  pays a fee.

- `RouteBuilderProofs`. The argument follows a route along its way. `Concat`,
  `LeBytes`, `LeNumber` and the parser in `Arguments` are recursive functions: each is
  shown to be the unique solution of its recurrence. Then a sequence is found whole
  and in place in a concatenation (`ConcatSlice`), a little-endian number of 4 or 8
  bytes is read back (`LeInverse`), and with both the program decodes from
  `encode_swap_route_v3_data` exactly what was encoded (`Decodes`), for any number of
  swaps. The venues' own instructions have 8 to 31 accounts, in which the TitanPDA
  is the only signer and the payer does not occur (`OwnSwap`), and name the
  accounts they trade at the positions of `SpendsAt` and `ReceivesAt` (`Trades`); so
  a leg's count fits its u8 and no built leg asks for a signature (`LegFacts`,
  `NoMissingSignature`), and the adapters' rebuilt data is the venue's own
  (`Rebuilds`). `BInv` then says that the built legs and the transaction are those of
  the route, the arguments decoded those encoded, and the cursor the start of the
  leg's accounts (`LegStart`): without it the slices of one leg say nothing of the
  next. `BuiltRouteRuns`, `CpiIsVenueSwap` and `SpendsMeasuredSlot` follow.

The provers cannot instantiate the library's induction theorems, which take an
operator. Induction over a *set* of naturals is derived instead from the
least-number principle of the well-founded order on `Nat` (`LeastNat`,
`NatSetInduction`, `SetInduction`); that is how the fee tables and the sum in
`ReferenceFee` are reasoned about for schedules of any length, and the wire format
for routes of any length.

Every inductive invariant was also checked with TLC on the instances of section 3
(`QInv` with the fee table computed from the loop's recurrence).

Only model-checked: liveness (`Terminates`, `CallsReturn`, `CatchesUp`), which is
beyond the installed provers. Every safety property of a passing run is proved.

## 6. Not modelled

Account byte layouts (Borsh and packed structs of Huma, Kamino, Jupiter and
Raydium), Anchor discriminators, address derivation, f64 arithmetic, Token-2022
extensions, rent, transaction size limits, logging, the on-chain Huma, Kamino,
Jupiter and Raydium programs, and the test harness: formats without control, or
code that is not in the repository. The pool-creation parsers are stateless
filters over three accounts of an instruction. `get_lookup_table_keys` and
`create_lender_accounts_ix` list addresses; `initialize` stores a bump. The
amounts of `KaminoLendStrategy` and `JupLendStrategy` are one number of the Huma
snapshot.

## 7. Plan

1. Done: search, router with `Custody`, cache, Huma update, Huma quoting, Raydium
   venue, route builder composed with the program; the proofs above.
2. Open: none of the components above; a second venue on one cache as a full
   instance of `HumaVenueUpdate`, instead of its fetches and stores, would be next.
