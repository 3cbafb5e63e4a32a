---------------------------- MODULE RouteBuilder ----------------------------
(***************************************************************************)
(* A route from the venues' own swap instructions to the router's CPIs:    *)
(* generate_swap_instruction of the two venues, build_swap_leg and         *)
(* encode_swap_route_v3_data (src/src/swap_route/mod.rs), the runtime's    *)
(* account flags, and, on the chain, the decoding, slicing and dispatch of *)
(* swap_route_v3 with its venue adapters (program-template).               *)
(*                                                                         *)
(* What the legs do to balances is SwapRoute's subject; here the router's  *)
(* input_amount of a leg is any amount.                                    *)
(***************************************************************************)
EXTENDS Integers, Sequences

CONSTANTS
  Routes,    \* the routes asked for
  Amounts,   \* the input amounts a leg may be executed with
  Token2022  \* the mints that the Token-2022 program owns

\* A venue is a RaydiumAMM pool or a Huma mode with the strategy of its snapshot;
\* initialized is FALSE before its first update_state.
Venue ==
  [name : STRING, protocol : {"RaydiumAMM"}, coin : STRING, pc : STRING]
    \cup [name : STRING, protocol : {"Huma"}, underlying : STRING, mode : STRING,
          strategy : {"JupLend", "Kamino"}, farmed : BOOLEAN, initialized : BOOLEAN]

QuoteRequest == [input_mint : STRING, output_mint : STRING, amount : Nat,
                 swap_type : {"ExactIn", "ExactOut"}]

\* What build_swap_leg is called with: a venue, a request, the mint indices and the
\* weight.
RouteLeg == [venue : Venue, request : QuoteRequest, from : 0 .. 255, to : 0 .. 255,
             weight_nanos : Nat]

\* The widths of the wire format, by their halves: u32 and u64.
IsU32(n) == n \in Nat /\ n \div 65536 < 65536
IsU64(n) == n \in Nat /\ IsU32((n \div 65536) \div 65536)

\* A route names its mints and its legs.  mints is a u8, the legs are a Borsh vector.
ASSUME RouteAssumption ==
  \A r \in Routes :
    /\ r.mints \in Seq(STRING) /\ Len(r.mints) <= 255 /\ IsU64(r.amount)
    /\ r.legs \in Seq(RouteLeg) /\ IsU32(Len(r.legs))
    /\ \A k \in 1 .. Len(r.legs) : IsU32(r.legs[k].weight_nanos)

VARIABLES
  route,    \* the route
  pc,       \* where it is: build, submit, enter, leg, done
  legs,     \* the legs built so far: a SwapSpecInputV2 and its AccountMetas
  tx,       \* the transaction: instruction data and account metas
  args,     \* what the program decoded: amount, mints, swaps
  leg, cursor,  \* the swap loop and remaining_account_index
  calls,    \* the CPIs made, each with the leg it was made for
  outcome   \* how it ended

vars == <<route, pc, legs, tx, args, leg, cursor, calls, outcome>>

-----------------------------------------------------------------------------
(* Accounts.  Addresses are tuples: derivation is injective (external).       *)

titan_pda == <<"titan_pda">>
payer == <<"payer">>
Program(name) == <<"program", name>>
AccountOf(v, role) == <<v.name, role>>
Ata(owner, mint, program) == <<owner[1], program, mint>>
Mint(m) == <<"mint", m>>

\* The owner of the mint's account: what a Huma snapshot keeps as
\* underlying_token_program and mode_token_program.
token_program(m) == IF m \in Token2022 THEN "token_2022" ELSE "spl_token"
AtaOf(owner, m) == Ata(owner, m, token_program(m))

Readonly(k) == [key |-> k, signer |-> FALSE, writable |-> FALSE]
Writable(k) == [key |-> k, signer |-> FALSE, writable |-> TRUE]
Signer(k) == [key |-> k, signer |-> TRUE, writable |-> FALSE]

\* AccountMeta lists: one of the three constructors over a list of addresses.
Map(Meta(_), keys) == [n \in 1 .. Len(keys) |-> Meta(keys[n])]
Accounts(v, roles) == [n \in 1 .. Len(roles) |-> AccountOf(v, roles[n])]

program_id(v) == Program(v.protocol)

-----------------------------------------------------------------------------
(* The venues' own instructions.                                              *)

\* swap_base_in_v2 for the pool v.
swap_base_in_v2(v, source, destination, user, amount) ==
  [program |-> program_id(v),
   accounts |-> << Readonly(Program("spl_token")), Writable(AccountOf(v, "amm_pool")),
                   Readonly(<<"amm_authority">>) >>
                \o Map(Writable, Accounts(v, <<"coin_vault", "pc_vault">>))
                \o << Writable(source), Writable(destination), Signer(user) >>,
   data |-> [op |-> "swap_base_in_v2", amount |-> amount, limit |-> 0]]

\* swap_v2 with swap_base_in, the only case that is implemented.
swap_v2(v, source, destination, user, amount) ==
  swap_base_in_v2(v, source, destination, user, amount)

\* RaydiumAmmVenue: any mint but coin is taken for pc, swap_type is ignored and the
\* token accounts are those of the SPL token program.
raydium_swap_instruction(v, q, user) ==
  LET coin == Ata(user, v.coin, "spl_token")
      pcAta == Ata(user, v.pc, "spl_token")
  IN  IF q.input_mint = v.coin
      THEN swap_v2(v, coin, pcAta, user, q.amount)
      ELSE swap_v2(v, pcAta, coin, user, q.amount)

\* HumaVenue: what deposit and instant withdrawal share at the front, ...
huma_common(v, user) ==
  << Signer(user) >>
    \o Map(Readonly, Accounts(v, <<"huma_config", "pool_config">>))
    \o << Writable(AccountOf(v, "pool_state")), Readonly(<<"mode_config", v.mode>>),
          Writable(Mint(v.mode)) >>

TokenPrograms(v) ==
  Map(Readonly, << Program(token_program(v.underlying)), Program(token_program(v.mode)) >>)

deposit_account_metas(v, user) ==
  huma_common(v, user)
    \o << Readonly(AccountOf(v, "pool_authority")), Readonly(Mint(v.underlying)) >>
    \o Map(Writable, << AccountOf(v, "pool_underlying"), AtaOf(user, v.underlying),
                        AtaOf(user, v.mode) >>)
    \o TokenPrograms(v)

\* ... and the accounts of the strategy at the back: Kamino's with the farm's two
\* before the program if the reserve has one.
JupLendAccounts(v) ==
  << Writable(AccountOf(v, "f_token")), Readonly(<<"lending_admin">>) >>
    \o Map(Writable, Accounts(v, <<"lending", "f_token_mint", "reserve", "position">>))
    \o << Readonly(AccountOf(v, "rate_model")) >>
    \o Map(Writable, << AtaOf(<<"liquidity">>, v.underlying), <<"liquidity">>,
                        Program("jup_liquidity") >>)
    \o Map(Readonly, << AccountOf(v, "rewards"), Program("ata"), Program("system"),
                        Program("jup_lending") >>)

KaminoLendAccounts(v) ==
  << Writable(AccountOf(v, "reserve")) >>
    \o Map(Readonly, Accounts(v, <<"market", "market_authority">>))
    \o Map(Writable, Accounts(v, <<"obligation", "collateral_mint", "collateral_supply",
                                   "liquidity_supply">>))
    \o Map(Readonly, << Program("spl_token"), <<"sysvar_instructions">>, Program("kfarms") >>)
    \o (IF v.farmed
        THEN Map(Writable, Accounts(v, <<"farm_user_state", "farm_state">>)) ELSE << >>)
    \o << Readonly(Program("klend")) >>

instant_withdraw_remaining_accounts(v) ==
  IF v.strategy = "JupLend" THEN JupLendAccounts(v) ELSE KaminoLendAccounts(v)

instant_withdraw_account_metas(v, user) ==
  huma_common(v, user)
    \o << Readonly(AccountOf(v, "deployment_config")),
          Writable(AccountOf(v, "deployment_state")),
          Writable(<<"lender_state", v.mode, user[1]>>), Readonly(Mint(v.underlying)) >>
    \o Map(Writable, << AccountOf(v, "pool_authority"), AccountOf(v, "pool_underlying"),
                        AtaOf(user, v.underlying), AccountOf(v, "treasury"),
                        AtaOf(user, v.mode) >>)
    \o TokenPrograms(v)
    \o instant_withdraw_remaining_accounts(v)

swap_direction(v, q) ==
  IF q.input_mint = v.underlying /\ q.output_mint = v.mode THEN "Deposit"
  ELSE IF q.input_mint = v.mode /\ q.output_mint = v.underlying THEN "InstantWithdraw"
  ELSE "InvalidMint"

\* HumaInstruction::pack: no commitment, and any fee.
HumaInstruction(direction, n) ==
  IF direction = "Deposit"
  THEN [op |-> "deposit", amount |-> n, limit |-> "NO_COMMITMENT"]
  ELSE [op |-> "instant_withdraw", amount |-> n, limit |-> "u64::MAX"]

huma_swap_instruction(v, q, user) ==
  LET direction == swap_direction(v, q) IN
  [program |-> program_id(v), data |-> HumaInstruction(direction, q.amount),
   accounts |-> IF direction = "Deposit" THEN deposit_account_metas(v, user)
                ELSE instant_withdraw_account_metas(v, user)]

generate_swap_instruction(v, q, user) ==
  IF v.protocol = "RaydiumAMM" THEN raydium_swap_instruction(v, q, user)
  ELSE huma_swap_instruction(v, q, user)

\* Why a leg cannot be built.
BuildError(v, q) ==
  IF v.protocol = "RaydiumAMM" THEN "none"
  ELSE IF q.swap_type = "ExactOut" THEN "ExactOutNotSupported"
  ELSE IF ~v.initialized THEN "NotInitialized"
  ELSE IF swap_direction(v, q) = "InvalidMint" THEN "InvalidMint"
  ELSE "none"

-----------------------------------------------------------------------------
(* swap_route/mod.rs                                                          *)

\* Fault: the direction flag is taken from the wrong side of the request.
protocol_to_venue_Output(v, q) ==
  IF v.protocol = "RaydiumAMM" THEN [tag |-> "RaydiumAmm"]
  ELSE [tag |-> "Huma", is_deposit |-> q.output_mint = v.underlying]

\* A Huma leg is a deposit if it spends token 0 of the venue, the underlying.
protocol_to_venue(v, q) ==
  IF v.protocol = "RaydiumAMM" THEN [tag |-> "RaydiumAmm"]
  ELSE [tag |-> "Huma", is_deposit |-> q.input_mint = v.underlying]

\* Fault: the venue's metas are passed on unchanged.
WithoutTitanSigner_Kept(m) == m

WithoutTitanSigner(m) ==
  IF m.key = titan_pda THEN [m EXCEPT !.signer = FALSE] ELSE m

assemble_leg_accounts(ix, program) ==
  Append(Map(WithoutTitanSigner, ix.accounts), Readonly(program))

build_swap_leg(l) ==
  LET accounts == assemble_leg_accounts(
                    generate_swap_instruction(l.venue, l.request, titan_pda),
                    program_id(l.venue))
  IN  [spec |-> [venue |-> protocol_to_venue(l.venue, l.request), from |-> l.from,
                 to |-> l.to, weight_nanos |-> l.weight_nanos,
                 n_accounts |-> Len(accounts) % 256],   \* as u8
       accounts |-> accounts]

\* The concatenation of f[1], ..., f[n].
Concat(f, n) ==
  LET c[k \in 0 .. n] == IF k = 0 THEN << >> ELSE c[k - 1] \o f[k] IN c[n]

\* n.to_le_bytes() of an integer of w bytes.
LeBytes(n, w) ==
  LET rest[k \in 0 .. w] == IF k = 0 THEN n ELSE rest[k - 1] \div 256
  IN  [k \in 1 .. w |-> rest[k - 1] % 256]

\* Venue::serialize: the variant's index, then its fields.
VenueBytes(v) ==
  IF v.tag = "RaydiumAmm" THEN << 0 >> ELSE << 1, IF v.is_deposit THEN 1 ELSE 0 >>

\* SwapSpecInputV2::serialize.
SwapBytes(s) ==
  VenueBytes(s.venue) \o << s.from, s.to >> \o LeBytes(s.weight_nanos, 4)
    \o << s.n_accounts >>

encode_swap_route_v3_data(amount, mints, specs) ==
  << 42 >> \o LeBytes(amount, 8) \o << mints >> \o LeBytes(Len(specs), 4)
    \o Concat([k \in 1 .. Len(specs) |-> SwapBytes(specs[k])], Len(specs))

-----------------------------------------------------------------------------
(* The program: lib.rs and state.rs decode, swap_route_v3.rs slices and calls. *)

LeNumber(bytes, at, w) ==
  LET v[k \in 0 .. w] == IF k = 0 THEN 0 ELSE 256 * v[k - 1] + bytes[at + w - k] IN v[w]

\* The program's Venue enum, by index.
ProgramVenue(tag) == IF tag = 0 THEN "RaydiumAmm" ELSE "Huma"

\* One SwapSpecInputV2 of the bytes from position at on, and where it ends; ok is
\* FALSE for an unknown variant, a bool that is none, or bytes that are missing.
Deserialized(bytes, at) ==
  LET huma == ProgramVenue(bytes[at]) = "Huma"
      f == IF huma THEN at + 2 ELSE at + 1
  IN  IF at > Len(bytes) \/ f + 6 > Len(bytes) THEN [ok |-> FALSE, next |-> at]
      ELSE [ok |-> bytes[at] <= 1 /\ (huma => bytes[at + 1] <= 1), next |-> f + 7,
            swap |-> [venue |-> IF huma THEN [tag |-> "Huma", is_deposit |-> bytes[at + 1] = 1]
                                ELSE [tag |-> "RaydiumAmm"],
                      from |-> bytes[f], to |-> bytes[f + 1],
                      weight_nanos |-> LeNumber(bytes, f + 2, 4),
                      n_accounts |-> bytes[f + 6]]]

\* The arguments (amount, mints, swaps) behind the discriminator.
Arguments(bytes) ==
  LET count == LeNumber(bytes, 11, 4)
      parsed[k \in 0 .. count] ==
        IF k = 0 THEN [ok |-> bytes[1] = 42, at |-> 15, swaps |-> << >>]
        ELSE LET p == parsed[k - 1]
                 d == Deserialized(bytes, p.at)
             IN  IF p.ok /\ d.ok
                 THEN [ok |-> TRUE, at |-> d.next, swaps |-> Append(p.swaps, d.swap)]
                 ELSE [p EXCEPT !.ok = FALSE]
  IN  [ok |-> parsed[count].ok, amount |-> LeNumber(bytes, 2, 8), mints |-> bytes[10],
       swaps |-> parsed[count].swaps]

\* The adapters rebuild the data of the venue's instruction for the amount that
\* the router computed, and take the metas as they come.
raydium_amm_swap(amount, metas) ==
  [program |-> Program("RaydiumAMM"), accounts |-> metas,
   data |-> [op |-> "swap_base_in_v2", amount |-> amount, limit |-> 0]]

huma_swap(is_deposit, amount, metas) ==
  [program |-> Program("Huma"), accounts |-> metas,
   data |-> IF is_deposit
            THEN [op |-> "deposit", amount |-> amount, limit |-> "NO_COMMITMENT"]
            ELSE [op |-> "instant_withdraw", amount |-> amount, limit |-> "u64::MAX"]]

perform_cpi_swap(swap, amount, metas) ==
  IF swap.venue.tag = "RaydiumAmm" THEN raydium_amm_swap(amount, metas)
  ELSE huma_swap(swap.venue.is_deposit, amount, metas)

-----------------------------------------------------------------------------
(* The life of one route.                                                     *)

MAX_SWAPS == 12
MAX_MINTS == 12

Init ==
  /\ route \in Routes
  /\ pc = "build" /\ legs = << >> /\ leg = 1 /\ cursor = 0
  /\ tx = [data |-> << >>, accounts |-> << >>]
  /\ args = [amount |-> 0, mints |-> 0, swaps |-> << >>]
  /\ calls = << >> /\ outcome = "none"

Ended(result) == pc' = "done" /\ outcome' = result

\* The caller builds its legs in order and gives up at the first error.
BuildLeg ==
  /\ pc = "build" /\ Len(legs) < Len(route.legs)
  /\ LET l == route.legs[Len(legs) + 1]
         error == BuildError(l.venue, l.request)
     IN  IF error # "none" THEN Ended(error) /\ UNCHANGED legs
         ELSE legs' = Append(legs, build_swap_leg(l)) /\ UNCHANGED <<pc, outcome>>
  /\ UNCHANGED <<route, tx, args, leg, cursor, calls>>

\* The accounts in front of the legs: the twelve of SwapRouteV3, then the
\* TitanPDA's token account and the mint of every mint of the route.
FixedAccounts ==
  << [key |-> payer, signer |-> TRUE, writable |-> TRUE],
     [key |-> payer, signer |-> TRUE, writable |-> TRUE], Readonly(titan_pda) >>
    \o Map(Writable, << <<"user_input">>, <<"user_output">> >>)
    \o Map(Readonly, << Program("spl_token"), Program("token_2022"), Program("system"),
                        Program("ata"), Program("template"), Program("template"),
                        Program("template") >>)

RouteAccounts(mints) ==
  [n \in 1 .. Len(mints) |-> Writable(AtaOf(titan_pda, mints[n]))]
    \o [n \in 1 .. Len(mints) |-> Readonly(Mint(mints[n]))]

\* External: in a transaction an account has the strongest flags of its mentions.
AccountInfos(metas) ==
  [n \in 1 .. Len(metas) |->
    [key |-> metas[n].key,
     signer |-> \E m \in 1 .. Len(metas) : metas[m].key = metas[n].key /\ metas[m].signer,
     writable |-> \E m \in 1 .. Len(metas) : metas[m].key = metas[n].key /\ metas[m].writable]]

\* Only the payer signs: external, a transaction that needs another signature is
\* rejected.
Submit ==
  /\ pc = "build" /\ Len(legs) = Len(route.legs)
  /\ LET metas == FixedAccounts \o RouteAccounts(route.mints)
                    \o Concat([k \in 1 .. Len(legs) |-> legs[k].accounts], Len(legs))
         specs == [k \in 1 .. Len(legs) |-> legs[k].spec]
     IN  /\ tx' = [data |-> encode_swap_route_v3_data(route.amount, Len(route.mints), specs),
                   accounts |-> AccountInfos(metas)]
         /\ IF \E n \in 1 .. Len(metas) : metas[n].signer /\ metas[n].key # payer
            THEN Ended("MissingSignature") ELSE pc' = "enter" /\ UNCHANGED outcome
  /\ UNCHANGED <<route, legs, args, leg, cursor, calls>>

remaining_accounts == SubSeq(tx.accounts, Len(FixedAccounts) + 1, Len(tx.accounts))

\* The checks at the top of execute.
RouteError(a) ==
  IF ~a.ok THEN "DidNotDeserialize"
  ELSE IF a.mints <= 1 \/ a.swaps = << >> \/ Len(a.swaps) > MAX_SWAPS \/ a.mints > MAX_MINTS
  THEN "InvalidSwapInput"
  ELSE IF Len(remaining_accounts) < 2 * a.mints THEN "MissingRemainingAccount"
  ELSE IF \/ a.swaps[1].from # 0
          \/ \E k \in 1 .. Len(a.swaps) : a.swaps[k].from >= a.mints \/ a.swaps[k].to >= a.mints
  THEN "InvalidSwapInput"
  ELSE "none"

Enter ==
  /\ pc = "enter"
  /\ LET a == Arguments(tx.data)
         error == RouteError(a)
     IN  IF error # "none" THEN Ended(error) /\ UNCHANGED <<args, cursor>>
         ELSE /\ args' = [amount |-> a.amount, mints |-> a.mints, swaps |-> a.swaps]
              /\ cursor' = 2 * a.mints
              /\ pc' = "leg" /\ UNCHANGED outcome
  /\ UNCHANGED <<route, legs, tx, leg, calls>>

\* The metas of a CPI: the leg's accounts but the last, with TitanPDA a signer.
account_metas(accounts) ==
  [n \in 1 .. Len(accounts) - 1 |->
    [accounts[n] EXCEPT !.signer = @ \/ accounts[n].key = titan_pda]]

\* Why the loop stops at a leg; external: a CPI needs the account of its program.
LegError(swap, accounts, amount) ==
  IF swap.n_accounts = 0 THEN "InvalidSwapInput"
  ELSE IF cursor + swap.n_accounts > Len(remaining_accounts) THEN "MissingRemainingAccount"
  ELSE IF /\ amount > 0
          /\ \A n \in 1 .. Len(accounts) :
               accounts[n].key # perform_cpi_swap(swap, amount, << >>).program
  THEN "MissingAccount"
  ELSE "none"

\* Fault: a leg that is skipped leaves the cursor where it was.
NextCursor_Skipped(swap, amount) == IF amount = 0 THEN cursor ELSE cursor + swap.n_accounts

NextCursor(swap, amount) == cursor + swap.n_accounts

\* A leg of weight 0 has no input; any other has what the balances give it.
Leg ==
  /\ pc = "leg" /\ leg <= Len(args.swaps)
  /\ LET swap == args.swaps[leg]
         accounts == SubSeq(remaining_accounts, cursor + 1, cursor + swap.n_accounts)
     IN  \E amount \in IF swap.weight_nanos = 0 THEN {0} ELSE Amounts :
           LET error == LegError(swap, accounts, amount)
           IN  IF error # "none" THEN Ended(error) /\ UNCHANGED <<leg, cursor, calls>>
               ELSE /\ calls' = IF amount = 0 THEN calls
                                ELSE Append(calls, [leg |-> leg, amount |-> amount,
                                       ix |-> perform_cpi_swap(swap, amount,
                                                account_metas(accounts))])
                    /\ cursor' = NextCursor(swap, amount)
                    /\ leg' = leg + 1
                    /\ UNCHANGED <<pc, outcome>>
  /\ UNCHANGED <<route, legs, tx, args>>

Finish ==
  /\ pc = "leg" /\ leg > Len(args.swaps)
  /\ Ended("ok")
  /\ UNCHANGED <<route, legs, tx, args, leg, cursor, calls>>

Next == BuildLeg \/ Submit \/ Enter \/ Leg \/ Finish

Spec == Init /\ [][Next]_vars

-----------------------------------------------------------------------------
(* Properties.                                                                *)

\* A route that the caller indexes and sizes as execute demands.
WellFormed(r) ==
  /\ Len(r.mints) \in 2 .. MAX_MINTS /\ Len(r.legs) \in 1 .. MAX_SWAPS
  /\ r.legs[1].from = 0
  /\ \A k \in 1 .. Len(r.legs) : {r.legs[k].from, r.legs[k].to} \subseteq 0 .. Len(r.mints) - 1

\* A well-formed route whose legs build is never rejected on the way: the transaction
\* needs no signature but the payer's, the program decodes exactly the specs that
\* were built, and the loop finds every leg's accounts and the program it calls.
BuiltRouteRuns ==
  WellFormed(route) =>
    /\ pc = "done" /\ Len(legs) = Len(route.legs) => outcome = "ok"
    /\ pc = "leg" => args = [amount |-> route.amount, mints |-> Len(route.mints),
                             swaps |-> [k \in 1 .. Len(legs) |-> legs[k].spec]]

\* Every CPI is the swap instruction that the venue itself generates for the
\* TitanPDA, with the router's amount in it: the program, the data, the accounts in
\* their order, the signers, and at least the writable accounts.  Clearing the
\* signer flag, the wire format, the skipped legs and the rebuilt data cancel out.
CpiIsVenueSwap ==
  \A c \in 1 .. Len(calls) :
    LET l == route.legs[calls[c].leg]
        ix == calls[c].ix
        own == generate_swap_instruction(l.venue, l.request, titan_pda)
    IN  /\ ix.program = own.program
        /\ ix.data = [own.data EXCEPT !.amount = calls[c].amount]
        /\ Len(ix.accounts) = Len(own.accounts)
        /\ \A n \in 1 .. Len(own.accounts) :
             /\ ix.accounts[n].key = own.accounts[n].key
             /\ ix.accounts[n].signer = own.accounts[n].signer
             /\ own.accounts[n].writable => ix.accounts[n].writable

\* The accounts a venue's program takes its input from and pays its output to
\* (external, by their positions in each instruction).
SpendsAt(op) == CASE op = "deposit" -> 10 [] op = "instant_withdraw" -> 15 [] OTHER -> 6
ReceivesAt(op) == CASE op = "deposit" -> 11 [] op = "instant_withdraw" -> 13 [] OTHER -> 7

Holds(ix, at, account) == at <= Len(ix.accounts) /\ ix.accounts[at].key = account.key

\* The leg trades two mints of its venue, those that from and to name; a pool's are
\* SPL tokens (external: the AMM program takes no others).
Consistent(r, l) ==
  /\ l.request.input_mint = r.mints[l.from + 1] /\ l.request.output_mint = r.mints[l.to + 1]
  /\ l.venue.protocol = "RaydiumAMM" =>
       /\ {l.request.input_mint, l.request.output_mint} = {l.venue.coin, l.venue.pc}
       /\ {l.venue.coin, l.venue.pc} \cap Token2022 = {}

\* The account a CPI spends is the slot whose balance the router measured for it,
\* and the account it pays is the slot of the leg's output mint: a leg whose
\* accounts, direction flag and indices disagree would spend what was never
\* weighed.
SpendsMeasuredSlot ==
  \A c \in 1 .. Len(calls) :
    LET swap == args.swaps[calls[c].leg]
    IN  Consistent(route, route.legs[calls[c].leg]) =>
          LET ix == calls[c].ix
          IN  /\ Holds(ix, SpendsAt(ix.data.op), remaining_accounts[swap.from + 1])
              /\ Holds(ix, ReceivesAt(ix.data.op), remaining_accounts[swap.to + 1])
=============================================================================
