-------------------------- MODULE HumaVenueUpdate ---------------------------
(***************************************************************************)
(* HumaVenue::update_state (src/src/huma/venue.rs) and Strategy::update    *)
(* (src/src/huma/strategy): the rounds of account reads that rebuild the   *)
(* venue's snapshot while the chain moves on, through a cache that answers *)
(* what it holds (src/src/account_caching/rpc_cache.rs), and the key set   *)
(* the venue announces for prefetching.  One step is one awaited           *)
(* get_accounts call with the decoding that follows it; the calls of other *)
(* venues on the same cache are fetch and store, which RpcCache shows to   *)
(* be what overlaps.                                                       *)
(*                                                                         *)
(* An account's content is the chain version at which it was fetched, and  *)
(* the fields that steer the update: PoolConfig.liquidity_source, the      *)
(* modes listed in PoolState and the strategy of a DeploymentConfig.       *)
(***************************************************************************)
EXTENDS Integers

CONSTANTS
  Deployment,    \* DeploymentConfig keys
  StrategyOf,    \* the strategy_type of each
  TokenProgram,  \* the token programs the underlying mint may belong to
  Volatile,      \* the accounts that may be missing at times
  Shared,        \* the accounts other venues read through the same cache
  MaxVer         \* bound on the number of changes of the chain

NoSource == "no_source"   \* liquidity_source = None
Spl == "spl_token"        \* SPL_TOKEN_PROGRAM_ID

ASSUME UpdateAssumption ==
  /\ StrategyOf \in [Deployment -> {"JupLend", "KaminoLend", "Manual"}]
  /\ MaxVer \in Nat /\ Spl \in TokenProgram
  /\ NoSource \notin Deployment

\* The accounts an update may read: the fixed ones, the pool's underlying ATA
\* under a token program, a deployment's config, the reserve its strategy reads
\* and the position (obligation or f-token account) the pool holds there.
Fixed(name) == [kind |-> name, of |-> "pool"]
Ata(program) == [kind |-> "ata", of |-> program]
Config(d) == [kind |-> "deployment_config", of |-> d]
Reserve(d) == [kind |-> "reserve", of |-> d]
Position(d) == [kind |-> "position", of |-> d]

PoolKeys == {Fixed("pool_config"), Fixed("mode_config")}
StateKeys == {Fixed("huma_config"), Fixed("pool_state"), Fixed("mode_mint"),
              Fixed("underlying_mint"), Fixed("clock")}
Key == PoolKeys \cup StateKeys \cup {Ata(t) : t \in TokenProgram}
         \cup {Config(d) : d \in Deployment} \cup {Reserve(d) : d \in Deployment}
         \cup {Position(d) : d \in Deployment}

ASSUME KeyAssumption == Volatile \subseteq Key /\ Shared \subseteq Key

PoolConfig == Fixed("pool_config")
PoolState == Fixed("pool_state")

VARIABLES
  chain,      \* the accounts on the chain
  program,    \* the owner of the underlying mint, fixed at its creation
  cache,      \* the cache the venue reads through
  flight,     \* what other venues have fetched and not stored yet
  since,      \* the chain's version when the cache was last reset
  state,      \* self.state and self.mode_config
  authority,  \* self.pool_authority_key, as the version of its PoolConfig
  job         \* the running or the last update_state call

vars == <<chain, program, cache, flight, since, state, authority, job>>

\* missing: accounts that do not exist; mode: is it in PoolState's list.
Chain == [ver : 0 .. MaxVer, source : Deployment \cup {NoSource},
          mode : {"listed", "unlisted"}, missing : {{}} \cup {{k} : k \in Volatile}]

\* What the update decodes of an account, and an account as it is answered.
Data(k) == CASE k = PoolConfig -> Deployment \cup {NoSource}
             [] k = PoolState -> {"listed", "unlisted"}
             [] OTHER -> {"bytes"}
Account(k) == [ver : 0 .. MaxVer, data : Data(k)]
None == [ver |-> -1, data |-> "none"]
NotFetched == [ver |-> -1, data |-> "not_fetched"]

\* What update_state commits: the deployment, the strategy built for it, and
\* the chain version at which each account of the snapshot was fetched.
NotSeen == -1
NoState == [initialized |-> FALSE, source |-> NoSource, strategy |-> "Manual",
            seen |-> [k \in Key |-> NotSeen]]

\* at: the round to run next; error: how the call ended; next: the state being
\* assembled; read: the keys asked for; prefetched: what
\* get_required_pubkeys_for_update said; began, warm: the chain's version and
\* the accounts in the cache, or on their way into it, at the call.
NoJob == [at |-> "idle", error |-> "none", next |-> NoState, read |-> {},
          prefetched |-> {}, began |-> 0, warm |-> {}]

-----------------------------------------------------------------------------
\* Fault: the strategy's position is not announced.
StrategyKeys_ReserveOnly(d) == {Reserve(d)}

\* Strategy::required_pubkeys_for_update: a Kamino strategy that was updated
\* knows its obligation, and JupLend's keys are known from the start.
StrategyKeys(d) == {Reserve(d), Position(d)}

\* The keys of a venue that withdraws through deployment d.
KeysWith(d) ==
  PoolKeys \cup StateKeys \cup {Ata(Spl), Config(d)} \cup StrategyKeys(d)

\* NotInitialized before the first commit: nothing to prefetch.
get_required_pubkeys_for_update ==
  IF state.initialized THEN KeysWith(state.source) ELSE {}

Cold == [k \in Key |-> None]
NoFlight == [k \in Key |-> NotFetched]

Init ==
  /\ chain \in Chain /\ chain.ver = 0
  /\ program \in TokenProgram
  /\ cache = Cold /\ flight = NoFlight /\ since = 0
  /\ state = NoState /\ authority = NotSeen
  /\ job = NoJob

\* An associated token account only exists under the program that owns the mint.
Exists(k) == k \notin chain.missing /\ (k.kind = "ata" => k.of = program)

\* The account that the RPC node answers.
Fetch(k) ==
  IF ~Exists(k) THEN None
  ELSE [ver |-> chain.ver, data |-> CASE k = PoolConfig -> chain.source
                                      [] k = PoolState -> chain.mode
                                      [] OTHER -> "bytes"]

\* RpcClientCache::get_accounts: what is cached is answered whatever its age, and
\* what is not is fetched and stored.  An account cached as missing is fetched
\* again, so None also stands for it.
Answer(k) == IF cache[k] # None THEN cache[k] ELSE Fetch(k)
Loaded(keys) == [k \in Key |-> IF k \in keys THEN Answer(k) ELSE cache[k]]
FetchedAt(k) == IF cache[k] # None THEN cache[k].ver ELSE chain.ver

\* The pool's owner, its users and the lending markets change accounts (external).
Change ==
  /\ chain.ver < MaxVer
  /\ chain' \in Chain /\ chain'.ver = chain.ver + 1
  /\ UNCHANGED <<program, cache, flight, since, state, authority, job>>

\* "Titan will prefetch these accounts before calling update_state()" (external).
Prefetch ==
  /\ job.at = "idle"
  /\ cache' = Loaded(get_required_pubkeys_for_update)
  /\ UNCHANGED <<chain, program, flight, since, state, authority, job>>

\* Another venue misses an account that it shares with this one and fetches it,
\* (external) ...
OtherVenueFetches(k) ==
  /\ cache[k] = None /\ flight[k] = NotFetched
  /\ flight' = [flight EXCEPT ![k] = Fetch(k)]
  /\ UNCHANGED <<chain, program, cache, since, state, authority, job>>

\* ... and its call stores the answer, whatever the cache holds by then.
OtherVenueStores(k) ==
  /\ flight[k] # NotFetched
  /\ cache' = [cache EXCEPT ![k] = flight[k]]
  /\ flight' = [flight EXCEPT ![k] = NotFetched]
  /\ UNCHANGED <<chain, program, since, state, authority, job>>

\* reset_cache takes &mut self: no call is using the cache meanwhile.
ResetCache ==
  /\ job.at = "idle" /\ flight = NoFlight
  /\ cache' = Cold /\ since' = chain.ver
  /\ UNCHANGED <<chain, program, flight, state, authority, job>>

\* update_state is called; &mut self makes it the only call on this venue.
Call ==
  /\ job.at = "idle"
  /\ job' = [NoJob EXCEPT !.at = "round1", !.began = chain.ver,
                          !.warm = {k \in Key : cache[k] # None \/ flight[k] # NotFetched},
                          !.prefetched = get_required_pubkeys_for_update]
  /\ UNCHANGED <<chain, program, cache, flight, since, state, authority>>

\* The call is over, and what it assembled is gone.
Returned(error, keys) ==
  [job EXCEPT !.at = "idle", !.error = error, !.read = @ \cup keys,
              !.next = [NoState EXCEPT !.source = job.next.source], !.warm = {}]

\* update_state returns an error and leaves self.state alone.
Fail(error, keys) ==
  /\ job' = Returned(error, keys)
  /\ cache' = Loaded(keys)
  /\ UNCHANGED <<chain, program, flight, since, state>>

\* The next round has the accounts of this one, and what it learned.
Continue(round, keys, next) ==
  /\ job' = [job EXCEPT !.at = round, !.read = @ \cup keys, !.next = next]
  /\ cache' = Loaded(keys)
  /\ UNCHANGED <<chain, program, flight, since, state>>

\* The strategy's update is the last await: update_state commits and returns.
Commit(keys, next) ==
  /\ state' = next
  /\ job' = Returned("none", keys)
  /\ cache' = Loaded(keys)
  /\ UNCHANGED <<chain, program, flight, since>>

\* get_accounts returns an error, in any round.
CacheError ==
  /\ job.at # "idle"
  /\ Fail("FailedToFetch", {})
  /\ UNCHANGED authority

\* The versions of the snapshot being assembled, with those of these keys.
Seen(keys) ==
  [k \in Key |-> IF k \in keys THEN FetchedAt(k) ELSE job.next.seen[k]]

\* Fault: a PoolConfig that was decoded before is not read again.
FromPoolConfig_Cached ==
  IF state.initialized
  THEN [NoState EXCEPT !.source = state.source,
          !.seen = [k \in Key |-> IF k \in PoolKeys THEN state.seen[k] ELSE NotSeen]]
  ELSE [NoState EXCEPT !.source = Answer(PoolConfig).data, !.seen = Seen(PoolKeys)]

\* What round 1 decodes.
FromPoolConfig ==
  [NoState EXCEPT !.source = Answer(PoolConfig).data, !.seen = Seen(PoolKeys)]

\* Round 1: PoolConfig and ModeConfig.  pool_authority_key is written at once.
Round1 ==
  /\ job.at = "round1"
  /\ IF \E k \in PoolKeys : Answer(k) = None
     THEN Fail("NoAccountFound", PoolKeys) /\ UNCHANGED authority
     ELSE /\ authority' = FetchedAt(PoolConfig)
          /\ IF Answer(PoolConfig).data = NoSource
             THEN Fail("MissingState", PoolKeys)
             ELSE Continue("round2", PoolKeys, FromPoolConfig)

\* Round 2 reads everything whose key PoolConfig gives.  The ATA is the one of
\* the SPL token program, whatever owns the mint.
Round2Keys == StateKeys \cup {Config(job.next.source), Ata(Spl)}

\* Fault: the strategy of the previous snapshot is kept.
WithStrategy_Kept ==
  [job.next EXCEPT !.strategy = IF state.initialized THEN state.strategy
                                ELSE StrategyOf[job.next.source],
                   !.seen = Seen(Round2Keys)]

\* Strategy::from_deployment_config, and the rest of what round 2 decodes.
WithStrategy ==
  [job.next EXCEPT !.strategy = StrategyOf[job.next.source], !.seen = Seen(Round2Keys)]

Round2 ==
  /\ job.at = "round2"
  /\ UNCHANGED authority
  /\ IF \E k \in Round2Keys : Answer(k) = None
     THEN Fail("NoAccountFound", Round2Keys)
     ELSE IF StrategyOf[job.next.source] = "Manual"
     THEN Fail("UnsupportedVenue", Round2Keys)
     ELSE IF Answer(PoolState).data = "unlisted"
     THEN Fail("MissingState", Round2Keys)
     ELSE Continue("strategy", Round2Keys, WithStrategy)

\* Round 3, JupLend: reserve and f-token account together; both must exist.
JupLendUpdate ==
  LET keys == StrategyKeys(job.next.source) IN
  /\ job.at = "strategy" /\ job.next.strategy = "JupLend"
  /\ UNCHANGED authority
  /\ IF \E k \in keys : Answer(k) = None
     THEN Fail("NoAccountFound", keys)
     ELSE Commit(keys, [job.next EXCEPT !.initialized = TRUE, !.seen = Seen(keys)])

\* Round 3, KaminoLend: the reserve, which names the obligation, ...
KaminoReserve ==
  LET keys == {Reserve(job.next.source)} IN
  /\ job.at = "strategy" /\ job.next.strategy = "KaminoLend"
  /\ UNCHANGED authority
  /\ IF \E k \in keys : Answer(k) = None
     THEN Fail("NoAccountFound", keys)
     ELSE Continue("obligation", keys, [job.next EXCEPT !.seen = Seen(keys)])

\* Fault: a missing obligation is an error, as a missing f-token account is.
KaminoObligation_MustExist ==
  LET keys == {Position(job.next.source)} IN
  /\ job.at = "obligation"
  /\ UNCHANGED authority
  /\ IF \E k \in keys : Answer(k) = None
     THEN Fail("NoAccountFound", keys)
     ELSE Commit(keys, [job.next EXCEPT !.initialized = TRUE, !.seen = Seen(keys)])

\* ... and then the obligation; a missing one counts as no deposits.
KaminoObligation ==
  LET keys == {Position(job.next.source)} IN
  /\ job.at = "obligation"
  /\ UNCHANGED authority
  /\ Commit(keys, [job.next EXCEPT !.initialized = TRUE, !.seen = Seen(keys)])

Next ==
  \/ Change \/ Prefetch \/ ResetCache \/ Call \/ CacheError
  \/ \E k \in Shared : OtherVenueFetches(k) \/ OtherVenueStores(k)
  \/ Round1 \/ Round2 \/ JupLendUpdate \/ KaminoReserve \/ KaminoObligation

Spec == Init /\ [][Next]_vars

\* Titan keeps updating its venues and resetting the cache between updates, a
\* read that is tried again and again is answered in the end, and so are the reads
\* of other venues.
FairSpec ==
  /\ Spec
  /\ WF_vars(Call) /\ SF_vars(ResetCache)
  /\ \A k \in Shared : WF_vars(OtherVenueStores(k))
  /\ SF_vars(Round1) /\ SF_vars(Round2)
  /\ SF_vars(JupLendUpdate) /\ SF_vars(KaminoReserve) /\ SF_vars(KaminoObligation)

-----------------------------------------------------------------------------
State == [initialized : BOOLEAN, source : Deployment \cup {NoSource},
          strategy : {"JupLend", "KaminoLend", "Manual"},
          seen : [Key -> NotSeen .. MaxVer]]

Job == [at : {"idle", "round1", "round2", "strategy", "obligation"},
        error : {"none", "FailedToFetch", "NoAccountFound", "MissingState",
                 "UnsupportedVenue"},
        next : State, read : SUBSET Key, prefetched : SUBSET Key,
        began : 0 .. MaxVer, warm : SUBSET Key]

\* Type invariant.
TypeOK ==
  /\ chain \in Chain /\ program \in TokenProgram /\ since \in 0 .. MaxVer
  /\ DOMAIN cache = Key /\ \A k \in Key : cache[k] \in Account(k) \cup {None}
  /\ DOMAIN flight = Key
  /\ \A k \in Key : flight[k] \in IF k \in Shared THEN Account(k) \cup {None, NotFetched}
                                  ELSE {NotFetched}
  /\ state \in State /\ authority \in NotSeen .. MaxVer /\ job \in Job

\* The snapshot a quote uses is whole, whatever failed and whatever was cached
\* between its rounds: its strategy is that of its own liquidity source, and it
\* holds every account of that deployment and none of another's.  After a
\* successful update pool_authority_key, which round 1 writes before the commit,
\* comes from the snapshot's own PoolConfig.
SnapshotCoherent ==
  state.initialized =>
    /\ state.source \in Deployment
    /\ state.strategy = StrategyOf[state.source] /\ state.strategy # "Manual"
    /\ {k \in Key : state.seen[k] # NotSeen} = KeysWith(state.source)
    /\ job.at = "idle" /\ job.error = "none" => authority = state.seen[PoolConfig]

\* A commit brings nothing from before the last reset of the cache, and nothing
\* from before the call but what the cache held then or was being fetched into it.
\* No account goes back, except one that other venues read: they may store an
\* older answer after this venue has committed a newer one.
CommitsFresh ==
  [][state' # state =>
       /\ state'.initialized
       /\ \A k \in KeysWith(state'.source) :
            /\ state'.seen[k] >= since
            /\ k \notin job.warm => state'.seen[k] >= job.began
            /\ k \notin Shared => state'.seen[k] >= state.seen[k]]_vars

\* The announced key set covers an update, both rounds of the strategy included,
\* as long as the pool's liquidity source stays what it was.
PrefetchCoversSameSource ==
  Config(job.next.source) \in job.prefetched => job.read \subseteq job.prefetched

\* The chain's pool can be routed through: an update of it succeeds.
Routable ==
  /\ chain.source # NoSource /\ chain.mode = "listed"
  /\ StrategyOf[chain.source] # "Manual"
  /\ \A k \in PoolKeys \cup StateKeys \cup {Ata(Spl), Config(chain.source), Reserve(chain.source)} :
       Exists(k)
  /\ StrategyOf[chain.source] = "JupLend" => Exists(Position(chain.source))

\* Once the chain is quiet the venue catches up with it for good, from any
\* state that earlier updates, failed or cut short, left behind in it and in the
\* cache.
CatchesUp ==
  <>[](Routable => /\ state.initialized /\ state.source = chain.source
                   /\ \A k \in KeysWith(chain.source) : state.seen[k] = chain.ver)

\* The comment in update_state: the ATA is derived for a provisional token
\* program and "re-derive[d]" once the mint's owner is known, so no account that
\* exists is reported missing.
DocAtaRederived ==
  job.at = "idle" /\ job.error = "NoAccountFound" /\ job.began = chain.ver
    => chain.missing # {}
=============================================================================
