----------------------- MODULE HumaVenueUpdateProofs ------------------------
(***************************************************************************)
(* Proofs about HumaVenueUpdate for any deployments, any set of volatile   *)
(* and of shared accounts and any number of changes of the chain.  The     *)
(* argument rests on FetchedAt(k), the version a read of k would get now,  *)
(* and FlightAt(k), the version it may be replaced by: neither falls below *)
(* the last reset, nor below a call that began with k neither cached nor   *)
(* in flight, and only a store by another venue ever lowers FetchedAt.     *)
(***************************************************************************)
EXTENDS HumaVenueUpdate, TLAPS

\* The version of k that another venue may store, or could fetch.
FlightAt(k) == IF flight[k] \in {None, NotFetched} THEN chain.ver ELSE flight[k].ver

\* What a read would get lies between the last reset and now, and is never older
\* than what the venue committed of an account of its own.
Times ==
  \A k \in Key : /\ since <= FetchedAt(k) /\ FetchedAt(k) <= chain.ver
                 /\ since <= FlightAt(k) /\ FlightAt(k) <= chain.ver
                 /\ k \notin Shared => state.seen[k] <= FetchedAt(k)

\* A version that the running call may commit for k.
Fresh(v, k) ==
  /\ since <= v /\ (k \notin Shared => state.seen[k] <= v)
  /\ k \notin job.warm => job.began <= v

\* What the running call has read.
Reading ==
  job.at # "idle" =>
    /\ \A k \in Key : job.next.seen[k] # NotSeen <=> k \in job.read
    /\ \A k \in Key : k \notin job.warm =>
                         job.began <= FetchedAt(k) /\ job.began <= FlightAt(k)
    /\ \A k \in job.read : /\ Fresh(job.next.seen[k], k)
                           /\ k \notin Shared => job.next.seen[k] <= FetchedAt(k)

\* The accounts of the first two rounds.
PoolAccounts(d) == PoolKeys \cup StateKeys \cup {Config(d), Ata(Spl)}

\* What each round knows of the state it is assembling.
Stage ==
  /\ job.at = "round1" => job.read = {}
  /\ job.at \in {"round2", "strategy", "obligation"} => job.next.source \in Deployment
  /\ job.at = "round2" => job.read = PoolKeys
  /\ job.at \in {"strategy", "obligation"} =>
       /\ job.next.strategy = StrategyOf[job.next.source]
       /\ job.next.strategy # "Manual"
  /\ job.at = "strategy" => job.read = PoolAccounts(job.next.source)
  /\ job.at = "obligation" =>
       job.read = PoolAccounts(job.next.source) \cup {Reserve(job.next.source)}

\* pool_authority_key is that of the PoolConfig that was committed, or is about to be.
Derived ==
  /\ job.at = "idle" /\ job.error = "none" /\ state.initialized =>
       authority = state.seen[PoolConfig]
  /\ job.at \in {"round2", "strategy", "obligation"} =>
       authority = job.next.seen[PoolConfig]

\* What was announced, and what was read so far.
Announced ==
  /\ \/ job.prefetched = {}
     \/ \E d \in Deployment : job.prefetched = KeysWith(d)
  /\ job.read \subseteq KeysWith(job.next.source)

\* The snapshot is whole.
Whole(s) ==
  s.initialized =>
    /\ s.source \in Deployment
    /\ s.strategy = StrategyOf[s.source] /\ s.strategy # "Manual"
    /\ \A k \in Key : s.seen[k] # NotSeen <=> k \in KeysWith(s.source)

IInv == /\ TypeOK /\ Times /\ Reading /\ Stage /\ Derived /\ Announced
        /\ Whole(state)

-----------------------------------------------------------------------------
(* Keys and versions. *)

\* Every key an update may ask for is an account of the model.
LEMMA KeysTyped ==
  /\ PoolKeys \subseteq Key /\ StateKeys \subseteq Key /\ Ata(Spl) \in Key
  /\ PoolConfig \in PoolKeys /\ PoolState \in StateKeys /\ PoolConfig # PoolState
  /\ PoolConfig \in Key /\ PoolState \in Key
  /\ \A d \in Deployment :
       /\ Config(d) \in Key /\ StrategyKeys(d) \subseteq Key /\ KeysWith(d) \subseteq Key
       /\ KeysWith(d) = PoolAccounts(d) \cup StrategyKeys(d)
       /\ StrategyKeys(d) = {Reserve(d), Position(d)}
       /\ Reserve(d) \in Key /\ Position(d) \in Key
<1>1. /\ PoolConfig \in PoolKeys /\ PoolState \in StateKeys /\ PoolConfig # PoolState
  BY DEF PoolConfig, PoolState, PoolKeys, StateKeys, Fixed
<1>2. PoolKeys \subseteq Key /\ StateKeys \subseteq Key /\ Ata(Spl) \in Key
  BY UpdateAssumption DEF Key
<1>3. ASSUME NEW d \in Deployment
      PROVE  /\ Config(d) \in Key /\ Reserve(d) \in Key /\ Position(d) \in Key
             /\ KeysWith(d) = PoolAccounts(d) \cup StrategyKeys(d)
             /\ StrategyKeys(d) = {Reserve(d), Position(d)}
  BY DEF Key, KeysWith, PoolAccounts, StrategyKeys
<1>4. ASSUME NEW d \in Deployment
      PROVE  StrategyKeys(d) \subseteq Key /\ KeysWith(d) \subseteq Key
  BY <1>2, <1>3 DEF PoolAccounts
<1> QED BY <1>1, <1>2, <1>3, <1>4

\* A deployment's config is announced for that deployment only.
LEMMA ConfigNamesDeployment ==
  ASSUME NEW d, NEW e, Config(e) \in KeysWith(d)
  PROVE  e = d
BY DEF KeysWith, StrategyKeys, PoolKeys, StateKeys, Config, Fixed, Ata, Reserve, Position

\* What the RPC node and the cache answer.
LEMMA AnswerFacts ==
  ASSUME TypeOK, NEW k \in Key
  PROVE  /\ Answer(k) \in Account(k) \cup {None}
         /\ Answer(k) # None => Answer(k).ver = FetchedAt(k)
         /\ FetchedAt(k) \in 0 .. MaxVer
         /\ FlightAt(k) \in 0 .. MaxVer
         /\ chain.ver \in 0 .. MaxVer
         /\ cache[k] # None => Answer(k) = cache[k]
         /\ Fetch(k) \in Account(k) \cup {None}
         /\ Fetch(k) # None => Fetch(k).ver = chain.ver
<1>1. /\ chain.ver \in 0 .. MaxVer /\ chain.source \in Deployment \cup {NoSource}
      /\ chain.mode \in {"listed", "unlisted"} /\ cache[k] \in Account(k) \cup {None}
      /\ flight[k] \in Account(k) \cup {None, NotFetched}
  BY DEF TypeOK, Chain
<1> DEFINE data == CASE k = PoolConfig -> chain.source
                     [] k = PoolState -> chain.mode
                     [] OTHER -> "bytes"
<1>2. data \in Data(k)
  BY <1>1, KeysTyped DEF Data
<1>3. Fetch(k) = None \/ Fetch(k) = [ver |-> chain.ver, data |-> data]
  BY DEF Fetch
<1> HIDE DEF data
<1>4. Fetch(k) \in Account(k) \cup {None} /\ (Fetch(k) # None => Fetch(k).ver = chain.ver)
  BY <1>1, <1>2, <1>3 DEF Account
<1>5. cache[k] # None => cache[k].ver \in 0 .. MaxVer
  BY <1>1 DEF Account
<1>6. FlightAt(k) \in 0 .. MaxVer
  BY <1>1 DEF FlightAt, Account
<1> QED BY <1>1, <1>4, <1>5, <1>6 DEF Answer, FetchedAt

LEMMA VersionsTyped ==
  ASSUME TypeOK, NEW k \in Key
  PROVE  /\ since \in Int /\ chain.ver \in Int /\ FetchedAt(k) \in Int /\ FlightAt(k) \in Int
         /\ state.seen[k] \in Int /\ job.next.seen[k] \in Int /\ job.began \in Int
         /\ authority \in Int /\ MaxVer \in Nat
<1>1. FetchedAt(k) \in 0 .. MaxVer /\ FlightAt(k) \in 0 .. MaxVer /\ chain.ver \in 0 .. MaxVer
  BY AnswerFacts
<1>2. /\ since \in 0 .. MaxVer /\ state \in State /\ job \in Job
      /\ authority \in NotSeen .. MaxVer
  BY DEF TypeOK
<1>3. /\ state.seen[k] \in NotSeen .. MaxVer /\ job.next.seen[k] \in NotSeen .. MaxVer
      /\ job.began \in 0 .. MaxVer
  BY <1>2 DEF Job, State
<1> QED BY <1>1, <1>2, <1>3, UpdateAssumption DEF NotSeen

\* A read through the cache keeps the cache well formed and changes for no
\* account what the next read of it would get.
LEMMA LoadedKeeps ==
  ASSUME TypeOK, NEW keys, cache' = Loaded(keys), chain' = chain, flight' = flight
  PROVE  /\ DOMAIN cache' = Key
         /\ \A k \in Key : cache'[k] \in Account(k) \cup {None}
         /\ \A k \in Key : FetchedAt(k)' = FetchedAt(k) /\ FlightAt(k)' = FlightAt(k)
<1>1. DOMAIN cache' = Key /\ \A k \in Key : cache'[k] = IF k \in keys THEN Answer(k) ELSE cache[k]
  BY DEF Loaded
<1>2. \A k \in Key : cache[k] \in Account(k) \cup {None}
  BY DEF TypeOK
<1>3. ASSUME NEW k \in Key PROVE cache'[k] \in Account(k) \cup {None}
  BY <1>1, <1>2, AnswerFacts
<1>4. ASSUME NEW k \in Key PROVE FetchedAt(k)' = FetchedAt(k)
  <2>1. FetchedAt(k)' = IF cache'[k] # None THEN cache'[k].ver ELSE chain.ver
    BY DEF FetchedAt
  <2>2. CASE cache[k] # None
    BY <1>1, <2>1, <2>2, AnswerFacts DEF FetchedAt
  <2>3. CASE cache[k] = None
    <3>1. FetchedAt(k) = chain.ver
      BY <2>3 DEF FetchedAt
    <3>2. cache'[k] # None => cache'[k].ver = chain.ver
      BY <1>1, <2>3, <3>1, AnswerFacts
    <3> QED BY <2>1, <3>1, <3>2
  <2> QED BY <2>2, <2>3
<1>5. \A k \in Key : FlightAt(k)' = FlightAt(k)
  BY DEF FlightAt
<1> QED BY <1>1, <1>3, <1>4, <1>5

\* What a round adds to the snapshot being assembled.
LEMMA SeenFacts ==
  ASSUME IInv, job.at # "idle", NEW keys \in SUBSET Key
  PROVE  /\ Seen(keys) \in [Key -> NotSeen .. MaxVer]
         /\ \A k \in Key : Seen(keys)[k] # NotSeen <=> k \in job.read \cup keys
         /\ \A k \in job.read \cup keys :
              /\ Fresh(Seen(keys)[k], k)
              /\ k \notin Shared => Seen(keys)[k] <= FetchedAt(k)
<1> DEFINE s == Seen(keys)
<1>1. TypeOK /\ job \in Job /\ job.read \subseteq Key
  BY DEF IInv, TypeOK, Job
<1>2. \A k \in Key : s[k] = IF k \in keys THEN FetchedAt(k) ELSE job.next.seen[k]
  BY DEF Seen
<1>3. ASSUME NEW k \in Key PROVE FetchedAt(k) \in NotSeen .. MaxVer /\ FetchedAt(k) # NotSeen
  <2>1. FetchedAt(k) \in 0 .. MaxVer /\ MaxVer \in Nat
    BY <1>1, AnswerFacts, UpdateAssumption
  <2> QED BY <2>1 DEF NotSeen
<1>4. \A k \in Key : job.next.seen[k] \in NotSeen .. MaxVer
  BY <1>1 DEF Job, State
<1>5. s \in [Key -> NotSeen .. MaxVer]
  BY <1>3, <1>4 DEF Seen
<1>6. /\ \A k \in Key : job.next.seen[k] # NotSeen <=> k \in job.read
      /\ \A k \in job.read : /\ Fresh(job.next.seen[k], k)
                             /\ k \notin Shared => job.next.seen[k] <= FetchedAt(k)
      /\ \A k \in Key : k \notin job.warm => job.began <= FetchedAt(k)
  BY DEF IInv, Reading
<1>7. ASSUME NEW k \in Key PROVE Fresh(FetchedAt(k), k) /\ FetchedAt(k) <= FetchedAt(k)
  <2>1. since <= FetchedAt(k) /\ (k \notin Shared => state.seen[k] <= FetchedAt(k))
    BY DEF IInv, Times
  <2>2. FetchedAt(k) \in Int
    BY <1>1, VersionsTyped
  <2> QED BY <1>6, <2>1, <2>2 DEF Fresh
<1> HIDE DEF s
<1>8. \A k \in Key : s[k] # NotSeen <=> k \in job.read \cup keys
  BY <1>2, <1>3, <1>6
<1>9. \A k \in job.read \cup keys : /\ Fresh(s[k], k)
                                    /\ k \notin Shared => s[k] <= FetchedAt(k)
  BY <1>1, <1>2, <1>6, <1>7
<1> QED BY <1>5, <1>8, <1>9 DEF s

-----------------------------------------------------------------------------
(* How a round ends. *)

LEMMA NoStateTyped ==
  /\ NoState \in State /\ \A k \in Key : NoState.seen[k] = NotSeen
  /\ \A d \in Deployment \cup {NoSource} :
       /\ [NoState EXCEPT !.source = d] \in State
       /\ [NoState EXCEPT !.source = d].source = d
<1>1. NotSeen \in NotSeen .. MaxVer /\ [k \in Key |-> NotSeen] \in [Key -> NotSeen .. MaxVer]
  BY UpdateAssumption DEF NotSeen
<1> QED BY <1>1, UpdateAssumption DEF NoState, State

\* The job of a call that returned.
LEMMA ReturnedFacts ==
  ASSUME TypeOK, NEW error \in {"none", "FailedToFetch", "NoAccountFound", "MissingState",
                                "UnsupportedVenue"},
         NEW keys \in SUBSET Key, job' = Returned(error, keys)
  PROVE  /\ job' \in Job /\ job'.at = "idle" /\ job'.next.source = job.next.source
         /\ job'.prefetched = job.prefetched /\ job'.read = job.read \cup keys
         /\ job'.error = error
<1>1. job \in Job /\ job.next.source \in Deployment \cup {NoSource}
  BY DEF TypeOK, Job, State
<1> DEFINE next == [NoState EXCEPT !.source = job.next.source]
<1>2. next \in State /\ next.source = job.next.source
  BY <1>1, NoStateTyped
<1>3. job' = [job EXCEPT !.at = "idle", !.error = error, !.read = job.read \cup keys,
                         !.next = next, !.warm = {}]
  BY DEF Returned
<1> HIDE DEF next
<1> QED BY <1>1, <1>2, <1>3 DEF Job

\* A call that ends with an error keeps the snapshot.
LEMMA FailPreserves ==
  ASSUME IInv, NEW error \in {"FailedToFetch", "NoAccountFound", "MissingState",
                              "UnsupportedVenue"},
         NEW keys \in SUBSET Key, keys \subseteq KeysWith(job.next.source),
         Fail(error, keys),
         authority' \in NotSeen .. MaxVer
  PROVE  IInv'
<1>1. /\ job' = Returned(error, keys) /\ cache' = Loaded(keys)
      /\ chain' = chain /\ program' = program /\ flight' = flight /\ since' = since
      /\ state' = state
  BY DEF Fail
<1>2. TypeOK /\ Times /\ Announced /\ Whole(state)
  BY DEF IInv
<1>3. /\ job' \in Job /\ job'.at = "idle" /\ job'.next.source = job.next.source
      /\ job'.prefetched = job.prefetched /\ job'.read = job.read \cup keys
      /\ job'.error # "none"
  BY <1>1, <1>2, ReturnedFacts
<1>4. /\ DOMAIN cache' = Key /\ \A k \in Key : cache'[k] \in Account(k) \cup {None}
      /\ \A k \in Key : FetchedAt(k)' = FetchedAt(k) /\ FlightAt(k)' = FlightAt(k)
  BY <1>1, <1>2, LoadedKeeps
<1>5. TypeOK'
  BY <1>1, <1>2, <1>3, <1>4 DEF TypeOK
<1>6. Times'
  BY <1>1, <1>2, <1>4 DEF Times
<1>7. Reading' /\ Stage' /\ Derived'
  BY <1>1, <1>3 DEF Reading, Stage, Derived
<1>8. Announced'
  BY <1>2, <1>3 DEF Announced
<1>9. Whole(state)'
  BY <1>1, <1>2 DEF Whole
<1> QED BY <1>5, <1>6, <1>7, <1>8, <1>9 DEF IInv

\* A call that goes on to another round.
LEMMA ContinueFrame ==
  ASSUME IInv, job.at # "idle", NEW round \in {"round2", "strategy", "obligation"},
         NEW keys \in SUBSET Key, NEW next \in State, next.seen = Seen(keys),
         keys \cup job.read \subseteq KeysWith(next.source),
         Continue(round, keys, next),
         authority' \in NotSeen .. MaxVer, authority' = next.seen[PoolConfig]
  PROVE  /\ TypeOK' /\ Times' /\ Reading' /\ Derived' /\ Announced' /\ Whole(state)'
         /\ job'.at = round /\ job'.next = next /\ job'.read = job.read \cup keys
<1>1. /\ job' = [job EXCEPT !.at = round, !.read = job.read \cup keys, !.next = next]
      /\ cache' = Loaded(keys)
      /\ chain' = chain /\ program' = program /\ flight' = flight /\ since' = since
      /\ state' = state
  BY DEF Continue
<1>2. TypeOK /\ Times /\ Reading /\ Announced /\ Whole(state) /\ job \in Job
  BY DEF IInv, TypeOK
<1>3. /\ job' \in Job /\ job'.at = round /\ job'.next = next
      /\ job'.prefetched = job.prefetched /\ job'.began = job.began
      /\ job'.warm = job.warm /\ job'.read = job.read \cup keys
  BY <1>1, <1>2 DEF Job
<1>4. /\ DOMAIN cache' = Key /\ \A k \in Key : cache'[k] \in Account(k) \cup {None}
      /\ \A k \in Key : FetchedAt(k)' = FetchedAt(k) /\ FlightAt(k)' = FlightAt(k)
  BY <1>1, <1>2, LoadedKeeps
<1>5. TypeOK'
  BY <1>1, <1>2, <1>3, <1>4 DEF TypeOK
<1>6. Times'
  BY <1>1, <1>2, <1>4 DEF Times
<1>7. Reading'
  <2>1. /\ \A k \in Key : next.seen[k] # NotSeen <=> k \in job'.read
        /\ \A k \in job'.read : /\ Fresh(next.seen[k], k)
                                /\ k \notin Shared => next.seen[k] <= FetchedAt(k)
    BY <1>3, SeenFacts
  <2>2. \A k \in Key : k \notin job.warm =>
                        job.began <= FetchedAt(k) /\ job.began <= FlightAt(k)
    BY <1>2 DEF Reading
  <2>3. \A k, v : Fresh(v, k)' <=> Fresh(v, k)
    BY <1>1, <1>3 DEF Fresh
  <2>4. job'.read \subseteq Key
    BY <1>3 DEF Job
  <2>5. ASSUME NEW k \in job'.read
        PROVE  /\ Fresh(job.next.seen[k], k)'
               /\ k \notin Shared => job'.next.seen[k] <= FetchedAt(k)'
    <3>1. Fresh(next.seen[k], k)
      BY <2>1
    <3>2. Fresh(job.next.seen[k], k)'
      BY <1>1, <1>3, <3>1 DEF Fresh
    <3> QED BY <1>3, <1>4, <2>1, <2>4, <3>2
  <2> QED BY <1>3, <1>4, <2>1, <2>2, <2>5 DEF Reading
<1>8. Derived'
  BY <1>1, <1>3 DEF Derived
<1>9. Announced'
  BY <1>2, <1>3 DEF Announced
<1>10. Whole(state)'
  BY <1>1, <1>2 DEF Whole
<1> QED BY <1>3, <1>5, <1>6, <1>7, <1>8, <1>9, <1>10

\* A commit.
LEMMA CommitFacts ==
  ASSUME IInv, job.at # "idle", NEW keys \in SUBSET Key, NEW next \in State,
         next.seen = Seen(keys), next.initialized, next.source = job.next.source,
         keys \cup job.read = KeysWith(next.source), Whole(next),
         job.at \in {"strategy", "obligation"}, PoolConfig \notin keys,
         Commit(keys, next), authority' = authority
  PROVE  /\ IInv'
         /\ \A k \in KeysWith(state'.source) : Fresh(state'.seen[k], k)
<1>1. /\ job' = Returned("none", keys) /\ cache' = Loaded(keys)
      /\ chain' = chain /\ program' = program /\ flight' = flight /\ since' = since
      /\ state' = next
  BY DEF Commit
<1>2. TypeOK /\ Times /\ Announced /\ Derived
  BY DEF IInv
<1>3. /\ job' \in Job /\ job'.at = "idle" /\ job'.next.source = job.next.source
      /\ job'.prefetched = job.prefetched /\ job'.read = job.read \cup keys
  BY <1>1, <1>2, ReturnedFacts
<1>4. /\ DOMAIN cache' = Key /\ \A k \in Key : cache'[k] \in Account(k) \cup {None}
      /\ \A k \in Key : FetchedAt(k)' = FetchedAt(k) /\ FlightAt(k)' = FlightAt(k)
  BY <1>1, <1>2, LoadedKeeps
<1>5. TypeOK'
  BY <1>1, <1>2, <1>3, <1>4 DEF TypeOK
<1>6. /\ \A k \in Key : next.seen[k] # NotSeen <=> k \in KeysWith(next.source)
      /\ \A k \in KeysWith(next.source) : /\ Fresh(next.seen[k], k)
                                          /\ k \notin Shared => next.seen[k] <= FetchedAt(k)
  BY SeenFacts
<1>7. Times'
  <2>1. ASSUME NEW k \in Key, k \notin Shared PROVE next.seen[k] <= FetchedAt(k)
    <3>1. CASE k \in KeysWith(next.source)
      BY <1>6, <2>1, <3>1
    <3>2. CASE k \notin KeysWith(next.source)
      <4>1. next.seen[k] = NotSeen /\ FetchedAt(k) \in 0 .. MaxVer
        BY <1>2, <1>6, <3>2, AnswerFacts
      <4> QED BY <4>1, UpdateAssumption DEF NotSeen
    <3> QED BY <3>1, <3>2
  <2> QED BY <1>1, <1>2, <1>4, <2>1 DEF Times
<1>8. Reading' /\ Stage'
  BY <1>3 DEF Reading, Stage
<1>9. Derived'
  <2>1. next.seen[PoolConfig] = job.next.seen[PoolConfig]
    BY KeysTyped DEF Seen
  <2> QED BY <1>1, <1>2, <1>3, <2>1 DEF Derived
<1>10. Announced'
  BY <1>2, <1>3 DEF Announced
<1>11. Whole(state)'
  BY <1>1 DEF Whole
<1>12. \A k \in KeysWith(state'.source) : Fresh(state'.seen[k], k)
  BY <1>1, <1>6
<1> QED BY <1>5, <1>7, <1>8, <1>9, <1>10, <1>11, <1>12 DEF IInv
-----------------------------------------------------------------------------
(* The invariant is inductive. *)

LEMMA InitEstablishes == Init => IInv
<1> SUFFICES ASSUME Init PROVE IInv
  OBVIOUS
<1>1. /\ chain \in Chain /\ chain.ver = 0 /\ program \in TokenProgram /\ since = 0
      /\ state = NoState /\ authority = NotSeen /\ job = NoJob
      /\ DOMAIN cache = Key /\ \A k \in Key : cache[k] = None
      /\ DOMAIN flight = Key /\ \A k \in Key : flight[k] = NotFetched
  BY DEF Init, Cold, NoFlight
<1>2. NoJob \in Job
  BY NoStateTyped, UpdateAssumption DEF NoJob, Job
<1>3. TypeOK
  BY <1>1, <1>2, NoStateTyped, UpdateAssumption DEF TypeOK, NotSeen
<1>4. Times
  BY <1>1, NoStateTyped DEF Times, FetchedAt, FlightAt, NotSeen
<1>5. Reading /\ Stage /\ Announced /\ Whole(state)
  BY <1>1 DEF Reading, Stage, Announced, Whole, NoJob, NoState
<1>6. Derived
  BY <1>1 DEF Derived, NoJob, NoState
<1> QED BY <1>3, <1>4, <1>5, <1>6 DEF IInv

\* What the chain and the users of the cache do: a read gets no older account of
\* this venue's own, nothing from before the reset and nothing from before the call.
LEMMA OutsidePreserves ==
  ASSUME IInv, TypeOK',
         program' = program, state' = state, authority' = authority, job' = job,
         \A k \in Key : k \notin Shared => FetchedAt(k) <= FetchedAt(k)',
         \A k \in Key : /\ since' <= FetchedAt(k)' /\ FetchedAt(k)' <= chain'.ver
                        /\ since' <= FlightAt(k)' /\ FlightAt(k)' <= chain'.ver,
         job.at # "idle" => \A k \in Key : k \notin job.warm =>
                              job.began <= FetchedAt(k)' /\ job.began <= FlightAt(k)',
         since' = since \/ job.at = "idle"
  PROVE  IInv'
<1>1. TypeOK /\ Times /\ Reading /\ Stage /\ Derived /\ Announced /\ Whole(state)
  BY DEF IInv
<1>2. ASSUME NEW k \in Key
      PROVE  /\ FetchedAt(k) \in Int /\ FetchedAt(k)' \in Int /\ state.seen[k] \in Int
             /\ job.next.seen[k] \in Int
  <2>1. FetchedAt(k)' \in Int
    <3>1. cache'[k] \in Account(k) \cup {None} /\ chain' \in Chain
      BY DEF TypeOK
    <3>2. chain'.ver \in Int
      BY <3>1 DEF Chain
    <3>3. cache'[k].ver \in Int
      BY <3>1 DEF Account, None
    <3> QED BY <3>2, <3>3 DEF FetchedAt
  <2> QED BY <1>1, <2>1, VersionsTyped
<1>3. Times'
  BY <1>1, <1>2 DEF Times
<1>4. Reading'
  <2> SUFFICES ASSUME job.at # "idle" PROVE Reading'
    BY DEF Reading
  <2>1. /\ \A k \in Key : job.next.seen[k] # NotSeen <=> k \in job.read
        /\ \A k \in job.read : /\ Fresh(job.next.seen[k], k)
                               /\ k \notin Shared => job.next.seen[k] <= FetchedAt(k)
        /\ job.read \subseteq Key
    BY <1>1 DEF Reading, TypeOK, Job
  <2>2. ASSUME NEW k \in job.read
        PROVE  /\ Fresh(job.next.seen[k], k)'
               /\ k \notin Shared => job.next.seen[k] <= FetchedAt(k)'
    <3>1. Fresh(job.next.seen[k], k)'
      BY <2>1 DEF Fresh
    <3> QED BY <1>2, <2>1, <3>1
  <2> QED BY <2>1, <2>2 DEF Reading
<1>5. Stage' /\ Derived' /\ Announced' /\ Whole(state)'
  BY <1>1 DEF Stage, Derived, Announced, Whole
<1> QED BY <1>3, <1>4, <1>5 DEF IInv

\* What the invariant says of the versions of an account.
LEMMA Bounds ==
  ASSUME IInv, NEW k \in Key
  PROVE  /\ since \in Int /\ chain.ver \in Int /\ FetchedAt(k) \in Int /\ FlightAt(k) \in Int
         /\ since <= FetchedAt(k) /\ FetchedAt(k) <= chain.ver
         /\ since <= FlightAt(k) /\ FlightAt(k) <= chain.ver
         /\ job.began \in Int
         /\ job.at # "idle" /\ k \notin job.warm =>
              job.began <= FetchedAt(k) /\ job.began <= FlightAt(k)
BY VersionsTyped DEF IInv, Times, Reading

\* Nothing a read would get, and nothing in flight, changes.
LEMMA UnchangedPreserves ==
  ASSUME IInv, UNCHANGED <<chain, program, cache, flight, since, state, authority, job>>
  PROVE  IInv'
<1>1. TypeOK'
  BY DEF IInv, TypeOK
<1>2. \A k \in Key : FetchedAt(k)' = FetchedAt(k) /\ FlightAt(k)' = FlightAt(k)
  BY DEF FetchedAt, FlightAt
<1>3. ASSUME NEW k \in Key
      PROVE  /\ FetchedAt(k) <= FetchedAt(k)'
             /\ since' <= FetchedAt(k)' /\ FetchedAt(k)' <= chain'.ver
             /\ since' <= FlightAt(k)' /\ FlightAt(k)' <= chain'.ver
             /\ job.at # "idle" /\ k \notin job.warm =>
                  job.began <= FetchedAt(k)' /\ job.began <= FlightAt(k)'
  BY <1>2, Bounds
<1> QED BY <1>1, <1>3, OutsidePreserves

LEMMA ChangePreserves == IInv /\ Change => IInv'
<1> SUFFICES ASSUME IInv, Change PROVE IInv'
  OBVIOUS
<1>1. /\ chain' \in Chain /\ chain'.ver = chain.ver + 1
      /\ UNCHANGED <<program, cache, flight, since, state, authority, job>>
  BY DEF Change
<1>2. TypeOK'
  BY <1>1 DEF IInv, TypeOK
<1>3. ASSUME NEW k \in Key
      PROVE  /\ FetchedAt(k) <= FetchedAt(k)'
             /\ since' <= FetchedAt(k)' /\ FetchedAt(k)' <= chain'.ver
             /\ since' <= FlightAt(k)' /\ FlightAt(k)' <= chain'.ver
             /\ job.at # "idle" /\ k \notin job.warm =>
                  job.began <= FetchedAt(k)' /\ job.began <= FlightAt(k)'
  <2>1. /\ FetchedAt(k)' = IF cache[k] # None THEN FetchedAt(k) ELSE chain.ver + 1
        /\ cache[k] = None => FetchedAt(k) = chain.ver
    BY <1>1 DEF FetchedAt
  <2>2. FlightAt(k)' = FlightAt(k) \/ (FlightAt(k)' = chain.ver + 1 /\ FlightAt(k) = chain.ver)
    BY <1>1 DEF FlightAt
  <2> QED BY <1>1, <2>1, <2>2, Bounds
<1> QED BY <1>1, <1>2, <1>3, OutsidePreserves

LEMMA PrefetchPreserves == IInv /\ Prefetch => IInv'
<1> SUFFICES ASSUME IInv, Prefetch PROVE IInv'
  OBVIOUS
<1>1. /\ cache' = Loaded(get_required_pubkeys_for_update)
      /\ UNCHANGED <<chain, program, flight, since, state, authority, job>>
  BY DEF Prefetch
<1>2. /\ DOMAIN cache' = Key /\ \A k \in Key : cache'[k] \in Account(k) \cup {None}
      /\ \A k \in Key : FetchedAt(k)' = FetchedAt(k) /\ FlightAt(k)' = FlightAt(k)
  BY <1>1, LoadedKeeps DEF IInv
<1>3. TypeOK'
  BY <1>1, <1>2 DEF IInv, TypeOK
<1>4. ASSUME NEW k \in Key
      PROVE  /\ FetchedAt(k) <= FetchedAt(k)'
             /\ since' <= FetchedAt(k)' /\ FetchedAt(k)' <= chain'.ver
             /\ since' <= FlightAt(k)' /\ FlightAt(k)' <= chain'.ver
             /\ job.at # "idle" /\ k \notin job.warm =>
                  job.began <= FetchedAt(k)' /\ job.began <= FlightAt(k)'
  BY <1>1, <1>2, Bounds
<1> QED BY <1>1, <1>3, <1>4, OutsidePreserves

LEMMA FetchPreserves ==
  ASSUME IInv, NEW f \in Shared, OtherVenueFetches(f)
  PROVE  IInv'
<1>1. /\ flight' = [flight EXCEPT ![f] = Fetch(f)] /\ f \in Key
      /\ UNCHANGED <<chain, program, cache, since, state, authority, job>>
  BY KeyAssumption DEF OtherVenueFetches
<1>2. TypeOK /\ DOMAIN flight = Key
  BY DEF IInv, TypeOK
<1>3. Fetch(f) \in Account(f) \cup {None} /\ (Fetch(f) # None => Fetch(f).ver = chain.ver)
  BY <1>1, <1>2, AnswerFacts
<1>4. /\ DOMAIN flight' = Key
      /\ \A k \in Key : flight'[k] = IF k = f THEN Fetch(f) ELSE flight[k]
  BY <1>1, <1>2
<1>5. TypeOK'
  <2>1. \A k \in Key : flight'[k] \in IF k \in Shared THEN Account(k) \cup {None, NotFetched}
                                      ELSE {NotFetched}
    BY <1>2, <1>3, <1>4 DEF TypeOK
  <2> QED BY <1>1, <1>2, <1>4, <2>1 DEF TypeOK
<1>6. ASSUME NEW k \in Key
      PROVE  /\ FetchedAt(k) <= FetchedAt(k)'
             /\ since' <= FetchedAt(k)' /\ FetchedAt(k)' <= chain'.ver
             /\ since' <= FlightAt(k)' /\ FlightAt(k)' <= chain'.ver
             /\ job.at # "idle" /\ k \notin job.warm =>
                  job.began <= FetchedAt(k)' /\ job.began <= FlightAt(k)'
  <2>1. FetchedAt(k)' = FetchedAt(k)
    BY <1>1 DEF FetchedAt
  <2>2. FlightAt(k)' = FlightAt(k) \/ FlightAt(k)' = chain.ver
    BY <1>1, <1>3, <1>4 DEF FlightAt
  <2> QED BY <1>1, <2>1, <2>2, Bounds
<1> QED BY <1>1, <1>5, <1>6, OutsidePreserves

LEMMA StorePreserves ==
  ASSUME IInv, NEW f \in Shared, OtherVenueStores(f)
  PROVE  IInv'
<1>1. /\ cache' = [cache EXCEPT ![f] = flight[f]] /\ flight[f] # NotFetched
      /\ flight' = [flight EXCEPT ![f] = NotFetched] /\ f \in Key
      /\ UNCHANGED <<chain, program, since, state, authority, job>>
  BY KeyAssumption DEF OtherVenueStores
<1>2. TypeOK /\ DOMAIN flight = Key /\ DOMAIN cache = Key
  BY DEF IInv, TypeOK
<1>3. flight[f] \in Account(f) \cup {None}
  BY <1>1, <1>2 DEF TypeOK
<1>4. /\ DOMAIN flight' = Key /\ DOMAIN cache' = Key
      /\ \A k \in Key : /\ flight'[k] = IF k = f THEN NotFetched ELSE flight[k]
                        /\ cache'[k] = IF k = f THEN flight[f] ELSE cache[k]
  BY <1>1, <1>2
<1>5. TypeOK'
  <2>1. \A k \in Key : flight'[k] \in IF k \in Shared THEN Account(k) \cup {None, NotFetched}
                                      ELSE {NotFetched}
    BY <1>2, <1>4 DEF TypeOK
  <2>2. \A k \in Key : cache'[k] \in Account(k) \cup {None}
    BY <1>2, <1>3, <1>4 DEF TypeOK
  <2> QED BY <1>1, <1>2, <1>4, <2>1, <2>2 DEF TypeOK
<1>6. ASSUME NEW k \in Key
      PROVE  /\ k \notin Shared => FetchedAt(k) <= FetchedAt(k)'
             /\ since' <= FetchedAt(k)' /\ FetchedAt(k)' <= chain'.ver
             /\ since' <= FlightAt(k)' /\ FlightAt(k)' <= chain'.ver
             /\ job.at # "idle" /\ k \notin job.warm =>
                  job.began <= FetchedAt(k)' /\ job.began <= FlightAt(k)'
  <2>1. CASE k = f
    <3>1. FetchedAt(k)' = FlightAt(k) /\ FlightAt(k)' = chain.ver
      BY <1>1, <1>4, <2>1 DEF FetchedAt, FlightAt
    <3> QED BY <1>1, <2>1, <3>1, Bounds
  <2>2. CASE k # f
    <3>1. FetchedAt(k)' = FetchedAt(k) /\ FlightAt(k)' = FlightAt(k)
      BY <1>1, <1>4, <2>2 DEF FetchedAt, FlightAt
    <3> QED BY <1>1, <3>1, Bounds
  <2> QED BY <2>1, <2>2
<1> QED BY <1>1, <1>5, <1>6, OutsidePreserves

LEMMA ResetPreserves == IInv /\ ResetCache => IInv'
<1> SUFFICES ASSUME IInv, ResetCache PROVE IInv'
  OBVIOUS
<1>1. /\ job.at = "idle" /\ cache' = Cold /\ since' = chain.ver /\ flight = NoFlight
      /\ UNCHANGED <<chain, program, flight, state, authority, job>>
  BY DEF ResetCache
<1>2. TypeOK
  BY DEF IInv
<1>3. DOMAIN cache' = Key /\ \A k \in Key : cache'[k] = None /\ flight'[k] = NotFetched
  BY <1>1 DEF Cold, NoFlight
<1>4. TypeOK'
  BY <1>1, <1>2, <1>3 DEF TypeOK, Chain
<1>5. ASSUME NEW k \in Key
      PROVE  /\ FetchedAt(k) <= FetchedAt(k)'
             /\ since' <= FetchedAt(k)' /\ FetchedAt(k)' <= chain'.ver
             /\ since' <= FlightAt(k)' /\ FlightAt(k)' <= chain'.ver
  <2>1. FetchedAt(k)' = chain.ver /\ FlightAt(k)' = chain.ver
    BY <1>1, <1>3 DEF FetchedAt, FlightAt
  <2> QED BY <1>1, <2>1, Bounds
<1> QED BY <1>1, <1>4, <1>5, OutsidePreserves

LEMMA CallPreserves == IInv /\ Call => IInv'
<1> SUFFICES ASSUME IInv, Call PROVE IInv'
  OBVIOUS
<1> DEFINE warm == {k \in Key : cache[k] # None \/ flight[k] # NotFetched}
<1>1. /\ job' = [NoJob EXCEPT !.at = "round1", !.began = chain.ver, !.warm = warm,
                              !.prefetched = get_required_pubkeys_for_update]
      /\ chain' = chain /\ program' = program /\ cache' = cache /\ flight' = flight
      /\ since' = since /\ state' = state /\ authority' = authority
  BY DEF Call
<1>2. TypeOK /\ Times /\ Derived /\ Whole(state) /\ chain.ver \in 0 .. MaxVer
  BY DEF IInv, TypeOK, Chain
<1>3. /\ job'.at = "round1" /\ job'.began = chain.ver /\ job'.read = {} /\ job'.warm = warm
      /\ job'.prefetched = get_required_pubkeys_for_update /\ job'.next = NoState
  BY <1>1 DEF NoJob
<1>4. \/ get_required_pubkeys_for_update = {}
      \/ /\ state.source \in Deployment
         /\ get_required_pubkeys_for_update = KeysWith(state.source)
  BY <1>2 DEF get_required_pubkeys_for_update, Whole
<1>5. job' \in Job
  <2>1. get_required_pubkeys_for_update \in SUBSET Key /\ warm \in SUBSET Key
    BY <1>4, KeysTyped
  <2> HIDE DEF warm
  <2> QED BY <1>1, <1>2, <2>1, NoStateTyped DEF Job, NoJob
<1>6. TypeOK'
  BY <1>1, <1>2, <1>5 DEF TypeOK
<1>7. \A k \in Key : FetchedAt(k)' = FetchedAt(k) /\ FlightAt(k)' = FlightAt(k)
  BY <1>1 DEF FetchedAt, FlightAt
<1>8. Times' /\ Whole(state)'
  BY <1>1, <1>2, <1>7 DEF Times, Whole
<1>9. Reading'
  <2>1. ASSUME NEW k \in Key, k \notin warm
        PROVE  chain.ver <= FetchedAt(k) /\ chain.ver <= FlightAt(k)
    <3>1. FetchedAt(k) = chain.ver /\ FlightAt(k) = chain.ver
      BY <2>1 DEF FetchedAt, FlightAt
    <3> QED BY <1>2, <3>1
  <2> HIDE DEF warm
  <2> QED BY <1>3, <1>7, <2>1, NoStateTyped DEF Reading
<1>10. Stage' /\ Derived'
  BY <1>1, <1>2, <1>3 DEF Stage, Derived
<1>11. Announced'
  BY <1>3, <1>4 DEF Announced
<1> QED BY <1>6, <1>8, <1>9, <1>10, <1>11 DEF IInv

LEMMA Round1Preserves == IInv /\ Round1 => IInv'
<1> SUFFICES ASSUME IInv, Round1 PROVE IInv'
  OBVIOUS
<1> DEFINE a == Answer(PoolConfig)
           v == FetchedAt(PoolConfig)
<1>1. /\ job.at = "round1" /\ job.read = {} /\ TypeOK /\ Times /\ Derived
  BY DEF IInv, Round1, Stage
<1>2. PoolKeys \in SUBSET Key /\ PoolConfig \in PoolKeys /\ \A d : PoolKeys \subseteq KeysWith(d)
  BY KeysTyped DEF KeysWith
<1>3. v \in NotSeen .. MaxVer
  <2>1. v \in 0 .. MaxVer
    BY <1>1, <1>2, AnswerFacts
  <2> QED BY <2>1, UpdateAssumption DEF NotSeen
<1>4. authority \in NotSeen .. MaxVer
  BY <1>1 DEF TypeOK
<1>5. CASE Fail("NoAccountFound", PoolKeys) /\ authority' = authority
  BY <1>2, <1>4, <1>5, FailPreserves
<1>6. CASE Fail("MissingState", PoolKeys) /\ authority' = v
  BY <1>2, <1>3, <1>6, FailPreserves
<1>7. CASE /\ \A k \in PoolKeys : Answer(k) # None
           /\ a.data # NoSource /\ authority' = v
           /\ Continue("round2", PoolKeys, FromPoolConfig)
  <2>1. a.data \in Deployment
    <3>1. a \in Account(PoolConfig)
      BY <1>1, <1>2, <1>7, AnswerFacts
    <3>2. Data(PoolConfig) = Deployment \cup {NoSource}
      BY KeysTyped DEF Data
    <3> QED BY <1>7, <3>1, <3>2 DEF Account
  <2>2. Seen(PoolKeys) \in [Key -> NotSeen .. MaxVer]
    BY <1>1, <1>2, SeenFacts
  <2>3. /\ FromPoolConfig \in State /\ FromPoolConfig.source = a.data
        /\ FromPoolConfig.seen = Seen(PoolKeys)
    <3>1. FromPoolConfig = [NoState EXCEPT !.source = a.data, !.seen = Seen(PoolKeys)]
      BY DEF FromPoolConfig
    <3>2. NoState \in State
      BY NoStateTyped
    <3> HIDE DEF a
    <3> QED BY <2>1, <2>2, <3>1, <3>2 DEF State
  <2>4. Seen(PoolKeys)[PoolConfig] = v
    BY <1>2 DEF Seen
  <2>5. PoolKeys \cup job.read \subseteq KeysWith(FromPoolConfig.source)
    BY <1>1, <1>2
  <2> HIDE DEF a, v
  <2>6. /\ TypeOK' /\ Times' /\ Reading' /\ Derived' /\ Announced' /\ Whole(state)'
        /\ job'.at = "round2" /\ job'.next = FromPoolConfig /\ job'.read = job.read \cup PoolKeys
    BY <1>1, <1>2, <1>3, <1>7, <2>3, <2>4, <2>5, ContinueFrame
  <2>7. Stage'
    BY <1>1, <2>1, <2>3, <2>6 DEF Stage
  <2> QED BY <2>6, <2>7 DEF IInv
<1> QED BY <1>5, <1>6, <1>7 DEF Round1

LEMMA Round2Preserves == IInv /\ Round2 => IInv'
<1> SUFFICES ASSUME IInv, Round2 PROVE IInv'
  OBVIOUS
<1> DEFINE d == job.next.source
<1>1. /\ job.at = "round2" /\ job.read = PoolKeys /\ d \in Deployment /\ TypeOK /\ Derived
      /\ job.next \in State /\ authority' = authority
  BY DEF IInv, Round2, Stage, TypeOK, Job
<1>2. /\ Round2Keys \in SUBSET Key /\ Round2Keys \subseteq KeysWith(d)
      /\ PoolKeys \subseteq KeysWith(d) /\ PoolConfig \in PoolKeys
      /\ Round2Keys \cup PoolKeys = PoolAccounts(d)
  BY <1>1, KeysTyped DEF Round2Keys, KeysWith, PoolAccounts
<1>3. authority \in NotSeen .. MaxVer
  BY <1>1 DEF TypeOK
<1>4. CASE \E error \in {"NoAccountFound", "UnsupportedVenue", "MissingState"} :
             Fail(error, Round2Keys)
  BY <1>1, <1>2, <1>3, <1>4, FailPreserves
<1>5. CASE StrategyOf[d] # "Manual" /\ Continue("strategy", Round2Keys, WithStrategy)
  <2>1. Seen(Round2Keys) \in [Key -> NotSeen .. MaxVer]
    BY <1>1, <1>2, SeenFacts
  <2>2. StrategyOf[d] \in {"JupLend", "KaminoLend", "Manual"}
    BY <1>1, UpdateAssumption
  <2>3. /\ WithStrategy \in State /\ WithStrategy.source = d
        /\ WithStrategy.strategy = StrategyOf[d] /\ WithStrategy.seen = Seen(Round2Keys)
    <3>1. WithStrategy = [job.next EXCEPT !.strategy = StrategyOf[d], !.seen = Seen(Round2Keys)]
      BY DEF WithStrategy
    <3> QED BY <1>1, <2>1, <2>2, <3>1 DEF State
  <2>4. Seen(Round2Keys)[PoolConfig] = job.next.seen[PoolConfig]
    <3>1. PoolConfig \notin Round2Keys /\ PoolConfig \in Key
      BY KeysTyped DEF Round2Keys, StateKeys, PoolConfig, Fixed, Config, Ata
    <3> QED BY <3>1 DEF Seen
  <2>5. authority = job.next.seen[PoolConfig]
    BY <1>1 DEF Derived
  <2>6. Round2Keys \cup job.read \subseteq KeysWith(WithStrategy.source)
    BY <1>1, <1>2, <2>3
  <2>7. /\ TypeOK' /\ Times' /\ Reading' /\ Derived' /\ Announced' /\ Whole(state)'
        /\ job'.at = "strategy" /\ job'.next = WithStrategy
        /\ job'.read = job.read \cup Round2Keys
    BY <1>1, <1>2, <1>3, <1>5, <2>3, <2>4, <2>5, <2>6, ContinueFrame
  <2>8. job'.read = PoolAccounts(d)
    BY <1>1, <1>2, <2>7
  <2>9. Stage'
    BY <1>1, <1>5, <2>3, <2>7, <2>8 DEF Stage
  <2> QED BY <2>7, <2>9 DEF IInv
<1> QED BY <1>4, <1>5 DEF Round2

\* The strategy's accounts complete a snapshot, and the venue commits it.
LEMMA LastRound ==
  ASSUME IInv, job.at \in {"strategy", "obligation"}, NEW keys \in SUBSET Key,
         keys \cup job.read = KeysWith(job.next.source), PoolConfig \notin keys,
         Commit(keys, [job.next EXCEPT !.initialized = TRUE, !.seen = Seen(keys)]),
         authority' = authority
  PROVE  /\ IInv' /\ state'.initialized
         /\ \A k \in KeysWith(state'.source) : Fresh(state'.seen[k], k)
<1> DEFINE next == [job.next EXCEPT !.initialized = TRUE, !.seen = Seen(keys)]
<1>1. /\ job.next \in State /\ job.next.source \in Deployment
      /\ job.next.strategy = StrategyOf[job.next.source] /\ job.next.strategy # "Manual"
      /\ job.at # "idle"
  BY DEF IInv, Stage, TypeOK, Job
<1>2. /\ Seen(keys) \in [Key -> NotSeen .. MaxVer]
      /\ \A k \in Key : Seen(keys)[k] # NotSeen <=> k \in job.read \cup keys
  BY <1>1, SeenFacts
<1>3. /\ next \in State /\ next.initialized /\ next.source = job.next.source
      /\ next.strategy = job.next.strategy /\ next.seen = Seen(keys)
  BY <1>1, <1>2 DEF State
<1>4. state' = next
  BY DEF Commit
<1> HIDE DEF next
<1>5. Whole(next)
  BY <1>1, <1>2, <1>3 DEF Whole
<1>6. Commit(keys, next)
  BY DEF next
<1> QED BY <1>1, <1>3, <1>4, <1>5, <1>6, CommitFacts

LEMMA StrategyFrame ==
  ASSUME IInv, job.at \in {"strategy", "obligation"}
  PROVE  LET d == job.next.source IN
         /\ d \in Deployment /\ TypeOK /\ Derived /\ job.next \in State
         /\ Reserve(d) \in Key /\ Position(d) \in Key
         /\ PoolConfig \notin StrategyKeys(d) /\ StrategyKeys(d) = {Reserve(d), Position(d)}
         /\ KeysWith(d) = PoolAccounts(d) \cup StrategyKeys(d)
         /\ authority \in NotSeen .. MaxVer
<1> DEFINE d == job.next.source
<1>1. d \in Deployment /\ TypeOK /\ Derived /\ job.next \in State
  BY DEF IInv, Stage, TypeOK, Job
<1>2. /\ Reserve(d) \in Key /\ Position(d) \in Key /\ StrategyKeys(d) = {Reserve(d), Position(d)}
      /\ KeysWith(d) = PoolAccounts(d) \cup StrategyKeys(d)
  BY <1>1, KeysTyped
<1>3. PoolConfig \notin StrategyKeys(d)
  BY DEF StrategyKeys, PoolConfig, Fixed, Reserve, Position
<1>4. authority \in NotSeen .. MaxVer
  BY <1>1 DEF TypeOK
<1> QED BY <1>1, <1>2, <1>3, <1>4

LEMMA JupLendPreserves ==
  ASSUME IInv, JupLendUpdate
  PROVE  /\ IInv'
         /\ state' # state =>
              /\ state'.initialized
              /\ \A k \in KeysWith(state'.source) : Fresh(state'.seen[k], k)
<1> DEFINE d == job.next.source
           keys == StrategyKeys(d)
<1>1. /\ job.at = "strategy" /\ job.read = PoolAccounts(d) /\ authority' = authority
  BY DEF IInv, JupLendUpdate, Stage
<1>2. /\ keys \in SUBSET Key /\ keys \subseteq KeysWith(d) /\ keys \cup job.read = KeysWith(d)
      /\ PoolConfig \notin keys
      /\ authority \in NotSeen .. MaxVer
  BY <1>1, StrategyFrame
<1>3. CASE Fail("NoAccountFound", keys)
  <2>1. state' = state
    BY <1>3 DEF Fail
  <2> HIDE DEF keys
  <2> QED BY <1>1, <1>2, <1>3, <2>1, FailPreserves
<1>4. CASE Commit(keys, [job.next EXCEPT !.initialized = TRUE, !.seen = Seen(keys)])
  <2> HIDE DEF keys
  <2> QED BY <1>1, <1>2, <1>4, LastRound
<1> QED BY <1>3, <1>4 DEF JupLendUpdate

LEMMA KaminoReservePreserves == IInv /\ KaminoReserve => IInv'
<1> SUFFICES ASSUME IInv, KaminoReserve PROVE IInv'
  OBVIOUS
<1> DEFINE d == job.next.source
           keys == {Reserve(d)}
           next == [job.next EXCEPT !.seen = Seen(keys)]
<1>1. /\ job.at = "strategy" /\ job.read = PoolAccounts(d) /\ authority' = authority
      /\ job.next.strategy = StrategyOf[d] /\ job.next.strategy # "Manual"
  BY DEF IInv, KaminoReserve, Stage
<1>2. /\ d \in Deployment /\ TypeOK /\ Derived /\ job.next \in State
      /\ keys \in SUBSET Key /\ keys \subseteq KeysWith(d)
      /\ keys \cup job.read \subseteq KeysWith(d) /\ PoolConfig \notin keys
      /\ authority \in NotSeen .. MaxVer
  BY <1>1, StrategyFrame
<1>3. CASE Fail("NoAccountFound", keys)
  <2> HIDE DEF keys
  <2> QED BY <1>1, <1>2, <1>3, FailPreserves
<1>4. CASE Continue("obligation", keys, next)
  <2>1. Seen(keys) \in [Key -> NotSeen .. MaxVer]
    BY <1>1, <1>2, SeenFacts
  <2>2. /\ next \in State /\ next.source = d /\ next.strategy = job.next.strategy
        /\ next.seen = Seen(keys)
    BY <1>2, <2>1 DEF State
  <2>3. Seen(keys)[PoolConfig] = job.next.seen[PoolConfig]
    BY <1>2, KeysTyped DEF Seen
  <2>4. authority = job.next.seen[PoolConfig]
    BY <1>1, <1>2 DEF Derived
  <2> HIDE DEF next
  <2>5. /\ TypeOK' /\ Times' /\ Reading' /\ Derived' /\ Announced' /\ Whole(state)'
        /\ job'.at = "obligation" /\ job'.next = next /\ job'.read = job.read \cup keys
    <3> HIDE DEF keys
    <3> QED BY <1>1, <1>2, <1>4, <2>2, <2>3, <2>4, ContinueFrame
  <2>6. Stage'
    BY <1>1, <1>2, <2>2, <2>5 DEF Stage
  <2> QED BY <2>5, <2>6 DEF IInv
<1> QED BY <1>3, <1>4 DEF KaminoReserve

LEMMA KaminoObligationPreserves ==
  ASSUME IInv, KaminoObligation
  PROVE  /\ IInv'
         /\ state' # state =>
              /\ state'.initialized
              /\ \A k \in KeysWith(state'.source) : Fresh(state'.seen[k], k)
<1> DEFINE d == job.next.source
           keys == {Position(d)}
<1>1. /\ job.at = "obligation" /\ job.read = PoolAccounts(d) \cup {Reserve(d)}
      /\ authority' = authority
      /\ Commit(keys, [job.next EXCEPT !.initialized = TRUE, !.seen = Seen(keys)])
  BY DEF IInv, KaminoObligation, Stage
<1>2. keys \in SUBSET Key /\ keys \cup job.read = KeysWith(d) /\ PoolConfig \notin keys
  BY <1>1, StrategyFrame
<1> HIDE DEF keys
<1> QED BY <1>1, <1>2, LastRound

LEMMA StepPreserves == IInv /\ [Next]_vars => IInv'
<1> SUFFICES ASSUME IInv, [Next]_vars PROVE IInv'
  OBVIOUS
<1>1. CASE UNCHANGED vars
  BY <1>1, UnchangedPreserves DEF vars
<1>2. CASE CacheError
  <2>1. /\ Fail("FailedToFetch", {}) /\ authority' = authority
        /\ authority \in NotSeen .. MaxVer
    BY <1>2 DEF CacheError, IInv, TypeOK
  <2> QED BY <2>1, FailPreserves
<1>3. CASE Prefetch \/ \E k \in Shared : OtherVenueFetches(k) \/ OtherVenueStores(k)
  BY <1>3, PrefetchPreserves, FetchPreserves, StorePreserves
<1>4. CASE Change \/ ResetCache \/ Call
  BY <1>4, ChangePreserves, ResetPreserves, CallPreserves
<1>5. CASE Round1 \/ Round2 \/ KaminoReserve
  BY <1>5, Round1Preserves, Round2Preserves, KaminoReservePreserves
<1>6. CASE JupLendUpdate
  BY <1>6, JupLendPreserves
<1>7. CASE KaminoObligation
  BY <1>7, KaminoObligationPreserves
<1> QED
  BY <1>1, <1>2, <1>3, <1>4, <1>5, <1>6, <1>7 DEF Next

LEMMA Inductive == Spec => []IInv
BY InitEstablishes, StepPreserves, PTL DEF Spec

-----------------------------------------------------------------------------
\* Type correctness of update_state's rounds, for every chain.
THEOREM TypeCorrect == Spec => []TypeOK
BY Inductive, PTL DEF IInv

\* The snapshot quotes are made from is whole: it has every account of its own
\* liquidity source and none of another, whatever failed between the rounds and
\* whatever the cache held; pool_authority_key belongs to it after a success.
THEOREM SnapshotsCohere == Spec => []SnapshotCoherent
<1>1. IInv => SnapshotCoherent
  <2> SUFFICES ASSUME IInv, state.initialized PROVE SnapshotCoherent
    BY DEF SnapshotCoherent
  <2>1. /\ state.source \in Deployment
        /\ state.strategy = StrategyOf[state.source] /\ state.strategy # "Manual"
        /\ \A k \in Key : state.seen[k] # NotSeen <=> k \in KeysWith(state.source)
        /\ job.at = "idle" /\ job.error = "none" => authority = state.seen[PoolConfig]
    BY DEF IInv, Whole, Derived
  <2>2. {k \in Key : state.seen[k] # NotSeen} = KeysWith(state.source)
    BY <2>1, KeysTyped
  <2> QED BY <2>1, <2>2 DEF SnapshotCoherent
<1> QED BY <1>1, Inductive, PTL

\* The keys announced by get_required_pubkeys_for_update cover the next update
\* whenever the liquidity source did not change.
THEOREM PrefetchCovers == Spec => []PrefetchCoversSameSource
<1>1. IInv => PrefetchCoversSameSource
  BY ConfigNamesDeployment DEF IInv, Announced, PrefetchCoversSameSource
<1> QED BY <1>1, Inductive, PTL

\* Through the cache, a commit brings nothing from before its last reset, nothing
\* from before the call but what was cached or in flight by then, and no account
\* goes back unless other venues read it too.
THEOREM UpdatesAreFresh == Spec => CommitsFresh
<1> DEFINE Ok == state' # state =>
                   /\ state'.initialized
                   /\ \A k \in KeysWith(state'.source) :
                        /\ state'.seen[k] >= since
                        /\ k \notin job.warm => state'.seen[k] >= job.began
                        /\ k \notin Shared => state'.seen[k] >= state.seen[k]
<1>1. IInv /\ [Next]_vars => [Ok]_vars
  <2> SUFFICES ASSUME IInv, Next, state' # state PROVE Ok
    BY DEF vars
  <2>1. JupLendUpdate \/ KaminoObligation
    BY DEF Next, Change, Prefetch, OtherVenueFetches, OtherVenueStores, ResetCache, Call, CacheError, Round1,
           Round2, KaminoReserve, Fail, Continue
  <2>2. /\ IInv' /\ state'.initialized
        /\ \A k \in KeysWith(state'.source) : Fresh(state'.seen[k], k)
    BY <2>1, JupLendPreserves, KaminoObligationPreserves
  <2>3. ASSUME NEW k \in KeysWith(state'.source)
        PROVE  /\ state'.seen[k] >= since
               /\ k \notin Shared => state'.seen[k] >= state.seen[k]
               /\ k \notin job.warm => state'.seen[k] >= job.began
    <3>1. k \in Key
      <4>1. Whole(state)' /\ state'.initialized
        BY <2>2 DEF IInv
      <4>2. state'.source \in Deployment
        BY <4>1 DEF Whole
      <4> QED BY <2>3, <4>2, KeysTyped
    <3>2. since \in Int /\ state.seen[k] \in Int /\ job.began \in Int
      BY <3>1, VersionsTyped DEF IInv
    <3>3. state'.seen[k] \in Int
      <4>1. state' \in State
        BY <2>2 DEF IInv, TypeOK
      <4> QED BY <3>1, <4>1, UpdateAssumption DEF State, NotSeen
    <3>4. Fresh(state'.seen[k], k)
      BY <2>2, <2>3
    <3> QED BY <3>2, <3>3, <3>4 DEF Fresh
  <2> QED BY <2>2, <2>3
<1> QED BY <1>1, Inductive, PTL DEF Spec, CommitsFresh
=============================================================================
