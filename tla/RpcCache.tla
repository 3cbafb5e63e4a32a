------------------------------ MODULE RpcCache ------------------------------
(***************************************************************************)
(* RpcClientCache (src/src/account_caching/rpc_cache.rs): an account cache *)
(* shared by concurrent tasks, filled from an RPC node while the chain     *)
(* moves on.  One step is one access to the shared DashMap or one end of   *)
(* an RPC call, so calls interleave between any two of them.               *)
(***************************************************************************)
EXTENDS Integers, Sequences

CONSTANTS
  Key,       \* account addresses
  Task,      \* tasks that hold a shared reference to the cache
  Requests,  \* the key lists asked for (one key: get_account is possible too)
  MaxVer     \* bound on the number of writes to an account

\* An account on the chain: whether it exists, and how often it was written.
Account == [exists : BOOLEAN, ver : 0 .. MaxVer]

ASSUME CacheAssumption ==
  /\ MaxVer \in Nat
  /\ \A r \in Requests : r \in Seq(Key) /\ Len(r) > 0

VARIABLES
  chain,  \* the accounts on the chain
  cache,  \* the DashMap: a function whose domain is the keys it holds
  task,   \* what each task is doing
  past    \* the states the chain went through since the last reset_cache

vars == <<chain, cache, task, past>>

Idle == "idle"

\* get is the method, at the position in keys, found is result_map, misses the
\* keys to fetch, answer the RPC response, status and result what was returned;
\* alone is a history variable: no other call was in flight since this one began.
Task0 == [pc |-> Idle, get |-> "many", keys |-> << >>, at |-> 1,
          found |-> << >>, misses |-> << >>, answer |-> << >>,
          status |-> "none", result |-> << >>, alone |-> TRUE]

\* map.insert(k, v)
Insert(map, k, v) ==
  [x \in DOMAIN map \cup {k} |-> IF x = k THEN v ELSE map[x]]

Init ==
  /\ chain \in [Key -> [exists : BOOLEAN, ver : {0}]]
  /\ cache = << >>
  /\ task = [t \in Task |-> Task0]
  /\ past = {chain}

\* The chain moves on (external): an account is written, created or deleted.
Write(k) ==
  /\ chain[k].ver < MaxVer
  /\ \E e \in BOOLEAN :
       chain' = [chain EXCEPT ![k] = [exists |-> e, ver |-> @.ver + 1]]
  /\ past' = past \cup {chain'}
  /\ UNCHANGED <<cache, task>>

\* reset_cache takes &mut self: no call can be in flight.
NoCallInFlight == \A t \in Task : task[t].pc = Idle

\* Fault: reset_cache takes &self, so calls in flight outlive it.
ResetCache_Shared ==
  /\ cache' = << >>
  /\ task' = [t \in Task |-> IF task[t].pc = Idle THEN Task0 ELSE task[t]]
  /\ past' = {chain}
  /\ UNCHANGED chain

ResetCache ==
  /\ NoCallInFlight
  /\ cache' = << >>
  /\ task' = [t \in Task |-> Task0]   \* results were consumed
  /\ past' = {chain}
  /\ UNCHANGED chain

Call(t) ==
  /\ task[t].pc = Idle
  /\ \E r \in Requests, g \in {"one", "many"} :
       /\ g = "one" => Len(r) = 1
       /\ task' = [u \in Task |->
            IF u = t THEN [Task0 EXCEPT !.pc = "lookup", !.get = g, !.keys = r,
                                        !.alone = NoCallInFlight]
            ELSE [task[u] EXCEPT !.alone = task[u].pc = Idle]]
  /\ UNCHANGED <<chain, cache, past>>

\* What a call leaves behind is its request and its result.
Returned(s, result) ==
  [Task0 EXCEPT !.keys = s.keys, !.status = "ok", !.result = result]

Failed(s) == [Task0 EXCEPT !.keys = s.keys, !.status = "FailedToFetchAccount"]

\* get_account looks its key up: a cached None is an answer.
LookupOne(t) ==
  LET s == task[t]
      k == s.keys[1]
  IN  /\ s.pc = "lookup" /\ s.get = "one"
      /\ task' = [task EXCEPT ![t] =
                    IF k \in DOMAIN cache
                    THEN Returned(s, << cache[k] >>)
                    ELSE [s EXCEPT !.misses = << k >>, !.pc = "fetch"]]
      /\ UNCHANGED <<chain, cache, past>>

\* get_accounts: get_multiple reports None for absent and for known-missing
\* keys alike, so both are fetched.
Hit(k) == k \in DOMAIN cache /\ cache[k].exists

LookupMany(t) ==
  LET s == task[t]
      k == s.keys[s.at]
      next == IF s.at < Len(s.keys) THEN "lookup" ELSE "looked_up"
  IN  /\ s.pc = "lookup" /\ s.get = "many"
      /\ task' = [task EXCEPT ![t] =
                    IF Hit(k)
                    THEN [s EXCEPT !.at = @ + 1, !.pc = next,
                                   !.found = Insert(@, k, cache[k])]
                    ELSE [s EXCEPT !.at = @ + 1, !.pc = next,
                                   !.misses = Append(@, k)]]
      /\ UNCHANGED <<chain, cache, past>>

\* Fault: the answers are handed back in the reverse order.
Reassemble_Reversed(s) ==
  [n \in 1 .. Len(s.keys) |-> s.found[s.keys[Len(s.keys) - n + 1]]]

\* result_map.get(pubkey).unwrap() for every key asked for, in its order.
Reassemble(s) == [n \in 1 .. Len(s.keys) |-> s.found[s.keys[n]]]

\* Either nothing has to be fetched, or one RPC call goes out for all misses.
LookedUp(t) ==
  LET s == task[t]
  IN  /\ s.pc = "looked_up"
      /\ task' = [task EXCEPT ![t] =
                    IF s.misses = << >> THEN Returned(s, Reassemble(s))
                    ELSE [s EXCEPT !.pc = "fetch"]]
      /\ UNCHANGED <<chain, cache, past>>

\* The RPC node reads all requested accounts at one moment (external); for
\* get_account a missing account is an error of the RPC client.
RpcRead(t) ==
  LET s == task[t]
  IN  /\ s.pc = "fetch"
      /\ task' = [task EXCEPT ![t] =
                    IF s.get = "one" /\ ~chain[s.keys[1]].exists
                    THEN Failed(s)
                    ELSE [s EXCEPT !.pc = "store", !.at = 1,
                            !.answer = [n \in 1 .. Len(s.misses) |-> chain[s.misses[n]]]]]
      /\ UNCHANGED <<chain, cache, past>>

\* Fault: an RPC error starts the call over.
RpcError_Retries(t) ==
  /\ task[t].pc = "fetch"
  /\ task' = [task EXCEPT ![t] = [Task0 EXCEPT !.pc = "lookup", !.get = task[t].get,
                                               !.keys = task[t].keys, !.alone = task[t].alone]]
  /\ UNCHANGED <<chain, cache, past>>

RpcError(t) ==
  /\ task[t].pc = "fetch"
  /\ task' = [task EXCEPT ![t] = Failed(@)]
  /\ UNCHANGED <<chain, cache, past>>

\* Fault: keys and answers are zipped in opposite orders.
Answered_Misaligned(s) == s.answer[Len(s.misses) - s.at + 1]

\* The zip of the misses with the response.
Answered(s) == s.answer[s.at]

\* The response arrives and is stored key by key, whatever the cache holds by
\* then; the last insert is followed by the return.
Store(t) ==
  LET s == task[t]
      k == s.misses[s.at]
      v == Answered(s)
      stored == [s EXCEPT !.at = @ + 1, !.found = Insert(@, k, v)]
  IN  /\ s.pc = "store"
      /\ cache' = Insert(cache, k, v)
      /\ task' = [task EXCEPT ![t] =
                    IF s.at < Len(s.misses) THEN stored
                    ELSE Returned(stored, Reassemble(stored))]
      /\ UNCHANGED <<chain, past>>

Next ==
  \/ \E k \in Key : Write(k)
  \/ ResetCache
  \/ \E t \in Task : \/ Call(t) \/ LookupOne(t) \/ LookupMany(t) \/ LookedUp(t)
                     \/ RpcRead(t) \/ RpcError(t) \/ Store(t)

Spec == Init /\ [][Next]_vars

\* A task that is awaited keeps running, and the RPC client answers or times out.
FairSpec ==
  /\ Spec
  /\ \A t \in Task : /\ WF_vars(LookupOne(t)) /\ WF_vars(LookupMany(t))
                     /\ WF_vars(LookedUp(t)) /\ WF_vars(Store(t))
                     /\ WF_vars(RpcRead(t) \/ RpcError(t))

-----------------------------------------------------------------------------
\* Every value in the cache was on the chain at some moment since reset_cache:
\* no response fetched before a reset is stored after it.
NothingSurvivesReset ==
  \A k \in DOMAIN cache : \E c \in past : c[k] = cache[k]

\* The result a call returns has one entry for each key, in the order asked,
\* and every entry was on the chain since the reset.
AnswersRequest ==
  \A t \in Task : task[t].status = "ok" =>
    /\ Len(task[t].result) = Len(task[t].keys)
    /\ \A n \in 1 .. Len(task[t].keys) :
         \E c \in past : task[t].result[n] = c[task[t].keys[n]]

\* Every call returns.
CallsReturn == \A t \in Task : task[t].pc # Idle ~> task[t].pc = Idle

\* A cache entry goes back in its account's history only by a store of a call that
\* overlapped another one (two racing calls may store the older answer last).
CacheMonotone ==
  [][\A k \in DOMAIN cache \cap DOMAIN cache' :
       \/ cache'[k].ver >= cache[k].ver
       \/ \E t \in Task : ~task[t].alone /\ task[t].pc = "store"
                            /\ task'[t] # task[t]]_vars

\* The cache's doc: storing None "avoids retrying missing accounts on every
\* request", so a key known to be missing is not fetched again.
DocMissingNotRetried ==
  [][\A t \in Task : LookupMany(t) =>
       \A k \in DOMAIN cache :
         k = task[t].keys[task[t].at] => task'[t].misses = task[t].misses]_vars
=============================================================================
