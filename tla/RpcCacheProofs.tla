--------------------------- MODULE RpcCacheProofs ---------------------------
(***************************************************************************)
(* Proofs about RpcCache for every set of accounts, tasks and requests and *)
(* every interleaving of their calls with the chain.                       *)
(***************************************************************************)
EXTENDS RpcCache, TLAPS

Maps == UNION {[S -> Account] : S \in SUBSET Key}

TaskState ==
  [pc : {Idle, "lookup", "looked_up", "fetch", "store"}, get : {"one", "many"},
   keys : Seq(Key), at : Nat, found : Maps, misses : Seq(Key),
   answer : Seq(Account), status : {"none", "ok", "FailedToFetchAccount"},
   result : Seq(Account), alone : BOOLEAN]

\* One of the chain states in p had v for account k.
Known(p, k, v) == \E c \in p : c[k] = v

AllKnown(p, map) == \A k \in DOMAIN map : Known(p, k, map[k])

\* How many of the requested keys the lookups have dealt with.
Done(s) == IF s.pc = "lookup" THEN s.at - 1 ELSE Len(s.keys)

Missed(s, k) == \E j \in 1 .. Len(s.misses) : s.misses[j] = k

\* A key that was looked up is in result_map or among those to fetch.
Covered(s) == \A n \in 1 .. Done(s) : s.keys[n] \in DOMAIN s.found \/ Missed(s, s.keys[n])

\* The response is one read of the misses, and the loop over it keeps its place.
Responded(s, p) ==
  /\ Len(s.answer) = Len(s.misses) /\ s.at \in 1 .. Len(s.misses)
  /\ \A n \in 1 .. Len(s.misses) : Known(p, s.misses[n], s.answer[n])
  /\ \A i, j \in 1 .. Len(s.misses) : s.misses[i] = s.misses[j] => s.answer[i] = s.answer[j]
  /\ \A n \in 1 .. s.at - 1 : s.misses[n] \in DOMAIN s.found

\* What a task knows at each point of a call, relative to the chain states p.
TaskOk(s, p) ==
  /\ AllKnown(p, s.found)
  /\ s.pc # Idle => Covered(s)
  /\ s.pc = "lookup" => /\ s.at \in 1 .. Len(s.keys)
                        /\ s.get = "one" => s.at = 1 /\ Len(s.keys) = 1 /\ s.misses = << >>
  /\ s.pc = "fetch" => s.misses # << >>
  /\ s.pc = "store" => Responded(s, p)
  /\ s.status = "ok" =>
       /\ Len(s.result) = Len(s.keys)
       /\ \A n \in 1 .. Len(s.keys) : Known(p, s.keys[n], s.result[n])

\* What a task that runs alone has still to store is no older than the cache.
Fresh(s, c) ==
  s.pc = "store" /\ s.alone =>
    \A n \in s.at .. Len(s.misses) :
      s.misses[n] \in DOMAIN c => s.answer[n].ver >= c[s.misses[n]].ver

\* The recorded chain states are no newer than the chain, which is one of them.
History ==
  /\ chain \in past /\ past \subseteq [Key -> Account]
  /\ \A c \in past, k \in Key : c[k].ver <= chain[k].ver

\* A call marked alone has no other call in flight.
Solo ==
  \A t, u \in Task : task[t].pc # Idle /\ task[t].alone /\ u # t => task[u].pc = Idle

CInv ==
  /\ History
  /\ cache \in Maps /\ AllKnown(past, cache)
  /\ task \in [Task -> TaskState]
  /\ \A t \in Task : TaskOk(task[t], past) /\ Fresh(task[t], cache)
  /\ Solo

-----------------------------------------------------------------------------
\* Insert adds or replaces one entry.
LEMMA InsertFacts ==
  ASSUME NEW map \in Maps, NEW k \in Key, NEW v \in Account
  PROVE  /\ Insert(map, k, v) \in Maps
         /\ DOMAIN Insert(map, k, v) = DOMAIN map \cup {k}
         /\ Insert(map, k, v)[k] = v
         /\ \A x \in DOMAIN map : x # k => Insert(map, k, v)[x] = map[x]
<1>1. PICK S \in SUBSET Key : map \in [S -> Account]
  BY DEF Maps
<1>2. Insert(map, k, v) \in [S \cup {k} -> Account]
  BY <1>1 DEF Insert
<1>3. S \cup {k} \in SUBSET Key
  BY <1>1
<1> QED BY <1>1, <1>2, <1>3 DEF Insert, Maps

LEMMA MapFacts ==
  ASSUME NEW map \in Maps
  PROVE  DOMAIN map \subseteq Key /\ \A k \in DOMAIN map : map[k] \in Account
BY DEF Maps

\* What was known stays known while the history grows.
LEMMA KnownGrows ==
  ASSUME NEW p, NEW p2, p \subseteq p2, NEW s, TaskOk(s, p)
  PROVE  TaskOk(s, p2)
BY DEF TaskOk, AllKnown, Known, Responded

\* A map stays known with an entry that is known.
LEMMA InsertKnown ==
  ASSUME NEW p, NEW map \in Maps, AllKnown(p, map),
         NEW k \in Key, NEW v \in Account, Known(p, k, v)
  PROVE  AllKnown(p, Insert(map, k, v))
<1> SUFFICES ASSUME NEW x \in DOMAIN Insert(map, k, v)
             PROVE  Known(p, x, Insert(map, k, v)[x])
  BY DEF AllKnown
<1>1. /\ DOMAIN Insert(map, k, v) = DOMAIN map \cup {k} /\ Insert(map, k, v)[k] = v
      /\ \A y \in DOMAIN map : y # k => Insert(map, k, v)[y] = map[y]
  BY InsertFacts
<1>2. CASE x = k
  BY <1>1, <1>2
<1>3. CASE x # k
  BY <1>1, <1>3 DEF AllKnown
<1> QED BY <1>2, <1>3

\* A task before its first call.
LEMMA IdleTask == Task0 \in TaskState /\ \A p, c : TaskOk(Task0, p) /\ Fresh(Task0, c)
<1>1. << >> \in Maps /\ DOMAIN << >> = {}
  <2>1. << >> \in [{} -> Account]
    OBVIOUS
  <2> QED BY <2>1 DEF Maps
<1>2. Task0 \in TaskState
  BY <1>1 DEF Task0, TaskState, Idle
<1> QED BY <1>1, <1>2 DEF Task0, TaskOk, Fresh, AllKnown, Idle

\* The results of a call are known when every key has a known value in result_map.
LEMMA ReturnedOk ==
  ASSUME NEW p, NEW s \in TaskState, AllKnown(p, s.found),
         \A n \in 1 .. Len(s.keys) : s.keys[n] \in DOMAIN s.found
  PROVE  /\ Returned(s, Reassemble(s)) \in TaskState
         /\ TaskOk(Returned(s, Reassemble(s)), p)
         /\ Returned(s, Reassemble(s)).pc = Idle
<1> DEFINE r == Reassemble(s)
<1>1. s.keys \in Seq(Key) /\ s.found \in Maps /\ Len(s.keys) \in Nat
  BY DEF TaskState
<1>2. \A n \in 1 .. Len(s.keys) : s.found[s.keys[n]] \in Account
  BY <1>1, MapFacts
<1>3. r \in Seq(Account) /\ Len(r) = Len(s.keys)
      /\ \A n \in 1 .. Len(s.keys) : r[n] = s.found[s.keys[n]]
  BY <1>1, <1>2 DEF Reassemble
<1> HIDE DEF r
<1>4. Returned(s, r) \in TaskState
  BY <1>1, <1>3, IdleTask DEF Returned, TaskState
<1>5. /\ Returned(s, r).pc = Idle /\ Returned(s, r).keys = s.keys
      /\ Returned(s, r).result = r /\ Returned(s, r).found = << >>
  BY DEF Returned, Task0
<1>6. TaskOk(Returned(s, r), p)
  BY <1>3, <1>5 DEF TaskOk, AllKnown, Idle
<1> QED BY <1>4, <1>5, <1>6 DEF r

LEMMA FailedOk ==
  ASSUME NEW p, NEW s \in TaskState
  PROVE  Failed(s) \in TaskState /\ TaskOk(Failed(s), p) /\ Failed(s).pc = Idle
<1>1. s.keys \in Seq(Key)
  BY DEF TaskState
<1>2. /\ Failed(s).pc = Idle /\ Failed(s).found = << >>
      /\ Failed(s).status = "FailedToFetchAccount"
  BY DEF Failed, Task0
<1>3. Failed(s) \in TaskState
  BY <1>1, IdleTask DEF Failed, TaskState
<1> QED BY <1>2, <1>3 DEF TaskOk, AllKnown, Idle

\* A step of one task that only changes that task.
LEMMA TaskStep ==
  ASSUME CInv, NEW t \in Task, NEW s \in TaskState,
         task' = [task EXCEPT ![t] = s], UNCHANGED <<chain, past, cache>>,
         TaskOk(s, past), Fresh(s, cache),
         s.pc # Idle => task[t].pc # Idle /\ s.alone = task[t].alone
  PROVE  CInv'
<1>1. task' \in [Task -> TaskState]
  BY DEF CInv
<1>2. \A u \in Task : task'[u] = IF u = t THEN s ELSE task[u]
  BY DEF CInv
<1>3. \A u \in Task : TaskOk(task'[u], past) /\ Fresh(task'[u], cache)
  BY <1>2 DEF CInv
<1>4. Solo'
  BY <1>2 DEF CInv, Solo
<1> QED BY <1>1, <1>3, <1>4 DEF CInv, History

-----------------------------------------------------------------------------
LEMMA InitCInv == Init => CInv
<1> SUFFICES ASSUME Init PROVE CInv
  OBVIOUS
<1>1. chain \in [Key -> Account] /\ \A k \in Key : chain[k].ver = 0
  BY CacheAssumption DEF Init, Account
<1>2. History
  BY <1>1 DEF Init, History
<1>3. cache \in Maps /\ AllKnown(past, cache)
  <2>1. << >> \in [{} -> Account]
    OBVIOUS
  <2> QED BY <2>1 DEF Init, Maps, AllKnown
<1>4. task \in [Task -> TaskState]
      /\ \A t \in Task : TaskOk(task[t], past) /\ Fresh(task[t], cache)
  BY IdleTask DEF Init
<1>5. Solo
  BY DEF Init, Solo, Task0
<1> QED BY <1>2, <1>3, <1>4, <1>5 DEF CInv
-----------------------------------------------------------------------------
LEMMA WriteCInv ==
  ASSUME CInv, NEW k \in Key, Write(k)
  PROVE  CInv'
<1>1. PICK e \in BOOLEAN : chain' = [chain EXCEPT ![k] = [exists |-> e, ver |-> @.ver + 1]]
  BY DEF Write
<1>2. /\ chain[k].ver < MaxVer /\ past' = past \cup {chain'} /\ UNCHANGED <<cache, task>>
  BY DEF Write
<1>3. /\ chain \in [Key -> Account] /\ chain \in past /\ past \subseteq [Key -> Account]
      /\ \A c \in past, x \in Key : c[x].ver <= chain[x].ver
  BY DEF CInv, History
<1>4. chain[k].ver \in 0 .. MaxVer /\ MaxVer \in Nat
  BY <1>3, CacheAssumption DEF Account
<1>5. [exists |-> e, ver |-> chain[k].ver + 1] \in Account
  BY <1>2, <1>4 DEF Account
<1>6. chain' \in [Key -> Account]
  BY <1>1, <1>3, <1>5
<1>7. \A x \in Key : chain'[x].ver >= chain[x].ver /\ chain'[x].ver \in Nat /\ chain[x].ver \in Nat
  <2> SUFFICES ASSUME NEW x \in Key
               PROVE  chain'[x].ver >= chain[x].ver /\ chain'[x].ver \in Nat /\ chain[x].ver \in Nat
    OBVIOUS
  <2>1. chain[x].ver \in Nat /\ chain'[x].ver \in Nat
    BY <1>3, <1>6 DEF Account
  <2>2. chain'[x].ver = IF x = k THEN chain[x].ver + 1 ELSE chain[x].ver
    BY <1>1, <1>3
  <2> QED BY <2>1, <2>2
<1>8. \A c \in past', x \in Key : c[x].ver <= chain'[x].ver
  <2> SUFFICES ASSUME NEW c \in past, NEW x \in Key PROVE c[x].ver <= chain'[x].ver
    BY <1>2, <1>7
  <2>1. c[x].ver \in Nat /\ c[x].ver <= chain[x].ver
    BY <1>3 DEF Account
  <2> QED BY <1>7, <2>1
<1>9. History'
  BY <1>2, <1>3, <1>6, <1>8 DEF History
<1>10. \A u \in Task : TaskOk(task[u], past') /\ Fresh(task[u], cache)
  BY <1>2, KnownGrows DEF CInv
<1>11. AllKnown(past', cache)
  BY <1>2 DEF CInv, AllKnown, Known
<1>12. Solo'
  BY <1>2 DEF CInv, Solo
<1> QED BY <1>2, <1>9, <1>10, <1>11, <1>12 DEF CInv

LEMMA ResetCInv ==
  ASSUME CInv, ResetCache
  PROVE  CInv'
<1>1. /\ cache' = << >> /\ task' = [t \in Task |-> Task0] /\ past' = {chain} /\ chain' = chain
  BY DEF ResetCache
<1>2. History'
  BY <1>1 DEF CInv, History
<1>3. cache' \in Maps /\ AllKnown(past', cache')
  <2>1. << >> \in [{} -> Account]
    OBVIOUS
  <2> QED BY <1>1, <2>1 DEF Maps, AllKnown
<1>4. task' \in [Task -> TaskState]
      /\ \A t \in Task : TaskOk(task'[t], past') /\ Fresh(task'[t], cache')
  BY <1>1, IdleTask
<1>5. Solo'
  BY <1>1 DEF Solo, Task0
<1> QED BY <1>2, <1>3, <1>4, <1>5 DEF CInv

\* A call that starts ends the solitude of the calls in flight.
LEMMA CallCInv ==
  ASSUME CInv, NEW t \in Task, Call(t)
  PROVE  CInv'
<1>1. PICK r \in Requests, g \in {"one", "many"} :
        /\ g = "one" => Len(r) = 1
        /\ task' = [u \in Task |->
             IF u = t THEN [Task0 EXCEPT !.pc = "lookup", !.get = g, !.keys = r,
                                         !.alone = NoCallInFlight]
             ELSE [task[u] EXCEPT !.alone = task[u].pc = Idle]]
  BY DEF Call
<1>2. task[t].pc = Idle /\ UNCHANGED <<chain, cache, past>>
  BY DEF Call
<1>3. r \in Seq(Key) /\ Len(r) > 0 /\ Len(r) \in Nat
  BY CacheAssumption
<1> DEFINE s == [Task0 EXCEPT !.pc = "lookup", !.get = g, !.keys = r, !.alone = NoCallInFlight]
           w(u) == [task[u] EXCEPT !.alone = task[u].pc = Idle]
<1>4. NoCallInFlight \in BOOLEAN
  BY DEF NoCallInFlight
<1>5. s \in TaskState
  BY <1>3, <1>4, IdleTask DEF TaskState
<1>6. /\ s.pc = "lookup" /\ s.get = g /\ s.keys = r /\ s.at = 1 /\ s.found = << >>
      /\ s.misses = << >> /\ s.status = "none" /\ s.alone = NoCallInFlight
  BY DEF Task0
<1>7. \A u \in Task :
        /\ w(u) \in TaskState /\ w(u).pc = task[u].pc /\ w(u).at = task[u].at
        /\ w(u).get = task[u].get /\ w(u).keys = task[u].keys /\ w(u).found = task[u].found
        /\ w(u).misses = task[u].misses /\ w(u).answer = task[u].answer
        /\ w(u).status = task[u].status /\ w(u).result = task[u].result
        /\ w(u).alone = (task[u].pc = Idle)
  <2> SUFFICES ASSUME NEW u \in Task, task[u] \in TaskState
               PROVE  /\ w(u) \in TaskState /\ w(u).pc = task[u].pc /\ w(u).at = task[u].at
                      /\ w(u).get = task[u].get /\ w(u).keys = task[u].keys /\ w(u).found = task[u].found
                      /\ w(u).misses = task[u].misses /\ w(u).answer = task[u].answer
                      /\ w(u).status = task[u].status /\ w(u).result = task[u].result
                      /\ w(u).alone = (task[u].pc = Idle)
    BY DEF CInv
  <2> QED BY DEF TaskState
<1>8. \A u \in Task : task'[u] = IF u = t THEN s ELSE w(u)
  BY <1>1
<1> HIDE DEF s, w
<1>9. TaskOk(s, past) /\ Fresh(s, cache)
  <2>1. AllKnown(past, s.found)
    BY <1>6 DEF AllKnown
  <2>2. Covered(s)
    BY <1>6 DEF Covered, Done
  <2> QED BY <1>1, <1>3, <1>6, <2>1, <2>2 DEF TaskOk, Fresh, Idle
<1>10. ASSUME NEW u \in Task PROVE TaskOk(w(u), past) /\ Fresh(w(u), cache)
  <2>1. TaskOk(task[u], past)
    BY DEF CInv
  <2>2. TaskOk(w(u), past)
    <3>1. Covered(w(u)) <=> Covered(task[u])
      BY <1>7 DEF Covered, Done, Missed
    <3>2. Responded(w(u), past) <=> Responded(task[u], past)
      <4>1. /\ w(u).misses = task[u].misses /\ w(u).answer = task[u].answer
            /\ w(u).found = task[u].found /\ w(u).at = task[u].at
        BY <1>7
      <4>2. Responded(w(u), past) => Responded(task[u], past)
        BY <4>1 DEF Responded
      <4>3. Responded(task[u], past) => Responded(w(u), past)
        BY <4>1 DEF Responded
      <4> QED BY <4>2, <4>3
    <3> QED BY <1>7, <2>1, <3>1, <3>2 DEF TaskOk
  <2>3. Fresh(w(u), cache)
    BY <1>7 DEF Fresh, Idle
  <2> QED BY <2>2, <2>3
<1>11. task' \in [Task -> TaskState]
  <2>1. \A u \in Task : (IF u = t THEN s ELSE w(u)) \in TaskState
    BY <1>5, <1>7
  <2> QED BY <1>1, <2>1 DEF s, w
<1>12. Solo'
  <2> SUFFICES ASSUME NEW u \in Task, NEW x \in Task, task'[u].pc # Idle, task'[u].alone, x # u
               PROVE  task'[x].pc = Idle
    BY DEF Solo
  <2>1. CASE u = t
    BY <1>6, <1>7, <1>8, <2>1 DEF NoCallInFlight
  <2>2. CASE u # t
    BY <1>7, <1>8, <2>2
  <2> QED BY <2>1, <2>2
<1>13. History' /\ cache' \in Maps /\ AllKnown(past', cache')
  BY <1>2 DEF CInv, History
<1> QED BY <1>2, <1>8, <1>9, <1>10, <1>11, <1>12, <1>13 DEF CInv
-----------------------------------------------------------------------------
LEMMA LookupOneCInv ==
  ASSUME CInv, NEW t \in Task, LookupOne(t)
  PROVE  CInv'
<1> DEFINE s == task[t]
           k == s.keys[1]
<1>1. s \in TaskState /\ TaskOk(s, past) /\ s.pc = "lookup" /\ s.get = "one"
  BY DEF CInv, LookupOne
<1>2. /\ Len(s.keys) = 1 /\ s.at = 1 /\ s.keys \in Seq(Key) /\ k \in Key
      /\ AllKnown(past, s.found) /\ s.found \in Maps
  BY <1>1 DEF TaskOk, TaskState
<1>3. UNCHANGED <<chain, cache, past>>
  BY DEF LookupOne
<1>4. CASE k \in DOMAIN cache
  <2> DEFINE r == << cache[k] >>
             n == Returned(s, r)
  <2>1. task' = [task EXCEPT ![t] = n]
    BY <1>4 DEF LookupOne
  <2>2. cache[k] \in Account /\ Known(past, k, cache[k])
    BY <1>4, MapFacts DEF CInv, AllKnown
  <2>3. r \in Seq(Account) /\ Len(r) = 1 /\ r[1] = cache[k]
    BY <2>2
  <2>4. /\ n.pc = Idle /\ n.keys = s.keys /\ n.result = r /\ n.found = << >>
    BY DEF Returned, Task0
  <2> HIDE DEF r, s
  <2>5. n \in TaskState
    BY <1>2, <2>3, IdleTask DEF Returned, TaskState
  <2> HIDE DEF n, k
  <2>6. TaskOk(n, past) /\ Fresh(n, cache)
    <3>1. \A j \in 1 .. Len(n.keys) : Known(past, n.keys[j], n.result[j])
      BY <1>2, <2>2, <2>3, <2>4 DEF k
    <3> QED BY <1>2, <2>3, <2>4, <3>1 DEF TaskOk, AllKnown, Fresh, Idle
  <2> QED BY <1>3, <2>1, <2>4, <2>5, <2>6, TaskStep
<1>5. CASE k \notin DOMAIN cache
  <2> DEFINE n == [s EXCEPT !.misses = << k >>, !.pc = "fetch"]
  <2>1. task' = [task EXCEPT ![t] = n]
    BY <1>5 DEF LookupOne
  <2>2. << k >> \in Seq(Key) /\ Len(<< k >>) = 1 /\ << k >>[1] = k
    BY <1>2
  <2> HIDE DEF s
  <2>3. /\ n \in TaskState /\ n.pc = "fetch" /\ n.misses = << k >> /\ n.keys = s.keys
        /\ n.found = s.found /\ n.alone = s.alone /\ n.status = s.status
        /\ n.result = s.result
    BY <1>1, <2>2 DEF TaskState
  <2>4. Covered(n)
    BY <1>2, <2>2, <2>3 DEF Covered, Done, Missed
  <2> HIDE DEF n
  <2>5. TaskOk(n, past) /\ Fresh(n, cache)
    BY <1>1, <1>2, <2>2, <2>3, <2>4 DEF TaskOk, Fresh
  <2> QED BY <1>1, <1>3, <2>1, <2>3, <2>5, TaskStep DEF s, Idle
<1> QED BY <1>4, <1>5

LEMMA LookupManyCInv ==
  ASSUME CInv, NEW t \in Task, LookupMany(t)
  PROVE  CInv'
<1> DEFINE s == task[t]
           k == s.keys[s.at]
           next == IF s.at < Len(s.keys) THEN "lookup" ELSE "looked_up"
<1>1. s \in TaskState /\ TaskOk(s, past) /\ s.pc = "lookup" /\ s.get = "many"
  BY DEF CInv, LookupMany
<1>2. /\ s.at \in 1 .. Len(s.keys) /\ s.keys \in Seq(Key) /\ k \in Key /\ Len(s.keys) \in Nat
      /\ AllKnown(past, s.found) /\ s.found \in Maps /\ Covered(s) /\ s.misses \in Seq(Key)
  BY <1>1 DEF TaskOk, TaskState, Idle
<1>3. UNCHANGED <<chain, cache, past>>
  BY DEF LookupMany
<1>4. next \in {"lookup", "looked_up"} /\ s.at + 1 \in Nat
  BY <1>2
<1>5. CASE Hit(k)
  <2> DEFINE f == Insert(s.found, k, cache[k])
             n == [s EXCEPT !.at = @ + 1, !.pc = next, !.found = f]
  <2>1. task' = [task EXCEPT ![t] = n]
    BY <1>5 DEF LookupMany
  <2>2. cache[k] \in Account /\ Known(past, k, cache[k])
    BY <1>5, MapFacts DEF CInv, AllKnown, Hit
  <2>3. f \in Maps /\ AllKnown(past, f) /\ DOMAIN f = DOMAIN s.found \cup {k}
    <3> HIDE DEF s, k
    <3> QED BY <1>2, <2>2, InsertFacts, InsertKnown
  <2> HIDE DEF s, f
  <2>4. /\ n \in TaskState /\ n.pc = next /\ n.misses = s.misses /\ n.keys = s.keys
        /\ n.found = f /\ n.alone = s.alone /\ n.status = s.status /\ n.at = s.at + 1
        /\ n.result = s.result /\ n.get = s.get
    BY <1>1, <1>4, <2>3 DEF TaskState
  <2> HIDE DEF n
  <2>5. Covered(n)
    <3> SUFFICES ASSUME NEW i \in 1 .. Done(n)
                 PROVE  n.keys[i] \in DOMAIN n.found \/ Missed(n, n.keys[i])
      BY DEF Covered
    <3>1. i \in 1 .. s.at
      BY <1>2, <2>4 DEF Done
    <3>2. i # s.at => i \in 1 .. Done(s)
      BY <1>1, <1>2, <3>1 DEF Done
    <3>3. i # s.at => s.keys[i] \in DOMAIN s.found \/ Missed(s, s.keys[i])
      BY <1>2, <3>2 DEF Covered
    <3> QED BY <2>3, <2>4, <3>3 DEF Missed
  <2>6. TaskOk(n, past) /\ Fresh(n, cache)
    BY <1>1, <1>2, <2>3, <2>4, <2>5 DEF TaskOk, Fresh
  <2> QED BY <1>1, <1>3, <1>4, <2>1, <2>4, <2>6, TaskStep DEF s, Idle
<1>6. CASE ~Hit(k)
  <2> DEFINE m == Append(s.misses, k)
             n == [s EXCEPT !.at = @ + 1, !.pc = next, !.misses = m]
  <2>1. task' = [task EXCEPT ![t] = n]
    BY <1>6 DEF LookupMany
  <2>2. /\ m \in Seq(Key) /\ Len(m) = Len(s.misses) + 1 /\ m[Len(m)] = k
        /\ \A j \in 1 .. Len(s.misses) : m[j] = s.misses[j]
        /\ Len(s.misses) \in Nat
    BY <1>2
  <2> HIDE DEF s, m
  <2>3. /\ n \in TaskState /\ n.pc = next /\ n.misses = m /\ n.keys = s.keys
        /\ n.found = s.found /\ n.alone = s.alone /\ n.status = s.status /\ n.at = s.at + 1
        /\ n.result = s.result /\ n.get = s.get
    BY <1>1, <1>4, <2>2 DEF TaskState
  <2> HIDE DEF n
  <2>4. \A x : Missed(s, x) \/ x = k => Missed(n, x)
    BY <2>2, <2>3 DEF Missed
  <2>5. Covered(n)
    <3> SUFFICES ASSUME NEW i \in 1 .. Done(n)
                 PROVE  n.keys[i] \in DOMAIN n.found \/ Missed(n, n.keys[i])
      BY DEF Covered
    <3>1. i \in 1 .. s.at
      BY <1>2, <2>3 DEF Done
    <3>2. i # s.at => i \in 1 .. Done(s)
      BY <1>1, <1>2, <3>1 DEF Done
    <3>3. i # s.at => s.keys[i] \in DOMAIN s.found \/ Missed(s, s.keys[i])
      BY <1>2, <3>2 DEF Covered
    <3> QED BY <2>3, <2>4, <3>3
  <2>6. TaskOk(n, past) /\ Fresh(n, cache)
    BY <1>1, <1>2, <2>3, <2>5 DEF TaskOk, Fresh
  <2> QED BY <1>1, <1>3, <1>4, <2>1, <2>3, <2>6, TaskStep DEF s, Idle
<1> QED BY <1>5, <1>6

LEMMA LookedUpCInv ==
  ASSUME CInv, NEW t \in Task, LookedUp(t)
  PROVE  CInv'
<1> DEFINE s == task[t]
<1>1. s \in TaskState /\ TaskOk(s, past) /\ s.pc = "looked_up"
  BY DEF CInv, LookedUp
<1>2. UNCHANGED <<chain, cache, past>>
  BY DEF LookedUp
<1>3. AllKnown(past, s.found) /\ Covered(s)
  BY <1>1 DEF TaskOk, Idle
<1>4. CASE s.misses = << >>
  <2>1. task' = [task EXCEPT ![t] = Returned(s, Reassemble(s))]
    BY <1>4 DEF LookedUp
  <2> HIDE DEF s
  <2>2. \A n \in 1 .. Len(s.keys) : s.keys[n] \in DOMAIN s.found
    BY <1>1, <1>3, <1>4 DEF Covered, Done, Missed
  <2>3. /\ Returned(s, Reassemble(s)) \in TaskState
        /\ TaskOk(Returned(s, Reassemble(s)), past)
        /\ Returned(s, Reassemble(s)).pc = Idle
    BY <1>1, <1>3, <2>2, ReturnedOk
  <2>4. Fresh(Returned(s, Reassemble(s)), cache)
    BY <2>3 DEF Fresh, Idle
  <2> QED BY <1>2, <2>1, <2>3, <2>4, TaskStep
<1>5. CASE s.misses # << >>
  <2> DEFINE n == [s EXCEPT !.pc = "fetch"]
  <2>1. task' = [task EXCEPT ![t] = n]
    BY <1>5 DEF LookedUp
  <2> HIDE DEF s
  <2>2. /\ n \in TaskState /\ n.pc = "fetch" /\ n.misses = s.misses /\ n.keys = s.keys
        /\ n.found = s.found /\ n.alone = s.alone /\ n.status = s.status
        /\ n.result = s.result
    BY <1>1 DEF TaskState
  <2> HIDE DEF n
  <2>3. Covered(n)
    BY <1>1, <1>3, <2>2 DEF Covered, Done, Missed
  <2>4. TaskOk(n, past) /\ Fresh(n, cache)
    BY <1>1, <1>5, <2>2, <2>3 DEF TaskOk, Fresh
  <2> QED BY <1>1, <1>2, <2>1, <2>2, <2>4, TaskStep DEF s, Idle
<1> QED BY <1>4, <1>5
\* The response is a read of the chain, which the history contains and than which
\* the cache holds nothing newer.
LEMMA RpcReadCInv ==
  ASSUME CInv, NEW t \in Task, RpcRead(t)
  PROVE  CInv'
<1> DEFINE s == task[t]
<1>1. s \in TaskState /\ TaskOk(s, past) /\ s.pc = "fetch"
  BY DEF CInv, RpcRead
<1>2. UNCHANGED <<chain, cache, past>>
  BY DEF RpcRead
<1>3. CASE s.get = "one" /\ ~chain[s.keys[1]].exists
  <2>1. task' = [task EXCEPT ![t] = Failed(s)]
    BY <1>3 DEF RpcRead
  <2> HIDE DEF s
  <2>2. Failed(s) \in TaskState /\ TaskOk(Failed(s), past) /\ Failed(s).pc = Idle
    BY <1>1, FailedOk
  <2>3. Fresh(Failed(s), cache)
    BY <2>2 DEF Fresh, Idle
  <2> QED BY <1>2, <2>1, <2>2, <2>3, TaskStep
<1>4. CASE ~(s.get = "one" /\ ~chain[s.keys[1]].exists)
  <2> DEFINE a == [i \in 1 .. Len(s.misses) |-> chain[s.misses[i]]]
             n == [s EXCEPT !.pc = "store", !.at = 1, !.answer = a]
  <2>1. task' = [task EXCEPT ![t] = n]
    BY <1>4 DEF RpcRead
  <2> HIDE DEF s
  <2>2. /\ s.misses \in Seq(Key) /\ Len(s.misses) \in Nat /\ s.misses # << >>
        /\ AllKnown(past, s.found) /\ Covered(s)
    BY <1>1 DEF TaskOk, TaskState, Idle
  <2>3. chain \in [Key -> Account] /\ chain \in past
    BY DEF CInv, History
  <2>4. \A i \in 1 .. Len(s.misses) : s.misses[i] \in Key /\ chain[s.misses[i]] \in Account
    BY <2>2, <2>3
  <2>5. /\ a \in Seq(Account) /\ Len(a) = Len(s.misses)
        /\ \A i \in 1 .. Len(s.misses) : a[i] = chain[s.misses[i]]
    BY <2>2, <2>4
  <2> HIDE DEF a
  <2>6. /\ n \in TaskState /\ n.pc = "store" /\ n.misses = s.misses /\ n.keys = s.keys
        /\ n.found = s.found /\ n.alone = s.alone /\ n.status = s.status
        /\ n.result = s.result /\ n.at = 1 /\ n.answer = a
    BY <1>1, <2>5 DEF TaskState
  <2> HIDE DEF n
  <2>7. Covered(n)
    BY <1>1, <2>2, <2>6 DEF Covered, Done, Missed
  <2>8. Len(s.misses) > 0
    BY <2>2
  <2>9. Responded(n, past)
    <3>1. \A i \in 1 .. Len(n.misses) : Known(past, n.misses[i], n.answer[i])
      BY <2>3, <2>5, <2>6 DEF Known
    <3>2. \A i, j \in 1 .. Len(n.misses) : n.misses[i] = n.misses[j] => n.answer[i] = n.answer[j]
      BY <2>5, <2>6
    <3> QED BY <2>2, <2>5, <2>6, <2>8, <3>1, <3>2 DEF Responded
  <2>10. TaskOk(n, past)
    BY <1>1, <2>2, <2>6, <2>7, <2>9 DEF TaskOk
  <2>11. Fresh(n, cache)
    <3> SUFFICES ASSUME NEW i \in 1 .. Len(s.misses), s.misses[i] \in DOMAIN cache
                 PROVE  chain[s.misses[i]].ver >= cache[s.misses[i]].ver
      BY <2>5, <2>6 DEF Fresh
    <3> DEFINE k == s.misses[i]
    <3>1. PICK c \in past : c[k] = cache[k]
      BY DEF CInv, AllKnown, Known
    <3>2. k \in Key /\ c[k].ver <= chain[k].ver /\ c \in [Key -> Account]
      BY <2>4 DEF CInv, History
    <3>3. c[k].ver \in Nat /\ chain[k].ver \in Nat
      BY <2>3, <3>2 DEF Account
    <3> QED BY <3>1, <3>2, <3>3
  <2> QED BY <1>1, <1>2, <2>1, <2>6, <2>10, <2>11, TaskStep DEF s, Idle
<1> QED BY <1>3, <1>4

LEMMA RpcErrorCInv ==
  ASSUME CInv, NEW t \in Task, RpcError(t)
  PROVE  CInv'
<1>1. task[t] \in TaskState /\ task' = [task EXCEPT ![t] = Failed(task[t])]
  BY DEF CInv, RpcError
<1>2. UNCHANGED <<chain, cache, past>>
  BY DEF RpcError
<1>3. Failed(task[t]) \in TaskState /\ TaskOk(Failed(task[t]), past) /\ Failed(task[t]).pc = Idle
  BY <1>1, FailedOk
<1>4. Fresh(Failed(task[t]), cache)
  BY <1>3 DEF Fresh, Idle
<1> QED BY <1>1, <1>2, <1>3, <1>4, TaskStep

\* What the next insert of a task in the store loop writes.
LEMMA StoreFacts ==
  ASSUME CInv, NEW t \in Task, task[t].pc = "store"
  PROVE  LET s == task[t]
             k == s.misses[s.at]
             v == Answered(s)
         IN  /\ s \in TaskState /\ s.at \in 1 .. Len(s.misses) /\ Len(s.misses) \in Nat
             /\ k \in Key /\ v \in Account /\ v = s.answer[s.at] /\ Known(past, k, v)
             /\ AllKnown(past, s.found) /\ Covered(s) /\ Responded(s, past)
             /\ s.found \in Maps
<1> DEFINE s == task[t]
<1>1. s \in TaskState /\ TaskOk(s, past) /\ s.pc = "store"
  BY DEF CInv
<1> HIDE DEF s
<1>2. /\ Responded(s, past) /\ AllKnown(past, s.found) /\ Covered(s)
      /\ s.misses \in Seq(Key) /\ s.answer \in Seq(Account) /\ s.found \in Maps
  BY <1>1 DEF TaskOk, TaskState, Idle
<1>3. /\ s.at \in 1 .. Len(s.misses) /\ Len(s.misses) \in Nat /\ Len(s.answer) = Len(s.misses)
      /\ Known(past, s.misses[s.at], s.answer[s.at])
  BY <1>2 DEF Responded
<1>4. s.misses[s.at] \in Key /\ s.answer[s.at] \in Account
  BY <1>2, <1>3
<1> QED BY <1>1, <1>2, <1>3, <1>4 DEF s, Answered

\* An insert of a known value keeps the cache, and the tasks that run alone with it.
LEMMA StoreCInv ==
  ASSUME CInv, NEW t \in Task, Store(t)
  PROVE  CInv'
<1> DEFINE s == task[t]
           k == s.misses[s.at]
           v == Answered(s)
           f == Insert(s.found, k, v)
           stored == [s EXCEPT !.at = @ + 1, !.found = f]
           n == IF s.at < Len(s.misses) THEN stored ELSE Returned(stored, Reassemble(stored))
<1>1. /\ s.pc = "store" /\ cache' = Insert(cache, k, v)
      /\ task' = [task EXCEPT ![t] = n] /\ UNCHANGED <<chain, past>>
  BY DEF Store
<1>2. /\ s \in TaskState /\ s.at \in 1 .. Len(s.misses) /\ Len(s.misses) \in Nat
      /\ k \in Key /\ v \in Account /\ v = s.answer[s.at] /\ Known(past, k, v)
      /\ AllKnown(past, s.found) /\ Covered(s) /\ Responded(s, past) /\ s.found \in Maps
  BY <1>1, StoreFacts
<1>3. /\ cache \in Maps /\ AllKnown(past, cache) /\ task \in [Task -> TaskState] /\ Solo
      /\ \A u \in Task : TaskOk(task[u], past) /\ Fresh(task[u], cache)
  BY DEF CInv
<1> HIDE DEF s, k, v
<1>4. /\ cache' \in Maps /\ AllKnown(past, cache') /\ DOMAIN cache' = DOMAIN cache \cup {k}
      /\ cache'[k] = v /\ \A x \in DOMAIN cache : x # k => cache'[x] = cache[x]
  <2>1. cache' = Insert(cache, k, v)
    BY <1>1
  <2>2. /\ Insert(cache, k, v) \in Maps /\ AllKnown(past, Insert(cache, k, v))
        /\ DOMAIN Insert(cache, k, v) = DOMAIN cache \cup {k}
        /\ Insert(cache, k, v)[k] = v
        /\ \A x \in DOMAIN cache : x # k => Insert(cache, k, v)[x] = cache[x]
    BY <1>2, <1>3, InsertFacts, InsertKnown
  <2> QED BY <2>1, <2>2
<1>5. f \in Maps /\ AllKnown(past, f) /\ DOMAIN f = DOMAIN s.found \cup {k}
  BY <1>2, InsertFacts, InsertKnown
<1> HIDE DEF f
<1>6. /\ stored \in TaskState /\ stored.pc = "store" /\ stored.misses = s.misses
      /\ stored.keys = s.keys /\ stored.found = f /\ stored.alone = s.alone
      /\ stored.status = s.status /\ stored.result = s.result /\ stored.at = s.at + 1
      /\ stored.answer = s.answer
  <2>1. s.at + 1 \in Nat /\ s \in TaskState /\ f \in Maps /\ s.pc = "store"
    BY <1>1, <1>2, <1>5
  <2> QED BY <2>1 DEF TaskState
<1> HIDE DEF stored
<1>7. \A i \in 1 .. s.at : s.misses[i] \in DOMAIN f
  <2> SUFFICES ASSUME NEW i \in 1 .. s.at PROVE s.misses[i] \in DOMAIN f
    OBVIOUS
  <2>1. i # s.at => i \in 1 .. s.at - 1
    BY <1>2
  <2>2. i # s.at => s.misses[i] \in DOMAIN s.found
    BY <1>2, <2>1 DEF Responded
  <2> QED BY <1>5, <2>2 DEF k
<1>8. Covered(stored)
  BY <1>1, <1>2, <1>5, <1>6 DEF Covered, Done, Missed
<1>9. ASSUME s.at < Len(s.misses)
      PROVE  TaskOk(stored, past) /\ Fresh(stored, cache')
  <2>1. Responded(stored, past)
    <3>1. \A i \in 1 .. stored.at - 1 : i \in 1 .. s.at
      BY <1>2, <1>6
    <3>2. \A i \in 1 .. stored.at - 1 : stored.misses[i] \in DOMAIN stored.found
      BY <1>6, <1>7, <3>1
    <3>3. stored.at \in 1 .. Len(stored.misses)
      BY <1>2, <1>6, <1>9
    <3> QED BY <1>2, <1>6, <3>2, <3>3 DEF Responded
  <2>2. TaskOk(stored, past)
    <3>1. TaskOk(s, past)
      BY <1>3 DEF s
    <3> QED BY <1>1, <1>5, <1>6, <1>8, <2>1, <3>1 DEF TaskOk
  <2>3. Fresh(stored, cache')
    <3> SUFFICES ASSUME s.alone, NEW i \in stored.at .. Len(s.misses),
                        s.misses[i] \in DOMAIN cache'
                 PROVE  s.answer[i].ver >= cache'[s.misses[i]].ver
      BY <1>6 DEF Fresh
    <3>1. i \in s.at .. Len(s.misses) /\ i \in 1 .. Len(s.misses) /\ s.at \in 1 .. Len(s.misses)
      BY <1>2, <1>6
    <3>2. CASE s.misses[i] = k
      <4>1. s.answer[i] = v
        BY <1>2, <3>1, <3>2 DEF Responded, k
      <4>2. v.ver \in Nat
        BY <1>2, CacheAssumption DEF Account
      <4> QED BY <1>4, <3>2, <4>1, <4>2
    <3>3. CASE s.misses[i] # k
      <4>1. Fresh(s, cache)
        BY <1>3 DEF s
      <4> QED BY <1>1, <1>4, <3>1, <3>3, <4>1 DEF Fresh
    <3> QED BY <3>2, <3>3
  <2> QED BY <2>2, <2>3
<1>10. ASSUME ~(s.at < Len(s.misses))
       PROVE  /\ Returned(stored, Reassemble(stored)) \in TaskState
              /\ TaskOk(Returned(stored, Reassemble(stored)), past)
              /\ Returned(stored, Reassemble(stored)).pc = Idle
  <2>1. \A i \in 1 .. Len(s.misses) : s.misses[i] \in DOMAIN f
    BY <1>2, <1>7, <1>10
  <2>2. \A i \in 1 .. Len(stored.keys) : stored.keys[i] \in DOMAIN stored.found
    BY <1>6, <1>8, <2>1 DEF Covered, Done, Missed
  <2> QED BY <1>5, <1>6, <2>2, ReturnedOk
<1>11. /\ n \in TaskState /\ TaskOk(n, past) /\ Fresh(n, cache')
       /\ n.pc # Idle => n.alone = s.alone
  <2>1. CASE s.at < Len(s.misses)
    BY <1>6, <1>9, <2>1
  <2>2. CASE ~(s.at < Len(s.misses))
    BY <1>10, <2>2 DEF Fresh, Idle
  <2> QED BY <2>1, <2>2
<1> HIDE DEF n
<1>12. \A u \in Task : task'[u] = IF u = t THEN n ELSE task[u]
  BY <1>1, <1>3
<1>13. \A u \in Task : TaskOk(task'[u], past) /\ Fresh(task'[u], cache')
  <2> SUFFICES ASSUME NEW u \in Task, u # t PROVE Fresh(task[u], cache')
    BY <1>3, <1>11, <1>12
  <2>1. ~(task[u].pc = "store" /\ task[u].alone)
    BY <1>1, <1>3 DEF Solo, Idle, s
  <2> QED BY <2>1 DEF Fresh
<1>14. Solo'
  <2> SUFFICES ASSUME NEW u \in Task, NEW x \in Task, task'[u].pc # Idle, task'[u].alone, x # u
               PROVE  task'[x].pc = Idle
    BY DEF Solo
  <2>1. task[u].pc # Idle /\ task[u].alone
    BY <1>1, <1>11, <1>12 DEF s, Idle
  <2>2. task[x].pc = Idle
    BY <1>3, <2>1 DEF Solo
  <2> QED BY <1>1, <1>12, <2>2 DEF s, Idle
<1>15. task' \in [Task -> TaskState]
  BY <1>1, <1>3, <1>11
<1>16. History'
  BY <1>1 DEF CInv, History
<1> QED BY <1>1, <1>4, <1>13, <1>14, <1>15, <1>16 DEF CInv

LEMMA NextCInv == CInv /\ [Next]_vars => CInv'
<1> SUFFICES ASSUME CInv, [Next]_vars PROVE CInv'
  OBVIOUS
<1>1. CASE Next
  BY <1>1, WriteCInv, ResetCInv, CallCInv, LookupOneCInv, LookupManyCInv, LookedUpCInv,
     RpcReadCInv, RpcErrorCInv, StoreCInv DEF Next
<1>2. CASE UNCHANGED vars
  BY <1>2 DEF vars, CInv, History, Solo
<1> QED BY <1>1, <1>2

LEMMA SpecCInv == Spec => []CInv
BY InitCInv, NextCInv, PTL DEF Spec

-----------------------------------------------------------------------------
\* No interleaving of calls, resets and writes to the chain leaves a value in the
\* cache that was not on the chain since the last reset_cache.
THEOREM CacheSurvivesNoReset == Spec => []NothingSurvivesReset
<1>1. CInv => NothingSurvivesReset
  BY DEF CInv, AllKnown, Known, NothingSurvivesReset
<1> QED BY <1>1, SpecCInv, PTL

\* get_account and get_accounts answer every key of the request, in its order and
\* with a value of that key, whatever other calls do to the cache meanwhile.
THEOREM CallsAnswerRequests == Spec => []AnswersRequest
<1>1. CInv => AnswersRequest
  BY DEF CInv, TaskOk, Known, AnswersRequest
<1> QED BY <1>1, SpecCInv, PTL

\* Without overlapping calls no entry of the cache goes back in time.
THEOREM CacheGoesForward == Spec => CacheMonotone
<1>1. CInv /\ [Next]_vars =>
        [\A k \in DOMAIN cache \cap DOMAIN cache' :
           \/ cache'[k].ver >= cache[k].ver
           \/ \E t \in Task : ~task[t].alone /\ task[t].pc = "store"
                                /\ task'[t] # task[t]]_vars
  <2> SUFFICES ASSUME CInv, Next, NEW k \in DOMAIN cache \cap DOMAIN cache'
               PROVE  \/ cache'[k].ver >= cache[k].ver
                      \/ \E t \in Task : ~task[t].alone /\ task[t].pc = "store"
                                           /\ task'[t] # task[t]
    OBVIOUS
  <2>1. cache \in Maps /\ cache[k] \in Account /\ cache[k].ver \in Nat
    BY MapFacts DEF CInv, Account
  <2>2. CASE cache' = cache
    BY <2>1, <2>2
  <2>3. CASE cache' = << >>
    BY <2>3
  <2>4. ASSUME NEW t \in Task, Store(t)
        PROVE  cache'[k].ver >= cache[k].ver \/ (~task[t].alone /\ task'[t] # task[t])
    <3> DEFINE s == task[t]
               key == s.misses[s.at]
               v == Answered(s)
    <3>1. s.pc = "store" /\ cache' = Insert(cache, key, v)
      BY <2>4 DEF Store
    <3>2. /\ s \in TaskState /\ s.at \in 1 .. Len(s.misses) /\ Len(s.misses) \in Nat
          /\ key \in Key /\ v \in Account /\ v = s.answer[s.at]
      BY <3>1, StoreFacts
    <3>3. cache'[key] = v /\ \A x \in DOMAIN cache : x # key => cache'[x] = cache[x]
      <4> HIDE DEF s, key, v
      <4> QED BY <2>1, <3>1, <3>2, InsertFacts
    <3>4. CASE s.alone
      <4>1. Fresh(s, cache)
        BY DEF CInv
      <4>2. key \in DOMAIN cache => v.ver >= cache[key].ver
        <5> HIDE DEF s
        <5> QED BY <3>1, <3>2, <3>4, <4>1 DEF Fresh
      <4> HIDE DEF s, key, v
      <4> QED BY <2>1, <3>3, <4>2
    <3>5. CASE ~s.alone
      <4> DEFINE stored == [s EXCEPT !.at = @ + 1, !.found = Insert(@, key, v)]
      <4>1. task'[t] = IF s.at < Len(s.misses) THEN stored
                       ELSE Returned(stored, Reassemble(stored))
        BY <2>4 DEF Store, CInv
      <4>2. stored.at = s.at + 1 /\ \A r : Returned(stored, r).pc = Idle
        BY <3>2 DEF TaskState, Returned, Task0
      <4> HIDE DEF stored
      <4> QED BY <3>1, <3>2, <3>5, <4>1, <4>2 DEF Idle
    <3> QED BY <3>4, <3>5
  <2> QED
    BY <2>2, <2>3, <2>4 DEF Next, Write, ResetCache, Call, LookupOne, LookupMany, LookedUp,
       RpcRead, RpcError, Store
<1> QED BY <1>1, SpecCInv, PTL DEF Spec, CacheMonotone
=============================================================================
