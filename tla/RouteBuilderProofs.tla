------------------------ MODULE RouteBuilderProofs --------------------------
(***************************************************************************)
(* Proofs about RouteBuilder for every set of routes: any number of mints  *)
(* and legs, any venues, indices, weights and amounts.                     *)
(***************************************************************************)
EXTENDS RouteBuilder, SequenceTheorems, WellFoundedInduction, TLAPS

-----------------------------------------------------------------------------
(* Induction and recursion over the natural numbers. *)

\* Induction for a set: a least number outside it would have a predecessor in it.
LEMMA SetInduction ==
  ASSUME NEW S, 0 \in S, \A n \in Nat : n \in S => n + 1 \in S
  PROVE  Nat \subseteq S
<1> DEFINE T == {n \in Nat : n \notin S}
<1>1. ASSUME T # {} PROVE FALSE
  <2>1. PICK x \in T : \A y \in T : ~(<<y, x>> \in OpToRel(<, Nat))
    BY <1>1, NatLessThanWellFounded, WFMin
  <2>2. x \in Nat /\ x \notin S /\ x # 0
    OBVIOUS
  <2>3. x - 1 \in T
    <3>1. x - 1 \in Nat /\ (x - 1) + 1 = x
      BY <2>2
    <3> QED BY <2>2, <3>1
  <2>4. ~(<<x - 1, x>> \in {p \in Nat \X Nat : p[1] < p[2]})
    BY <2>1, <2>3 DEF OpToRel
  <2> QED BY <2>2, <2>4
<1> QED BY <1>1

\* G starts with base and goes from k - 1 to k by step[k].
Iterates(G, N, X, base, step) ==
  /\ G \in [0 .. N -> X] /\ G[0] = base
  /\ \A k \in 1 .. N : G[k] = step[k][G[k - 1]]

\* A recursion with steps from X to X has a solution.
LEMMA Recursion ==
  ASSUME NEW N \in Nat, NEW X, NEW base \in X, NEW step \in [1 .. N -> [X -> X]]
  PROVE  \E G : Iterates(G, N, X, base, step)
<1> DEFINE Solves(G, n) == G \in [0 .. N -> X] /\ G[0] = base
                             /\ \A k \in 1 .. n : G[k] = step[k][G[k - 1]]
           S == {n \in Nat : n <= N => \E G : Solves(G, n)}
<1>1. 0 \in S
  <2> DEFINE G == [k \in 0 .. N |-> base]
  <2>1. Solves(G, 0)
    OBVIOUS
  <2> QED BY <2>1
<1>2. ASSUME NEW n \in Nat, n \in S PROVE n + 1 \in S
  <2> SUFFICES ASSUME n + 1 <= N PROVE \E G : Solves(G, n + 1)
    OBVIOUS
  <2>1. PICK F : Solves(F, n)
    BY <1>2
  <2> DEFINE G == [k \in 0 .. N |-> IF k = n + 1 THEN step[k][F[n]] ELSE F[k]]
  <2>2. n + 1 \in 1 .. N /\ F[n] \in X /\ step[n + 1][F[n]] \in X
    BY <2>1
  <2>3. G \in [0 .. N -> X] /\ G[0] = base
    BY <2>1, <2>2
  <2>4. ASSUME NEW k \in 1 .. n + 1 PROVE G[k] = step[k][G[k - 1]]
    <3>1. k \in 0 .. N /\ k - 1 \in 0 .. N /\ k - 1 # n + 1
      OBVIOUS
    <3>2. G[k - 1] = F[k - 1]
      BY <3>1
    <3>3. CASE k = n + 1
      <4>1. G[k] = step[k][F[n]] /\ k - 1 = n
        BY <3>1, <3>3
      <4> QED BY <3>2, <4>1
    <3>4. CASE k # n + 1
      <4>1. k \in 1 .. n /\ G[k] = F[k]
        BY <3>1, <3>4
      <4> QED BY <2>1, <3>2, <4>1
    <3> QED BY <3>3, <3>4
  <2>5. Solves(G, n + 1)
    BY <2>3, <2>4
  <2> QED BY <2>5
<1>3. N \in S
  <2> HIDE DEF S
  <2> QED BY <1>1, <1>2, SetInduction
<1>4. PICK G : Solves(G, N)
  BY <1>3
<1> QED BY <1>4 DEF Iterates

-----------------------------------------------------------------------------
(* Concatenation. *)

\* c[k] is what the first k sequences of f make.
Joins(c, f, n, S) ==
  /\ c[0] = << >> /\ \A k \in 0 .. n : c[k] \in Seq(S)
  /\ \A k \in 1 .. n : c[k] = c[k - 1] \o f[k]

\* Concat is well defined.
LEMMA ConcatSolution ==
  ASSUME NEW S, NEW n \in Nat, NEW f, \A k \in 1 .. n : f[k] \in Seq(S)
  PROVE  \E c : Joins(c, f, n, S) /\ Concat(f, n) = c[n]
<1> DEFINE c[k \in 0 .. n] == IF k = 0 THEN << >> ELSE c[k - 1] \o f[k]
           step == [k \in 1 .. n |-> [s \in Seq(S) |-> s \o f[k]]]
<1>1. Concat(f, n) = c[n]
  BY DEF Concat
<1>2. << >> \in Seq(S)
  OBVIOUS
<1>3. step \in [1 .. n -> [Seq(S) -> Seq(S)]]
  BY ConcatProperties
<1>4. PICK G : Iterates(G, n, Seq(S), << >>, step)
  <2> HIDE DEF step
  <2> QED BY <1>2, <1>3, Recursion
<1>5. /\ G \in [0 .. n -> Seq(S)] /\ G[0] = << >>
      /\ \A k \in 1 .. n : G[k] = G[k - 1] \o f[k]
  <2>1. G \in [0 .. n -> Seq(S)] /\ G[0] = << >>
    BY <1>4 DEF Iterates
  <2>2. ASSUME NEW k \in 1 .. n PROVE G[k] = G[k - 1] \o f[k]
    <3>1. G[k] = step[k][G[k - 1]]
      BY <1>4 DEF Iterates
    <3>2. G[k - 1] \in Seq(S)
      BY <2>1
    <3> QED BY <3>1, <3>2
  <2> QED BY <2>1, <2>2
<1>6. G = [k \in 0 .. n |-> IF k = 0 THEN << >> ELSE G[k - 1] \o f[k]]
  <2>1. ASSUME NEW k \in 0 .. n
        PROVE  G[k] = IF k = 0 THEN << >> ELSE G[k - 1] \o f[k]
    <3>1. k # 0 => k \in 1 .. n
      OBVIOUS
    <3> QED BY <1>5, <3>1
  <2>2. G = [k \in 0 .. n |-> G[k]]
    BY <1>5
  <2> QED BY <2>1, <2>2
<1>7. c = CHOOSE g : g = [k \in 0 .. n |-> IF k = 0 THEN << >> ELSE g[k - 1] \o f[k]]
  BY DEF c
<1> HIDE DEF c, step
<1>8. c = [k \in 0 .. n |-> IF k = 0 THEN << >> ELSE c[k - 1] \o f[k]]
  BY <1>6, <1>7, Zenon
<1>9. c[0] = << >> /\ \A k \in 1 .. n : c[k] = c[k - 1] \o f[k]
  <2>1. \A k \in 0 .. n : c[k] = IF k = 0 THEN << >> ELSE c[k - 1] \o f[k]
    BY <1>8, Zenon
  <2>2. 0 \in 0 .. n /\ \A k \in 1 .. n : k \in 0 .. n /\ k # 0
    OBVIOUS
  <2> QED BY <2>1, <2>2, Zenon
<1> DEFINE T == {k \in Nat : k <= n => c[k] \in Seq(S)}
<1>10. 0 \in T
  BY <1>2, <1>9
<1>11. ASSUME NEW k \in Nat, k \in T PROVE k + 1 \in T
  <2> SUFFICES ASSUME k + 1 <= n PROVE c[k + 1] \in Seq(S)
    OBVIOUS
  <2>1. k + 1 \in 1 .. n /\ (k + 1) - 1 = k /\ c[k] \in Seq(S)
    BY <1>11
  <2>2. c[k + 1] = c[k] \o f[k + 1] /\ f[k + 1] \in Seq(S)
    BY <1>9, <2>1
  <2> QED BY <2>1, <2>2, ConcatProperties
<1>12. \A k \in 0 .. n : c[k] \in Seq(S)
  <2> HIDE DEF T
  <2>1. Nat \subseteq T
    BY <1>10, <1>11, SetInduction
  <2> QED BY <2>1 DEF T
<1> QED BY <1>1, <1>9, <1>12 DEF Joins

\* Concat grows by one sequence at a time.
LEMMA ConcatStep ==
  ASSUME NEW S, NEW n \in Nat, NEW f, \A k \in 1 .. n : f[k] \in Seq(S)
  PROVE  Joins([k \in 0 .. n |-> Concat(f, k)], f, n, S)
<1>1. PICK c : Joins(c, f, n, S)
  BY ConcatSolution
<1>2. ASSUME NEW m \in 0 .. n PROVE Concat(f, m) = c[m]
  <2>1. PICK d : Joins(d, f, m, S) /\ Concat(f, m) = d[m]
    <3>1. m \in Nat /\ \A k \in 1 .. m : f[k] \in Seq(S)
      OBVIOUS
    <3> QED BY <3>1, ConcatSolution
  <2> DEFINE T == {k \in Nat : k <= m => d[k] = c[k]}
  <2>2. 0 \in T
    BY <1>1, <2>1 DEF Joins
  <2>3. ASSUME NEW k \in Nat, k \in T PROVE k + 1 \in T
    <3> SUFFICES ASSUME k + 1 <= m PROVE d[k + 1] = c[k + 1]
      OBVIOUS
    <3>1. k + 1 \in 1 .. m /\ k + 1 \in 1 .. n /\ (k + 1) - 1 = k /\ d[k] = c[k]
      BY <2>3
    <3> QED BY <1>1, <2>1, <3>1 DEF Joins
  <2>4. m \in T
    <3> HIDE DEF T
    <3>1. Nat \subseteq T
      BY <2>2, <2>3, SetInduction
    <3> QED BY <3>1
  <2> QED BY <2>1, <2>4
<1> DEFINE C == [k \in 0 .. n |-> Concat(f, k)]
<1>3. \A k \in 0 .. n : C[k] = c[k]
  BY <1>2, Zenon
<1>4. 0 \in 0 .. n /\ \A k \in 1 .. n : k \in 0 .. n /\ k - 1 \in 0 .. n
  OBVIOUS
<1> HIDE DEF C
<1>5. Joins(C, f, n, S)
  BY <1>1, <1>3, <1>4, Zenon DEF Joins
<1> QED BY <1>5 DEF C

\* What is in a concatenation, and where.
Join(u, s, t) ==
  /\ Len(s) \in Nat /\ Len(t) \in Nat /\ Len(u) \in Nat /\ Len(u) = Len(s) + Len(t)
  /\ \A i \in 1 .. Len(s) : u[i] = s[i]
  /\ \A j \in 1 .. Len(t) : u[Len(s) + j] = t[j]

LEMMA Joined ==
  ASSUME NEW S, NEW s \in Seq(S), NEW t \in Seq(S)
  PROVE  s \o t \in Seq(S) /\ Join(s \o t, s, t)
<1> DEFINE u == s \o t
<1>1. Len(s) \in Nat /\ Len(t) \in Nat /\ u \in Seq(S) /\ Len(u) = Len(s) + Len(t)
  BY ConcatProperties
<1>2. \A i \in 1 .. Len(s) + Len(t) : u[i] = IF i <= Len(s) THEN s[i] ELSE t[i - Len(s)]
  BY ConcatProperties
<1>3. ASSUME NEW i \in 1 .. Len(s) PROVE u[i] = s[i]
  BY <1>1, <1>2
<1>4. ASSUME NEW j \in 1 .. Len(t) PROVE u[Len(s) + j] = t[j]
  <2>1. Len(s) + j \in 1 .. Len(s) + Len(t) /\ ~(Len(s) + j <= Len(s)) /\ (Len(s) + j) - Len(s) = j
    BY <1>1
  <2> QED BY <1>2, <2>1
<1> QED BY <1>1, <1>3, <1>4 DEF Join

\* f[k] is found, whole and in place, behind the sequences before it.
Sliced(f, n, k) ==
  /\ Len(Concat(f, k - 1)) \in Nat /\ Len(f[k]) \in Nat
  /\ Len(Concat(f, k)) = Len(Concat(f, k - 1)) + Len(f[k])
  /\ Len(Concat(f, k)) <= Len(Concat(f, n))
  /\ \A j \in 1 .. Len(f[k]) : Concat(f, n)[Len(Concat(f, k - 1)) + j] = f[k][j]

LEMMA ConcatSlice ==
  ASSUME NEW S, NEW n \in Nat, NEW f, \A k \in 1 .. n : f[k] \in Seq(S),
         NEW k \in 1 .. n
  PROVE  Sliced(f, n, k)
<1> DEFINE C == [m \in 0 .. n |-> Concat(f, m)]
           at == Len(C[k - 1])
<1>1. /\ \A m \in 0 .. n : C[m] \in Seq(S)
      /\ \A m \in 1 .. n : C[m] = C[m - 1] \o f[m]
  <2>1. Joins(C, f, n, S)
    BY ConcatStep, Zenon
  <2> QED BY <2>1, Zenon DEF Joins
<1>2. /\ k \in Nat /\ 1 <= k /\ k <= n /\ k - 1 \in 0 .. n /\ k \in 0 .. n /\ n \in 0 .. n
      /\ C[k] = Concat(f, k) /\ C[k - 1] = Concat(f, k - 1) /\ C[n] = Concat(f, n)
  <2>1. k - 1 \in 0 .. n /\ k \in 0 .. n /\ n \in 0 .. n /\ k \in Nat /\ 1 <= k /\ k <= n
    OBVIOUS
  <2> QED BY <2>1, Zenon
<1> HIDE DEF C
<1>3. /\ C[k - 1] \in Seq(S) /\ C[k] \in Seq(S) /\ f[k] \in Seq(S)
      /\ C[k] = C[k - 1] \o f[k]
  BY <1>1, <1>2, Zenon
<1>4. /\ at \in Nat /\ Len(f[k]) \in Nat /\ Len(C[k]) \in Nat /\ Len(C[k]) = at + Len(f[k])
      /\ \A j \in 1 .. Len(f[k]) : C[k][at + j] = f[k][j]
  <2>1. Join(C[k], C[k - 1], f[k])
    BY <1>3, Joined, Zenon
  <2> QED BY <2>1, Zenon DEF Join
<1> DEFINE Kept(m) == /\ Len(C[k]) <= Len(C[m])
                      /\ \A i \in 1 .. Len(C[k]) : C[m][i] = C[k][i]
           T == {d \in Nat : k + d <= n => Kept(k + d)}
<1>6. 0 \in T
  <2>1. k + 0 = k /\ Kept(k)
    BY <1>2, <1>4
  <2> QED BY <2>1
<1>7. ASSUME NEW d \in Nat, d \in T PROVE d + 1 \in T
  <2> SUFFICES ASSUME k + (d + 1) <= n PROVE Kept(k + (d + 1))
    OBVIOUS
  <2> DEFINE m == k + d
             e == k + (d + 1)
  <2>1. m \in 0 .. n /\ m <= n /\ e \in 1 .. n /\ e - 1 = m
    BY <1>2
  <2>2. Kept(m)
    BY <1>7, <2>1
  <2> HIDE DEF m, e
  <2>3. C[m] \in Seq(S) /\ f[e] \in Seq(S) /\ C[e] = C[m] \o f[e]
    BY <1>1, <2>1, Zenon
  <2>4. /\ Len(C[m]) \in Nat /\ Len(f[e]) \in Nat /\ Len(C[e]) = Len(C[m]) + Len(f[e])
        /\ \A i \in 1 .. Len(C[m]) : C[e][i] = C[m][i]
    <3>1. Join(C[e], C[m], f[e])
      BY <2>3, Joined, Zenon
    <3> QED BY <3>1, Zenon DEF Join
  <2> DEFINE x == Len(C[k])
             y == Len(C[m])
             z == Len(C[e])
             w == Len(f[e])
  <2>5. x \in Nat /\ y \in Nat /\ w \in Nat /\ x <= y /\ z = y + w
    BY <1>4, <2>2, <2>4, Zenon
  <2>6. \A i \in 1 .. x : i \in 1 .. y
    <3> HIDE DEF x, y, z, w
    <3> QED BY <2>5
  <2>7. x <= z
    <3> HIDE DEF x, y, z, w
    <3> QED BY <2>5
  <2>8. \A i \in 1 .. Len(C[k]) : C[e][i] = C[k][i]
    BY <2>2, <2>4, <2>6, Zenon
  <2> QED BY <2>7, <2>8, Zenon DEF e
<1>8. Kept(n)
  <2>1. n - k \in Nat /\ k + (n - k) = n
    BY <1>2
  <2>2. n - k \in T
    <3> HIDE DEF T
    <3>1. Nat \subseteq T
      BY <1>6, <1>7, SetInduction
    <3> QED BY <2>1, <3>1
  <2>3. k + (n - k) <= n => Kept(k + (n - k))
    BY <2>2, Zenon
  <2> QED BY <2>1, <2>3
<1>9. \A j \in 1 .. Len(f[k]) : at + j \in 1 .. Len(C[k])
  <2> DEFINE b == Len(f[k])
             e == Len(C[k])
  <2>1. at \in Nat /\ b \in Nat /\ e = at + b
    BY <1>4, Zenon
  <2> HIDE DEF at, b, e
  <2>2. \A j \in 1 .. b : at + j \in 1 .. e
    BY <2>1
  <2> QED BY <2>2 DEF at, b, e
<1>10. \A j \in 1 .. Len(f[k]) : C[n][at + j] = f[k][j]
  BY <1>4, <1>8, <1>9, Zenon
<1> QED BY <1>2, <1>4, <1>8, <1>10, Zenon DEF Sliced

-----------------------------------------------------------------------------
(* Little-endian numbers. *)

\* R[k] is what k divisions by 256 leave of x.
Divides(R, x, w) ==
  /\ R[0] = x /\ \A k \in 0 .. w : R[k] \in Nat
  /\ \A k \in 1 .. w : R[k] = R[k - 1] \div 256

\* to_le_bytes is well defined.
LEMMA LeBytesSolution ==
  ASSUME NEW x \in Nat, NEW w \in Nat
  PROVE  \E R : Divides(R, x, w) /\ LeBytes(x, w) = [k \in 1 .. w |-> R[k - 1] % 256]
<1> DEFINE rest[k \in 0 .. w] == IF k = 0 THEN x ELSE rest[k - 1] \div 256
           step == [k \in 1 .. w |-> [m \in Nat |-> m \div 256]]
<1>1. LeBytes(x, w) = [k \in 1 .. w |-> rest[k - 1] % 256]
  BY DEF LeBytes
<1>2. step \in [1 .. w -> [Nat -> Nat]]
  OBVIOUS
<1>3. PICK G : Iterates(G, w, Nat, x, step)
  <2> HIDE DEF step
  <2> QED BY <1>2, Recursion
<1>4. /\ G \in [0 .. w -> Nat] /\ G[0] = x
      /\ \A k \in 1 .. w : G[k] = G[k - 1] \div 256
  <2>1. G \in [0 .. w -> Nat] /\ G[0] = x
    BY <1>3 DEF Iterates
  <2>2. ASSUME NEW k \in 1 .. w PROVE G[k] = G[k - 1] \div 256
    <3>1. G[k] = step[k][G[k - 1]]
      BY <1>3 DEF Iterates
    <3>2. G[k - 1] \in Nat
      BY <2>1
    <3> QED BY <3>1, <3>2
  <2> QED BY <2>1, <2>2
<1>5. G = [k \in 0 .. w |-> IF k = 0 THEN x ELSE G[k - 1] \div 256]
  <2>1. ASSUME NEW k \in 0 .. w PROVE G[k] = IF k = 0 THEN x ELSE G[k - 1] \div 256
    BY <1>4
  <2>2. G = [k \in 0 .. w |-> G[k]]
    BY <1>4
  <2> QED BY <2>1, <2>2, Zenon
<1>6. rest = CHOOSE g : g = [k \in 0 .. w |-> IF k = 0 THEN x ELSE g[k - 1] \div 256]
  BY DEF rest
<1> HIDE DEF rest, step
<1>7. rest = [k \in 0 .. w |-> IF k = 0 THEN x ELSE rest[k - 1] \div 256]
  BY <1>5, <1>6, Zenon
<1>8. \A k \in 0 .. w : rest[k] = IF k = 0 THEN x ELSE rest[k - 1] \div 256
  BY <1>7, Zenon
<1>9. rest[0] = x /\ \A k \in 1 .. w : rest[k] = rest[k - 1] \div 256
  <2>1. 0 \in 0 .. w /\ \A k \in 1 .. w : k \in 0 .. w /\ k # 0
    OBVIOUS
  <2> QED BY <1>8, <2>1, Zenon
<1> DEFINE T == {k \in Nat : k <= w => rest[k] \in Nat}
<1>10. 0 \in T
  BY <1>9
<1>11. ASSUME NEW k \in Nat, k \in T PROVE k + 1 \in T
  <2> SUFFICES ASSUME k + 1 <= w PROVE rest[k + 1] \in Nat
    OBVIOUS
  <2>1. k + 1 \in 1 .. w /\ (k + 1) - 1 = k /\ rest[k] \in Nat
    BY <1>11
  <2>2. rest[k + 1] = rest[k] \div 256
    BY <1>9, <2>1
  <2> QED BY <2>1, <2>2
<1>12. \A k \in 0 .. w : rest[k] \in Nat
  <2> HIDE DEF T
  <2>1. Nat \subseteq T
    BY <1>10, <1>11, SetInduction
  <2> QED BY <2>1 DEF T
<1> QED BY <1>1, <1>9, <1>12 DEF Divides

\* Reading the bytes back from the highest to the lowest undoes the divisions.
LEMMA LeNumberOf ==
  ASSUME NEW x \in Nat, NEW w \in Nat, NEW R, Divides(R, x, w), R[w] = 0,
         NEW bytes, NEW at \in Nat,
         \A k \in 1 .. w : bytes[at + w - k] = R[w - k] % 256
  PROVE  LeNumber(bytes, at, w) = x
<1> DEFINE up(g, k) == 256 * g + bytes[at + w - k]
           v[k \in 0 .. w] == IF k = 0 THEN 0 ELSE up(v[k - 1], k)
           G == [k \in 0 .. w |-> R[w - k]]
<1>1. LeNumber(bytes, at, w) = v[w]
  BY DEF LeNumber
<1>2. v = CHOOSE g : g = [k \in 0 .. w |-> IF k = 0 THEN 0 ELSE up(g[k - 1], k)]
  BY DEF v
<1>3. ASSUME NEW k \in 1 .. w PROVE R[w - k] = up(R[w - (k - 1)], k)
  <2> DEFINE r == R[w - k]
             q == R[w - (k - 1)]
  <2>1. w - (k - 1) \in 1 .. w /\ (w - (k - 1)) - 1 = w - k /\ w - k \in 0 .. w
    OBVIOUS
  <2>2. q = r \div 256 /\ r \in Nat
    BY <2>1 DEF Divides
  <2>3. bytes[at + w - k] = r % 256
    OBVIOUS
  <2>4. r = 256 * q + (r % 256)
    <3> HIDE DEF r, q
    <3> QED BY <2>2
  <2> HIDE DEF r, q
  <2>5. r = up(q, k)
    BY <2>3, <2>4
  <2> QED BY <2>5 DEF r, q
<1> HIDE DEF v, up
<1>4. \A k \in 0 .. w : G[k] = R[w - k]
  OBVIOUS
<1>5. G = [k \in 0 .. w |-> G[k]]
  OBVIOUS
<1> HIDE DEF G
<1>6. ASSUME NEW k \in 0 .. w PROVE G[k] = IF k = 0 THEN 0 ELSE up(G[k - 1], k)
  <2>1. CASE k = 0
    <3>1. w - 0 = w
      OBVIOUS
    <3> QED BY <1>4, <2>1, <3>1
  <2>2. CASE k # 0
    <3>1. k \in 1 .. w /\ k - 1 \in 0 .. w
      BY <2>2
    <3> QED BY <1>3, <1>4, <2>2, <3>1, Zenon
  <2> QED BY <2>1, <2>2
<1>7. G = [k \in 0 .. w |-> IF k = 0 THEN 0 ELSE up(G[k - 1], k)]
  BY <1>5, <1>6, Zenon
<1>8. v = [k \in 0 .. w |-> IF k = 0 THEN 0 ELSE up(v[k - 1], k)]
  <2> DEFINE P(g) == g = [k \in 0 .. w |-> IF k = 0 THEN 0 ELSE up(g[k - 1], k)]
  <2>1. v = CHOOSE g : P(g)
    BY <1>2
  <2>2. P(G)
    BY <1>7
  <2>3. P(v)
    <3> HIDE DEF P
    <3> QED BY <2>1, <2>2
  <2> QED BY <2>3
<1>9. \A k \in 0 .. w : v[k] = IF k = 0 THEN 0 ELSE up(v[k - 1], k)
  BY <1>8, Zenon
<1> DEFINE T == {k \in Nat : k <= w => v[k] = R[w - k]}
<1>10. 0 \in T
  <2>1. 0 \in 0 .. w /\ w - 0 = w
    OBVIOUS
  <2> QED BY <1>9, <2>1
<1>11. ASSUME NEW k \in Nat, k \in T PROVE k + 1 \in T
  <2> SUFFICES ASSUME k + 1 <= w PROVE v[k + 1] = R[w - (k + 1)]
    OBVIOUS
  <2> DEFINE m == k + 1
  <2>1. m \in 1 .. w /\ m \in 0 .. w /\ m - 1 = k /\ m # 0 /\ v[k] = R[w - k]
    BY <1>11
  <2> HIDE DEF m
  <2>2. v[m] = up(v[k], m) /\ R[w - m] = up(R[w - k], m)
    BY <1>3, <1>9, <2>1, Zenon
  <2> QED BY <2>1, <2>2, Zenon DEF m
<1>12. v[w] = x
  <2> HIDE DEF T
  <2>1. w \in T
    BY <1>10, <1>11, SetInduction
  <2>2. w - w = 0 /\ w <= w
    OBVIOUS
  <2>3. v[w] = R[w - w]
    BY <2>1, <2>2 DEF T
  <2> QED BY <2>2, <2>3 DEF Divides
<1> QED BY <1>1, <1>12

\* A number that fits its width has that many bytes, ...
LEMMA LeBytesType ==
  ASSUME NEW x \in Nat, NEW w \in Nat
  PROVE  LeBytes(x, w) \in Seq(Nat) /\ Len(LeBytes(x, w)) = w
<1>1. PICK R : Divides(R, x, w) /\ LeBytes(x, w) = [k \in 1 .. w |-> R[k - 1] % 256]
  BY LeBytesSolution
<1> DEFINE b == [k \in 1 .. w |-> R[k - 1] % 256]
<1>2. ASSUME NEW k \in 1 .. w PROVE R[k - 1] % 256 \in Nat
  <2>1. R[k - 1] \in Nat
    BY <1>1 DEF Divides
  <2> QED BY <2>1
<1>3. b \in [1 .. w -> Nat]
  BY <1>2
<1> HIDE DEF b
<1>4. b \in Seq(Nat) /\ Len(b) = w
  BY <1>3
<1> QED BY <1>1, <1>4 DEF b

\* ... and is read back from them wherever they stand.
LEMMA LeInverse ==
  ASSUME NEW w \in {4, 8}, NEW x, w = 4 => IsU32(x), w = 8 => IsU64(x),
         NEW bytes, NEW at \in Nat,
         \A k \in 1 .. w : bytes[at + (k - 1)] = LeBytes(x, w)[k]
  PROVE  LeNumber(bytes, at, w) = x
<1>1. x \in Nat /\ w \in Nat
  BY DEF IsU32, IsU64
<1>2. PICK R : Divides(R, x, w) /\ LeBytes(x, w) = [k \in 1 .. w |-> R[k - 1] % 256]
  BY <1>1, LeBytesSolution
<1>3. R[w] = 0
  <2>1. /\ R[0] = x /\ \A k \in 0 .. w : R[k] \in Nat
        /\ \A k \in 1 .. w : R[k] = R[k - 1] \div 256
    BY <1>2 DEF Divides
  <2>2. R[1] = x \div 256 /\ R[2] = R[1] \div 256 /\ R[3] = R[2] \div 256 /\ R[4] = R[3] \div 256
    <3>1. 1 \in 1 .. w /\ 2 \in 1 .. w /\ 3 \in 1 .. w /\ 4 \in 1 .. w
      OBVIOUS
    <3> QED BY <2>1, <3>1
  <2>3. CASE w = 4
    <3>1. x \div 65536 < 65536
      BY <2>3 DEF IsU32
    <3> QED BY <1>1, <2>2, <2>3, <3>1
  <2>4. CASE w = 8
    <3>1. R[5] = R[4] \div 256 /\ R[6] = R[5] \div 256 /\ R[7] = R[6] \div 256 /\ R[8] = R[7] \div 256
      <4>1. 5 \in 1 .. w /\ 6 \in 1 .. w /\ 7 \in 1 .. w /\ 8 \in 1 .. w
        BY <2>4
      <4> QED BY <2>1, <4>1
    <3> DEFINE y == (x \div 65536) \div 65536
    <3>2. y \in Nat /\ R[4] = y
      BY <1>1, <2>2
    <3>3. y \div 65536 < 65536
      BY <2>4 DEF IsU64, IsU32
    <3> HIDE DEF y
    <3> QED BY <2>4, <3>1, <3>2, <3>3
  <2> QED BY <2>3, <2>4
<1>4. \A k \in 1 .. w : bytes[at + w - k] = R[w - k] % 256
  <2> TAKE k \in 1 .. w
  <2> DEFINE j == w - k + 1
  <2>1. j \in 1 .. w /\ at + (j - 1) = at + w - k /\ j - 1 = w - k
    OBVIOUS
  <2> HIDE DEF j
  <2>2. bytes[at + (j - 1)] = R[j - 1] % 256
    BY <1>2, <2>1
  <2> QED BY <2>1, <2>2
<1> QED BY <1>1, <1>2, <1>3, <1>4, LeNumberOf

-----------------------------------------------------------------------------
(* The wire format: what the program decodes is what was encoded. *)

\* The Venue enum and SwapSpecInputV2.
VenueArg == [tag : {"RaydiumAmm"}] \cup [tag : {"Huma"}, is_deposit : BOOLEAN]
SwapSpec == [venue : VenueArg, from : Nat, to : Nat, weight_nanos : Nat, n_accounts : Nat]

\* Where the bytes of a spec are.
LEMMA SwapBytesFacts ==
  ASSUME NEW s \in SwapSpec
  PROVE  LET b == SwapBytes(s)
             d == Len(VenueBytes(s.venue))
         IN  /\ b \in Seq(Nat) /\ d \in {1, 2} /\ Len(b) = d + 7
             /\ \A j \in 1 .. d : b[j] = VenueBytes(s.venue)[j]
             /\ b[d + 1] = s.from /\ b[d + 2] = s.to /\ b[d + 7] = s.n_accounts
             /\ \A k \in 1 .. 4 : b[d + 2 + k] = LeBytes(s.weight_nanos, 4)[k]
<1> DEFINE v == VenueBytes(s.venue)
           d == Len(v)
           e == << s.from, s.to >>
           l == LeBytes(s.weight_nanos, 4)
           n == << s.n_accounts >>
           t == v \o e
           u == t \o l
           b == u \o n
<1>1. v \in Seq(Nat) /\ d \in {1, 2}
  <2>1. s.venue \in VenueArg
    BY DEF SwapSpec
  <2>2. CASE s.venue.tag = "RaydiumAmm"
    BY <2>2 DEF VenueBytes
  <2>3. CASE s.venue.tag # "RaydiumAmm"
    <3> DEFINE x == IF s.venue.is_deposit THEN 1 ELSE 0
    <3>1. x \in Nat /\ v = << 1, x >>
      BY <2>3 DEF VenueBytes
    <3> HIDE DEF x, v
    <3> QED BY <3>1
  <2> QED BY <2>2, <2>3
<1>2. e \in Seq(Nat) /\ Len(e) = 2 /\ e[1] = s.from /\ e[2] = s.to
  BY DEF SwapSpec
<1>3. l \in Seq(Nat) /\ Len(l) = 4
  BY LeBytesType DEF SwapSpec
<1>4. n \in Seq(Nat) /\ Len(n) = 1 /\ n[1] = s.n_accounts
  BY DEF SwapSpec
<1>5. SwapBytes(s) = b
  BY DEF SwapBytes
<1> HIDE DEF v, d, e, l, n, t, u, b
<1>6. t \in Seq(Nat) /\ Join(t, v, e)
  BY <1>1, <1>2, Joined DEF t
<1>7. u \in Seq(Nat) /\ Join(u, t, l)
  BY <1>3, <1>6, Joined DEF u
<1>8. b \in Seq(Nat) /\ Join(b, u, n)
  BY <1>4, <1>7, Joined DEF b
<1>9. Len(v) = d /\ Len(t) = d + 2 /\ Len(u) = d + 6 /\ Len(b) = d + 7
  BY <1>1, <1>2, <1>3, <1>4, <1>6, <1>7, <1>8 DEF Join, d
<1>10. ASSUME NEW j \in 1 .. d PROVE b[j] = v[j]
  <2>1. j \in 1 .. Len(v) /\ j \in 1 .. Len(t) /\ j \in 1 .. Len(u)
    BY <1>1, <1>9
  <2> QED BY <1>6, <1>7, <1>8, <2>1 DEF Join
<1>11. ASSUME NEW j \in 1 .. 2 PROVE b[d + j] = e[j]
  <2>1. j \in 1 .. Len(e) /\ d + j \in 1 .. Len(t) /\ d + j \in 1 .. Len(u)
    BY <1>1, <1>2, <1>9
  <2>2. t[d + j] = e[j]
    BY <1>6, <1>9, <2>1 DEF Join
  <2> QED BY <1>7, <1>8, <2>1, <2>2 DEF Join
<1>12. ASSUME NEW k \in 1 .. 4 PROVE b[d + 2 + k] = l[k]
  <2>1. k \in 1 .. Len(l) /\ d + 2 + k \in 1 .. Len(u) /\ d + 2 + k = (d + 2) + k
    BY <1>1, <1>3, <1>9
  <2>2. u[d + 2 + k] = l[k]
    BY <1>7, <1>9, <2>1 DEF Join
  <2> QED BY <1>8, <2>1, <2>2 DEF Join
<1>13. b[d + 7] = s.n_accounts
  <2>1. 1 \in 1 .. Len(n) /\ Len(u) + 1 = d + 7
    BY <1>1, <1>4, <1>9
  <2>2. b[Len(u) + 1] = n[1]
    BY <1>8, <2>1 DEF Join
  <2> QED BY <1>4, <2>1, <2>2
<1>14. b[d + 1] = s.from /\ b[d + 2] = s.to
  BY <1>2, <1>11
<1> QED BY <1>1, <1>5, <1>8, <1>9, <1>10, <1>12, <1>13, <1>14 DEF v, d, l

\* One spec is read back, whatever surrounds it.
LEMMA Deserializes ==
  ASSUME NEW s \in SwapSpec, IsU32(s.weight_nanos), NEW bytes \in Seq(Nat),
         NEW at \in Nat \ {0}, at + Len(SwapBytes(s)) <= Len(bytes) + 1,
         \A j \in 1 .. Len(SwapBytes(s)) : bytes[at + (j - 1)] = SwapBytes(s)[j]
  PROVE  Deserialized(bytes, at) =
           [ok |-> TRUE, next |-> at + Len(SwapBytes(s)), swap |-> s]
<1> DEFINE b == SwapBytes(s)
           v == VenueBytes(s.venue)
           d == Len(v)
           huma == ProgramVenue(bytes[at]) = "Huma"
           f == IF huma THEN at + 2 ELSE at + 1
           venue == IF huma THEN [tag |-> "Huma", is_deposit |-> bytes[at + 1] = 1]
                    ELSE [tag |-> "RaydiumAmm"]
<1>1. /\ d \in {1, 2} /\ Len(b) = d + 7 /\ \A j \in 1 .. d : b[j] = v[j]
      /\ b[d + 1] = s.from /\ b[d + 2] = s.to /\ b[d + 7] = s.n_accounts
      /\ \A k \in 1 .. 4 : b[d + 2 + k] = LeBytes(s.weight_nanos, 4)[k]
  BY SwapBytesFacts
<1>2. \A j \in 1 .. d + 7 : bytes[at + (j - 1)] = b[j]
  BY <1>1
<1>3. /\ d \in Nat /\ (d = 1 \/ d = 2) /\ at \in Nat /\ at # 0 /\ Len(bytes) \in Nat
      /\ Len(b) = d + 7 /\ at + Len(b) <= Len(bytes) + 1
  <2>1. Len(bytes) \in Nat
    OBVIOUS
  <2> HIDE DEF d
  <2>2. d \in Nat /\ (d = 1 \/ d = 2)
    BY <1>1
  <2> QED BY <1>1, <2>1, <2>2
<1>4. bytes[at] = v[1]
  <2>1. 1 \in 1 .. d /\ 1 \in 1 .. d + 7 /\ at + (1 - 1) = at
    <3> HIDE DEF d
    <3> QED BY <1>3
  <2> QED BY <1>1, <1>2, <2>1
<1>5. /\ venue = s.venue /\ f = at + d
      /\ bytes[at] <= 1 /\ (huma => bytes[at + 1] <= 1)
  <2>1. s.venue \in VenueArg
    BY DEF SwapSpec
  <2>2. CASE s.venue.tag = "RaydiumAmm"
    <3>1. v = << 0 >> /\ s.venue = [tag |-> "RaydiumAmm"]
      BY <2>1, <2>2 DEF VenueBytes, VenueArg
    <3>2. bytes[at] = 0 /\ d = 1
      BY <1>4, <3>1
    <3>3. ~huma
      BY <3>2 DEF ProgramVenue
    <3> QED BY <3>1, <3>2, <3>3
  <2>3. CASE s.venue.tag # "RaydiumAmm"
    <3>1. s.venue \in [tag : {"Huma"}, is_deposit : BOOLEAN]
      BY <2>1, <2>3 DEF VenueArg
    <3> DEFINE x == IF s.venue.is_deposit THEN 1 ELSE 0
    <3>2. v = << 1, x >>
      BY <2>3 DEF VenueBytes
    <3>3. v[1] = 1 /\ v[2] = x /\ d = 2
      BY <3>2
    <3>4. bytes[at] = 1 /\ bytes[at + 1] = x
      <4>1. 2 \in 1 .. d /\ 2 \in 1 .. d + 7 /\ at + (2 - 1) = at + 1
        BY <3>3
      <4> QED BY <1>1, <1>2, <1>4, <3>3, <4>1
    <3>5. huma
      BY <3>4 DEF ProgramVenue
    <3>6. s.venue = [tag |-> "Huma", is_deposit |-> s.venue.is_deposit]
      BY <3>1
    <3>7. [tag |-> "Huma", is_deposit |-> bytes[at + 1] = 1] = s.venue
      <4>1. CASE s.venue.is_deposit = TRUE
        <5>1. (bytes[at + 1] = 1) = TRUE
          BY <3>4, <4>1
        <5> QED BY <3>6, <4>1, <5>1, Zenon
      <4>2. CASE s.venue.is_deposit = FALSE
        <5>1. (bytes[at + 1] = 1) = FALSE
          BY <3>4, <4>2
        <5> QED BY <3>6, <4>2, <5>1, Zenon
      <4> QED BY <3>1, <4>1, <4>2
    <3> QED BY <3>3, <3>4, <3>5, <3>7
  <2> QED BY <2>2, <2>3
<1>6. bytes[at + d] = s.from /\ bytes[at + d + 1] = s.to /\ bytes[at + d + 6] = s.n_accounts
  <2>1. /\ d + 1 \in 1 .. d + 7 /\ d + 2 \in 1 .. d + 7 /\ d + 7 \in 1 .. d + 7
        /\ at + ((d + 1) - 1) = at + d /\ at + ((d + 2) - 1) = at + d + 1
        /\ at + ((d + 7) - 1) = at + d + 6
    BY <1>1
  <2> HIDE DEF d, b
  <2>2. bytes[at + ((d + 1) - 1)] = b[d + 1] /\ bytes[at + ((d + 2) - 1)] = b[d + 2]
        /\ bytes[at + ((d + 7) - 1)] = b[d + 7]
    BY <1>2, <2>1, Zenon
  <2> QED BY <1>1, <2>1, <2>2, Zenon
<1>7. LeNumber(bytes, at + d + 2, 4) = s.weight_nanos
  <2> HIDE DEF d, b
  <2>1. \A k \in 1 .. 4 : bytes[(at + d + 2) + (k - 1)] = LeBytes(s.weight_nanos, 4)[k]
    <3> TAKE k \in 1 .. 4
    <3>1. d + 2 + k \in 1 .. d + 7 /\ at + ((d + 2 + k) - 1) = (at + d + 2) + (k - 1)
      <4>1. k \in Nat /\ 1 <= k /\ k <= 4 /\ at \in Nat /\ d \in Nat
        BY <1>3
      <4> QED BY <4>1
    <3>2. bytes[at + ((d + 2 + k) - 1)] = b[d + 2 + k]
      BY <1>2, <3>1, Zenon
    <3> QED BY <1>1, <3>1, <3>2
  <2> DEFINE a == at + d + 2
  <2>2. a \in Nat
    BY <1>3
  <2>3. \A k \in 1 .. 4 : bytes[a + (k - 1)] = LeBytes(s.weight_nanos, 4)[k]
    BY <2>1
  <2> HIDE DEF a
  <2> DEFINE w == 4
             x == s.weight_nanos
  <2>4. /\ w \in {4, 8} /\ w # 8 /\ IsU32(x)
        /\ \A k \in 1 .. w : bytes[a + (k - 1)] = LeBytes(x, w)[k]
    BY <2>3
  <2> HIDE DEF w, x
  <2>5. LeNumber(bytes, a, w) = x
    BY <2>2, <2>4, LeInverse
  <2> QED BY <2>5 DEF a, w, x
<1>8. /\ at <= Len(bytes) /\ at + d + 6 <= Len(bytes) /\ Len(bytes) \in Nat
      /\ at + d + 7 = at + Len(b)
  <2> DEFINE m == Len(bytes)
             n == Len(b)
  <2>1. m \in Nat /\ n = d + 7 /\ at + n <= m + 1
    BY <1>3
  <2> HIDE DEF m, n, d
  <2>2. at <= m /\ at + d + 6 <= m /\ at + d + 7 = at + n
    BY <1>3, <2>1
  <2> QED BY <2>1, <2>2 DEF m, n
<1>9. /\ Deserialized(bytes, at) =
           IF at > Len(bytes) \/ f + 6 > Len(bytes) THEN [ok |-> FALSE, next |-> at]
           ELSE [ok |-> bytes[at] <= 1 /\ (huma => bytes[at + 1] <= 1), next |-> f + 7,
                 swap |-> [venue |-> venue, from |-> bytes[f], to |-> bytes[f + 1],
                           weight_nanos |-> LeNumber(bytes, f + 2, 4),
                           n_accounts |-> bytes[f + 6]]]
  BY Zenon DEF Deserialized
<1> HIDE DEF f, venue, huma, d, b
<1>10. ~(at > Len(bytes) \/ f + 6 > Len(bytes))
  <2>1. f \in Nat /\ f + 6 = at + d + 6
    BY <1>5, <1>3
  <2>2. at + d + 6 <= Len(bytes) /\ at <= Len(bytes) /\ Len(bytes) \in Nat
    BY <1>8
  <2> QED BY <1>3, <2>1, <2>2
<1>11. (bytes[at] <= 1 /\ (huma => bytes[at + 1] <= 1)) = TRUE
  BY <1>5, Zenon
<1>12. s = [venue |-> s.venue, from |-> s.from, to |-> s.to,
            weight_nanos |-> s.weight_nanos, n_accounts |-> s.n_accounts]
  BY DEF SwapSpec
<1>13. /\ bytes[f] = s.from /\ bytes[f + 1] = s.to /\ bytes[f + 6] = s.n_accounts
       /\ LeNumber(bytes, f + 2, 4) = s.weight_nanos /\ f + 7 = at + Len(b)
  BY <1>5, <1>6, <1>7, <1>8, Zenon
<1> QED BY <1>5, <1>9, <1>10, <1>11, <1>12, <1>13, Zenon DEF b

\* Where the arguments are in the instruction data.
Layout(bytes, amount, mints, n, swaps) ==
  /\ bytes \in Seq(Nat) /\ swaps \in Seq(Nat) /\ Len(bytes) = 14 + Len(swaps)
  /\ bytes[1] = 42 /\ bytes[10] = mints
  /\ \A k \in 1 .. 8 : bytes[2 + (k - 1)] = LeBytes(amount, 8)[k]
  /\ \A k \in 1 .. 4 : bytes[11 + (k - 1)] = LeBytes(n, 4)[k]
  /\ \A j \in 1 .. Len(swaps) : bytes[14 + j] = swaps[j]

LEMMA DataLayout ==
  ASSUME NEW amount \in Nat, NEW mints \in Nat, NEW specs \in Seq(SwapSpec)
  PROVE  Layout(encode_swap_route_v3_data(amount, mints, specs), amount, mints, Len(specs),
                Concat([k \in 1 .. Len(specs) |-> SwapBytes(specs[k])], Len(specs)))
<1> DEFINE n == Len(specs)
           g == [k \in 1 .. n |-> SwapBytes(specs[k])]
           c == Concat(g, n)
           h == << 42 >>
           a == LeBytes(amount, 8)
           m == << mints >>
           l == LeBytes(n, 4)
           ha == h \o a
           ham == ha \o m
           haml == ham \o l
           b == haml \o c
<1>1. n \in Nat /\ \A k \in 1 .. n : g[k] \in Seq(Nat)
  <2>1. n \in Nat /\ \A k \in 1 .. n : specs[k] \in SwapSpec
    OBVIOUS
  <2> QED BY <2>1, SwapBytesFacts
<1>2. c \in Seq(Nat)
  <2> HIDE DEF g, n
  <2>1. Joins([k \in 0 .. n |-> Concat(g, k)], g, n, Nat)
    BY <1>1, ConcatStep, Zenon
  <2>2. n \in 0 .. n
    BY <1>1
  <2> QED BY <2>1, <2>2, Zenon DEF Joins
<1>3. h \in Seq(Nat) /\ Len(h) = 1 /\ h[1] = 42 /\ m \in Seq(Nat) /\ Len(m) = 1 /\ m[1] = mints
  OBVIOUS
<1>4. a \in Seq(Nat) /\ Len(a) = 8 /\ l \in Seq(Nat) /\ Len(l) = 4
  BY <1>1, LeBytesType
<1>5. encode_swap_route_v3_data(amount, mints, specs) = b
  BY DEF encode_swap_route_v3_data
<1> HIDE DEF n, g, c, h, a, m, l, ha, ham, haml, b
<1>6. ha \in Seq(Nat) /\ Join(ha, h, a)
  BY <1>3, <1>4, Joined DEF ha
<1>7. ham \in Seq(Nat) /\ Join(ham, ha, m)
  BY <1>3, <1>6, Joined DEF ham
<1>8. haml \in Seq(Nat) /\ Join(haml, ham, l)
  BY <1>4, <1>7, Joined DEF haml
<1>9. b \in Seq(Nat) /\ Join(b, haml, c)
  BY <1>2, <1>8, Joined DEF b
<1>10. Len(ha) = 9 /\ Len(ham) = 10 /\ Len(haml) = 14
  BY <1>3, <1>4, <1>6, <1>7, <1>8 DEF Join
<1>11. Len(b) = 14 + Len(c) /\ \A j \in 1 .. Len(c) : b[14 + j] = c[j]
  BY <1>9, <1>10 DEF Join
<1>12. \A i \in 1 .. 14 : b[i] = haml[i]
  BY <1>9, <1>10 DEF Join
<1>13. \A i \in 1 .. 10 : haml[i] = ham[i]
  BY <1>8, <1>10 DEF Join
<1>14. \A i \in 1 .. 9 : ham[i] = ha[i]
  BY <1>7, <1>10 DEF Join
<1>15. b[1] = 42
  <2>1. ha[1] = 42
    BY <1>3, <1>6 DEF Join
  <2> QED BY <1>12, <1>13, <1>14, <2>1
<1>16. b[10] = mints
  <2>1. ham[9 + 1] = mints
    BY <1>3, <1>7, <1>10 DEF Join
  <2>2. ham[10] = mints
    BY <2>1
  <2> QED BY <1>12, <1>13, <2>2
<1>17. ASSUME NEW k \in 1 .. 8 PROVE b[2 + (k - 1)] = a[k]
  <2>1. k \in 1 .. Len(a) /\ Len(h) + k = 2 + (k - 1) /\ 2 + (k - 1) \in 1 .. 9
    BY <1>3, <1>4
  <2>2. ha[2 + (k - 1)] = a[k]
    BY <1>6, <2>1 DEF Join
  <2> QED BY <1>12, <1>13, <1>14, <2>1, <2>2
<1>18. ASSUME NEW k \in 1 .. 4 PROVE b[11 + (k - 1)] = l[k]
  <2>1. k \in 1 .. Len(l) /\ Len(ham) + k = 11 + (k - 1) /\ 11 + (k - 1) \in 1 .. 14
    BY <1>4, <1>10
  <2>2. haml[11 + (k - 1)] = l[k]
    BY <1>8, <2>1 DEF Join
  <2> QED BY <1>12, <2>1, <2>2
<1>19. Layout(b, amount, mints, n, c)
  BY <1>2, <1>9, <1>11, <1>15, <1>16, <1>17, <1>18 DEF Layout, a, l
<1> QED BY <1>5, <1>19 DEF n, g, c

\* The program's arguments are the amount, the number of mints and the specs that
\* encode_swap_route_v3_data was given.
THEOREM Decodes ==
  ASSUME NEW amount, IsU64(amount), NEW mints \in Nat, NEW specs \in Seq(SwapSpec),
         IsU32(Len(specs)), \A k \in 1 .. Len(specs) : IsU32(specs[k].weight_nanos)
  PROVE  Arguments(encode_swap_route_v3_data(amount, mints, specs)) =
           [ok |-> TRUE, amount |-> amount, mints |-> mints, swaps |-> specs]
<1> DEFINE bytes == encode_swap_route_v3_data(amount, mints, specs)
           n == Len(specs)
           g == [k \in 1 .. n |-> SwapBytes(specs[k])]
           L == [k \in 0 .. n |-> Len(Concat(g, k))]
           first(k) == [j \in 1 .. k |-> specs[j]]
           start == [ok |-> bytes[1] = 42, at |-> 15, swaps |-> << >>]
           next(p) == LET d == Deserialized(bytes, p.at)
                      IN  IF p.ok /\ d.ok
                          THEN [ok |-> TRUE, at |-> d.next, swaps |-> Append(p.swaps, d.swap)]
                          ELSE [p EXCEPT !.ok = FALSE]
           G == [k \in 0 .. n |-> [ok |-> TRUE, at |-> 15 + L[k], swaps |-> first(k)]]
<1>1. n \in Nat /\ amount \in Nat /\ \A k \in 1 .. n : specs[k] \in SwapSpec
  BY DEF IsU64
<1>2. Layout(bytes, amount, mints, n, Concat(g, n))
  BY <1>1, DataLayout
<1> HIDE DEF bytes
<1>3. LeNumber(bytes, 2, 8) = amount
  <2>1. \A k \in 1 .. 8 : bytes[2 + (k - 1)] = LeBytes(amount, 8)[k]
    BY <1>2 DEF Layout
  <2> DEFINE at == 2
             w == 8
  <2>2. /\ at \in Nat /\ w \in {4, 8} /\ w # 4 /\ IsU64(amount)
        /\ \A k \in 1 .. w : bytes[at + (k - 1)] = LeBytes(amount, w)[k]
    BY <2>1
  <2> HIDE DEF at, w
  <2>3. LeNumber(bytes, at, w) = amount
    BY <2>2, LeInverse
  <2> QED BY <2>3 DEF at, w
<1>4. LeNumber(bytes, 11, 4) = n
  <2>1. \A k \in 1 .. 4 : bytes[11 + (k - 1)] = LeBytes(n, 4)[k]
    BY <1>2 DEF Layout
  <2> DEFINE at == 11
             w == 4
  <2>2. /\ at \in Nat /\ w \in {4, 8} /\ w # 8 /\ IsU32(n)
        /\ \A k \in 1 .. w : bytes[at + (k - 1)] = LeBytes(n, w)[k]
    BY <2>1
  <2> HIDE DEF at, w, n
  <2>3. LeNumber(bytes, at, w) = n
    BY <2>2, LeInverse
  <2> QED BY <2>3 DEF at, w
<1>5. \A k \in 1 .. n : g[k] \in Seq(Nat) /\ g[k] = SwapBytes(specs[k])
  BY <1>1, SwapBytesFacts
<1> HIDE DEF g
<1>6. L[0] = 0 /\ \A k \in 0 .. n : L[k] \in Nat
  <2>1. Joins([k \in 0 .. n |-> Concat(g, k)], g, n, Nat)
    BY <1>1, <1>5, ConcatStep, Zenon
  <2>2. 0 \in 0 .. n
    BY <1>1
  <2>3. Concat(g, 0) = << >> /\ \A k \in 0 .. n : Concat(g, k) \in Seq(Nat)
    BY <2>1, <2>2, Zenon DEF Joins
  <2> QED BY <2>2, <2>3
<1>7. ASSUME NEW k \in 1 .. n PROVE next(G[k - 1]) = G[k]
  <2> DEFINE at == 15 + L[k - 1]
             s == specs[k]
             d == Deserialized(bytes, at)
             lk == Len(SwapBytes(s))
             p == G[k - 1]
  <2>1. k \in 0 .. n /\ k - 1 \in 0 .. n /\ s \in SwapSpec /\ IsU32(s.weight_nanos)
    BY <1>1
  <2>2. Sliced(g, n, k)
    BY <1>1, <1>5, ConcatSlice, Zenon
  <2>3. /\ L[k - 1] \in Nat /\ L[k] \in Nat /\ L[n] \in Nat /\ L[k] = L[k - 1] + lk
        /\ L[k] <= L[n] /\ Len(bytes) = 14 + L[n]
    <3>1. n \in 0 .. n
      BY <1>1
    <3>2. L[k] = Len(Concat(g, k)) /\ L[k - 1] = Len(Concat(g, k - 1)) /\ L[n] = Len(Concat(g, n))
      BY <2>1, <3>1, Zenon
    <3>3. lk = Len(g[k])
      BY <1>5
    <3> HIDE DEF L, lk
    <3> QED BY <1>2, <1>6, <2>1, <2>2, <3>1, <3>2, <3>3, Zenon DEF Layout, Sliced
  <2>4. lk \in Nat
    BY <2>1, SwapBytesFacts
  <2>5. ASSUME NEW j \in 1 .. lk PROVE bytes[at + (j - 1)] = SwapBytes(s)[j]
    <3> DEFINE x == L[k - 1]
    <3>1. x + j \in 1 .. Len(Concat(g, n)) /\ at + (j - 1) = 14 + (x + j)
      <4> DEFINE y == L[k]
                 z == Len(Concat(g, n))
      <4>1. L[n] = z
        BY <1>1
      <4>2. x \in Nat /\ y \in Nat /\ z \in Nat /\ y = x + lk /\ y <= z
        BY <2>3, <4>1, Zenon
      <4>3. j \in 1 .. lk /\ at = 15 + x
        OBVIOUS
      <4> HIDE DEF L, lk, x, y, z, at
      <4>4. x + j \in 1 .. z /\ at + (j - 1) = 14 + (x + j)
        BY <2>4, <4>2, <4>3
      <4> QED BY <4>4 DEF z
    <3>2. x = Len(Concat(g, k - 1)) /\ g[k] = SwapBytes(s)
      BY <1>5, <2>1
    <3> HIDE DEF x
    <3>3. bytes[14 + (x + j)] = Concat(g, n)[x + j]
      BY <1>2, <3>1, Zenon DEF Layout
    <3>4. Concat(g, n)[x + j] = SwapBytes(s)[j]
      BY <2>2, <3>2, Zenon DEF Sliced
    <3> QED BY <3>1, <3>3, <3>4, Zenon
  <2>6. d = [ok |-> TRUE, next |-> at + lk, swap |-> s]
    <3>1. at \in Nat \ {0} /\ at + lk <= Len(bytes) + 1
      <4> DEFINE x == L[k - 1]
                 y == L[k]
                 z == L[n]
                 t == Len(bytes)
      <4>1. x \in Nat /\ y \in Nat /\ z \in Nat /\ y = x + lk /\ y <= z /\ t = 14 + z
        BY <2>3, Zenon
      <4> HIDE DEF L, lk, x, y, z, t
      <4>2. 15 + x \in Nat \ {0} /\ (15 + x) + lk <= t + 1
        BY <2>4, <4>1
      <4> QED BY <4>2 DEF x, t
    <3>2. bytes \in Seq(Nat)
      BY <1>2 DEF Layout
    <3> HIDE DEF at, s
    <3> QED BY <3>2, <2>1, <2>5, <3>1, Deserializes
  <2>7. at + lk = 15 + L[k]
    <3> HIDE DEF L, lk
    <3> QED BY <2>3, <2>4
  <2>8. p = [ok |-> TRUE, at |-> at, swaps |-> first(k - 1)]
    BY <2>1
  <2>9. Append(first(k - 1), s) = first(k)
    <3>1. first(k - 1) \in Seq(SwapSpec) /\ Len(first(k - 1)) = k - 1
      BY <1>1, <2>1
    <3>2. first(k) \in Seq(SwapSpec) /\ Len(first(k)) = k
      BY <1>1, <2>1
    <3> DEFINE t == Append(first(k - 1), s)
    <3>3. /\ t \in Seq(SwapSpec) /\ Len(t) = k /\ t[k] = s
          /\ \A i \in 1 .. k - 1 : t[i] = first(k - 1)[i]
      <4> HIDE DEF first, s
      <4> QED BY <2>1, <3>1, AppendProperties
    <3>4. ASSUME NEW i \in 1 .. k PROVE t[i] = first(k)[i]
      <4>1. CASE i = k
        BY <3>3, <4>1
      <4>2. CASE i # k
        <5>1. i \in 1 .. k - 1
          BY <4>2
        <5>2. t[i] = first(k - 1)[i]
          BY <3>3, <5>1
        <5>3. first(k - 1)[i] = specs[i] /\ first(k)[i] = specs[i]
          BY <5>1
        <5> QED BY <5>2, <5>3
      <4> QED BY <4>1, <4>2
    <3> HIDE DEF t, first
    <3>5. t = first(k)
      BY <3>2, <3>3, <3>4, SeqEqual
    <3> QED BY <3>5 DEF t
  <2>10. G[k] = [ok |-> TRUE, at |-> 15 + L[k], swaps |-> first(k)]
    BY <2>1
  <2> HIDE DEF G, L, first, at, s, lk
  <2>11. next(p) = [ok |-> TRUE, at |-> d.next, swaps |-> Append(p.swaps, d.swap)]
    <3>1. p.ok = TRUE /\ p.at = at /\ d.ok = TRUE
      BY <2>6, <2>8
    <3> HIDE DEF p
    <3> QED BY <3>1, Zenon
  <2>12. d.next = at + lk /\ d.swap = s /\ p.swaps = first(k - 1)
    BY <2>6, <2>8
  <2> HIDE DEF next, d, p
  <2>13. next(p) = G[k]
    BY <2>7, <2>9, <2>10, <2>11, <2>12
  <2> QED BY <2>13 DEF p
<1>8. G[0] = start
  <2>1. 0 \in 0 .. n /\ first(0) = << >>
    BY <1>1
  <2>2. start = [ok |-> TRUE, at |-> 15, swaps |-> << >>]
    BY <1>2 DEF Layout
  <2>3. G[0] = [ok |-> TRUE, at |-> 15 + L[0], swaps |-> first(0)]
    BY <2>1
  <2> HIDE DEF L, G, first, start
  <2>4. 15 + L[0] = 15
    BY <1>6
  <2> QED BY <2>1, <2>2, <2>3, <2>4, Zenon
<1>9. G = [k \in 0 .. n |-> G[k]]
  OBVIOUS
<1>10. G[n].ok = TRUE /\ G[n].swaps = specs
  <2>1. n \in 0 .. n
    BY <1>1
  <2>2. first(n) = specs
    OBVIOUS
  <2> HIDE DEF L, first
  <2> QED BY <2>1, <2>2
<1> HIDE DEF G, L
<1> DEFINE P(c) == c = [k \in 0 .. n |-> IF k = 0 THEN start ELSE next(c[k - 1])]
           parsed[k \in 0 .. n] == IF k = 0 THEN start ELSE next(parsed[k - 1])
<1>11. Arguments(bytes) = [ok |-> parsed[n].ok, amount |-> LeNumber(bytes, 2, 8),
                           mints |-> bytes[10], swaps |-> parsed[n].swaps]
  BY <1>4 DEF Arguments
<1>12. parsed = CHOOSE c : P(c)
  BY DEF parsed
<1> HIDE DEF next, start, parsed
<1>13. P(G)
  <2>1. ASSUME NEW k \in 0 .. n PROVE G[k] = IF k = 0 THEN start ELSE next(G[k - 1])
    <3>1. k # 0 => k \in 1 .. n
      BY <1>1
    <3> QED BY <1>7, <1>8, <3>1
  <2> QED BY <1>9, <2>1, Zenon
<1>14. P(parsed)
  <2> HIDE DEF P
  <2> QED BY <1>12, <1>13
<1>15. \A k \in 0 .. n : parsed[k] = IF k = 0 THEN start ELSE next(parsed[k - 1])
  BY <1>14, Zenon
<1> DEFINE T == {k \in Nat : k <= n => parsed[k] = G[k]}
<1> HIDE DEF n
<1>16. 0 \in T
  <2>1. 0 \in 0 .. n
    BY <1>1
  <2> QED BY <1>8, <1>15, <2>1
<1>17. ASSUME NEW k \in Nat, k \in T PROVE k + 1 \in T
  <2> SUFFICES ASSUME k + 1 <= n PROVE parsed[k + 1] = G[k + 1]
    OBVIOUS
  <2> DEFINE m == k + 1
  <2>1. m \in 1 .. n /\ m \in 0 .. n /\ m - 1 = k /\ m # 0 /\ parsed[k] = G[k]
    BY <1>1, <1>17
  <2> HIDE DEF m
  <2>2. parsed[m] = next(parsed[k]) /\ next(G[k]) = G[m]
    BY <1>7, <1>15, <2>1, Zenon
  <2> QED BY <2>1, <2>2, Zenon DEF m
<1>18. parsed[n] = G[n]
  <2>1. n \in T
    <3> HIDE DEF T
    <3>1. Nat \subseteq T
      BY <1>16, <1>17, SetInduction
    <3> QED BY <1>1, <3>1
  <2> QED BY <1>1, <2>1
<1>19. bytes[10] = mints
  BY <1>2 DEF Layout
<1>20. Arguments(bytes) = [ok |-> TRUE, amount |-> amount, mints |-> mints, swaps |-> specs]
  BY <1>3, <1>10, <1>11, <1>18, <1>19
<1> QED BY <1>20 DEF bytes

-----------------------------------------------------------------------------
(* The accounts of the venues' instructions. *)

\* The literals of addresses; the provers do not know that a literal is a STRING.
Role ==
  {"payer", "titan_pda", "user_input", "user_output", "program", "template", "token_2022",
   "spl_token", "ata", "mint", "amm_pool", "amm_authority", "coin_vault", "pc_vault",
   "huma_config", "pool_config", "pool_state", "mode_config", "pool_authority",
   "pool_underlying", "deployment_config", "deployment_state", "lender_state", "treasury",
   "f_token", "lending_admin", "lending", "f_token_mint", "reserve", "position",
   "rate_model", "liquidity", "jup_liquidity", "rewards", "system", "jup_lending",
   "market", "market_authority", "obligation", "collateral_mint", "collateral_supply",
   "liquidity_supply", "sysvar_instructions", "kfarms", "farm_user_state", "farm_state",
   "klend", "RaydiumAMM", "Huma"}
Word == STRING \cup Role
Address == Seq(Word)
AccountMeta == [key : Address, signer : BOOLEAN, writable : BOOLEAN]

\* An address that is neither the payer nor the TitanPDA.
Other == {k \in Address : k # payer /\ k # titan_pda}

\* What a venue may mention in an instruction of the TitanPDA: the TitanPDA
\* signs and nobody else does.
OwnMeta == {m \in AccountMeta : m.key # payer /\ (m.signer <=> m.key = titan_pda)}

\* Short sequences.
LEMMA Tuples ==
  ASSUME NEW S, NEW a \in S, NEW b \in S, NEW c \in S
  PROVE  /\ << a >> \in Seq(S) /\ Len(<< a >>) = 1 /\ << a >>[1] = a
         /\ << a, b >> \in Seq(S) /\ Len(<< a, b >>) = 2
         /\ << a, b, c >> \in Seq(S) /\ Len(<< a, b, c >>) = 3
OBVIOUS

\* Addresses of two and of three parts.
LEMMA Addresses ==
  ASSUME NEW a \in Word, NEW b \in Word, NEW c \in Word
  PROVE  << a, b >> \in Other /\ << a, b, c >> \in Other
<1>1. << a, b >> \in Address /\ Len(<< a, b >>) = 2 /\ << a, b, c >> \in Address
      /\ Len(<< a, b, c >>) = 3
  BY Tuples, Zenon DEF Address
<1>2. Len(payer) = 1 /\ Len(titan_pda) = 1
  BY DEF payer, titan_pda
<1>3. << a, b >> # payer /\ << a, b >> # titan_pda
  BY <1>1, <1>2
<1>4. << a, b, c >> # payer /\ << a, b, c >> # titan_pda
  BY <1>1, <1>2
<1> QED BY <1>1, <1>3, <1>4, Zenon DEF Other

LEMMA Sysvars ==
  ASSUME NEW a \in {"amm_authority", "lending_admin", "liquidity", "sysvar_instructions",
                    "user_input", "user_output"}
  PROVE  << a >> \in Other
<1>1. a \in Role /\ a # "payer" /\ a # "titan_pda"
  BY DEF Role
<1>2. << a >> \in Address /\ << a >>[1] = a
  <2>1. a \in Word
    BY <1>1 DEF Word
  <2> QED BY <2>1, Tuples, Zenon DEF Address
<1>3. payer[1] = "payer" /\ titan_pda[1] = "titan_pda"
  BY DEF payer, titan_pda
<1>4. << a >> # payer /\ << a >> # titan_pda
  BY <1>1, <1>2, <1>3
<1> QED BY <1>2, <1>4, Zenon DEF Other

LEMMA Signers ==
  /\ payer \in Address /\ titan_pda \in Address /\ titan_pda # payer
  /\ titan_pda[1] \in Word
<1>1. payer[1] = "payer" /\ titan_pda[1] = "titan_pda"
  BY DEF payer, titan_pda
<1>2. "payer" \in Word /\ "titan_pda" \in Word
  BY DEF Word, Role
<1>3. payer \in Address /\ titan_pda \in Address
  BY <1>2, Tuples, Zenon DEF payer, titan_pda, Address
<1>4. titan_pda # payer
  BY <1>1
<1> QED BY <1>1, <1>2, <1>3, <1>4, Zenon

\* The addresses a venue derives: of its roles, of programs, mints and token accounts.
LEMMA RoleAddresses ==
  ASSUME NEW v \in Venue, NEW role \in Role
  PROVE  AccountOf(v, role) \in Other /\ Program(role) \in Other
<1>1. v.name \in STRING
  BY DEF Venue
<1>2. v.name \in Word /\ role \in Word /\ "program" \in Word
  <2>1. "program" \in Role
    BY DEF Role
  <2> QED BY <1>1, <2>1, Zenon DEF Word
<1> QED BY <1>2, Addresses, Zenon DEF AccountOf, Program

LEMMA MintAddresses ==
  ASSUME NEW m \in STRING
  PROVE  /\ Mint(m) \in Other /\ AtaOf(titan_pda, m) \in Other
         /\ Ata(titan_pda, m, "spl_token") \in Other /\ AtaOf(<<"liquidity">>, m) \in Other
         /\ Program(token_program(m)) \in Other
         /\ << "mode_config", m >> \in Other /\ << "lender_state", m, titan_pda[1] >> \in Other
<1>1. /\ "mint" \in Word /\ "program" \in Word /\ "mode_config" \in Word
      /\ "lender_state" \in Word /\ "spl_token" \in Word /\ "token_2022" \in Word
      /\ "liquidity" \in Word
  BY DEF Word, Role
<1>2. m \in Word
  BY DEF Word
<1>3. token_program(m) \in Word
  BY <1>1, Zenon DEF token_program
<1>4. <<"liquidity">>[1] = "liquidity"
  OBVIOUS
<1>5. Ata(titan_pda, m, "spl_token") \in Other /\ AtaOf(titan_pda, m) \in Other
  BY <1>1, <1>2, <1>3, Signers, Addresses, Zenon DEF AtaOf, Ata
<1>6. AtaOf(<<"liquidity">>, m) \in Other
  BY <1>1, <1>2, <1>3, <1>4, Addresses, Zenon DEF AtaOf, Ata
<1>7. Program(token_program(m)) \in Other /\ Mint(m) \in Other
  BY <1>1, <1>2, <1>3, Addresses, Zenon DEF Mint, Program
<1> QED BY <1>1, <1>2, <1>5, <1>6, <1>7, Signers, Addresses, Zenon

LEMMA MetaTypes ==
  /\ \A k \in Other : Readonly(k) \in OwnMeta /\ Writable(k) \in OwnMeta
  /\ Signer(titan_pda) \in OwnMeta
<1>1. ASSUME NEW k \in Other PROVE Readonly(k) \in OwnMeta /\ Writable(k) \in OwnMeta
  BY DEF Other, OwnMeta, AccountMeta, Readonly, Writable
<1>3. Signer(titan_pda) \in OwnMeta
  BY Signers DEF OwnMeta, AccountMeta, Signer
<1> QED BY <1>1, <1>3

\* Lists of writable and of read-only accounts.
LEMMA MetaLists ==
  ASSUME NEW keys \in Seq(Other)
  PROVE  /\ Map(Readonly, keys) \in Seq(OwnMeta) /\ Map(Writable, keys) \in Seq(OwnMeta)
         /\ Len(Map(Readonly, keys)) = Len(keys) /\ Len(Map(Writable, keys)) = Len(keys)
         /\ \A n \in 1 .. Len(keys) : Map(Writable, keys)[n] = Writable(keys[n])
<1>1. Len(keys) \in Nat /\ \A n \in 1 .. Len(keys) : keys[n] \in Other
  OBVIOUS
<1> DEFINE r == Map(Readonly, keys)
           w == Map(Writable, keys)
<1>2. r \in [1 .. Len(keys) -> OwnMeta]
  BY <1>1, MetaTypes DEF Map
<1>3. w \in [1 .. Len(keys) -> OwnMeta] /\ \A n \in 1 .. Len(keys) : w[n] = Writable(keys[n])
  BY <1>1, MetaTypes DEF Map
<1> HIDE DEF r, w
<1>4. r \in Seq(OwnMeta) /\ w \in Seq(OwnMeta) /\ Len(r) = Len(keys) /\ Len(w) = Len(keys)
  BY <1>1, <1>2, <1>3
<1> QED BY <1>3, <1>4 DEF r, w

\* Lists of a venue's roles.
LEMMA RoleLists ==
  ASSUME NEW v \in Venue, NEW roles \in Seq(Role)
  PROVE  Accounts(v, roles) \in Seq(Other) /\ Len(Accounts(v, roles)) = Len(roles)
<1>1. Len(roles) \in Nat /\ \A n \in 1 .. Len(roles) : roles[n] \in Role
  OBVIOUS
<1> DEFINE a == Accounts(v, roles)
<1>2. a \in [1 .. Len(roles) -> Other]
  BY <1>1, RoleAddresses DEF Accounts
<1> HIDE DEF a
<1>3. a \in Seq(Other) /\ Len(a) = Len(roles)
  BY <1>1, <1>2
<1> QED BY <1>3 DEF a

\* A list of n such accounts; the pieces of an instruction are joined in order.
Piece(s, n) == s \in Seq(OwnMeta) /\ Len(s) = n

Glued(u, s, a, t, b) ==
  /\ Piece(u, a + b)
  /\ \A i \in 1 .. a : u[i] = s[i]
  /\ \A j \in 1 .. b : u[a + j] = t[j]

LEMMA PieceJoin ==
  ASSUME NEW a \in Nat, NEW b \in Nat, NEW s, NEW t, Piece(s, a), Piece(t, b)
  PROVE  Glued(s \o t, s, a, t, b)
<1>1. s \in Seq(OwnMeta) /\ t \in Seq(OwnMeta) /\ Len(s) = a /\ Len(t) = b
  BY DEF Piece
<1>2. s \o t \in Seq(OwnMeta) /\ Join(s \o t, s, t)
  BY <1>1, Joined, Zenon
<1> DEFINE u == s \o t
<1> HIDE DEF u
<1>3. u \in Seq(OwnMeta) /\ Join(u, s, t)
  BY <1>2 DEF u
<1>4. Glued(u, s, a, t, b)
  BY <1>1, <1>3 DEF Join, Piece, Glued
<1> QED BY <1>4 DEF u

\* Pieces of one, two and three accounts, and of a venue's roles.
LEMMA SmallPieces ==
  ASSUME NEW a \in OwnMeta, NEW b \in OwnMeta, NEW c \in OwnMeta
  PROVE  Piece(<< a >>, 1) /\ Piece(<< a, b >>, 2) /\ Piece(<< a, b, c >>, 3)
BY Tuples, Zenon DEF Piece

LEMMA KeyPieces ==
  ASSUME NEW keys \in Seq(Other), NEW n \in Nat, Len(keys) = n
  PROVE  /\ Piece(Map(Readonly, keys), n) /\ Piece(Map(Writable, keys), n)
         /\ \A i \in 1 .. n : Map(Writable, keys)[i] = Writable(keys[i])
BY MetaLists, Zenon DEF Piece

LEMMA RolePieces ==
  ASSUME NEW v \in Venue, NEW roles \in Seq(Role), NEW n \in Nat, Len(roles) = n
  PROVE  /\ Piece(Map(Readonly, Accounts(v, roles)), n)
         /\ Piece(Map(Writable, Accounts(v, roles)), n)
<1>1. Accounts(v, roles) \in Seq(Other) /\ Len(Accounts(v, roles)) = n
  BY RoleLists, Zenon
<1> QED BY <1>1, KeyPieces, Zenon

\* The eight accounts of swap_base_in_v2.
LEMMA RaydiumAccounts ==
  ASSUME NEW v \in Venue, NEW source \in Other, NEW destination \in Other, NEW amount
  PROVE  LET own == swap_base_in_v2(v, source, destination, titan_pda, amount).accounts
         IN  Piece(own, 8) /\ own[6] = Writable(source) /\ own[7] = Writable(destination)
<1> DEFINE A == << Readonly(Program("spl_token")), Writable(AccountOf(v, "amm_pool")),
                   Readonly(<<"amm_authority">>) >>
           B == Map(Writable, Accounts(v, <<"coin_vault", "pc_vault">>))
           C == << Writable(source), Writable(destination), Signer(titan_pda) >>
           AB == A \o B
           own == AB \o C
<1>1. Piece(A, 3)
  <2>1. "spl_token" \in Role /\ "amm_pool" \in Role
    BY DEF Role
  <2>2. /\ Program("spl_token") \in Other /\ AccountOf(v, "amm_pool") \in Other
        /\ <<"amm_authority">> \in Other
    BY <2>1, RoleAddresses, Sysvars
  <2> QED BY <2>2, MetaTypes, SmallPieces, Zenon
<1>2. Piece(B, 2)
  <2>1. "coin_vault" \in Role /\ "pc_vault" \in Role
    BY DEF Role
  <2>2. <<"coin_vault", "pc_vault">> \in Seq(Role) /\ Len(<<"coin_vault", "pc_vault">>) = 2
    BY <2>1, Tuples, Zenon
  <2> QED BY <2>2, RolePieces
<1>3. Piece(C, 3) /\ C[1] = Writable(source) /\ C[2] = Writable(destination)
  <2>1. Piece(C, 3)
    BY MetaTypes, SmallPieces, Zenon
  <2> QED BY <2>1
<1>4. swap_base_in_v2(v, source, destination, titan_pda, amount).accounts = own
  BY DEF swap_base_in_v2
<1> HIDE DEF A, B, C
<1>5. Glued(AB, A, 3, B, 2)
  BY <1>1, <1>2, PieceJoin
<1> HIDE DEF AB
<1>6. Piece(AB, 5)
  BY <1>5 DEF Glued
<1>7. Glued(own, AB, 5, C, 3)
  BY <1>3, <1>6, PieceJoin
<1> HIDE DEF own
<1>8. Piece(own, 8) /\ own[6] = C[1] /\ own[7] = C[2]
  BY <1>7 DEF Glued
<1> QED BY <1>3, <1>4, <1>8

\* Longer sequences.
LEMMA LongTuples ==
  ASSUME NEW S, NEW a \in S, NEW b \in S, NEW c \in S, NEW d \in S, NEW e \in S
  PROVE  /\ << a, b, c, d >> \in Seq(S) /\ Len(<< a, b, c, d >>) = 4
         /\ << a, b, c, d, e >> \in Seq(S) /\ Len(<< a, b, c, d, e >>) = 5
OBVIOUS

LEMMA PieceLen ==
  ASSUME NEW a \in Nat, NEW b \in Nat, NEW s, NEW t, Piece(s, a), Piece(t, b)
  PROVE  Piece(s \o t, a + b)
BY PieceJoin, Zenon DEF Glued

LEMMA HumaFields ==
  ASSUME NEW v \in Venue, v.protocol # "RaydiumAMM"
  PROVE  /\ v.underlying \in STRING /\ v.mode \in STRING /\ v.protocol = "Huma"
         /\ v.farmed \in BOOLEAN
BY DEF Venue

\* The six accounts that deposit and instant withdrawal start with, and the two
\* token programs.
LEMMA CommonAccounts ==
  ASSUME NEW v \in Venue, v.protocol # "RaydiumAMM"
  PROVE  Piece(huma_common(v, titan_pda), 6) /\ Piece(TokenPrograms(v), 2)
<1> DEFINE A == << Signer(titan_pda) >>
           B == Map(Readonly, Accounts(v, <<"huma_config", "pool_config">>))
           C == << Writable(AccountOf(v, "pool_state")), Readonly(<<"mode_config", v.mode>>),
                   Writable(Mint(v.mode)) >>
           AB == A \o B
           keys == << Program(token_program(v.underlying)), Program(token_program(v.mode)) >>
<1>1. /\ "huma_config" \in Role /\ "pool_config" \in Role /\ "pool_state" \in Role
  BY DEF Role
<1>2. Piece(A, 1)
  BY MetaTypes, SmallPieces, Zenon
<1>3. Piece(B, 2)
  <2>1. <<"huma_config", "pool_config">> \in Seq(Role) /\ Len(<<"huma_config", "pool_config">>) = 2
    BY <1>1, Tuples, Zenon
  <2> QED BY <2>1, RolePieces
<1>4. Piece(C, 3)
  <2>1. AccountOf(v, "pool_state") \in Other
    BY <1>1, RoleAddresses, Zenon
  <2>2. <<"mode_config", v.mode>> \in Other /\ Mint(v.mode) \in Other
    BY HumaFields, MintAddresses, Zenon
  <2> QED BY <2>1, <2>2, MetaTypes, SmallPieces, Zenon
<1>5. keys \in Seq(Other) /\ Len(keys) = 2
  <2>1. Program(token_program(v.underlying)) \in Other /\ Program(token_program(v.mode)) \in Other
    BY HumaFields, MintAddresses, Zenon
  <2> QED BY <2>1, Tuples, Zenon
<1>6. Piece(TokenPrograms(v), 2)
  <2> HIDE DEF keys
  <2>1. Piece(Map(Readonly, keys), 2)
    BY <1>5, KeyPieces
  <2> QED BY <2>1 DEF TokenPrograms, keys
<1> HIDE DEF A, B, C
<1>7. Piece(AB, 1 + 2)
  BY <1>2, <1>3, PieceLen
<1> HIDE DEF AB
<1>8. Piece(AB \o C, 3 + 3)
  BY <1>4, <1>7, PieceLen
<1>9. huma_common(v, titan_pda) = AB \o C
  BY DEF huma_common, A, B, C, AB
<1>10. Piece(huma_common(v, titan_pda), 3 + 3)
  BY <1>8, <1>9
<1> QED BY <1>6, <1>10

\* The thirteen accounts of a deposit: it spends the tenth and pays to the eleventh.
LEMMA DepositAccounts ==
  ASSUME NEW v \in Venue, v.protocol # "RaydiumAMM"
  PROVE  LET own == deposit_account_metas(v, titan_pda)
         IN  /\ Piece(own, 13)
             /\ own[10] = Writable(AtaOf(titan_pda, v.underlying))
             /\ own[11] = Writable(AtaOf(titan_pda, v.mode))
<1> DEFINE A == huma_common(v, titan_pda)
           B == << Readonly(AccountOf(v, "pool_authority")), Readonly(Mint(v.underlying)) >>
           keys == << AccountOf(v, "pool_underlying"), AtaOf(titan_pda, v.underlying),
                      AtaOf(titan_pda, v.mode) >>
           C == Map(Writable, keys)
           D == TokenPrograms(v)
           AB == A \o B
           ABC == AB \o C
           own == ABC \o D
<1>1. "pool_authority" \in Role /\ "pool_underlying" \in Role
  BY DEF Role
<1>2. /\ AtaOf(titan_pda, v.underlying) \in Other /\ AtaOf(titan_pda, v.mode) \in Other
      /\ Mint(v.underlying) \in Other
  BY HumaFields, MintAddresses, Zenon
<1>3. Piece(A, 6) /\ Piece(D, 2)
  BY CommonAccounts, Zenon
<1>4. Piece(B, 2)
  BY <1>1, <1>2, RoleAddresses, MetaTypes, SmallPieces, Zenon
<1>5. keys \in Seq(Other) /\ Len(keys) = 3
  BY <1>1, <1>2, RoleAddresses, Tuples, Zenon
<1>6. keys[2] = AtaOf(titan_pda, v.underlying) /\ keys[3] = AtaOf(titan_pda, v.mode)
  OBVIOUS
<1> HIDE DEF keys
<1>7. Piece(C, 3) /\ \A i \in 1 .. 3 : C[i] = Writable(keys[i])
  BY <1>5, KeyPieces
<1>8. C[2] = Writable(AtaOf(titan_pda, v.underlying)) /\ C[3] = Writable(AtaOf(titan_pda, v.mode))
  <2> HIDE DEF C
  <2> QED BY <1>6, <1>7
<1>9. deposit_account_metas(v, titan_pda) = own
  BY DEF deposit_account_metas, keys
<1> HIDE DEF A, B, C, D
<1>10. Piece(AB, 6 + 2)
  BY <1>3, <1>4, PieceLen
<1> HIDE DEF AB
<1>11. Glued(ABC, AB, 8, C, 3)
  BY <1>7, <1>10, PieceJoin
<1> HIDE DEF ABC
<1>12. Piece(ABC, 11) /\ ABC[10] = C[2] /\ ABC[11] = C[3]
  BY <1>11 DEF Glued
<1>13. Glued(own, ABC, 11, D, 2)
  BY <1>3, <1>12, PieceJoin
<1> HIDE DEF own
<1>14. Piece(own, 13) /\ own[10] = ABC[10] /\ own[11] = ABC[11]
  BY <1>13 DEF Glued
<1> QED BY <1>8, <1>9, <1>12, <1>14

\* The fourteen accounts of JupLend ...
LEMMA JupLendList ==
  ASSUME NEW v \in Venue, v.protocol # "RaydiumAMM"
  PROVE  Piece(JupLendAccounts(v), 14)
<1> DEFINE A == << Writable(AccountOf(v, "f_token")), Readonly(<<"lending_admin">>) >>
           B == Map(Writable, Accounts(v, <<"lending", "f_token_mint", "reserve", "position">>))
           C == << Readonly(AccountOf(v, "rate_model")) >>
           dkeys == << AtaOf(<<"liquidity">>, v.underlying), <<"liquidity">>, Program("jup_liquidity") >>
           D == Map(Writable, dkeys)
           ekeys == << AccountOf(v, "rewards"), Program("ata"), Program("system"),
                       Program("jup_lending") >>
           E == Map(Readonly, ekeys)
           AB == A \o B
           ABC == AB \o C
           ABCD == ABC \o D
<1>1. /\ "f_token" \in Role /\ "lending" \in Role /\ "f_token_mint" \in Role
      /\ "reserve" \in Role /\ "position" \in Role /\ "rate_model" \in Role
      /\ "jup_liquidity" \in Role /\ "rewards" \in Role /\ "ata" \in Role
      /\ "system" \in Role /\ "jup_lending" \in Role
  BY DEF Role
<1>2. <<"lending_admin">> \in Other /\ <<"liquidity">> \in Other
  BY Sysvars
<1>3. Piece(A, 2) /\ Piece(C, 1)
  BY <1>1, <1>2, RoleAddresses, MetaTypes, SmallPieces, Zenon
<1>4. Piece(B, 4)
  <2> DEFINE roles == <<"lending", "f_token_mint", "reserve", "position">>
  <2>1. roles \in Seq(Role) /\ Len(roles) = 4
    BY <1>1, LongTuples, Zenon
  <2> QED BY <2>1, RolePieces
<1>5. Piece(D, 3)
  <2>1. dkeys \in Seq(Other) /\ Len(dkeys) = 3
    <3>1. AtaOf(<<"liquidity">>, v.underlying) \in Other
      BY HumaFields, MintAddresses, Zenon
    <3> QED BY <1>1, <1>2, <3>1, RoleAddresses, Tuples, Zenon
  <2> HIDE DEF dkeys
  <2> QED BY <2>1, KeyPieces
<1>6. Piece(E, 4)
  <2>1. ekeys \in Seq(Other) /\ Len(ekeys) = 4
    BY <1>1, RoleAddresses, LongTuples, Zenon
  <2> HIDE DEF ekeys
  <2> QED BY <2>1, KeyPieces
<1>7. JupLendAccounts(v) = ABCD \o E
  BY DEF JupLendAccounts
<1> HIDE DEF A, B, C, D, E
<1>8. Piece(AB, 2 + 4)
  BY <1>3, <1>4, PieceLen
<1> HIDE DEF AB
<1>9. Piece(ABC, 6 + 1)
  BY <1>3, <1>8, PieceLen
<1> HIDE DEF ABC
<1>10. Piece(ABCD, 7 + 3)
  BY <1>5, <1>9, PieceLen
<1> HIDE DEF ABCD
<1>11. Piece(ABCD \o E, 10 + 4)
  BY <1>6, <1>10, PieceLen
<1>12. Piece(JupLendAccounts(v), 10 + 4)
  BY <1>7, <1>11
<1> QED BY <1>12

\* ... and the eleven of Kamino, or thirteen with a farm.
LEMMA KaminoList ==
  ASSUME NEW v \in Venue, v.protocol # "RaydiumAMM"
  PROVE  Piece(KaminoLendAccounts(v), 11) \/ Piece(KaminoLendAccounts(v), 13)
<1> DEFINE A == << Writable(AccountOf(v, "reserve")) >>
           B == Map(Readonly, Accounts(v, <<"market", "market_authority">>))
           C == Map(Writable, Accounts(v, <<"obligation", "collateral_mint",
                                            "collateral_supply", "liquidity_supply">>))
           dkeys == << Program("spl_token"), <<"sysvar_instructions">>, Program("kfarms") >>
           D == Map(Readonly, dkeys)
           F == Map(Writable, Accounts(v, <<"farm_user_state", "farm_state">>))
           E == IF v.farmed THEN F ELSE << >>
           G == << Readonly(Program("klend")) >>
           AB == A \o B
           ABC == AB \o C
           ABCD == ABC \o D
           ABCDE == ABCD \o E
<1>1. /\ "reserve" \in Role /\ "market" \in Role /\ "market_authority" \in Role
      /\ "obligation" \in Role /\ "collateral_mint" \in Role /\ "collateral_supply" \in Role
      /\ "liquidity_supply" \in Role /\ "spl_token" \in Role /\ "kfarms" \in Role
      /\ "farm_user_state" \in Role /\ "farm_state" \in Role /\ "klend" \in Role
  BY DEF Role
<1>2. Piece(A, 1) /\ Piece(G, 1)
  BY <1>1, RoleAddresses, MetaTypes, SmallPieces, Zenon
<1>3. Piece(B, 2) /\ Piece(F, 2)
  <2>1. /\ <<"market", "market_authority">> \in Seq(Role)
        /\ Len(<<"market", "market_authority">>) = 2
        /\ <<"farm_user_state", "farm_state">> \in Seq(Role)
        /\ Len(<<"farm_user_state", "farm_state">>) = 2
    BY <1>1, Tuples, Zenon
  <2> QED BY <2>1, RolePieces
<1>4. Piece(C, 4)
  <2> DEFINE roles == <<"obligation", "collateral_mint", "collateral_supply",
                        "liquidity_supply">>
  <2>1. roles \in Seq(Role) /\ Len(roles) = 4
    BY <1>1, LongTuples, Zenon
  <2> QED BY <2>1, RolePieces
<1>5. Piece(D, 3)
  <2>1. dkeys \in Seq(Other) /\ Len(dkeys) = 3
    BY <1>1, Sysvars, RoleAddresses, Tuples, Zenon
  <2> HIDE DEF dkeys
  <2> QED BY <2>1, KeyPieces
<1>6. Piece(E, 0) \/ Piece(E, 2)
  <2>1. << >> \in Seq(OwnMeta) /\ Len(<< >>) = 0
    OBVIOUS
  <2> HIDE DEF F
  <2> QED BY <1>3, <2>1, Zenon DEF Piece
<1>7. KaminoLendAccounts(v) = ABCDE \o G
  BY DEF KaminoLendAccounts
<1> HIDE DEF A, B, C, D, E, F, G
<1>8. Piece(AB, 1 + 2)
  BY <1>2, <1>3, PieceLen
<1> HIDE DEF AB
<1>9. Piece(ABC, 3 + 4)
  BY <1>4, <1>8, PieceLen
<1> HIDE DEF ABC
<1>10. Piece(ABCD, 7 + 3)
  BY <1>5, <1>9, PieceLen
<1> HIDE DEF ABCD
<1>11. Piece(ABCDE, 10 + 0) \/ Piece(ABCDE, 10 + 2)
  BY <1>6, <1>10, PieceLen
<1> HIDE DEF ABCDE
<1>12. Piece(ABCDE \o G, 10 + 1) \/ Piece(ABCDE \o G, 12 + 1)
  BY <1>2, <1>11, PieceLen
<1> QED BY <1>7, <1>12

\* The accounts of an instant withdrawal: it spends the fifteenth and pays to the
\* thirteenth.
LEMMA WithdrawAccounts ==
  ASSUME NEW v \in Venue, v.protocol # "RaydiumAMM"
  PROVE  LET own == instant_withdraw_account_metas(v, titan_pda)
         IN  /\ \E n \in 28 .. 31 : Piece(own, n)
             /\ own[15] = Writable(AtaOf(titan_pda, v.mode))
             /\ own[13] = Writable(AtaOf(titan_pda, v.underlying))
<1> DEFINE A == huma_common(v, titan_pda)
           lender == <<"lender_state", v.mode, titan_pda[1]>>
           B == << Readonly(AccountOf(v, "deployment_config")),
                   Writable(AccountOf(v, "deployment_state")),
                   Writable(lender), Readonly(Mint(v.underlying)) >>
           keys == << AccountOf(v, "pool_authority"), AccountOf(v, "pool_underlying"),
                      AtaOf(titan_pda, v.underlying), AccountOf(v, "treasury"),
                      AtaOf(titan_pda, v.mode) >>
           C == Map(Writable, keys)
           D == TokenPrograms(v)
           E == instant_withdraw_remaining_accounts(v)
           AB == A \o B
           ABC == AB \o C
           ABCD == ABC \o D
           own == ABCD \o E
<1>1. /\ "deployment_config" \in Role /\ "deployment_state" \in Role
      /\ "pool_authority" \in Role /\ "pool_underlying" \in Role /\ "treasury" \in Role
  BY DEF Role
<1>2. /\ AtaOf(titan_pda, v.underlying) \in Other /\ AtaOf(titan_pda, v.mode) \in Other
      /\ Mint(v.underlying) \in Other /\ lender \in Other
  BY HumaFields, MintAddresses, Zenon
<1>3. Piece(A, 6) /\ Piece(D, 2)
  BY CommonAccounts, Zenon
<1>4. Piece(B, 4)
  <2> HIDE DEF lender
  <2>1. /\ Readonly(AccountOf(v, "deployment_config")) \in OwnMeta
        /\ Writable(AccountOf(v, "deployment_state")) \in OwnMeta
        /\ Writable(lender) \in OwnMeta /\ Readonly(Mint(v.underlying)) \in OwnMeta
    BY <1>1, <1>2, RoleAddresses, MetaTypes, Zenon
  <2> QED BY <2>1, LongTuples, Zenon DEF Piece
<1>5. keys \in Seq(Other) /\ Len(keys) = 5
  BY <1>1, <1>2, RoleAddresses, LongTuples, Zenon
<1>6. keys[3] = AtaOf(titan_pda, v.underlying) /\ keys[5] = AtaOf(titan_pda, v.mode)
  OBVIOUS
<1> HIDE DEF keys
<1>7. Piece(C, 5) /\ \A i \in 1 .. 5 : C[i] = Writable(keys[i])
  BY <1>5, KeyPieces
<1>8. C[3] = Writable(AtaOf(titan_pda, v.underlying)) /\ C[5] = Writable(AtaOf(titan_pda, v.mode))
  <2> HIDE DEF C
  <2> QED BY <1>6, <1>7
<1>9. PICK n \in 11 .. 14 : Piece(E, n)
  <2>1. 11 \in 11 .. 14 /\ 13 \in 11 .. 14 /\ 14 \in 11 .. 14
    OBVIOUS
  <2> QED BY <2>1, JupLendList, KaminoList, Zenon DEF instant_withdraw_remaining_accounts
<1>10. instant_withdraw_account_metas(v, titan_pda) = own
  BY DEF instant_withdraw_account_metas, keys
<1> HIDE DEF A, B, C, D, E
<1>11. Piece(AB, 6 + 4)
  BY <1>3, <1>4, PieceLen
<1> HIDE DEF AB
<1>12. Glued(ABC, AB, 10, C, 5)
  BY <1>7, <1>11, PieceJoin
<1> HIDE DEF ABC
<1>13. Piece(ABC, 15) /\ ABC[13] = C[3] /\ ABC[15] = C[5]
  BY <1>12 DEF Glued
<1>14. Glued(ABCD, ABC, 15, D, 2)
  BY <1>3, <1>13, PieceJoin
<1> HIDE DEF ABCD
<1>15. Piece(ABCD, 17) /\ ABCD[13] = ABC[13] /\ ABCD[15] = ABC[15]
  BY <1>14 DEF Glued
<1>16. Glued(own, ABCD, 17, E, n)
  BY <1>9, <1>15, PieceJoin
<1> HIDE DEF own
<1>17. Piece(own, 17 + n) /\ own[13] = ABCD[13] /\ own[15] = ABCD[15]
  BY <1>16 DEF Glued
<1>18. 17 + n \in 28 .. 31
  OBVIOUS
<1>19. /\ \E k \in 28 .. 31 : Piece(own, k)
       /\ own[15] = Writable(AtaOf(titan_pda, v.mode))
       /\ own[13] = Writable(AtaOf(titan_pda, v.underlying))
  BY <1>8, <1>13, <1>15, <1>17, <1>18, Zenon
<1> QED BY <1>10, <1>19, Zenon

\* What a venue's own instruction for the TitanPDA looks like.
OwnSwap(own, v, q) ==
  /\ own.accounts \in Seq(OwnMeta) /\ Len(own.accounts) \in 8 .. 31
  /\ own.program = program_id(v)

\* It spends the TitanPDA's token account of the input mint and pays to that of the
\* output mint.
Trades(own, q) ==
  /\ SpendsAt(own.data.op) \in 1 .. Len(own.accounts)
  /\ own.accounts[SpendsAt(own.data.op)].key = AtaOf(titan_pda, q.input_mint)
  /\ ReceivesAt(own.data.op) \in 1 .. Len(own.accounts)
  /\ own.accounts[ReceivesAt(own.data.op)].key = AtaOf(titan_pda, q.output_mint)

\* The TitanPDA's token account under the SPL token program, and Raydium's swap.
SplAta(m) == Ata(titan_pda, m, "spl_token")

LEMMA RaydiumSwap ==
  ASSUME NEW v \in Venue, NEW q \in QuoteRequest, v.protocol = "RaydiumAMM"
  PROVE  LET own == raydium_swap_instruction(v, q, titan_pda)
         IN  /\ OwnSwap(own, v, q)
             /\ own.data = [op |-> "swap_base_in_v2", amount |-> q.amount, limit |-> 0]
             /\ /\ {q.input_mint, q.output_mint} = {v.coin, v.pc}
                /\ {v.coin, v.pc} \cap Token2022 = {}
                => Trades(own, q)
<1> DEFINE coin == SplAta(v.coin)
           pcAta == SplAta(v.pc)
           own == raydium_swap_instruction(v, q, titan_pda)
           data == [op |-> "swap_base_in_v2", amount |-> q.amount, limit |-> 0]
<1>1. v.coin \in STRING /\ v.pc \in STRING
  BY DEF Venue
<1>2. coin \in Other /\ pcAta \in Other
  BY <1>1, MintAddresses, Zenon DEF SplAta
<1>3. ASSUME NEW a, NEW b,
             own = swap_base_in_v2(v, SplAta(a), SplAta(b), titan_pda, q.amount),
             SplAta(a) \in Other, SplAta(b) \in Other
      PROVE  /\ OwnSwap(own, v, q) /\ own.data = data
             /\ q.input_mint = a /\ q.output_mint = b /\ {a, b} \cap Token2022 = {}
                  => Trades(own, q)
  <2> DEFINE x == SplAta(a)
             y == SplAta(b)
  <2>1. x \in Other /\ y \in Other
    BY <1>3
  <2>2. /\ Piece(own.accounts, 8) /\ own.accounts[6] = Writable(x)
        /\ own.accounts[7] = Writable(y)
    <3> HIDE DEF x, y
    <3>1. LET o == swap_base_in_v2(v, x, y, titan_pda, q.amount).accounts
          IN  Piece(o, 8) /\ o[6] = Writable(x) /\ o[7] = Writable(y)
      BY <2>1, RaydiumAccounts
    <3>2. own = swap_base_in_v2(v, x, y, titan_pda, q.amount)
      BY <1>3 DEF x, y
    <3> HIDE DEF own
    <3> QED BY <3>1, <3>2, Zenon
  <2>3. own.program = program_id(v) /\ own.data = data
    BY <1>3 DEF swap_base_in_v2
  <2> HIDE DEF own
  <2>4. OwnSwap(own, v, q)
    BY <2>2, <2>3 DEF OwnSwap, Piece
  <2>5. SpendsAt(own.data.op) = 6 /\ ReceivesAt(own.data.op) = 7
    BY <2>3 DEF SpendsAt, ReceivesAt
  <2>6. ASSUME q.input_mint = a, q.output_mint = b, {a, b} \cap Token2022 = {}
        PROVE  Trades(own, q)
    <3>2. x = AtaOf(titan_pda, a) /\ y = AtaOf(titan_pda, b)
      <4>1. token_program(a) = "spl_token" /\ token_program(b) = "spl_token"
        BY <2>6 DEF token_program
      <4> QED BY <4>1, Zenon DEF SplAta, AtaOf
    <3>1. own.accounts[6].key = x /\ own.accounts[7].key = y /\ Len(own.accounts) = 8
      <4> HIDE DEF x, y
      <4> QED BY <2>2 DEF Writable, Piece
    <3> HIDE DEF x, y
    <3> QED BY <2>5, <2>6, <3>1, <3>2 DEF Trades
  <2> QED BY <2>3, <2>4, <2>6
<1>4. CASE q.input_mint = v.coin
  <2>1. own = swap_base_in_v2(v, coin, pcAta, titan_pda, q.amount)
    BY <1>4, Zenon DEF raydium_swap_instruction, swap_v2, SplAta
  <2>2. /\ OwnSwap(own, v, q) /\ own.data = data
        /\ q.input_mint = v.coin /\ q.output_mint = v.pc /\ {v.coin, v.pc} \cap Token2022 = {}
             => Trades(own, q)
    <3> HIDE DEF own
    <3> QED BY <1>2, <1>3, <2>1, Zenon
  <2>3. {q.input_mint, q.output_mint} = {v.coin, v.pc} => q.output_mint = v.pc
    BY <1>4
  <2> QED BY <1>4, <2>2, <2>3, Zenon
<1>5. CASE q.input_mint # v.coin
  <2>1. own = swap_base_in_v2(v, pcAta, coin, titan_pda, q.amount)
    BY <1>5, Zenon DEF raydium_swap_instruction, swap_v2, SplAta
  <2>2. /\ OwnSwap(own, v, q) /\ own.data = data
        /\ q.input_mint = v.pc /\ q.output_mint = v.coin /\ {v.pc, v.coin} \cap Token2022 = {}
             => Trades(own, q)
    <3> HIDE DEF own
    <3> QED BY <1>2, <1>3, <2>1, Zenon
  <2>3. {q.input_mint, q.output_mint} = {v.coin, v.pc}
          => /\ q.input_mint = v.pc /\ q.output_mint = v.coin
             /\ {v.pc, v.coin} = {v.coin, v.pc}
    BY <1>5
  <2> QED BY <2>2, <2>3, Zenon
<1> QED BY <1>4, <1>5, Zenon

LEMMA HumaSwap ==
  ASSUME NEW v \in Venue, NEW q \in QuoteRequest, v.protocol # "RaydiumAMM",
         swap_direction(v, q) # "InvalidMint"
  PROVE  LET own == huma_swap_instruction(v, q, titan_pda)
         IN  /\ OwnSwap(own, v, q) /\ Trades(own, q)
             /\ own.data = HumaInstruction(swap_direction(v, q), q.amount)
             /\ swap_direction(v, q) = "Deposit" <=> q.input_mint = v.underlying
<1> DEFINE own == huma_swap_instruction(v, q, titan_pda)
           dir == swap_direction(v, q)
<1>1. /\ own.program = program_id(v) /\ own.data = HumaInstruction(dir, q.amount)
      /\ own.accounts = IF dir = "Deposit" THEN deposit_account_metas(v, titan_pda)
                        ELSE instant_withdraw_account_metas(v, titan_pda)
  BY DEF huma_swap_instruction
<1>2. \/ dir = "Deposit" /\ q.input_mint = v.underlying /\ q.output_mint = v.mode
      \/ /\ dir = "InstantWithdraw" /\ q.input_mint = v.mode /\ q.output_mint = v.underlying
         /\ q.input_mint # v.underlying
  BY DEF swap_direction
<1>3. dir = "Deposit" <=> q.input_mint = v.underlying
  BY <1>2
<1> HIDE DEF own, dir
<1>4. CASE dir = "Deposit"
  <2>1. own.accounts = deposit_account_metas(v, titan_pda)
    BY <1>1, <1>4, Zenon
  <2>2. /\ Piece(own.accounts, 13)
        /\ own.accounts[10] = Writable(AtaOf(titan_pda, v.underlying))
        /\ own.accounts[11] = Writable(AtaOf(titan_pda, v.mode))
    BY <2>1, DepositAccounts, Zenon
  <2>3. own.data.op = "deposit"
    BY <1>1, <1>4 DEF HumaInstruction
  <2>4. SpendsAt(own.data.op) = 10 /\ ReceivesAt(own.data.op) = 11
    BY <2>3 DEF SpendsAt, ReceivesAt
  <2>5. OwnSwap(own, v, q)
    BY <1>1, <2>2 DEF OwnSwap, Piece
  <2>6. Trades(own, q)
    BY <1>2, <1>4, <2>2, <2>4 DEF Trades, Writable, Piece
  <2> QED BY <1>1, <1>3, <2>5, <2>6 DEF own, dir
<1>5. CASE dir # "Deposit"
  <2>1. own.accounts = instant_withdraw_account_metas(v, titan_pda)
    BY <1>1, <1>5, Zenon
  <2>2. /\ \E n \in 28 .. 31 : Piece(own.accounts, n)
        /\ own.accounts[15] = Writable(AtaOf(titan_pda, v.mode))
        /\ own.accounts[13] = Writable(AtaOf(titan_pda, v.underlying))
    BY <2>1, WithdrawAccounts, Zenon
  <2>3. own.data.op = "instant_withdraw"
    BY <1>1, <1>5 DEF HumaInstruction
  <2>4. SpendsAt(own.data.op) = 15 /\ ReceivesAt(own.data.op) = 13
    BY <2>3 DEF SpendsAt, ReceivesAt
  <2>5. OwnSwap(own, v, q)
    <3>1. PICK n \in 28 .. 31 : Piece(own.accounts, n)
      BY <2>2, Zenon
    <3>2. own.accounts \in Seq(OwnMeta) /\ Len(own.accounts) = n
      BY <3>1, Zenon DEF Piece
    <3>3. Len(own.accounts) \in 8 .. 31
      BY <3>2
    <3> QED BY <1>1, <3>2, <3>3, Zenon DEF OwnSwap
  <2>6. Trades(own, q)
    BY <1>2, <1>5, <2>2, <2>4 DEF Trades, Writable, Piece
  <2> QED BY <1>1, <1>3, <2>5, <2>6 DEF own, dir
<1> QED BY <1>4, <1>5, Zenon

\* The instruction that a leg's venue generates itself, and whether a leg is built.
Own(l) == generate_swap_instruction(l.venue, l.request, titan_pda)
Builds(l) == BuildError(l.venue, l.request) = "none"

\* The metas of a built leg: nobody signs.
LegMeta == {m \in AccountMeta : m.key # payer /\ m.signer = FALSE}

\* The data that the adapters rebuild is the venue's own with the router's amount.
Rebuilds(l) ==
  \A swap, amount, metas :
    swap.venue = protocol_to_venue(l.venue, l.request) =>
      perform_cpi_swap(swap, amount, metas)
        = [program |-> Own(l).program, accounts |-> metas,
           data |-> [Own(l).data EXCEPT !.amount = amount]]

LEMMA OwnFacts ==
  ASSUME NEW l \in RouteLeg, Builds(l)
  PROVE  /\ OwnSwap(Own(l), l.venue, l.request) /\ Rebuilds(l)
         /\ \A amount : [Own(l).data EXCEPT !.amount = amount].op = Own(l).data.op
         /\ \A r : Consistent(r, l) => Trades(Own(l), l.request)
<1> DEFINE v == l.venue
           q == l.request
           own == Own(l)
<1>1. v \in Venue /\ q \in QuoteRequest
  BY DEF RouteLeg
<1> HIDE DEF v, q
<1>2. CASE v.protocol = "RaydiumAMM"
  <2>1. own = raydium_swap_instruction(v, q, titan_pda)
    BY <1>2, Zenon DEF Own, generate_swap_instruction, v, q
  <2>2. /\ OwnSwap(own, v, q)
        /\ own.data = [op |-> "swap_base_in_v2", amount |-> q.amount, limit |-> 0]
        /\ /\ {q.input_mint, q.output_mint} = {v.coin, v.pc}
           /\ {v.coin, v.pc} \cap Token2022 = {}
           => Trades(own, q)
    <3> HIDE DEF own
    <3> QED BY <1>1, <1>2, <2>1, RaydiumSwap, Zenon
  <2>3. own.program = Program("RaydiumAMM")
    BY <1>2, <2>2, Zenon DEF OwnSwap, program_id
  <2> HIDE DEF own
  <2>4. ASSUME NEW swap, NEW amount, NEW metas, swap.venue = protocol_to_venue(v, q)
        PROVE  perform_cpi_swap(swap, amount, metas)
                 = [program |-> own.program, accounts |-> metas,
                    data |-> [own.data EXCEPT !.amount = amount]]
    <3>1. swap.venue.tag = "RaydiumAmm"
      BY <1>2, <2>4 DEF protocol_to_venue
    <3>2. perform_cpi_swap(swap, amount, metas) = raydium_amm_swap(amount, metas)
      BY <3>1, Zenon DEF perform_cpi_swap
    <3>3. [own.data EXCEPT !.amount = amount]
            = [op |-> "swap_base_in_v2", amount |-> amount, limit |-> 0]
      BY <2>2
    <3> QED BY <2>3, <3>2, <3>3 DEF raydium_amm_swap
  <2>5. Rebuilds(l) /\ \A amount : [own.data EXCEPT !.amount = amount].op = own.data.op
    <3>1. \A amount : [own.data EXCEPT !.amount = amount].op = own.data.op
      BY <2>2
    <3> QED BY <2>4, <3>1, Zenon DEF Rebuilds, own, v, q
  <2>6. ASSUME NEW r, Consistent(r, l) PROVE Trades(own, q)
    BY <1>2, <2>2, <2>6, Zenon DEF Consistent, v, q
  <2> QED BY <2>2, <2>5, <2>6, Zenon DEF own, v, q
<1>3. CASE v.protocol # "RaydiumAMM"
  <2>1. swap_direction(v, q) # "InvalidMint"
    BY <1>3 DEF Builds, BuildError, v, q
  <2>2. own = huma_swap_instruction(v, q, titan_pda)
    BY <1>3, Zenon DEF Own, generate_swap_instruction, v, q
  <2>3. /\ OwnSwap(own, v, q) /\ Trades(own, q)
        /\ own.data = HumaInstruction(swap_direction(v, q), q.amount)
        /\ swap_direction(v, q) = "Deposit" <=> q.input_mint = v.underlying
    <3> HIDE DEF own
    <3> QED BY <1>1, <1>3, <2>1, <2>2, HumaSwap, Zenon
  <2>4. own.program = Program("Huma")
    BY <1>1, <1>3, <2>3, HumaFields, Zenon DEF OwnSwap, program_id
  <2> HIDE DEF own
  <2>5. ASSUME NEW swap, NEW amount, NEW metas, swap.venue = protocol_to_venue(v, q)
        PROVE  perform_cpi_swap(swap, amount, metas)
                 = [program |-> own.program, accounts |-> metas,
                    data |-> [own.data EXCEPT !.amount = amount]]
    <3> DEFINE deposits == q.input_mint = v.underlying
    <3>1. swap.venue.tag = "Huma" /\ swap.venue.is_deposit = deposits
      BY <1>3, <2>5 DEF protocol_to_venue
    <3>2. perform_cpi_swap(swap, amount, metas) = huma_swap(deposits, amount, metas)
      <4>1. swap.venue.tag # "RaydiumAmm"
        BY <3>1
      <4> HIDE DEF deposits
      <4> QED BY <3>1, <4>1, Zenon DEF perform_cpi_swap
    <3>3. [own.data EXCEPT !.amount = amount]
            = IF deposits
              THEN [op |-> "deposit", amount |-> amount, limit |-> "NO_COMMITMENT"]
              ELSE [op |-> "instant_withdraw", amount |-> amount, limit |-> "u64::MAX"]
      BY <2>3 DEF HumaInstruction
    <3> HIDE DEF deposits
    <3> QED BY <2>4, <3>2, <3>3, Zenon DEF huma_swap
  <2>6. Rebuilds(l) /\ \A amount : [own.data EXCEPT !.amount = amount].op = own.data.op
    <3>1. \A amount : [own.data EXCEPT !.amount = amount].op = own.data.op
      BY <2>3 DEF HumaInstruction
    <3> QED BY <2>5, <3>1, Zenon DEF Rebuilds, own, v, q
  <2> QED BY <2>3, <2>6, Zenon DEF own, v, q
<1> QED BY <1>2, <1>3, Zenon

\* What build_swap_leg makes of it: the count fits the u8, nobody signs, the accounts
\* keep their order and their writable flags, and the program comes last.
LegBuilt(l, b) ==
  /\ b.spec \in SwapSpec /\ b.spec.venue = protocol_to_venue(l.venue, l.request)
  /\ b.spec.from = l.from /\ b.spec.to = l.to /\ b.spec.weight_nanos = l.weight_nanos
  /\ b.spec.n_accounts = Len(b.accounts)
  /\ b.accounts \in Seq(LegMeta) /\ Len(b.accounts) = Len(Own(l).accounts) + 1
  /\ \A n \in 1 .. Len(Own(l).accounts) :
       /\ b.accounts[n].key = Own(l).accounts[n].key
       /\ b.accounts[n].writable = Own(l).accounts[n].writable
  /\ b.accounts[Len(b.accounts)].key = Own(l).program

LEMMA LegFacts ==
  ASSUME NEW l \in RouteLeg, Builds(l)
  PROVE  LegBuilt(l, build_swap_leg(l))
<1> DEFINE own == Own(l).accounts
           n == Len(own)
           mapped == Map(WithoutTitanSigner, own)
           last == Readonly(program_id(l.venue))
           accounts == Append(mapped, last)
           b == build_swap_leg(l)
<1>1. own \in Seq(OwnMeta) /\ n \in 8 .. 31 /\ Own(l).program = program_id(l.venue)
  BY OwnFacts, Zenon DEF OwnSwap
<1>2. l.venue \in Venue /\ l.request \in QuoteRequest /\ l.from \in Nat /\ l.to \in Nat
      /\ l.weight_nanos \in Nat
  BY DEF RouteLeg
<1>3. last \in LegMeta /\ last.key = program_id(l.venue)
  <2>1. l.venue.protocol \in Role
    BY <1>2 DEF Venue, Role
  <2>2. program_id(l.venue) \in Other
    BY <1>2, <2>1, RoleAddresses, Zenon DEF program_id
  <2> QED BY <2>2 DEF Readonly, LegMeta, AccountMeta, Other
<1>4. ASSUME NEW m \in OwnMeta
      PROVE  /\ WithoutTitanSigner(m) \in LegMeta /\ WithoutTitanSigner(m).key = m.key
             /\ WithoutTitanSigner(m).writable = m.writable
  <2>1. m \in AccountMeta /\ m.key # payer /\ (m.signer <=> m.key = titan_pda)
    BY DEF OwnMeta
  <2>2. CASE m.key = titan_pda
    BY <2>1, <2>2 DEF WithoutTitanSigner, LegMeta, AccountMeta
  <2>3. CASE m.key # titan_pda
    BY <2>1, <2>3 DEF WithoutTitanSigner, LegMeta, AccountMeta
  <2> QED BY <2>2, <2>3
<1>5. /\ mapped \in [1 .. n -> LegMeta]
      /\ \A i \in 1 .. n : mapped[i].key = own[i].key /\ mapped[i].writable = own[i].writable
  <2>1. \A i \in 1 .. n : own[i] \in OwnMeta
    BY <1>1
  <2>2. mapped = [i \in 1 .. n |-> WithoutTitanSigner(own[i])]
    BY DEF Map
  <2> HIDE DEF mapped, own
  <2> QED BY <1>4, <2>1, <2>2
<1>6. b.accounts = accounts /\ b.spec = [venue |-> protocol_to_venue(l.venue, l.request),
         from |-> l.from, to |-> l.to, weight_nanos |-> l.weight_nanos,
         n_accounts |-> Len(accounts) % 256]
  BY DEF build_swap_leg, assemble_leg_accounts, Own
<1>7. protocol_to_venue(l.venue, l.request) \in VenueArg
  BY DEF protocol_to_venue, VenueArg
<1> HIDE DEF mapped, last, own, n
<1>8. mapped \in Seq(LegMeta) /\ Len(mapped) = n
  BY <1>1, <1>5
<1>9. /\ accounts \in Seq(LegMeta) /\ Len(accounts) = n + 1 /\ accounts[n + 1] = last
      /\ \A i \in 1 .. n : accounts[i] = mapped[i]
  BY <1>1, <1>3, <1>8, AppendProperties
<1> HIDE DEF accounts, b
<1>10. Len(accounts) % 256 = n + 1 /\ n + 1 \in Nat
  <2>1. \A x \in 0 .. 255 : x % 256 = x
    OBVIOUS
  <2>2. n + 1 \in 0 .. 255 /\ n + 1 \in Nat
    BY <1>1
  <2> QED BY <1>9, <2>1, <2>2, Zenon
<1>11. b.spec \in SwapSpec
  BY <1>2, <1>6, <1>7, <1>10 DEF SwapSpec
<1>12. b.spec.venue = protocol_to_venue(l.venue, l.request) /\ b.spec.from = l.from
       /\ b.spec.to = l.to /\ b.spec.weight_nanos = l.weight_nanos /\ b.spec.n_accounts = n + 1
  BY <1>6, <1>10
<1>13. \A i \in 1 .. n : b.accounts[i].key = own[i].key /\ b.accounts[i].writable = own[i].writable
  <2>1. b.accounts = accounts
    BY <1>6
  <2>2. \A i \in 1 .. n : accounts[i] = mapped[i]
    BY <1>9
  <2>3. \A i \in 1 .. n : mapped[i].key = own[i].key /\ mapped[i].writable = own[i].writable
    BY <1>5
  <2> QED BY <2>1, <2>2, <2>3, Zenon
<1>14. b.accounts \in Seq(LegMeta) /\ Len(b.accounts) = n + 1
       /\ b.accounts[n + 1].key = Own(l).program
  <2>1. b.accounts = accounts
    BY <1>6
  <2>2. accounts \in Seq(LegMeta) /\ Len(accounts) = n + 1 /\ accounts[n + 1] = last
    BY <1>9
  <2>3. last.key = Own(l).program
    BY <1>1, <1>3
  <2> QED BY <2>1, <2>2, <2>3, Zenon
<1>15. LegBuilt(l, b)
  BY <1>11, <1>12, <1>13, <1>14, Zenon DEF LegBuilt, n, own
<1> QED BY <1>15 DEF b

-----------------------------------------------------------------------------
(* The transaction of a route whose legs are built. *)

AllBuilt(r) == \A k \in 1 .. Len(r.legs) : Builds(r.legs[k])
LegAccounts(r) == [k \in 1 .. Len(r.legs) |-> build_swap_leg(r.legs[k]).accounts]
Specs(r) == [k \in 1 .. Len(r.legs) |-> build_swap_leg(r.legs[k]).spec]
Metas(r) ==
  FixedAccounts \o RouteAccounts(r.mints) \o Concat(LegAccounts(r), Len(r.legs))
Transaction(r) ==
  [data |-> encode_swap_route_v3_data(r.amount, Len(r.mints), Specs(r)),
   accounts |-> AccountInfos(Metas(r))]
Remaining(r) ==
  SubSeq(Transaction(r).accounts, Len(FixedAccounts) + 1, Len(Transaction(r).accounts))

\* Where the accounts of leg k start: behind the mints' and those of the legs before.
LegStart(r, k) == 2 * Len(r.mints) + Len(Concat(LegAccounts(r), k - 1))

-----------------------------------------------------------------------------
(* The inductive invariant. *)

IsSeq(s) == Len(s) \in Nat /\ s = [i \in 1 .. Len(s) |-> s[i]]

\* A call is the venue's own swap, and it trades the slots of its leg.
GoodCall(r, c) ==
  LET l == r.legs[c.leg]
      own == Own(l)
      ix == c.ix
  IN  /\ c.leg \in 1 .. Len(r.legs)
      /\ ix.program = own.program
      /\ ix.data = [own.data EXCEPT !.amount = c.amount]
      /\ Len(ix.accounts) = Len(own.accounts)
      /\ \A n \in 1 .. Len(own.accounts) :
           /\ ix.accounts[n].key = own.accounts[n].key
           /\ ix.accounts[n].signer = own.accounts[n].signer
           /\ own.accounts[n].writable => ix.accounts[n].writable
      /\ Consistent(r, l) =>
           /\ Holds(ix, SpendsAt(ix.data.op), Remaining(r)[l.from + 1])
           /\ Holds(ix, ReceivesAt(ix.data.op), Remaining(r)[l.to + 1])

\* The legs built so far are those of the route, ...
LegsAreBuilt ==
  /\ IsSeq(legs) /\ Len(legs) <= Len(route.legs)
  /\ \A k \in 1 .. Len(legs) :
       Builds(route.legs[k]) /\ legs[k] = build_swap_leg(route.legs[k])

\* ... what was submitted is their transaction, ...
Submitted == Len(legs) = Len(route.legs) /\ tx = Transaction(route)

\* ... what the program works on is what was encoded, its indices in range, ...
Decoded ==
  /\ args = [amount |-> route.amount, mints |-> Len(route.mints), swaps |-> Specs(route)]
  /\ \A k \in 1 .. Len(route.legs) :
       route.legs[k].from < Len(route.mints) /\ route.legs[k].to < Len(route.mints)

\* ... and the cursor is at the accounts of the leg.
AtLeg == leg \in 1 .. Len(route.legs) + 1 /\ cursor = LegStart(route, leg)

BInv ==
  /\ route \in Routes /\ pc \in {"build", "enter", "leg", "done"}
  /\ LegsAreBuilt
  /\ pc \in {"build", "enter"} => calls = << >> /\ leg = 1
  /\ pc \in {"enter", "leg"} => Submitted
  /\ pc = "leg" => Decoded /\ AtLeg
  /\ IsSeq(calls) /\ (calls # << >> => Submitted /\ Decoded)
  /\ \A c \in 1 .. Len(calls) : GoodCall(route, calls[c])
  /\ pc = "done" /\ Len(legs) = Len(route.legs) /\ WellFormed(route) => outcome = "ok"

\* Only the payer signs in the transaction.
TxMeta == {m \in AccountMeta : m.signer => m.key = payer}

LEMMA ElementsOf ==
  ASSUME NEW S, NEW s \in Seq(S), NEW n \in Nat, Len(s) = n
  PROVE  \A i \in 1 .. n : s[i] \in S
OBVIOUS

LEMMA FunctionIsSeq ==
  ASSUME NEW S, NEW n \in Nat, NEW f \in [1 .. n -> S]
  PROVE  f \in Seq(S) /\ Len(f) = n
OBVIOUS

LEMMA FixedFacts == FixedAccounts \in Seq(TxMeta) /\ Len(FixedAccounts) = 12
<1> DEFINE p == [key |-> payer, signer |-> TRUE, writable |-> TRUE]
           A == << p, p, Readonly(titan_pda) >>
           bkeys == << <<"user_input">>, <<"user_output">> >>
           B == Map(Writable, bkeys)
           ckeys == << Program("spl_token"), Program("token_2022"), Program("system"),
                       Program("ata"), Program("template"), Program("template"),
                       Program("template") >>
           C == Map(Readonly, ckeys)
           AB == A \o B
<1>1. p \in TxMeta /\ Readonly(titan_pda) \in TxMeta
  BY Signers DEF TxMeta, AccountMeta, Readonly
<1>2. \A k \in Other : Readonly(k) \in TxMeta /\ Writable(k) \in TxMeta
  BY DEF Other, TxMeta, AccountMeta, Readonly, Writable
<1>3. A \in Seq(TxMeta) /\ Len(A) = 3
  <2> HIDE DEF p
  <2> QED BY <1>1, Tuples, Zenon
<1>4. B \in Seq(TxMeta) /\ Len(B) = 2
  <2>1. <<"user_input">> \in Other /\ <<"user_output">> \in Other
    BY Sysvars
  <2>2. bkeys \in Seq(Other) /\ Len(bkeys) = 2
    BY <2>1, Tuples, Zenon
  <2>3. B = [n \in 1 .. Len(bkeys) |-> Writable(bkeys[n])]
    BY DEF Map
  <2> HIDE DEF bkeys, B
  <2>4. \A n \in 1 .. 2 : bkeys[n] \in Other
    BY <2>2, ElementsOf
  <2>5. B \in [1 .. 2 -> TxMeta]
    BY <1>2, <2>2, <2>3, <2>4
  <2> QED BY <2>5, FunctionIsSeq
<1>5. C \in Seq(TxMeta) /\ Len(C) = 7
  <2>1. /\ "spl_token" \in Role /\ "token_2022" \in Role /\ "system" \in Role /\ "ata" \in Role
        /\ "template" \in Role
    BY DEF Role
  <2>2. \A role \in Role : Program(role) \in Other
    <3>1. ASSUME NEW role \in Role PROVE Program(role) \in Other
      <4>1. "program" \in Word /\ role \in Word
        BY DEF Word, Role
      <4> QED BY <4>1, Addresses, Zenon DEF Program
    <3> QED BY <3>1
  <2>3. ckeys \in Seq(Other) /\ Len(ckeys) = 7
    <3> DEFINE t == Program("template")
    <3>1. /\ Program("spl_token") \in Other /\ Program("token_2022") \in Other
          /\ Program("system") \in Other /\ Program("ata") \in Other /\ t \in Other
      BY <2>1, <2>2, Zenon
    <3> QED BY <3>1
  <2>4. C = [n \in 1 .. Len(ckeys) |-> Readonly(ckeys[n])]
    BY DEF Map
  <2> HIDE DEF ckeys, C
  <2>5. \A n \in 1 .. 7 : ckeys[n] \in Other
    BY <2>3, ElementsOf
  <2>6. C \in [1 .. 7 -> TxMeta]
    BY <1>2, <2>3, <2>4, <2>5
  <2> QED BY <2>6, FunctionIsSeq
<1>6. FixedAccounts = AB \o C
  BY DEF FixedAccounts
<1> HIDE DEF A, B, C
<1>7. AB \in Seq(TxMeta) /\ Join(AB, A, B)
  BY <1>3, <1>4, Joined, Zenon
<1> HIDE DEF AB
<1>8. Len(AB) = 5
  BY <1>3, <1>4, <1>7 DEF Join
<1>9. AB \o C \in Seq(TxMeta) /\ Join(AB \o C, AB, C)
  BY <1>5, <1>7, Joined, Zenon
<1>10. FixedAccounts \in Seq(TxMeta) /\ Join(FixedAccounts, AB, C)
  BY <1>6, <1>9, Zenon
<1> QED BY <1>5, <1>8, <1>10 DEF Join

\* The token accounts of the mints come first behind them.
LEMMA RouteAccountsFacts ==
  ASSUME NEW mints \in Seq(STRING)
  PROVE  /\ Len(mints) \in Nat
         /\ RouteAccounts(mints) \in Seq(TxMeta) /\ Len(RouteAccounts(mints)) = 2 * Len(mints)
         /\ \A n \in 1 .. Len(mints) : RouteAccounts(mints)[n].key = AtaOf(titan_pda, mints[n])
<1> DEFINE m == Len(mints)
           A == [n \in 1 .. m |-> Writable(AtaOf(titan_pda, mints[n]))]
           B == [n \in 1 .. m |-> Readonly(Mint(mints[n]))]
           u == A \o B
<1>1. m \in Nat /\ \A n \in 1 .. m : mints[n] \in STRING
  OBVIOUS
<1>2. \A k \in Other : Readonly(k) \in TxMeta /\ Writable(k) \in TxMeta /\ Writable(k).key = k
  BY DEF Other, TxMeta, AccountMeta, Readonly, Writable
<1>3. ASSUME NEW n \in 1 .. m
      PROVE  /\ Writable(AtaOf(titan_pda, mints[n])) \in TxMeta
             /\ Writable(AtaOf(titan_pda, mints[n])).key = AtaOf(titan_pda, mints[n])
             /\ Readonly(Mint(mints[n])) \in TxMeta
  BY <1>1, <1>2, MintAddresses, Zenon
<1>4. A \in [1 .. m -> TxMeta] /\ B \in [1 .. m -> TxMeta]
  BY <1>3, Zenon
<1>5. \A n \in 1 .. m : A[n].key = AtaOf(titan_pda, mints[n])
  BY <1>3, Zenon
<1>6. RouteAccounts(mints) = u
  BY DEF RouteAccounts
<1> HIDE DEF A, B, m
<1>7. A \in Seq(TxMeta) /\ Len(A) = m /\ B \in Seq(TxMeta) /\ Len(B) = m
  BY <1>1, <1>4
<1>8. u \in Seq(TxMeta) /\ Join(u, A, B)
  BY <1>7, Joined, Zenon
<1> HIDE DEF u
<1>9. Len(u) = 2 * m /\ \A n \in 1 .. m : u[n] = A[n]
  BY <1>1, <1>7, <1>8 DEF Join
<1> QED BY <1>1, <1>5, <1>6, <1>8, <1>9, Zenon DEF m

\* A route and its legs.
LegsTyped(r) ==
  /\ Len(r.legs) \in Nat /\ IsU32(Len(r.legs)) /\ Len(r.mints) \in Nat
  /\ r.mints \in Seq(STRING) /\ IsU64(r.amount)
  /\ Specs(r) \in Seq(SwapSpec) /\ Len(Specs(r)) = Len(r.legs)
  /\ \A k \in 1 .. Len(r.legs) :
       /\ r.legs[k] \in RouteLeg /\ IsU32(r.legs[k].weight_nanos)
       /\ LegBuilt(r.legs[k], build_swap_leg(r.legs[k]))
       /\ LegAccounts(r)[k] = build_swap_leg(r.legs[k]).accounts
       /\ LegAccounts(r)[k] \in Seq(TxMeta)
       /\ Specs(r)[k] = build_swap_leg(r.legs[k]).spec

LEMMA RouteFacts ==
  ASSUME NEW r \in Routes, AllBuilt(r)
  PROVE  LegsTyped(r)
<1> DEFINE n == Len(r.legs)
<1>1. /\ r.mints \in Seq(STRING) /\ IsU64(r.amount) /\ r.legs \in Seq(RouteLeg) /\ IsU32(n)
      /\ \A k \in 1 .. n : IsU32(r.legs[k].weight_nanos)
  BY RouteAssumption, Zenon
<1>2. n \in Nat /\ Len(r.mints) \in Nat /\ \A k \in 1 .. n : r.legs[k] \in RouteLeg
  BY <1>1
<1>3. ASSUME NEW k \in 1 .. n
      PROVE  /\ LegBuilt(r.legs[k], build_swap_leg(r.legs[k]))
             /\ build_swap_leg(r.legs[k]).accounts \in Seq(TxMeta)
             /\ build_swap_leg(r.legs[k]).spec \in SwapSpec
  <2>1. LegBuilt(r.legs[k], build_swap_leg(r.legs[k]))
    BY <1>2, LegFacts, Zenon DEF AllBuilt
  <2>2. /\ build_swap_leg(r.legs[k]).accounts \in Seq(LegMeta)
        /\ build_swap_leg(r.legs[k]).spec \in SwapSpec
    BY <2>1, Zenon DEF LegBuilt
  <2>3. LegMeta \subseteq TxMeta
    BY DEF LegMeta, TxMeta, AccountMeta
  <2> DEFINE a == build_swap_leg(r.legs[k]).accounts
  <2> HIDE DEF a
  <2>4. a \in Seq(TxMeta)
    <3>1. a \in Seq(LegMeta)
      BY <2>2 DEF a
    <3> QED BY <2>3, <3>1
  <2> QED BY <2>1, <2>2, <2>4 DEF a
<1>4. Specs(r) \in [1 .. n -> SwapSpec]
  BY <1>3, Zenon DEF Specs
<1>5. \A k \in 1 .. n : /\ Specs(r)[k] = build_swap_leg(r.legs[k]).spec
                        /\ LegAccounts(r)[k] = build_swap_leg(r.legs[k]).accounts
  BY Zenon DEF Specs, LegAccounts
<1>6. Specs(r) \in Seq(SwapSpec) /\ Len(Specs(r)) = n
  BY <1>2, <1>4, FunctionIsSeq, Zenon
<1> QED BY <1>1, <1>2, <1>3, <1>5, <1>6, Zenon DEF LegsTyped

\* The program decodes what was encoded.
LEMMA RouteDecodes ==
  ASSUME NEW r \in Routes, AllBuilt(r)
  PROVE  Arguments(Transaction(r).data)
           = [ok |-> TRUE, amount |-> r.amount, mints |-> Len(r.mints), swaps |-> Specs(r)]
<1>1. LegsTyped(r)
  BY RouteFacts, Zenon
<1>2. ASSUME NEW k \in 1 .. Len(Specs(r)) PROVE IsU32(Specs(r)[k].weight_nanos)
  <2>1. k \in 1 .. Len(r.legs)
    BY <1>1, Zenon DEF LegsTyped
  <2> QED BY <1>1, <2>1, Zenon DEF LegsTyped, LegBuilt
<1>3. /\ Specs(r) \in Seq(SwapSpec) /\ IsU64(r.amount) /\ Len(r.mints) \in Nat
      /\ IsU32(Len(Specs(r)))
  BY <1>1, Zenon DEF LegsTyped
<1>4. Arguments(encode_swap_route_v3_data(r.amount, Len(r.mints), Specs(r)))
        = [ok |-> TRUE, amount |-> r.amount, mints |-> Len(r.mints), swaps |-> Specs(r)]
  BY <1>2, <1>3, Decodes, Zenon
<1> QED BY <1>4 DEF Transaction

\* Where everything is in the transaction, counted behind the twelve fixed accounts.
Placed(M, r) ==
  /\ M \in Seq(TxMeta) /\ Len(M) = 12 + LegStart(r, Len(r.legs) + 1)
  /\ LegStart(r, Len(r.legs) + 1) \in Nat
  /\ 2 * Len(r.mints) <= LegStart(r, Len(r.legs) + 1)
  /\ \A i \in 1 .. Len(r.mints) : M[12 + i].key = AtaOf(titan_pda, r.mints[i])
  /\ \A k \in 1 .. Len(r.legs) :
       /\ LegStart(r, k) \in Nat /\ Len(LegAccounts(r)[k]) \in Nat
       /\ LegStart(r, k + 1) = LegStart(r, k) + Len(LegAccounts(r)[k])
       /\ LegStart(r, k + 1) <= LegStart(r, Len(r.legs) + 1)
       /\ \A j \in 1 .. Len(LegAccounts(r)[k]) :
            M[12 + (LegStart(r, k) + j)] = LegAccounts(r)[k][j]

LEMMA MetasFacts ==
  ASSUME NEW r \in Routes, AllBuilt(r)
  PROVE  Placed(Metas(r), r)
<1> DEFINE n == Len(r.legs)
           m == Len(r.mints)
           f == LegAccounts(r)
           A == FixedAccounts
           B == RouteAccounts(r.mints)
           C == Concat(f, n)
           AB == A \o B
           M == AB \o C
<1>1. LegsTyped(r)
  BY RouteFacts, Zenon
<1>2. n \in Nat /\ m \in Nat /\ r.mints \in Seq(STRING) /\ \A k \in 1 .. n : f[k] \in Seq(TxMeta)
  BY <1>1, Zenon DEF LegsTyped
<1>3. A \in Seq(TxMeta) /\ Len(A) = 12
  BY FixedFacts
<1>4. /\ B \in Seq(TxMeta) /\ Len(B) = 2 * m
      /\ \A i \in 1 .. m : B[i].key = AtaOf(titan_pda, r.mints[i])
  BY <1>2, RouteAccountsFacts, Zenon
<1>5. C \in Seq(TxMeta)
  <2> DEFINE G == [k \in 0 .. n |-> Concat(f, k)]
  <2>1. Joins(G, f, n, TxMeta)
    <3> HIDE DEF f, n
    <3> QED BY <1>2, ConcatStep, Zenon
  <2>2. n \in 0 .. n
    BY <1>2
  <2>3. G[n] = C
    BY <2>2, Zenon
  <2> HIDE DEF G
  <2>4. G[n] \in Seq(TxMeta)
    BY <2>1, <2>2, Zenon DEF Joins
  <2> QED BY <2>3, <2>4, Zenon
<1>6. Metas(r) = M
  BY DEF Metas
<1>7. ASSUME NEW k \in 1 .. n PROVE Sliced(f, n, k)
  <2> HIDE DEF f, n
  <2> QED BY <1>2, ConcatSlice, Zenon
<1>8. /\ LegStart(r, n + 1) = 2 * m + Len(C)
      /\ \A k \in 1 .. n : LegStart(r, k) = 2 * m + Len(Concat(f, k - 1))
      /\ \A k \in 1 .. n : LegStart(r, k + 1) = 2 * m + Len(Concat(f, k))
  <2>1. (n + 1) - 1 = n /\ \A k \in 1 .. n : (k + 1) - 1 = k
    BY <1>2
  <2> QED BY <2>1, Zenon DEF LegStart
<1> HIDE DEF A, B, C, n, m, f
<1>9. AB \in Seq(TxMeta) /\ Join(AB, A, B)
  BY <1>3, <1>4, Joined, Zenon
<1> HIDE DEF AB
<1>10. M \in Seq(TxMeta) /\ Join(M, AB, C)
  BY <1>5, <1>9, Joined, Zenon
<1> HIDE DEF M
<1>11. Len(AB) = 12 + 2 * m /\ Len(C) \in Nat /\ Len(M) = 12 + LegStart(r, n + 1)
  BY <1>2, <1>3, <1>4, <1>8, <1>9, <1>10 DEF Join
<1>12. LegStart(r, n + 1) \in Nat /\ 2 * m <= LegStart(r, n + 1)
  BY <1>2, <1>8, <1>11
<1>13. ASSUME NEW i \in 1 .. m PROVE M[12 + i].key = AtaOf(titan_pda, r.mints[i])
  <2>1. i \in 1 .. Len(B) /\ 12 + i \in 1 .. Len(AB) /\ Len(A) + i = 12 + i
    BY <1>2, <1>3, <1>4, <1>11
  <2>2. M[12 + i] = AB[12 + i]
    BY <1>10, <2>1, Zenon DEF Join
  <2>3. AB[Len(A) + i] = B[i]
    BY <1>9, <2>1, Zenon DEF Join
  <2> QED BY <1>4, <2>1, <2>2, <2>3, Zenon
<1>14. ASSUME NEW k \in 1 .. n
       PROVE  /\ LegStart(r, k) \in Nat /\ Len(f[k]) \in Nat
              /\ LegStart(r, k + 1) = LegStart(r, k) + Len(f[k])
              /\ LegStart(r, k + 1) <= LegStart(r, n + 1)
              /\ \A j \in 1 .. Len(f[k]) : M[12 + (LegStart(r, k) + j)] = f[k][j]
  <2> DEFINE x == Len(Concat(f, k - 1))
             y == Len(Concat(f, k))
             z == Len(C)
             w == Len(f[k])
             s == LegStart(r, k)
  <2>1. x \in Nat /\ w \in Nat /\ y = x + w /\ y <= z /\ z \in Nat
    BY <1>7, <1>11, Zenon DEF Sliced, C
  <2>2. s = 2 * m + x /\ LegStart(r, k + 1) = 2 * m + y /\ LegStart(r, n + 1) = 2 * m + z
    BY <1>8, Zenon
  <2>3. \A j \in 1 .. w : C[x + j] = f[k][j]
    BY <1>7, Zenon DEF Sliced, C
  <2> HIDE DEF x, y, z, w, s
  <2>4. /\ s \in Nat /\ LegStart(r, k + 1) = s + w
        /\ LegStart(r, k + 1) <= LegStart(r, n + 1)
    BY <1>2, <2>1, <2>2
  <2>5. ASSUME NEW j \in 1 .. w PROVE M[12 + (s + j)] = f[k][j]
    <3>1. x + j \in 1 .. Len(C) /\ Len(AB) + (x + j) = 12 + (s + j)
      BY <1>2, <1>11, <2>1, <2>2 DEF z
    <3>2. M[Len(AB) + (x + j)] = C[x + j]
      BY <1>10, <3>1, Zenon DEF Join
    <3> QED BY <2>3, <3>1, <3>2, Zenon
  <2> QED BY <2>1, <2>4, <2>5, Zenon DEF w, s
<1>15. Placed(M, r)
  BY <1>10, <1>11, <1>12, <1>13, <1>14, Zenon DEF Placed, n, m, f
<1> QED BY <1>6, <1>15, Zenon

\* In the transaction an account has its key and at least its flags, and no account
\* but the payer's signs.
Infos(I, M) ==
  /\ I \in Seq(AccountMeta) /\ Len(I) = Len(M)
  /\ \A i \in 1 .. Len(M) :
       /\ I[i].key = M[i].key
       /\ M[i].key # payer => I[i].signer = FALSE
       /\ M[i].writable => I[i].writable

LEMMA InfosFacts ==
  ASSUME NEW M \in Seq(TxMeta)
  PROVE  Infos(AccountInfos(M), M)
<1> DEFINE n == Len(M)
           signs(i) == \E j \in 1 .. n : M[j].key = M[i].key /\ M[j].signer
           writes(i) == \E j \in 1 .. n : M[j].key = M[i].key /\ M[j].writable
           info(i) == [key |-> M[i].key, signer |-> signs(i), writable |-> writes(i)]
           I == [i \in 1 .. n |-> info(i)]
<1>1. n \in Nat /\ \A i \in 1 .. n : M[i] \in TxMeta
  OBVIOUS
<1>2. AccountInfos(M) = I
  BY DEF AccountInfos
<1>3. ASSUME NEW i \in 1 .. n
      PROVE  /\ signs(i) \in BOOLEAN /\ writes(i) \in BOOLEAN
             /\ M[i].key # payer => ~ signs(i)
             /\ M[i].writable => writes(i)
  <2>1. \A j \in 1 .. n : M[j].signer => M[j].key = payer
    BY <1>1 DEF TxMeta
  <2> QED BY <2>1, Zenon
<1>4. \A i \in 1 .. n : M[i].key \in Address
  BY <1>1 DEF TxMeta, AccountMeta
<1> HIDE DEF signs, writes
<1>5. ASSUME NEW i \in 1 .. n
      PROVE  /\ info(i) \in AccountMeta /\ info(i).key = M[i].key
             /\ info(i).signer = signs(i) /\ info(i).writable = writes(i)
  <2> DEFINE a == signs(i)
             b == writes(i)
  <2>1. a \in BOOLEAN /\ b \in BOOLEAN
    BY <1>3
  <2> HIDE DEF a, b
  <2>2. LET x == [key |-> M[i].key, signer |-> a, writable |-> b]
        IN  x \in AccountMeta /\ x.key = M[i].key /\ x.signer = a /\ x.writable = b
    BY <1>4, <2>1 DEF AccountMeta
  <2> QED BY <2>2 DEF a, b
<1> HIDE DEF info
<1>6. I \in [1 .. n -> AccountMeta] /\ \A i \in 1 .. n : I[i] = info(i)
  BY <1>5, Zenon
<1> HIDE DEF I
<1>7. I \in Seq(AccountMeta) /\ Len(I) = n
  BY <1>1, <1>6, FunctionIsSeq, Zenon
<1>8. ASSUME NEW i \in 1 .. n
      PROVE  /\ I[i].key = M[i].key /\ (M[i].key # payer => I[i].signer = FALSE)
             /\ (M[i].writable => I[i].writable)
  <2>1. I[i].signer = signs(i) /\ I[i].writable = writes(i) /\ I[i].key = M[i].key
    BY <1>5, <1>6, Zenon
  <2>2. ASSUME M[i].key # payer PROVE I[i].signer = FALSE
    <3>1. signs(i) = FALSE
      BY <1>3, <2>2
    <3> QED BY <2>1, <3>1
  <2> QED BY <1>3, <2>1, <2>2, Zenon
<1>9. Infos(I, M)
  BY <1>7, <1>8, Zenon DEF Infos, n
<1> QED BY <1>2, <1>9, Zenon

\* A slice of a sequence.
Slice(t, s, a, b) == Len(t) = b /\ \A j \in 1 .. b : t[j] = s[a + j]

LEMMA SliceFacts ==
  ASSUME NEW S, NEW s \in Seq(S), NEW a \in Nat, NEW b \in Nat, a + b <= Len(s)
  PROVE  /\ SubSeq(s, a + 1, a + b) \in Seq(S)
         /\ Slice(SubSeq(s, a + 1, a + b), s, a, b)
<1> DEFINE x == a + 1
           y == a + b
           t == SubSeq(s, x, y)
<1>1. Len(s) \in Nat /\ \A i \in 1 .. Len(s) : s[i] \in S
  OBVIOUS
<1>2. /\ x \in Int /\ y \in Int /\ (IF x <= y THEN y - x + 1 ELSE 0) = b /\ y - x + 1 = b
      /\ \A i \in x .. y : i \in 1 .. Len(s)
      /\ \A j \in 1 .. b : x + j - 1 = a + j
  BY <1>1
<1>3. \A i \in x .. y : s[i] \in S
  BY <1>1, <1>2, Zenon
<1> HIDE DEF x, y
<1>4. /\ t \in Seq(S) /\ Len(t) = IF x <= y THEN y - x + 1 ELSE 0
      /\ \A i \in 1 .. y - x + 1 : t[i] = s[x + i - 1]
  BY <1>2, <1>3, SubSeqProperties
<1> HIDE DEF t
<1>5. Slice(t, s, a, b)
  BY <1>2, <1>4, Zenon DEF Slice
<1> QED BY <1>4, <1>5 DEF t, x, y

\* What the program finds behind the fixed accounts.
Found(R, r) ==
  /\ R \in Seq(AccountMeta) /\ Len(R) = LegStart(r, Len(r.legs) + 1)
  /\ \A i \in 1 .. Len(r.mints) : R[i].key = AtaOf(titan_pda, r.mints[i])
  /\ \A k \in 1 .. Len(r.legs) : \A j \in 1 .. Len(LegAccounts(r)[k]) :
       /\ R[LegStart(r, k) + j].key = LegAccounts(r)[k][j].key
       /\ R[LegStart(r, k) + j].signer = FALSE
       /\ LegAccounts(r)[k][j].writable => R[LegStart(r, k) + j].writable

LEMMA RemainingFacts ==
  ASSUME NEW r \in Routes, AllBuilt(r)
  PROVE  Found(Remaining(r), r)
<1> DEFINE M == Metas(r)
           I == AccountInfos(M)
           R == Remaining(r)
           e == LegStart(r, Len(r.legs) + 1)
<1>1. Placed(M, r) /\ LegsTyped(r)
  BY MetasFacts, RouteFacts, Zenon
<1>2. M \in Seq(TxMeta)
  BY <1>1, Zenon DEF Placed
<1>3. Infos(I, M)
  <2> HIDE DEF M
  <2> QED BY <1>2, InfosFacts, Zenon
<1>4. Transaction(r).accounts = I
  BY DEF Transaction
<1> HIDE DEF M, I
<1>5. e \in Nat /\ Len(M) = 12 + e /\ I \in Seq(AccountMeta) /\ Len(I) = 12 + e
  BY <1>1, <1>3, Zenon DEF Placed, Infos
<1>6. R = SubSeq(I, 12 + 1, 12 + e)
  BY <1>4, <1>5, FixedFacts, Zenon DEF Remaining
<1> HIDE DEF e
<1>7. R \in Seq(AccountMeta) /\ Len(R) = e /\ \A j \in 1 .. e : R[j] = I[12 + j]
  <2>1. 12 \in Nat /\ 12 + e <= Len(I)
    BY <1>5
  <2>2. /\ SubSeq(I, 12 + 1, 12 + e) \in Seq(AccountMeta)
        /\ Slice(SubSeq(I, 12 + 1, 12 + e), I, 12, e)
    BY <1>5, <2>1, SliceFacts, Zenon
  <2>3. R \in Seq(AccountMeta) /\ Slice(R, I, 12, e)
    BY <1>6, <2>2, Zenon
  <2> HIDE DEF R
  <2> QED BY <2>3, Zenon DEF Slice
<1> HIDE DEF R
<1>8. ASSUME NEW j \in 1 .. e
      PROVE  /\ R[j].key = M[12 + j].key
             /\ M[12 + j].key # payer => R[j].signer = FALSE
             /\ M[12 + j].writable => R[j].writable
  <2>1. 12 + j \in 1 .. Len(M)
    BY <1>5
  <2> QED BY <1>3, <1>7, <2>1, Zenon DEF Infos
<1>9. ASSUME NEW i \in 1 .. Len(r.mints) PROVE R[i].key = AtaOf(titan_pda, r.mints[i])
  <2>1. i \in 1 .. e
    <3>1. 2 * Len(r.mints) <= e /\ Len(r.mints) \in Nat
      BY <1>1, Zenon DEF Placed, LegsTyped, e
    <3> QED BY <1>5, <3>1
  <2> QED BY <1>1, <1>8, <2>1, Zenon DEF Placed
<1>10. ASSUME NEW k \in 1 .. Len(r.legs), NEW j \in 1 .. Len(LegAccounts(r)[k])
       PROVE  /\ R[LegStart(r, k) + j].key = LegAccounts(r)[k][j].key
              /\ R[LegStart(r, k) + j].signer = FALSE
              /\ LegAccounts(r)[k][j].writable => R[LegStart(r, k) + j].writable
  <2> DEFINE x == LegStart(r, k)
             w == Len(LegAccounts(r)[k])
             y == LegStart(r, k + 1)
  <2>1. x \in Nat /\ w \in Nat /\ y = x + w /\ y <= e
    BY <1>1, Zenon DEF Placed, e
  <2>2. M[12 + (x + j)] = LegAccounts(r)[k][j]
    BY <1>1, Zenon DEF Placed
  <2>3. LegAccounts(r)[k][j].key # payer
    <3>1. LegAccounts(r)[k] \in Seq(LegMeta)
      BY <1>1, Zenon DEF LegsTyped, LegBuilt
    <3>2. LegAccounts(r)[k][j] \in LegMeta
      BY <3>1
    <3> QED BY <3>2 DEF LegMeta
  <2>4. j \in 1 .. w
    OBVIOUS
  <2> HIDE DEF x, w, y
  <2>5. x + j \in 1 .. e
    BY <1>5, <2>1, <2>4
  <2> QED BY <1>8, <2>2, <2>3, <2>5, Zenon DEF x
<1> QED BY <1>7, <1>9, <1>10, Zenon DEF Found, R, e

-----------------------------------------------------------------------------
(* One leg on the chain: its slice of the accounts, and its call. *)

LegSlice(r, k) ==
  SubSeq(Remaining(r), LegStart(r, k) + 1, LegStart(r, k) + Specs(r)[k].n_accounts)

\* The accounts of the venue's own instruction in their order, then its program.
IsSlice(A, r, k) ==
  LET own == Own(r.legs[k])
      w == Specs(r)[k].n_accounts
  IN  /\ A \in Seq(AccountMeta) /\ Len(A) = w
      /\ Len(own.accounts) \in Nat /\ w = Len(own.accounts) + 1
      /\ LegStart(r, k) \in Nat /\ LegStart(r, k) + w <= Len(Remaining(r))
      /\ Len(Remaining(r)) \in Nat
      /\ LegStart(r, k + 1) = LegStart(r, k) + w
      /\ \A j \in 1 .. Len(own.accounts) :
           /\ A[j].key = own.accounts[j].key /\ A[j].signer = FALSE
           /\ own.accounts[j].writable => A[j].writable
      /\ A[w].key = own.program

LEMMA LegSliceFacts ==
  ASSUME NEW r \in Routes, AllBuilt(r), NEW k \in 1 .. Len(r.legs)
  PROVE  IsSlice(LegSlice(r, k), r, k)
<1> DEFINE R == Remaining(r)
           l == r.legs[k]
           b == build_swap_leg(l)
           own == Own(l)
           c == Len(own.accounts)
           w == Specs(r)[k].n_accounts
           x == LegStart(r, k)
           y == LegStart(r, k + 1)
           z == LegStart(r, Len(r.legs) + 1)
           A == LegSlice(r, k)
<1>1. Found(R, r) /\ Placed(Metas(r), r) /\ LegsTyped(r)
  BY RemainingFacts, MetasFacts, RouteFacts, Zenon
<1>2. LegBuilt(l, b) /\ l \in RouteLeg /\ LegAccounts(r)[k] = b.accounts /\ Specs(r)[k] = b.spec
  BY <1>1, Zenon DEF LegsTyped
<1>3. c \in Nat
  <2>1. own.accounts \in Seq(OwnMeta)
    BY <1>2, OwnFacts, Zenon DEF AllBuilt, OwnSwap
  <2> QED BY <2>1
<1>4. w = Len(b.accounts) /\ w = c + 1
  BY <1>2, Zenon DEF LegBuilt
<1>5. /\ R \in Seq(AccountMeta) /\ Len(R) = z /\ z \in Nat /\ x \in Nat /\ y = x + w /\ y <= z
  BY <1>1, <1>2, <1>4, Zenon DEF Found, Placed
<1>6. ASSUME NEW j \in 1 .. w
      PROVE  /\ R[x + j].key = b.accounts[j].key /\ R[x + j].signer = FALSE
             /\ b.accounts[j].writable => R[x + j].writable
  BY <1>1, <1>2, <1>4, Zenon DEF Found
<1>7. A \in Seq(AccountMeta) /\ Slice(A, R, x, w)
  <2> HIDE DEF R, x, y, z, c, w
  <2>1. w \in Nat /\ x + w <= Len(R)
    BY <1>3, <1>4, <1>5
  <2>2. SubSeq(R, x + 1, x + w) \in Seq(AccountMeta) /\ Slice(SubSeq(R, x + 1, x + w), R, x, w)
    BY <1>5, <2>1, SliceFacts, Zenon
  <2> QED BY <2>2 DEF LegSlice, R, x, w
<1>8. /\ b.accounts[Len(b.accounts)].key = own.program
      /\ \A j \in 1 .. c : /\ b.accounts[j].key = own.accounts[j].key
                           /\ b.accounts[j].writable = own.accounts[j].writable
  BY <1>2, Zenon DEF LegBuilt
<1> HIDE DEF R, l, b, own, c, w, x, y, z, A
<1>9. w \in 1 .. w /\ \A j \in 1 .. c : j \in 1 .. w
  BY <1>3, <1>4
<1>10. \A j \in 1 .. w : A[j] = R[x + j]
  BY <1>7, Zenon DEF Slice
<1>11. A[w].key = own.program
  BY <1>4, <1>6, <1>8, <1>9, <1>10, Zenon
<1>12. ASSUME NEW j \in 1 .. c
       PROVE  /\ A[j].key = own.accounts[j].key /\ A[j].signer = FALSE
              /\ own.accounts[j].writable => A[j].writable
  BY <1>6, <1>8, <1>9, <1>10, Zenon
<1>13. x + w <= Len(R) /\ Len(A) = w /\ Len(R) \in Nat
  BY <1>5, <1>7, Zenon DEF Slice
<1> QED BY <1>3, <1>4, <1>5, <1>7, <1>11, <1>12, <1>13, Zenon
        DEF IsSlice, A, R, x, y, w, c, own, l

\* The loop stops at no leg: the leg has accounts, they are there, and the program to
\* call is among them.
LEMMA NoLegError ==
  ASSUME NEW r \in Routes, AllBuilt(r), NEW k \in 1 .. Len(r.legs), NEW amount,
         remaining_accounts = Remaining(r), cursor = LegStart(r, k)
  PROVE  LegError(Specs(r)[k], LegSlice(r, k), amount) = "none"
<1> DEFINE swap == Specs(r)[k]
           w == swap.n_accounts
           A == LegSlice(r, k)
           own == Own(r.legs[k])
<1>1. IsSlice(A, r, k)
  BY LegSliceFacts, Zenon
<1>2. perform_cpi_swap(swap, amount, << >>).program = own.program
  <2>1. LegsTyped(r)
    BY RouteFacts, Zenon
  <2>2. r.legs[k] \in RouteLeg /\ Builds(r.legs[k])
    BY <2>1, Zenon DEF LegsTyped, AllBuilt
  <2>3. swap.venue = protocol_to_venue(r.legs[k].venue, r.legs[k].request)
    BY <2>1, Zenon DEF LegsTyped, LegBuilt
  <2>4. Rebuilds(r.legs[k])
    BY <2>2, OwnFacts, Zenon
  <2>5. perform_cpi_swap(swap, amount, << >>)
          = [program |-> own.program, accounts |-> << >>,
             data |-> [own.data EXCEPT !.amount = amount]]
    BY <2>3, <2>4, Zenon DEF Rebuilds
  <2> HIDE DEF own, swap
  <2> QED BY <2>5
<1>3. /\ Len(A) = w /\ A[w].key = own.program /\ Len(own.accounts) \in Nat
      /\ w = Len(own.accounts) + 1 /\ cursor + w <= Len(remaining_accounts)
      /\ LegStart(r, k) \in Nat /\ Len(Remaining(r)) \in Nat
  BY <1>1, Zenon DEF IsSlice
<1> HIDE DEF A, own, swap, w
<1>4. w # 0 /\ w \in 1 .. Len(A) /\ ~(cursor + w > Len(remaining_accounts))
  BY <1>3
<1>5. LegError(swap, A, amount) = "none"
  BY <1>2, <1>3, <1>4, Zenon DEF LegError, w
<1> QED BY <1>5 DEF swap, A

\* The call of a leg.
CallAt(r, k, amount) ==
  [leg |-> k, amount |-> amount,
   ix |-> perform_cpi_swap(Specs(r)[k], amount, account_metas(LegSlice(r, k)))]

\* The metas of the call: the router signs for the TitanPDA, as the venue asks.
LEMMA CallMetas ==
  ASSUME NEW r \in Routes, AllBuilt(r), NEW k \in 1 .. Len(r.legs)
  PROVE  LET own == Own(r.legs[k]).accounts
             metas == account_metas(LegSlice(r, k))
         IN  /\ Len(metas) = Len(own)
             /\ \A n \in 1 .. Len(own) :
                  /\ metas[n].key = own[n].key /\ metas[n].signer = own[n].signer
                  /\ own[n].writable => metas[n].writable
<1> DEFINE own == Own(r.legs[k]).accounts
           c == Len(own)
           A == LegSlice(r, k)
           meta(n) == [A[n] EXCEPT !.signer = @ \/ A[n].key = titan_pda]
           metas == [n \in 1 .. c |-> meta(n)]
<1>1. IsSlice(A, r, k)
  BY LegSliceFacts, Zenon
<1>2. /\ A \in Seq(AccountMeta) /\ Len(A) = c + 1 /\ c \in Nat
      /\ \A n \in 1 .. c : /\ A[n].key = own[n].key /\ A[n].signer = FALSE
                           /\ own[n].writable => A[n].writable
  BY <1>1, Zenon DEF IsSlice
<1>3. own \in Seq(OwnMeta)
  <2>1. LegsTyped(r)
    BY RouteFacts, Zenon
  <2> QED BY <2>1, OwnFacts, Zenon DEF LegsTyped, AllBuilt, OwnSwap
<1> HIDE DEF own, A
<1>4. account_metas(A) = metas
  <2>1. Len(A) - 1 = c
    BY <1>2
  <2> QED BY <2>1, Zenon DEF account_metas
<1>5. ASSUME NEW n \in 1 .. c
      PROVE  /\ meta(n).key = own[n].key /\ meta(n).signer = own[n].signer
             /\ own[n].writable => meta(n).writable
  <2>1. own[n] \in OwnMeta
    BY <1>3
  <2>2. own[n].signer \in BOOLEAN /\ (own[n].signer <=> own[n].key = titan_pda)
    BY <2>1 DEF OwnMeta, AccountMeta
  <2>3. A[n] \in AccountMeta
    BY <1>2
  <2>4. /\ meta(n).key = A[n].key /\ meta(n).writable = A[n].writable
        /\ meta(n).signer = (A[n].signer \/ A[n].key = titan_pda)
    BY <2>3 DEF AccountMeta
  <2>5. A[n].key = own[n].key /\ A[n].signer = FALSE /\ (own[n].writable => A[n].writable)
    BY <1>2, Zenon
  <2> HIDE DEF meta
  <2>6. meta(n).signer = own[n].signer
    BY <2>2, <2>4, <2>5
  <2> QED BY <2>4, <2>5, <2>6, Zenon
<1> HIDE DEF meta
<1>6. metas \in [1 .. c -> {meta(n) : n \in 1 .. c}]
  BY Zenon
<1>7. Len(metas) = c /\ \A n \in 1 .. c : metas[n] = meta(n)
  <2>1. \A n \in 1 .. c : metas[n] = meta(n)
    BY Zenon
  <2> HIDE DEF metas
  <2> QED BY <1>2, <1>6, <2>1, FunctionIsSeq, Zenon
<1>8. /\ Len(metas) = c
      /\ \A n \in 1 .. c : /\ metas[n].key = own[n].key /\ metas[n].signer = own[n].signer
                           /\ own[n].writable => metas[n].writable
  BY <1>5, <1>7, Zenon
<1> HIDE DEF metas
<1> QED BY <1>4, <1>8, Zenon DEF c, own, A

LEMMA LegIndices ==
  ASSUME NEW l \in RouteLeg
  PROVE  l.from \in Nat /\ l.to \in Nat
<1>1. l.from \in 0 .. 255 /\ l.to \in 0 .. 255
  BY DEF RouteLeg
<1> QED BY <1>1

LEMMA CallFacts ==
  ASSUME NEW r \in Routes, AllBuilt(r), NEW k \in 1 .. Len(r.legs), NEW amount,
         r.legs[k].from < Len(r.mints), r.legs[k].to < Len(r.mints)
  PROVE  GoodCall(r, CallAt(r, k, amount))
<1> DEFINE l == r.legs[k]
           own == Own(l)
           metas == account_metas(LegSlice(r, k))
           swap == Specs(r)[k]
           ix == perform_cpi_swap(swap, amount, metas)
           c == CallAt(r, k, amount)
           R == Remaining(r)
<1>1. LegsTyped(r) /\ Found(R, r)
  BY RouteFacts, RemainingFacts, Zenon
<1>2. l \in RouteLeg /\ Builds(l)
  BY <1>1, Zenon DEF LegsTyped, AllBuilt
<1>3. swap.venue = protocol_to_venue(l.venue, l.request)
  BY <1>1, Zenon DEF LegsTyped, LegBuilt
<1>4. /\ Rebuilds(l) /\ (\A a : [own.data EXCEPT !.amount = a].op = own.data.op)
      /\ Consistent(r, l) => Trades(own, l.request)
  BY <1>2, OwnFacts, Zenon
<1>5. ix = [program |-> own.program, accounts |-> metas,
            data |-> [own.data EXCEPT !.amount = amount]]
  <2> HIDE DEF metas, swap
  <2> QED BY <1>3, <1>4, Zenon DEF Rebuilds
<1>6. /\ Len(metas) = Len(own.accounts)
      /\ \A n \in 1 .. Len(own.accounts) :
           /\ metas[n].key = own.accounts[n].key
           /\ metas[n].signer = own.accounts[n].signer
           /\ own.accounts[n].writable => metas[n].writable
  BY CallMetas, Zenon
<1>7. c = [leg |-> k, amount |-> amount, ix |-> ix]
  BY DEF CallAt
<1> HIDE DEF metas, own, l, swap, R
<1>8. ix.program = own.program /\ ix.accounts = metas
      /\ ix.data = [own.data EXCEPT !.amount = amount]
  <2> DEFINE d == [own.data EXCEPT !.amount = amount]
  <2> HIDE DEF d
  <2>1. ix = [program |-> own.program, accounts |-> metas, data |-> d]
    BY <1>5 DEF d
  <2> HIDE DEF ix
  <2>2. ix.program = own.program /\ ix.accounts = metas /\ ix.data = d
    BY <2>1
  <2> QED BY <2>2 DEF d
<1> HIDE DEF ix
<1>9. c.leg = k /\ c.amount = amount /\ c.ix = ix
  <2> HIDE DEF c
  <2> QED BY <1>7
<1>10. ix.data.op = own.data.op
  BY <1>4, <1>8, Zenon
<1>11. ASSUME Consistent(r, l)
       PROVE  /\ Holds(ix, SpendsAt(ix.data.op), R[l.from + 1])
              /\ Holds(ix, ReceivesAt(ix.data.op), R[l.to + 1])
  <2>1. Trades(own, l.request)
    BY <1>4, <1>11, Zenon
  <2>2. l.from \in Nat /\ l.to \in Nat /\ Len(r.mints) \in Nat
    BY <1>1, <1>2, LegIndices, Zenon DEF LegsTyped
  <2>3. l.from + 1 \in 1 .. Len(r.mints) /\ l.to + 1 \in 1 .. Len(r.mints)
    BY <2>2 DEF l
  <2>4. /\ R[l.from + 1].key = AtaOf(titan_pda, l.request.input_mint)
        /\ R[l.to + 1].key = AtaOf(titan_pda, l.request.output_mint)
    BY <1>1, <1>11, <2>3, Zenon DEF Found, Consistent
  <2> DEFINE s == SpendsAt(own.data.op)
             t == ReceivesAt(own.data.op)
  <2>5. /\ s \in 1 .. Len(own.accounts) /\ t \in 1 .. Len(own.accounts)
        /\ own.accounts[s].key = AtaOf(titan_pda, l.request.input_mint)
        /\ own.accounts[t].key = AtaOf(titan_pda, l.request.output_mint)
    BY <2>1, Zenon DEF Trades
  <2>6. Len(own.accounts) \in Nat
    <3>1. own.accounts \in Seq(OwnMeta)
      BY <1>2, OwnFacts, Zenon DEF OwnSwap, own
    <3> QED BY <3>1
  <2> HIDE DEF s, t
  <2>7. s <= Len(metas) /\ t <= Len(metas)
    BY <1>6, <2>5, <2>6
  <2>8. /\ metas[s].key = R[l.from + 1].key /\ metas[t].key = R[l.to + 1].key
    BY <1>6, <2>4, <2>5, Zenon
  <2> QED BY <1>8, <1>10, <2>7, <2>8, Zenon DEF Holds, s, t
<1> HIDE DEF c
<1>12. /\ c.leg \in 1 .. Len(r.legs) /\ r.legs[c.leg] = l
       /\ c.ix.data = [own.data EXCEPT !.amount = c.amount]
  BY <1>8, <1>9, Zenon DEF l
<1>13. GoodCall(r, c)
  BY <1>6, <1>8, <1>9, <1>11, <1>12, Zenon DEF GoodCall, own, R
<1> QED BY <1>13 DEF c

\* No meta but the payer's asks for a signature.
LEMMA NoMissingSignature ==
  ASSUME NEW r \in Routes, AllBuilt(r)
  PROVE  ~ \E n \in 1 .. Len(Metas(r)) : Metas(r)[n].signer /\ Metas(r)[n].key # payer
<1>1. Metas(r) \in Seq(TxMeta)
  BY MetasFacts, Zenon DEF Placed
<1> DEFINE M == Metas(r)
<1> HIDE DEF M
<1>2. M \in Seq(TxMeta)
  BY <1>1 DEF M
<1>3. \A n \in 1 .. Len(M) : M[n] \in TxMeta
  BY <1>2
<1>4. ~ \E n \in 1 .. Len(M) : M[n].signer /\ M[n].key # payer
  BY <1>3 DEF TxMeta
<1> QED BY <1>4 DEF M

\* What execute demands: a well-formed route passes, and what passes has its indices
\* in range.
LEMMA EntryChecks ==
  ASSUME NEW r \in Routes, AllBuilt(r), remaining_accounts = Remaining(r)
  PROVE  LET a == Arguments(Transaction(r).data)
         IN  /\ a = [ok |-> TRUE, amount |-> r.amount, mints |-> Len(r.mints), swaps |-> Specs(r)]
             /\ RouteError(a) = "none" =>
                  \A k \in 1 .. Len(r.legs) :
                    r.legs[k].from < Len(r.mints) /\ r.legs[k].to < Len(r.mints)
             /\ WellFormed(r) => RouteError(a) = "none"
<1> DEFINE a == Arguments(Transaction(r).data)
           n == Len(r.legs)
           m == Len(r.mints)
           S == Specs(r)
<1>1. a = [ok |-> TRUE, amount |-> r.amount, mints |-> m, swaps |-> S]
  BY RouteDecodes, Zenon
<1>2. LegsTyped(r) /\ Found(Remaining(r), r) /\ Placed(Metas(r), r)
  BY RouteFacts, RemainingFacts, MetasFacts, Zenon
<1>3. /\ n \in Nat /\ m \in Nat /\ S \in Seq(SwapSpec) /\ Len(S) = n
      /\ \A k \in 1 .. n : S[k].from = r.legs[k].from /\ S[k].to = r.legs[k].to
  BY <1>2, Zenon DEF LegsTyped, LegBuilt
<1>4. \A k \in 1 .. n : r.legs[k].from \in Nat /\ r.legs[k].to \in Nat
  <2>1. \A k \in 1 .. n : r.legs[k] \in RouteLeg
    BY <1>2, Zenon DEF LegsTyped
  <2> QED BY <2>1, LegIndices, Zenon
<1>5. Len(remaining_accounts) \in Nat /\ 2 * m <= Len(remaining_accounts)
  BY <1>2, Zenon DEF Found, Placed
<1> HIDE DEF a, S
<1>6. a.ok = TRUE /\ a.mints = m /\ a.swaps = S
  BY <1>1
<1> HIDE DEF n, m
<1>7. ASSUME RouteError(a) = "none", NEW k \in 1 .. n
      PROVE  r.legs[k].from < m /\ r.legs[k].to < m
  <2>1. ~(S[k].from >= m \/ S[k].to >= m)
    BY <1>3, <1>6, <1>7, Zenon DEF RouteError
  <2> QED BY <1>3, <1>4, <2>1
<1>8. ASSUME WellFormed(r) PROVE RouteError(a) = "none"
  <2>1. /\ m \in 2 .. 12 /\ n \in 1 .. 12 /\ r.legs[1].from = 0
        /\ \A k \in 1 .. n : r.legs[k].from \in 0 .. m - 1 /\ r.legs[k].to \in 0 .. m - 1
    BY <1>8, Zenon DEF WellFormed, MAX_MINTS, MAX_SWAPS, n, m
  <2>2. ~(m <= 1) /\ ~(Len(S) > 12) /\ ~(m > 12) /\ S # << >>
    BY <1>3, <2>1
  <2>3. ~(Len(remaining_accounts) < 2 * m)
    BY <1>3, <1>5
  <2>4. S[1].from = 0
    <3>1. 1 \in 1 .. n
      BY <2>1
    <3> QED BY <1>3, <2>1, <3>1, Zenon
  <2>5. ASSUME NEW k \in 1 .. n PROVE ~(S[k].from >= m \/ S[k].to >= m)
    <3>1. S[k].from \in 0 .. m - 1 /\ S[k].to \in 0 .. m - 1
      BY <1>3, <2>1, Zenon
    <3> QED BY <1>3, <3>1
  <2> QED BY <1>3, <1>6, <2>2, <2>3, <2>4, <2>5, Zenon DEF RouteError, MAX_MINTS, MAX_SWAPS
<1> QED BY <1>1, <1>7, <1>8, Zenon DEF a, n, m, S

-----------------------------------------------------------------------------
(* The invariant is inductive: one lemma for each action. *)

LEMMA AppendSeq ==
  ASSUME NEW s, IsSeq(s), NEW x
  PROVE  LET t == Append(s, x)
         IN  /\ IsSeq(t) /\ Len(t) = Len(s) + 1 /\ t[Len(s) + 1] = x
             /\ \A i \in 1 .. Len(s) : t[i] = s[i]
<1> DEFINE n == Len(s)
           S == {s[i] : i \in 1 .. n} \cup {x}
           t == Append(s, x)
<1>1. n \in Nat /\ s = [i \in 1 .. n |-> s[i]]
  BY DEF IsSeq
<1>2. \A i \in 1 .. n : s[i] \in S
  OBVIOUS
<1>3. x \in S
  OBVIOUS
<1> HIDE DEF S, n
<1>4. s \in [1 .. n -> S]
  BY <1>1, <1>2, Zenon
<1>5. s \in Seq(S)
  BY <1>1, <1>4, FunctionIsSeq, Zenon
<1>6. t \in Seq(S) /\ Len(t) = n + 1 /\ t[n + 1] = x /\ \A i \in 1 .. n : t[i] = s[i]
  BY <1>3, <1>5, AppendProperties DEF n
<1> HIDE DEF t
<1>7. IsSeq(t)
  BY <1>6 DEF IsSeq
<1> QED BY <1>6, <1>7 DEF n, t

Empty == << >>

LEMMA EmptyIsSeq == IsSeq(Empty) /\ Len(Empty) = 0 /\ 1 .. Len(Empty) = {}
<1>1. Empty \in Seq({}) /\ Len(Empty) = 0
  BY DEF Empty
<1>2. Empty = [i \in 1 .. Len(Empty) |-> Empty[i]] /\ Len(Empty) \in Nat
  BY <1>1
<1>3. 1 .. Len(Empty) = {}
  BY <1>1
<1> QED BY <1>1, <1>2, <1>3, Zenon DEF IsSeq

LEMMA RouteLegs ==
  ASSUME NEW r \in Routes
  PROVE  /\ Len(r.legs) \in Nat
         /\ \A k \in 1 .. Len(r.legs) : r.legs[k] \in RouteLeg
<1>1. r.legs \in Seq(RouteLeg)
  BY RouteAssumption, Zenon
<1> DEFINE s == r.legs
<1> HIDE DEF s
<1>2. s \in Seq(RouteLeg)
  BY <1>1 DEF s
<1>3. Len(s) \in Nat /\ \A k \in 1 .. Len(s) : s[k] \in RouteLeg
  BY <1>2
<1> QED BY <1>3 DEF s

LEMMA BInit == Init => BInv
<1> SUFFICES ASSUME Init PROVE BInv
  OBVIOUS
<1>1. route \in Routes /\ pc = "build" /\ legs = << >> /\ leg = 1 /\ calls = << >>
  BY DEF Init
<1>2. Len(route.legs) \in Nat
  BY <1>1, RouteLegs, Zenon
<1>3. LegsAreBuilt
  <2>1. IsSeq(legs) /\ Len(legs) = 0 /\ 1 .. Len(legs) = {}
    <3>1. legs = Empty
      BY <1>1 DEF Empty
    <3> QED BY <3>1, EmptyIsSeq, Zenon
  <2>2. Len(legs) <= Len(route.legs)
    BY <1>2, <2>1
  <2> QED BY <2>1, <2>2, Zenon DEF LegsAreBuilt
<1>4. IsSeq(calls) /\ \A c \in 1 .. Len(calls) : GoodCall(route, calls[c])
  <2>1. calls = Empty
    BY <1>1 DEF Empty
  <2> QED BY <2>1, EmptyIsSeq, Zenon
<1>5. pc \in {"build", "enter", "leg", "done"} /\ ~(pc \in {"enter", "leg"}) /\ pc # "leg"
      /\ pc # "done"
  BY <1>1
<1> QED BY <1>1, <1>3, <1>4, <1>5, Zenon DEF BInv

\* All legs are built: what Submit makes of them is what the route says.
LEMMA BuiltLegs ==
  ASSUME route \in Routes, LegsAreBuilt, Len(legs) = Len(route.legs)
  PROVE  /\ AllBuilt(route)
         /\ [k \in 1 .. Len(legs) |-> legs[k].accounts] = LegAccounts(route)
         /\ [k \in 1 .. Len(legs) |-> legs[k].spec] = Specs(route)
<1>1. \A k \in 1 .. Len(route.legs) :
        Builds(route.legs[k]) /\ legs[k] = build_swap_leg(route.legs[k])
  BY Zenon DEF LegsAreBuilt
<1> QED BY <1>1, Zenon DEF AllBuilt, LegAccounts, Specs

LEMMA BBuildLeg == BInv /\ BuildLeg => BInv'
<1> SUFFICES ASSUME BInv, BuildLeg PROVE BInv'
  OBVIOUS
<1> DEFINE n == Len(legs)
           l == route.legs[n + 1]
<1>1. /\ pc = "build" /\ n < Len(route.legs)
      /\ route' = route /\ tx' = tx /\ args' = args /\ leg' = leg /\ cursor' = cursor
      /\ calls' = calls
  BY DEF BuildLeg
<1>2. /\ route \in Routes /\ LegsAreBuilt /\ calls = << >> /\ leg = 1
  <2>1. pc \in {"build", "enter"}
    BY <1>1
  <2> QED BY <2>1, Zenon DEF BInv
<1>3. IsSeq(calls') /\ (\A c \in 1 .. Len(calls') : GoodCall(route', calls'[c]))
      /\ ~(calls' # << >>)
  <2>1. calls' = Empty /\ Empty = << >>
    BY <1>1, <1>2 DEF Empty
  <2> QED BY <2>1, EmptyIsSeq, Zenon
<1>4. /\ IsSeq(legs) /\ n \in Nat /\ Len(route.legs) \in Nat
      /\ \A k \in 1 .. n : Builds(route.legs[k]) /\ legs[k] = build_swap_leg(route.legs[k])
  BY <1>2, RouteLegs, Zenon DEF LegsAreBuilt, IsSeq
<1>5. CASE BuildError(l.venue, l.request) # "none"
  <2>1. pc' = "done" /\ legs' = legs
    BY <1>5, Zenon DEF BuildLeg, Ended
  <2>2. LegsAreBuilt'
    BY <1>1, <1>2, <2>1, Zenon DEF LegsAreBuilt
  <2>3. Len(legs') # Len(route'.legs)
    BY <1>1, <1>4, <2>1
  <2>4. ~(pc' \in {"build", "enter"}) /\ ~(pc' \in {"enter", "leg"}) /\ pc' # "leg"
        /\ pc' \in {"build", "enter", "leg", "done"}
    BY <2>1
  <2> QED BY <1>1, <1>2, <1>3, <2>2, <2>3, <2>4, Zenon DEF BInv
<1>6. CASE BuildError(l.venue, l.request) = "none"
  <2>1. pc' = pc /\ legs' = Append(legs, build_swap_leg(l))
    BY <1>6, Zenon DEF BuildLeg
  <2>2. /\ IsSeq(legs') /\ Len(legs') = n + 1 /\ legs'[n + 1] = build_swap_leg(l)
        /\ \A i \in 1 .. n : legs'[i] = legs[i]
    BY <1>4, <2>1, AppendSeq, Zenon
  <2>3. Len(legs') <= Len(route'.legs)
    BY <1>1, <1>4, <2>2
  <2>4. ASSUME NEW k \in 1 .. Len(legs')
        PROVE  Builds(route'.legs[k]) /\ legs'[k] = build_swap_leg(route'.legs[k])
    <3>1. k \in 1 .. n \/ k = n + 1
      BY <1>4, <2>2
    <3>2. CASE k \in 1 .. n
      BY <1>1, <1>4, <2>2, <3>2, Zenon
    <3>3. CASE k = n + 1
      BY <1>1, <1>6, <2>2, <3>3, Zenon DEF Builds
    <3> QED BY <3>1, <3>2, <3>3
  <2>5. LegsAreBuilt'
    BY <2>2, <2>3, <2>4, Zenon DEF LegsAreBuilt
  <2>6. ~(pc' \in {"enter", "leg"}) /\ pc' # "leg" /\ pc' # "done"
        /\ pc' \in {"build", "enter", "leg", "done"}
    BY <1>1, <2>1
  <2> QED BY <1>1, <1>2, <1>3, <2>5, <2>6, Zenon DEF BInv
<1> QED BY <1>5, <1>6

LEMMA BSubmit == BInv /\ Submit => BInv'
<1> SUFFICES ASSUME BInv, Submit PROVE BInv'
  OBVIOUS
<1>1. /\ pc = "build" /\ Len(legs) = Len(route.legs)
      /\ route' = route /\ legs' = legs /\ args' = args /\ leg' = leg /\ calls' = calls
  BY DEF Submit
<1>2. /\ route \in Routes /\ LegsAreBuilt /\ calls = << >> /\ leg = 1
  <2>1. pc \in {"build", "enter"}
    BY <1>1
  <2> QED BY <2>1, Zenon DEF BInv
<1>3. IsSeq(calls') /\ (\A c \in 1 .. Len(calls') : GoodCall(route', calls'[c]))
      /\ ~(calls' # << >>)
  <2>1. calls' = Empty /\ Empty = << >>
    BY <1>1, <1>2 DEF Empty
  <2> QED BY <2>1, EmptyIsSeq, Zenon
<1> DEFINE metas == FixedAccounts \o RouteAccounts(route.mints)
                      \o Concat([k \in 1 .. Len(legs) |-> legs[k].accounts], Len(legs))
           specs == [k \in 1 .. Len(legs) |-> legs[k].spec]
<1>4. AllBuilt(route) /\ metas = Metas(route) /\ specs = Specs(route)
  BY <1>1, <1>2, BuiltLegs, Zenon DEF Metas
<1>5. /\ tx' = [data |-> encode_swap_route_v3_data(route.amount, Len(route.mints), specs),
                accounts |-> AccountInfos(metas)]
      /\ ~(\E n \in 1 .. Len(metas) : metas[n].signer /\ metas[n].key # payer) => pc' = "enter"
  BY Zenon DEF Submit
<1> HIDE DEF metas, specs
<1>6. tx' = Transaction(route)
  BY <1>4, <1>5, Zenon DEF Transaction
<1>7. pc' = "enter"
  BY <1>2, <1>4, <1>5, NoMissingSignature, Zenon
<1>8. LegsAreBuilt' /\ Submitted'
  BY <1>1, <1>2, <1>6, Zenon DEF LegsAreBuilt, Submitted
<1>9. pc' # "leg" /\ pc' # "done" /\ pc' \in {"build", "enter", "leg", "done"}
  BY <1>7
<1> QED BY <1>1, <1>2, <1>3, <1>8, <1>9, Zenon DEF BInv

\* The first leg's accounts start behind those of the mints.
LEMMA FirstStart ==
  ASSUME NEW r \in Routes, AllBuilt(r)
  PROVE  LegStart(r, 1) = 2 * Len(r.mints) /\ Len(r.mints) \in Nat
<1> DEFINE f == LegAccounts(r)
           n == Len(r.legs)
           G == [k \in 0 .. n |-> Concat(f, k)]
<1>1. LegsTyped(r)
  BY RouteFacts, Zenon
<1>2. n \in Nat /\ Len(r.mints) \in Nat /\ \A k \in 1 .. n : f[k] \in Seq(TxMeta)
  BY <1>1, Zenon DEF LegsTyped
<1>3. Joins(G, f, n, TxMeta)
  <2> HIDE DEF f, n
  <2> QED BY <1>2, ConcatStep, Zenon
<1>4. 0 \in 0 .. n /\ 1 - 1 = 0
  BY <1>2
<1>5. G[0] = Concat(f, 0)
  BY <1>4, Zenon
<1> HIDE DEF G
<1>6. Concat(f, 0) = Empty
  BY <1>3, <1>5, Zenon DEF Joins, Empty
<1> DEFINE x == Len(Concat(f, 0))
<1>7. LegStart(r, 1) = 2 * Len(r.mints) + x
  BY <1>4, Zenon DEF LegStart
<1>8. x = 0
  BY <1>6, EmptyIsSeq, Zenon
<1> HIDE DEF x
<1> QED BY <1>2, <1>7, <1>8

LEMMA SubmittedRemaining ==
  ASSUME Submitted
  PROVE  remaining_accounts = Remaining(route)
BY Zenon DEF Submitted, remaining_accounts, Remaining

LEMMA BEnter == BInv /\ Enter => BInv'
<1> SUFFICES ASSUME BInv, Enter PROVE BInv'
  OBVIOUS
<1> DEFINE a == Arguments(tx.data)
           error == RouteError(a)
<1>1. /\ pc = "enter" /\ route' = route /\ legs' = legs /\ tx' = tx /\ leg' = leg
      /\ calls' = calls
  BY DEF Enter
<1>2. route \in Routes /\ LegsAreBuilt /\ calls = << >> /\ leg = 1 /\ Submitted
  <2>1. pc \in {"build", "enter"} /\ pc \in {"enter", "leg"}
    BY <1>1
  <2> QED BY <2>1, Zenon DEF BInv
<1>3. IsSeq(calls') /\ (\A c \in 1 .. Len(calls') : GoodCall(route', calls'[c]))
      /\ ~(calls' # << >>)
  <2>1. calls' = Empty /\ Empty = << >>
    BY <1>1, <1>2 DEF Empty
  <2> QED BY <2>1, EmptyIsSeq, Zenon
<1>4. LegsAreBuilt' /\ Submitted'
  BY <1>1, <1>2, Zenon DEF LegsAreBuilt, Submitted
<1>5. AllBuilt(route) /\ remaining_accounts = Remaining(route) /\ tx = Transaction(route)
  BY <1>2, BuiltLegs, SubmittedRemaining, Zenon DEF Submitted
<1>6. /\ a = [ok |-> TRUE, amount |-> route.amount, mints |-> Len(route.mints),
              swaps |-> Specs(route)]
      /\ error = "none" =>
           \A k \in 1 .. Len(route.legs) :
             route.legs[k].from < Len(route.mints) /\ route.legs[k].to < Len(route.mints)
      /\ WellFormed(route) => error = "none"
  BY <1>2, <1>5, EntryChecks, Zenon
<1>7. CASE error # "none"
  <2>1. pc' = "done"
    BY <1>7, Zenon DEF Enter, Ended
  <2>2. ~WellFormed(route')
    BY <1>1, <1>6, <1>7, Zenon
  <2>3. ~(pc' \in {"build", "enter"}) /\ ~(pc' \in {"enter", "leg"}) /\ pc' # "leg"
        /\ pc' \in {"build", "enter", "leg", "done"}
    BY <2>1
  <2> QED BY <1>1, <1>2, <1>3, <1>4, <2>2, <2>3, Zenon DEF BInv
<1>8. CASE error = "none"
  <2>1. /\ args' = [amount |-> a.amount, mints |-> a.mints, swaps |-> a.swaps]
        /\ cursor' = 2 * a.mints /\ pc' = "leg"
    BY <1>8, Zenon DEF Enter
  <2>2. a.amount = route.amount /\ a.mints = Len(route.mints) /\ a.swaps = Specs(route)
    <3> HIDE DEF a
    <3> QED BY <1>6
  <2>3. Decoded'
    BY <1>1, <1>6, <1>8, <2>1, <2>2, Zenon DEF Decoded
  <2>4. AtLeg'
    <3>1. cursor' = LegStart(route', leg')
      BY <1>1, <1>2, <1>5, <2>1, <2>2, FirstStart, Zenon
    <3>2. leg' \in 1 .. Len(route'.legs) + 1
      <4>1. Len(route.legs) \in Nat
        BY <1>2, RouteLegs, Zenon
      <4> QED BY <1>1, <1>2, <4>1
    <3> QED BY <3>1, <3>2, Zenon DEF AtLeg
  <2>5. ~(pc' \in {"build", "enter"}) /\ pc' # "done" /\ pc' \in {"build", "enter", "leg", "done"}
    BY <2>1
  <2> QED BY <1>1, <1>2, <1>3, <1>4, <2>3, <2>4, <2>5, Zenon DEF BInv
<1> QED BY <1>7, <1>8, Zenon

LEMMA BLeg == BInv /\ Leg => BInv'
<1> SUFFICES ASSUME BInv, Leg PROVE BInv'
  OBVIOUS
<1> DEFINE swap == args.swaps[leg]
           A == SubSeq(remaining_accounts, cursor + 1, cursor + swap.n_accounts)
<1>1. /\ pc = "leg" /\ leg <= Len(args.swaps) /\ route' = route /\ legs' = legs /\ tx' = tx
      /\ args' = args
  BY DEF Leg
<1>2. /\ route \in Routes /\ LegsAreBuilt /\ Submitted /\ Decoded /\ AtLeg /\ IsSeq(calls)
      /\ \A c \in 1 .. Len(calls) : GoodCall(route, calls[c])
  <2>1. pc \in {"enter", "leg"}
    BY <1>1
  <2> QED BY <1>1, <2>1, Zenon DEF BInv
<1>3. AllBuilt(route) /\ remaining_accounts = Remaining(route)
  BY <1>2, BuiltLegs, SubmittedRemaining, Zenon DEF Submitted
<1>4. LegsTyped(route)
  BY <1>2, <1>3, RouteFacts, Zenon
<1>5. args.swaps = Specs(route)
  BY <1>2 DEF Decoded
<1>6. /\ leg \in 1 .. Len(route.legs) + 1 /\ cursor = LegStart(route, leg)
      /\ Len(route.legs) \in Nat /\ leg <= Len(route.legs)
  BY <1>1, <1>2, <1>4, <1>5, Zenon DEF AtLeg, LegsTyped
<1>7. leg \in 1 .. Len(route.legs)
  BY <1>6
<1>8. swap = Specs(route)[leg] /\ A = LegSlice(route, leg)
  BY <1>3, <1>5, <1>6, Zenon DEF LegSlice
<1>9. /\ route.legs[leg].from < Len(route.mints) /\ route.legs[leg].to < Len(route.mints)
  BY <1>2, <1>7, Zenon DEF Decoded
<1>10. PICK amount :
         LET error == LegError(swap, A, amount)
         IN  IF error # "none" THEN Ended(error) /\ UNCHANGED <<leg, cursor, calls>>
             ELSE /\ calls' = IF amount = 0 THEN calls
                              ELSE Append(calls, [leg |-> leg, amount |-> amount,
                                     ix |-> perform_cpi_swap(swap, amount, account_metas(A))])
                  /\ cursor' = NextCursor(swap, amount)
                  /\ leg' = leg + 1
                  /\ UNCHANGED <<pc, outcome>>
  BY Zenon DEF Leg
<1>11. LegError(swap, A, amount) = "none"
  BY <1>2, <1>3, <1>6, <1>7, <1>8, NoLegError, Zenon
<1>12. /\ calls' = (IF amount = 0 THEN calls ELSE Append(calls, CallAt(route, leg, amount)))
       /\ cursor' = cursor + swap.n_accounts /\ leg' = leg + 1 /\ pc' = pc
  <2>1. /\ calls' = (IF amount = 0 THEN calls
                     ELSE Append(calls, [leg |-> leg, amount |-> amount,
                            ix |-> perform_cpi_swap(swap, amount, account_metas(A))]))
        /\ cursor' = NextCursor(swap, amount) /\ leg' = leg + 1 /\ UNCHANGED <<pc, outcome>>
    BY <1>10, <1>11, Zenon
  <2>2. pc' = pc
    BY <2>1
  <2>3. CallAt(route, leg, amount)
          = [leg |-> leg, amount |-> amount,
             ix |-> perform_cpi_swap(swap, amount, account_metas(A))]
    BY <1>8, Zenon DEF CallAt
  <2> HIDE DEF swap, A
  <2> QED BY <2>1, <2>2, <2>3, Zenon DEF NextCursor
<1>13. cursor' = LegStart(route', leg')
  <2>1. IsSlice(LegSlice(route, leg), route, leg)
    BY <1>2, <1>3, <1>7, LegSliceFacts, Zenon
  <2> QED BY <1>1, <1>6, <1>8, <1>12, <2>1, Zenon DEF IsSlice
<1>14. leg' \in 1 .. Len(route'.legs) + 1
  BY <1>1, <1>6, <1>7, <1>12
<1>15. LegsAreBuilt' /\ Submitted' /\ Decoded' /\ AtLeg'
  BY <1>1, <1>2, <1>13, <1>14, Zenon DEF LegsAreBuilt, Submitted, Decoded, AtLeg
<1>16. IsSeq(calls') /\ \A c \in 1 .. Len(calls') : GoodCall(route', calls'[c])
  <2>1. CASE amount = 0
    BY <1>1, <1>2, <1>12, <2>1, Zenon
  <2>2. CASE amount # 0
    <3> DEFINE x == CallAt(route, leg, amount)
               n == Len(calls)
    <3>1. GoodCall(route, x)
      BY <1>2, <1>3, <1>7, <1>9, CallFacts, Zenon
    <3> HIDE DEF x
    <3>2. calls' = Append(calls, x)
      BY <1>12, <2>2, Zenon DEF x
    <3>3. /\ IsSeq(calls') /\ Len(calls') = n + 1 /\ calls'[n + 1] = x
          /\ \A i \in 1 .. n : calls'[i] = calls[i]
      BY <1>2, <3>2, AppendSeq, Zenon
    <3>4. ASSUME NEW c \in 1 .. Len(calls') PROVE GoodCall(route', calls'[c])
      <4>1. c \in 1 .. n \/ c = n + 1
        <5>1. n \in Nat
          BY <1>2, Zenon DEF IsSeq
        <5> QED BY <3>3, <5>1
      <4> QED BY <1>1, <1>2, <3>1, <3>3, <4>1, Zenon
    <3> QED BY <3>3, <3>4, Zenon
  <2> QED BY <2>1, <2>2
<1>17. ~(pc' \in {"build", "enter"}) /\ pc' # "done" /\ pc' \in {"build", "enter", "leg", "done"}
  BY <1>1, <1>12
<1> QED BY <1>1, <1>2, <1>15, <1>16, <1>17, Zenon DEF BInv

LEMMA BFinish == BInv /\ Finish => BInv'
<1> SUFFICES ASSUME BInv, Finish PROVE BInv'
  OBVIOUS
<1>1. /\ pc = "leg" /\ route' = route /\ legs' = legs /\ tx' = tx /\ args' = args
      /\ calls' = calls /\ pc' = "done" /\ outcome' = "ok"
  BY DEF Finish, Ended
<1>2. /\ route \in Routes /\ LegsAreBuilt /\ Submitted /\ Decoded /\ IsSeq(calls)
      /\ \A c \in 1 .. Len(calls) : GoodCall(route, calls[c])
  <2>1. pc \in {"enter", "leg"}
    BY <1>1
  <2> QED BY <1>1, <2>1, Zenon DEF BInv
<1>3. LegsAreBuilt' /\ Submitted' /\ Decoded'
  BY <1>1, <1>2, Zenon DEF LegsAreBuilt, Submitted, Decoded
<1>4. ~(pc' \in {"build", "enter"}) /\ ~(pc' \in {"enter", "leg"}) /\ pc' # "leg"
      /\ pc' \in {"build", "enter", "leg", "done"}
  BY <1>1
<1> QED BY <1>1, <1>2, <1>3, <1>4, Zenon DEF BInv

LEMMA BStutter == BInv /\ UNCHANGED vars => BInv'
<1> SUFFICES ASSUME BInv, UNCHANGED vars PROVE BInv'
  OBVIOUS
<1>1. /\ route' = route /\ pc' = pc /\ legs' = legs /\ tx' = tx /\ args' = args
      /\ leg' = leg /\ cursor' = cursor /\ calls' = calls /\ outcome' = outcome
  BY DEF vars
<1>2. /\ LegsAreBuilt' <=> LegsAreBuilt
      /\ Submitted' <=> Submitted
      /\ Decoded' <=> Decoded
      /\ AtLeg' <=> AtLeg
  BY <1>1, Zenon DEF LegsAreBuilt, Submitted, Decoded, AtLeg
<1> QED BY <1>1, <1>2, Zenon DEF BInv

\* Every reachable state satisfies the invariant: the legs are those the route says,
\* the transaction is theirs, the program decodes it exactly, the cursor is where the
\* next leg's accounts start, and every call made so far is good.
THEOREM BuilderInvariant == Spec => []BInv
<1>1. Init => BInv
  BY BInit
<1>2. BInv /\ [Next]_vars => BInv'
  BY BBuildLeg, BSubmit, BEnter, BLeg, BFinish, BStutter DEF Next
<1> QED BY <1>1, <1>2, PTL DEF Spec

-----------------------------------------------------------------------------
(* The theorems. *)

\* A well-formed route whose legs build always ends "ok", and the program works on
\* exactly the specs that were built: neither encode_swap_route_v3_data nor
\* build_swap_leg can produce what swap_route_v3 refuses.
THEOREM BuiltRoutesRun == Spec => []BuiltRouteRuns
<1>1. BInv => BuiltRouteRuns
  <2> SUFFICES ASSUME BInv, WellFormed(route)
               PROVE  /\ pc = "done" /\ Len(legs) = Len(route.legs) => outcome = "ok"
                      /\ pc = "leg" => args = [amount |-> route.amount, mints |-> Len(route.mints),
                                               swaps |-> [k \in 1 .. Len(legs) |-> legs[k].spec]]
    BY DEF BuiltRouteRuns
  <2>1. pc = "done" /\ Len(legs) = Len(route.legs) => outcome = "ok"
    BY Zenon DEF BInv
  <2>2. ASSUME pc = "leg"
        PROVE  args = [amount |-> route.amount, mints |-> Len(route.mints),
                       swaps |-> [k \in 1 .. Len(legs) |-> legs[k].spec]]
    <3>1. pc \in {"enter", "leg"}
      BY <2>2
    <3>2. route \in Routes /\ LegsAreBuilt /\ Submitted /\ Decoded
      BY <2>2, <3>1, Zenon DEF BInv
    <3>3. [k \in 1 .. Len(legs) |-> legs[k].spec] = Specs(route)
      BY <3>2, BuiltLegs, Zenon DEF Submitted
    <3> QED BY <3>2, <3>3, Zenon DEF Decoded
  <2> QED BY <2>1, <2>2, Zenon
<1> QED BY <1>1, BuilderInvariant, PTL

\* Every CPI of the router is the swap instruction that the venue generates for the
\* TitanPDA, but for the amount: the signer flags cleared by assemble_leg_accounts, the
\* wire format, the cursor over remaining_accounts and the adapters cancel out.
THEOREM CpisAreVenueSwaps == Spec => []CpiIsVenueSwap
<1>1. BInv => CpiIsVenueSwap
  <2>1. BInv => \A c \in 1 .. Len(calls) : GoodCall(route, calls[c])
    BY Zenon DEF BInv
  <2> QED BY <2>1, Zenon DEF CpiIsVenueSwap, GoodCall, Own
<1> QED BY <1>1, BuilderInvariant, PTL

\* The account a CPI spends is the slot whose balance the router measured for the
\* leg, and the account it pays is the slot of the leg's output mint.
THEOREM MeasuredSlotsAreSpent == Spec => []SpendsMeasuredSlot
<1>1. BInv => SpendsMeasuredSlot
  <2> SUFFICES ASSUME BInv, NEW c \in 1 .. Len(calls),
                      Consistent(route, route.legs[calls[c].leg])
               PROVE  LET swap == args.swaps[calls[c].leg]
                          ix == calls[c].ix
                      IN  /\ Holds(ix, SpendsAt(ix.data.op), remaining_accounts[swap.from + 1])
                          /\ Holds(ix, ReceivesAt(ix.data.op), remaining_accounts[swap.to + 1])
    BY Zenon DEF SpendsMeasuredSlot
  <2> DEFINE k == calls[c].leg
             l == route.legs[k]
  <2>1. calls # << >>
    <3>1. calls = Empty => ~(c \in 1 .. Len(calls))
      BY EmptyIsSeq, Zenon
    <3> QED BY <3>1, Zenon DEF Empty
  <2>2. route \in Routes /\ LegsAreBuilt /\ Submitted /\ Decoded /\ GoodCall(route, calls[c])
    BY <2>1, Zenon DEF BInv
  <2>3. AllBuilt(route) /\ remaining_accounts = Remaining(route)
    BY <2>2, BuiltLegs, SubmittedRemaining, Zenon DEF Submitted
  <2>4. LegsTyped(route)
    BY <2>2, <2>3, RouteFacts, Zenon
  <2>5. k \in 1 .. Len(route.legs)
    BY <2>2, Zenon DEF GoodCall
  <2>6. args.swaps = Specs(route)
    BY <2>2 DEF Decoded
  <2>7. args.swaps[k].from = l.from /\ args.swaps[k].to = l.to
    <3>1. Specs(route)[k] = build_swap_leg(l).spec /\ LegBuilt(l, build_swap_leg(l))
      BY <2>4, <2>5, Zenon DEF LegsTyped
    <3> HIDE DEF k, l
    <3>2. build_swap_leg(l).spec.from = l.from /\ build_swap_leg(l).spec.to = l.to
      BY <3>1, Zenon DEF LegBuilt
    <3> QED BY <2>6, <3>1, <3>2, Zenon
  <2>8. LET ix == calls[c].ix
        IN  /\ Holds(ix, SpendsAt(ix.data.op), Remaining(route)[l.from + 1])
            /\ Holds(ix, ReceivesAt(ix.data.op), Remaining(route)[l.to + 1])
    BY <2>2, Zenon DEF GoodCall
  <2> QED BY <2>3, <2>7, <2>8, Zenon
<1> QED BY <1>1, BuilderInvariant, PTL
=============================================================================
