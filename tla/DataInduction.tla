--------------------------- MODULE DataInduction ---------------------------
(***************************************************************************)
(* Induction over the natural numbers, for proofs about data defined       *)
(* recursively, and what makes a recursive definition a definition.  What  *)
(* is proved by induction is given as a set of numbers, since the provers  *)
(* cannot instantiate an operator.                                         *)
(***************************************************************************)
EXTENDS Integers, WellFoundedInduction, TLAPS

\* A set of natural numbers that is not empty has a least element.
LEMMA LeastOf ==
  ASSUME NEW S \in SUBSET Nat, S # {}
  PROVE  \E m \in S : \A k \in S : m <= k
<1>1. PICK m \in S : \A k \in S : ~ (<<k, m>> \in OpToRel(<, Nat))
  BY NatLessThanWellFounded, WFMin
<1>2. \A k \in S : <<k, m>> \in OpToRel(<, Nat) <=> k < m
  BY DEF OpToRel
<1>3. \A k \in S : ~ (k < m)
  BY <1>1, <1>2, Zenon
<1> QED
  BY <1>3

\* One that is bounded has a greatest element.
LEMMA GreatestOf ==
  ASSUME NEW n \in Nat, NEW S \in SUBSET (0 .. n), S # {}
  PROVE  \E m \in S : \A k \in S : m >= k
<1> DEFINE T == {n - k : k \in S}
<1>1. T \in SUBSET Nat /\ T # {}
  <2>1. \A k \in S : n - k \in Nat
    OBVIOUS
  <2>2. PICK k \in S : TRUE
    OBVIOUS
  <2>3. n - k \in T
    BY <2>2
  <2> QED
    BY <2>1, <2>3
<1>2. PICK t \in T : \A u \in T : t <= u
  BY <1>1, LeastOf
<1>3. PICK m \in S : t = n - m
  BY <1>2
<1>4. ASSUME NEW k \in S PROVE m >= k
  <2>1. n - k \in T /\ m \in 0 .. n /\ k \in 0 .. n
    OBVIOUS
  <2>2. t <= n - k
    BY <1>2, <2>1
  <2> QED
    BY <1>3, <2>1, <2>2
<1> QED
  BY <1>4

\* Induction from a number to the next.
LEMMA UpInduction ==
  ASSUME NEW S, 0 \in S, \A n \in Nat : n \in S => n + 1 \in S
  PROVE  Nat \subseteq S
<1> SUFFICES ASSUME Nat \ S # {} PROVE FALSE
  OBVIOUS
<1>1. PICK m \in Nat \ S : \A k \in Nat \ S : m <= k
  BY LeastOf
<1>2. m # 0 /\ m - 1 \in Nat
  BY <1>1
<1>3. m - 1 \in S
  BY <1>1, <1>2
<1> QED
  BY <1>1, <1>2, <1>3

\* Induction from all smaller numbers to a number.
LEMMA CompleteInduction ==
  ASSUME NEW S, \A n \in Nat : (\A k \in 0 .. n - 1 : k \in S) => n \in S
  PROVE  Nat \subseteq S
<1> SUFFICES ASSUME Nat \ S # {} PROVE FALSE
  OBVIOUS
<1>1. PICK m \in Nat \ S : \A k \in Nat \ S : m <= k
  BY LeastOf
<1>2. \A k \in 0 .. m - 1 : k \in S
  BY <1>1
<1> QED
  BY <1>1, <1>2

\* A definition of a function on I with values in V, by G from the function itself, that
\* looks only at places of a smaller measure w, which is at most N.
Recursive(I, V, N, w, G) ==
  /\ V # {} /\ N \in Nat /\ w \in [I -> 0 .. N] /\ G \in [I -> [[I -> V] -> V]]
  /\ \A i \in I : \A f, g \in [I -> V] :
       (\A j \in I : w[j] < w[i] => f[j] = g[j]) => G[i][f] = G[i][g]

\* There is such a function: CHOOSE finds one.
LEMMA RecursiveHolds ==
  ASSUME NEW I, NEW V, NEW N, NEW w, NEW G, Recursive(I, V, N, w, G)
  PROVE  \E f \in [I -> V] : \A i \in I : f[i] = G[i][f]
<1>0. /\ V # {} /\ N \in Nat /\ w \in [I -> 0 .. N]
      /\ \A i \in I : \A f \in [I -> V] : G[i][f] \in V
      /\ \A i \in I : \A f, g \in [I -> V] :
           (\A j \in I : w[j] < w[i] => f[j] = g[j]) => G[i][f] = G[i][g]
  BY DEF Recursive
<1> DEFINE Good(m, f) == \A i \in I : w[i] < m => f[i] = G[i][f]
           S == {m \in Nat : \E f \in [I -> V] : Good(m, f)}
<1>1. 0 \in S
  <2>1. PICK v \in V : TRUE
    BY <1>0
  <2>2. [i \in I |-> v] \in [I -> V] /\ Good(0, [i \in I |-> v])
    BY <1>0
  <2> QED
    BY <2>2
<1>2. ASSUME NEW m \in Nat, m \in S PROVE m + 1 \in S
  <2>1. PICK f \in [I -> V] : Good(m, f)
    BY <1>2
  <2> DEFINE h == [i \in I |-> IF w[i] = m THEN G[i][f] ELSE f[i]]
  <2>2. h \in [I -> V] /\ \A i \in I : h[i] = IF w[i] = m THEN G[i][f] ELSE f[i]
    BY <1>0
  <2> HIDE DEF h
  <2>3. ASSUME NEW i \in I, w[i] < m + 1 PROVE h[i] = G[i][h]
    <3>1. w[i] \in Nat /\ w[i] <= m
      BY <1>0, <2>3
    <3>2. ASSUME NEW j \in I, w[j] < w[i] PROVE h[j] = f[j]
      <4>1. w[j] \in Int
        BY <1>0
      <4>2. w[j] # m
        BY <3>1, <3>2, <4>1
      <4> QED
        BY <2>2, <4>2
    <3>3. G[i][h] = G[i][f]
      BY <1>0, <2>1, <2>2, <3>2
    <3>4. w[i] # m => w[i] < m
      BY <3>1
    <3> QED
      BY <2>1, <2>2, <3>3, <3>4, Zenon
  <2>4. Good(m + 1, h)
    BY <2>3
  <2> QED
    BY <2>2, <2>4
<1> HIDE DEF S
<1>3. N + 1 \in S
  BY <1>0, <1>1, <1>2, UpInduction
<1>4. PICK f \in [I -> V] : Good(N + 1, f)
  BY <1>3 DEF S
<1>5. \A i \in I : w[i] < N + 1
  BY <1>0
<1> QED
  BY <1>4, <1>5

\* A function given by its value at 0 and by what makes each value from the one before.
Upward(V, N, a, H) == N \in Nat /\ a \in V /\ H \in [1 .. N -> [V -> V]]

UpwardHolds(V, N, a, H) ==
  \E f \in [0 .. N -> V] : f[0] = a /\ \A k \in 1 .. N : f[k] = H[k][f[k - 1]]

LEMMA StepsUp ==
  ASSUME NEW V, NEW N, NEW a, NEW H, Upward(V, N, a, H)
  PROVE  UpwardHolds(V, N, a, H)
<1>0. N \in Nat /\ a \in V /\ H \in [1 .. N -> [V -> V]]
  BY DEF Upward
<1> DEFINE Good(f, m) == f[0] = a /\ \A k \in 1 .. m : f[k] = H[k][f[k - 1]]
           S == {m \in Nat : m <= N => \E f \in [0 .. N -> V] : Good(f, m)}
<1>1. 0 \in S
  <2> DEFINE f == [k \in 0 .. N |-> a]
  <2>1. f \in [0 .. N -> V] /\ f[0] = a
    BY <1>0
  <2>2. Good(f, 0)
    BY <2>1
  <2> HIDE DEF Good, f
  <2> QED
    BY <2>1, <2>2
<1>2. ASSUME NEW m \in Nat, m \in S PROVE m + 1 \in S
  <2> SUFFICES ASSUME m + 1 <= N PROVE \E f \in [0 .. N -> V] : Good(f, m + 1)
    OBVIOUS
  <2>1. PICK f \in [0 .. N -> V] : Good(f, m)
    BY <1>0, <1>2
  <2> DEFINE g == [k \in 0 .. N |-> IF k = m + 1 THEN H[m + 1][f[m]] ELSE f[k]]
  <2>2. m \in 0 .. N /\ m + 1 \in 1 .. N /\ m + 1 \in 0 .. N /\ m # m + 1 /\ 0 # m + 1 /\ 0 \in 0 .. N
        /\ m + 1 - 1 = m
    BY <1>0
  <2>3. H[m + 1][f[m]] \in V
    BY <1>0, <2>2
  <2>4. /\ g \in [0 .. N -> V] /\ g[m + 1] = H[m + 1][f[m]]
        /\ \A k \in 0 .. N : k # m + 1 => g[k] = f[k]
    BY <2>2, <2>3
  <2> HIDE DEF g
  <2>5. ASSUME NEW k \in 1 .. m + 1 PROVE g[k] = H[k][g[k - 1]]
    <3>1. CASE k = m + 1
      <4>1. k - 1 = m /\ g[m] = f[m]
        BY <2>2, <2>4, <3>1
      <4> QED
        BY <2>4, <3>1, <4>1
    <3>2. CASE k # m + 1
      <4>1. k \in 1 .. m /\ k \in 0 .. N /\ k - 1 \in 0 .. N /\ k - 1 # m + 1
        BY <1>0, <3>2
      <4>2. f[k] = H[k][f[k - 1]]
        BY <2>1, <4>1
      <4> QED
        BY <2>4, <3>2, <4>1, <4>2
    <3> QED
      BY <3>1, <3>2
  <2>6. g[0] = a
    BY <2>1, <2>2, <2>4
  <2> QED
    BY <2>4, <2>5, <2>6
<1> HIDE DEF S
<1>3. N \in S
  BY <1>0, <1>1, <1>2, UpInduction
<1> QED
  BY <1>3 DEF S, UpwardHolds

\* The same from the other end.
Downward(V, M, N, a, H) ==
  M \in Int /\ N \in Int /\ M <= N /\ a \in V /\ H \in [M .. N - 1 -> [V -> V]]

DownwardHolds(V, M, N, a, H) ==
  \E f \in [M .. N -> V] : f[N] = a /\ \A k \in M .. N - 1 : f[k] = H[k][f[k + 1]]

LEMMA StepsDown ==
  ASSUME NEW V, NEW M, NEW N, NEW a, NEW H, Downward(V, M, N, a, H)
  PROVE  DownwardHolds(V, M, N, a, H)
<1> DEFINE L == N - M
           G == [k \in 1 .. L |-> H[N - k]]
<1>0. M \in Int /\ N \in Int /\ M <= N /\ a \in V /\ H \in [M .. N - 1 -> [V -> V]]
  BY DEF Downward
<1>1. L \in Nat /\ \A k \in 1 .. L : N - k \in M .. N - 1
  BY <1>0
<1>2. G \in [1 .. L -> [V -> V]]
  BY <1>0, <1>1
<1> HIDE DEF G, L
<1>3. PICK g \in [0 .. L -> V] : g[0] = a /\ \A k \in 1 .. L : g[k] = G[k][g[k - 1]]
  <2>1. Upward(V, L, a, G)
    BY <1>0, <1>1, <1>2 DEF Upward
  <2>2. UpwardHolds(V, L, a, G)
    BY <2>1, StepsUp, Zenon
  <2> QED
    BY <2>2, Zenon DEF UpwardHolds
<1> DEFINE f == [k \in M .. N |-> g[N - k]]
<1>4. \A k \in M .. N : N - k \in 0 .. L
  BY <1>0 DEF L
<1>5. f \in [M .. N -> V] /\ \A k \in M .. N : f[k] = g[N - k]
  BY <1>4
<1> HIDE DEF f
<1>6. f[N] = a
  <2>1. N \in M .. N /\ N - N = 0
    BY <1>0
  <2> QED
    BY <1>3, <1>5, <2>1
<1>7. ASSUME NEW k \in M .. N - 1 PROVE f[k] = H[k][f[k + 1]]
  <2>1. N - k \in 1 .. L /\ N - (N - k) = k /\ N - k - 1 = N - (k + 1)
        /\ k \in M .. N /\ k + 1 \in M .. N
    BY <1>0 DEF L
  <2>2. g[N - k] = G[N - k][g[N - k - 1]]
    BY <1>3, <2>1
  <2>3. G[N - k] = H[k]
    BY <2>1 DEF G
  <2>4. f[k + 1] = g[N - k - 1]
    BY <1>5, <2>1
  <2> QED
    BY <1>5, <2>1, <2>2, <2>3, <2>4
<1> QED
  BY <1>5, <1>6, <1>7 DEF DownwardHolds
=============================================================================
