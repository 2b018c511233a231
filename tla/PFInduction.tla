---------------------------- MODULE PFInduction -----------------------------
(***************************************************************************)
(* Induction over the natural numbers and definition by iteration, stated  *)
(* with sets and functions, so that the provers can use them: what the     *)
(* loops of the models compute is proved with these facts.                 *)
(***************************************************************************)
EXTENDS Integers, Sequences, FiniteSetTheorems, TLAPS

\* A set of natural numbers has a least element.
LEMMA LeastNatural ==
  ASSUME NEW T \in SUBSET Nat, T # {}
  PROVE  \E m \in T : \A n \in T : m <= n
<1> DEFINE Below == {0..n : n \in T}
<1>1. Below \subseteq FiniteSubsetsOf(Nat)
  <2>1. ASSUME NEW n \in T PROVE 0..n \in FiniteSubsetsOf(Nat)
    <3>1. IsFiniteSet(0..n)
      BY FS_Interval
    <3>2. 0..n \in SUBSET Nat
      OBVIOUS
    <3> QED
      BY <3>1, <3>2, Zenon DEF FiniteSubsetsOf
  <2> QED
    BY <2>1, Zenon
<1>2. Below # {}
  OBVIOUS
<1>3. PICK B \in Below : \A C \in Below : <<C, B>> \notin StrictSubsetOrdering(Nat)
  <2> HIDE DEF Below
  <2> QED
    BY <1>1, <1>2, WFMin, FS_StrictSubsetOrderingWellFounded
<1>4. PICK m \in T : B = 0..m
  OBVIOUS
<1>5. ASSUME NEW n \in T, ~(m <= n) PROVE FALSE
  <2>1. 0..n \subseteq 0..m /\ m \in 0..m /\ m \notin 0..n
    BY <1>5
  <2>2. 0..n \in SUBSET Nat /\ 0..m \in SUBSET Nat /\ 0..n # 0..m
    BY <2>1
  <2>3. <<0..n, 0..m>> \in StrictSubsetOrdering(Nat)
    BY <2>1, <2>2, Zenon DEF StrictSubsetOrdering
  <2>4. 0..n \in Below
    BY Zenon
  <2> HIDE DEF Below
  <2> QED
    BY <2>3, <2>4, <1>3, <1>4, Zenon
<1> QED
  BY <1>5

\* Induction: a set with 0 that is closed under successor holds every number.
LEMMA SetInduction ==
  ASSUME NEW S, 0 \in S, \A n \in Nat : n \in S => n + 1 \in S
  PROVE  Nat \subseteq S
<1> SUFFICES ASSUME Nat \ S # {} PROVE FALSE
  OBVIOUS
<1>1. PICK m \in Nat \ S : \A n \in Nat \ S : m <= n
  BY LeastNatural
<1>2. m # 0 /\ m - 1 \in Nat /\ m - 1 \in S
  BY <1>1
<1> QED
  BY <1>1, <1>2

\* Induction up to a bound.
LEMMA IntervalInduction ==
  ASSUME NEW N \in Nat, NEW S, 0 \in S, \A n \in 0..(N - 1) : n \in S => n + 1 \in S
  PROVE  0..N \subseteq S
<1> DEFINE T == {n \in Nat : n <= N => n \in S}
<1>1. 0 \in T
  OBVIOUS
<1>2. \A n \in Nat : n \in T => n + 1 \in T
  OBVIOUS
<1>3. Nat \subseteq T
  <2> HIDE DEF T
  <2> QED
    BY <1>1, <1>2, SetInduction
<1> QED
  BY <1>3

\* f are the first n results of a loop whose round i turns x into step[i][x].
IsIteration(f, n, step, x0, X) ==
  /\ f \in [0..n -> X]
  /\ f[0] = x0
  /\ \A i \in 1..n : f[i] = step[i][f[i - 1]]

(***************************************************************************)
(* A loop of n rounds has a result after each round.                       *)
(***************************************************************************)
LEMMA IterationExists ==
  ASSUME NEW N \in Nat, NEW X, NEW x0 \in X, NEW step \in [1..N -> [X -> X]]
  PROVE  \E f : IsIteration(f, N, step, x0, X)
<1> DEFINE S == {n \in 0..N : \E f : IsIteration(f, n, step, x0, X)}
<1>1. 0 \in S
  <2>1. IsIteration([i \in 0..0 |-> x0], 0, step, x0, X)
    BY DEF IsIteration
  <2> QED
    BY <2>1
<1>2. ASSUME NEW n \in 0..(N - 1), n \in S PROVE n + 1 \in S
  <2>1. PICK f : IsIteration(f, n, step, x0, X)
    BY <1>2
  <2> DEFINE g == [i \in 0..(n + 1) |-> IF i <= n THEN f[i] ELSE step[n + 1][f[n]]]
  <2>2. n + 1 \in 1..N /\ n \in Nat /\ f[n] \in X
    BY <2>1 DEF IsIteration
  <2>3. step[n + 1][f[n]] \in X
    BY <2>2
  <2>4. g \in [0..(n + 1) -> X]
    BY <2>1, <2>2, <2>3 DEF IsIteration
  <2>5. \A i \in 1..(n + 1) : g[i] = step[i][g[i - 1]]
    <3>1. ASSUME NEW i \in 1..(n + 1) PROVE g[i] = step[i][g[i - 1]]
      <4>1. CASE i <= n
        BY <4>1, <2>1, <2>2 DEF IsIteration
      <4>2. CASE i = n + 1
        BY <4>2, <2>2
      <4> QED
        BY <4>1, <4>2, <2>2
    <3> QED
      BY <3>1
  <2>6. g[0] = x0
    BY <2>1, <2>2 DEF IsIteration
  <2>7. IsIteration(g, n + 1, step, x0, X)
    BY <2>4, <2>5, <2>6 DEF IsIteration
  <2>8. n + 1 \in 0..N
    BY <2>2
  <2> QED
    BY <2>7, <2>8
<1>3. 0..N \subseteq S
  <2> HIDE DEF S
  <2> QED
    BY <1>1, <1>2, IntervalInduction
<1> QED
  BY <1>3
-----------------------------------------------------------------------------
(***************************************************************************)
(* Linked structures.  The links nxt lead from each node in N to another   *)
(* one or out of N; s is the chain of the nodes visited from p on.         *)
(***************************************************************************)
IsChain(nxt, N, p, s) ==
  /\ s \in Seq(N)
  /\ s = << >> => p \notin N
  /\ s # << >> => s[1] = p /\ nxt[s[Len(s)]] \notin N
  /\ \A i \in 1..(Len(s) - 1) : nxt[s[i]] = s[i + 1]

Loopless(nxt, N) == \A S \in SUBSET N : S # {} => \E n \in S : nxt[n] \notin S

\* The chain from n on is n and the chain from its successor on.
LEMMA ChainGrowsInFront ==
  ASSUME NEW nxt, NEW N, NEW n \in N, NEW s, IsChain(nxt, N, nxt[n], s)
  PROVE  IsChain(nxt, N, n, <<n>> \o s)
<1> DEFINE t == <<n>> \o s
<1>1. s \in Seq(N) /\ Len(s) \in Nat
  BY DEF IsChain
<1>2. /\ t \in Seq(N) /\ Len(t) = Len(s) + 1 /\ t[1] = n
      /\ \A i \in 1..Len(s) : t[i + 1] = s[i]
  BY <1>1
<1>3. ASSUME NEW i \in 1..(Len(t) - 1) PROVE nxt[t[i]] = t[i + 1]
  <2>1. i \in 1..Len(s) /\ t[i + 1] = s[i]
    BY <1>1, <1>2
  <2>2. CASE i = 1
    BY <2>1, <2>2, <1>2 DEF IsChain
  <2>3. CASE i # 1
    <3>1. i - 1 \in 1..(Len(s) - 1) /\ t[(i - 1) + 1] = s[i - 1]
      BY <2>1, <2>3, <1>1, <1>2
    <3>2. nxt[s[i - 1]] = s[(i - 1) + 1]
      BY <3>1 DEF IsChain
    <3>3. (i - 1) + 1 = i
      OBVIOUS
    <3> QED
      BY <2>1, <3>1, <3>2, <3>3
  <2> QED
    BY <2>2, <2>3
<1>4. nxt[t[Len(t)]] \notin N
  <2>1. CASE s = << >>
    <3>1. Len(t) = 1
      BY <1>2, <2>1
    <3> QED
      BY <1>2, <2>1, <3>1 DEF IsChain
  <2>2. CASE s # << >>
    <3>1. Len(s) \in 1..Len(s) /\ t[Len(t)] = s[Len(s)]
      BY <1>1, <1>2, <2>2
    <3> QED
      BY <2>2, <3>1 DEF IsChain
  <2> QED
    BY <2>1, <2>2
<1>5. t # << >>
  BY <1>1, <1>2
<1> HIDE DEF t
<1>6. IsChain(nxt, N, n, t)
  BY <1>2, <1>3, <1>4, <1>5 DEF IsChain
<1> QED
  BY <1>6 DEF t

\* Without its first node a chain is that from the successor on.
LEMMA ChainWithoutFirst ==
  ASSUME NEW nxt, NEW N, NEW n \in N, NEW s, IsChain(nxt, N, n, s)
  PROVE  /\ s # << >> /\ s = <<n>> \o Tail(s)
         /\ IsChain(nxt, N, nxt[n], Tail(s))
<1> DEFINE t == Tail(s)
<1>1. s \in Seq(N) /\ s # << >> /\ s[1] = n /\ Len(s) \in Nat \ {0}
  BY DEF IsChain
<1>2. /\ t \in Seq(N) /\ Len(t) = Len(s) - 1
      /\ \A i \in 1..Len(t) : t[i] = s[i + 1]
  BY <1>1
<1>3. s = <<n>> \o t
  BY <1>1
<1>4. \A i \in 1..(Len(s) - 1) : nxt[s[i]] = s[i + 1]
  BY DEF IsChain
<1>5. ASSUME NEW i \in 1..(Len(t) - 1) PROVE nxt[t[i]] = t[i + 1]
  <2>1. i + 1 \in 1..(Len(s) - 1) /\ i \in 1..Len(t) /\ i + 1 \in 1..Len(t)
    BY <1>1, <1>2
  <2> HIDE DEF t
  <2> QED
    BY <2>1, <1>2, <1>4
<1>6. CASE t = << >>
  <2>1. Len(s) = 1
    <3> HIDE DEF t
    <3> QED
      BY <1>1, <1>2, <1>6
  <2>2. nxt[n] \notin N
    BY <1>1, <2>1 DEF IsChain
  <2> QED
    BY <1>1, <1>2, <1>3, <1>5, <1>6, <2>2 DEF IsChain
<1>7. CASE t # << >>
  <2>1. Len(t) \in 1..Len(t) /\ 1 \in 1..Len(t) /\ 1 \in 1..(Len(s) - 1)
    BY <1>1, <1>2, <1>7
  <2>2. t[Len(t)] = s[Len(s)] /\ t[1] = nxt[n]
    <3> HIDE DEF t
    <3> QED
      BY <1>1, <1>2, <1>4, <2>1
  <2>3. nxt[s[Len(s)]] \notin N
    BY <1>1 DEF IsChain
  <2> HIDE DEF t
  <2>4. IsChain(nxt, N, nxt[n], t)
    BY <1>2, <1>5, <1>7, <2>2, <2>3 DEF IsChain
  <2> QED
    BY <1>1, <1>3, <2>4 DEF t
<1> QED
  BY <1>6, <1>7

\* Links without a loop lead from everywhere to an end.
LEMMA ChainExists ==
  ASSUME NEW nxt, NEW N, Loopless(nxt, N), NEW p
  PROVE  \E s : IsChain(nxt, N, p, s)
<1> DEFINE S == {n \in N : ~ \E s : IsChain(nxt, N, n, s)}
<1>1. ASSUME NEW q, q \notin N PROVE IsChain(nxt, N, q, << >>)
  BY <1>1 DEF IsChain
<1>2. ASSUME S # {} PROVE FALSE
  <2>1. PICK n \in S : nxt[n] \notin S
    BY <1>2 DEF Loopless
  <2>2. PICK s : IsChain(nxt, N, nxt[n], s)
    BY <2>1, <1>1
  <2>3. IsChain(nxt, N, n, <<n>> \o s)
    BY <2>1, <2>2, ChainGrowsInFront
  <2> QED
    BY <2>1, <2>3
<1> QED
  BY <1>1, <1>2

\* And on one way only.
LEMMA ChainUnique ==
  ASSUME NEW nxt, NEW N, Loopless(nxt, N), NEW p, NEW s, NEW t,
         IsChain(nxt, N, p, s), IsChain(nxt, N, p, t)
  PROVE  s = t
<1> DEFINE S == {n \in N : \E u, v : /\ IsChain(nxt, N, n, u)
                                   /\ IsChain(nxt, N, n, v) /\ u # v}
<1>1. ASSUME NEW q, q \notin N, NEW u, IsChain(nxt, N, q, u) PROVE u = << >>
  <2>1. u # << >> => u[1] \in N
    BY <1>1 DEF IsChain
  <2> QED
    BY <1>1, <2>1 DEF IsChain
<1>2. ASSUME S # {} PROVE FALSE
  <2>1. PICK n \in S : nxt[n] \notin S
    BY <1>2 DEF Loopless
  <2>2. PICK u, v : IsChain(nxt, N, n, u) /\ IsChain(nxt, N, n, v) /\ u # v
    BY <2>1
  <2>3. /\ u = <<n>> \o Tail(u) /\ IsChain(nxt, N, nxt[n], Tail(u))
        /\ v = <<n>> \o Tail(v) /\ IsChain(nxt, N, nxt[n], Tail(v))
    BY <2>1, <2>2, ChainWithoutFirst
  <2>4. Tail(u) # Tail(v)
    BY <2>2, <2>3
  <2>5. nxt[n] \notin N
    BY <2>1, <2>3, <2>4
  <2> QED
    BY <1>1, <2>3, <2>4, <2>5
<1>3. p \notin N => s = << >> /\ t = << >>
  BY <1>1
<1> QED
  BY <1>2, <1>3

\* A write to the links of other nodes does not change a chain.
LEMMA ChainKept ==
  ASSUME NEW nxt, NEW new, NEW N, NEW p, NEW s, IsChain(nxt, N, p, s),
         \A i \in 1..Len(s) : new[s[i]] = nxt[s[i]]
  PROVE  IsChain(new, N, p, s)
<1>1. s \in Seq(N) /\ Len(s) \in Nat
  BY DEF IsChain
<1>2. s # << >> => Len(s) \in 1..Len(s)
  BY <1>1
<1>3. \A i \in 1..(Len(s) - 1) : i \in 1..Len(s)
  BY <1>1
<1> QED
  BY <1>2, <1>3 DEF IsChain

\* No node is twice in a chain.
LEMMA ChainHasNoRepeats ==
  ASSUME NEW nxt, NEW N, Loopless(nxt, N), NEW p, NEW s, IsChain(nxt, N, p, s)
  PROVE  \A i, j \in 1..Len(s) : s[i] = s[j] => i = j
<1>1. s \in Seq(N) /\ Len(s) \in Nat
  BY DEF IsChain
<1>2. ASSUME NEW i \in 1..Len(s), NEW j \in 1..Len(s), s[i] = s[j], i < j PROVE FALSE
  <2> DEFINE S == {s[k] : k \in i..j}
  <2>1. i..j \subseteq 1..Len(s) /\ i \in i..j /\ j \in i..j
    BY <1>1, <1>2
  <2>2. S \in SUBSET N /\ S # {}
    BY <1>1, <2>1
  <2>3. ASSUME NEW k \in i..j PROVE nxt[s[k]] \in S
    <3>1. PICK m \in i..(j - 1) : s[m] = s[k]
      <4>1. CASE k = j
        BY <1>1, <1>2, <4>1
      <4>2. CASE k # j
        <5>1. k \in i..(j - 1)
          BY <1>1, <4>2
        <5> QED
          BY <5>1
      <4> QED
        BY <4>1, <4>2
    <3>2. m \in 1..(Len(s) - 1) /\ m + 1 \in i..j
      BY <1>1
    <3>3. nxt[s[m]] = s[m + 1]
      BY <3>2 DEF IsChain
    <3> QED
      BY <3>1, <3>2, <3>3
  <2> HIDE DEF S
  <2>4. PICK n \in S : nxt[n] \notin S
    BY <2>2 DEF Loopless
  <2>5. PICK k \in i..j : n = s[k]
    BY DEF S
  <2> QED
    BY <2>3, <2>4, <2>5
<1> QED
  BY <1>1, <1>2

\* A node that is linked behind the last one becomes the last one of the chain.
LEMMA ChainExtended ==
  ASSUME NEW nxt, NEW new, NEW N, Loopless(nxt, N), NEW p, NEW s,
         IsChain(nxt, N, p, s), s # << >>, NEW n \in N,
         \A i \in 1..Len(s) : s[i] # s[Len(s)] => new[s[i]] = nxt[s[i]],
         new[s[Len(s)]] = n, new[n] \notin N
  PROVE  IsChain(new, N, p, Append(s, n))
<1> DEFINE t == Append(s, n)
<1>1. s \in Seq(N) /\ Len(s) \in Nat \ {0} /\ s[1] = p
  BY DEF IsChain
<1>2. /\ t \in Seq(N) /\ Len(t) = Len(s) + 1 /\ t[Len(s) + 1] = n
      /\ \A i \in 1..Len(s) : t[i] = s[i]
  BY <1>1
<1> HIDE DEF t
<1>3. ASSUME NEW i \in 1..(Len(t) - 1) PROVE new[t[i]] = t[i + 1]
  <2>1. i \in 1..Len(s) /\ t[i] = s[i] /\ Len(s) \in 1..Len(s)
    BY <1>1, <1>2
  <2>2. CASE i = Len(s)
    BY <1>2, <2>1, <2>2
  <2>3. CASE i # Len(s)
    <3>1. i \in 1..(Len(s) - 1) /\ i + 1 \in 1..Len(s)
      BY <1>1, <2>1, <2>3
    <3>2. s[i] # s[Len(s)]
      BY <2>1, <2>3, ChainHasNoRepeats
    <3>3. new[s[i]] = nxt[s[i]] /\ t[i + 1] = s[i + 1]
      BY <1>2, <2>1, <3>1, <3>2
    <3> QED
      BY <2>1, <3>1, <3>3 DEF IsChain
  <2> QED
    BY <2>2, <2>3
<1>4. t[1] = p /\ t # << >> /\ new[t[Len(t)]] \notin N
  <2>1. 1 \in 1..Len(s)
    BY <1>1
  <2>2. Len(t) # 0
    BY <1>1, <1>2
  <2> QED
    BY <1>1, <1>2, <2>1, <2>2
<1>5. IsChain(new, N, p, t)
  BY <1>2, <1>3, <1>4 DEF IsChain
<1> QED
  BY <1>5 DEF t

\* A recursive function that follows the links.
IsWalk(f, nxt, N, D) ==
  f = [q \in D |-> IF q \notin N THEN << >> ELSE <<q>> \o f[nxt[q]]]

\* There is one.
LEMMA WalkExists ==
  ASSUME NEW nxt, NEW N, NEW D, N \subseteq D, Loopless(nxt, N),
         \A n \in N : nxt[n] \in D
  PROVE  \E f : IsWalk(f, nxt, N, D)
<1> DEFINE g == [q \in D |-> CHOOSE t : IsChain(nxt, N, q, t)]
           Step(f) == [q \in D |-> IF q \notin N THEN << >> ELSE <<q>> \o f[nxt[q]]]
<1>1. \A q \in D : IsChain(nxt, N, q, g[q])
  BY ChainExists
<1>2. ASSUME NEW q, q \notin N PROVE IsChain(nxt, N, q, << >>)
  BY <1>2 DEF IsChain
<1> HIDE DEF g
<1>3. \A q \in D : g[q] = IF q \notin N THEN << >> ELSE <<q>> \o g[nxt[q]]
  <2>1. ASSUME NEW q \in D, q \notin N PROVE g[q] = << >>
    BY <1>1, <1>2, <2>1, ChainUnique
  <2>2. ASSUME NEW q \in N PROVE g[q] = <<q>> \o g[nxt[q]]
    <3>1. IsChain(nxt, N, nxt[q], g[nxt[q]]) /\ IsChain(nxt, N, q, g[q])
      BY <1>1
    <3>2. IsChain(nxt, N, q, <<q>> \o g[nxt[q]])
      BY <3>1, ChainGrowsInFront
    <3> QED
      BY <3>1, <3>2, ChainUnique
  <2> QED
    BY <2>1, <2>2
<1>4. g = Step(g)
  <2>1. g = [q \in D |-> g[q]]
    BY DEF g
  <2> QED
    BY <1>3, <2>1
<1> QED
  BY <1>4 DEF IsWalk

\* What it computes.
LEMMA WalkIsChain ==
  ASSUME NEW nxt, NEW N, NEW D, N \subseteq D, Loopless(nxt, N),
         \A n \in N : nxt[n] \in D,
         NEW f, IsWalk(f, nxt, N, D), NEW p \in D
  PROVE  IsChain(nxt, N, p, f[p])
<1> DEFINE S == {n \in N : ~IsChain(nxt, N, n, f[n])}
<1>1. \A q \in D : f[q] = IF q \notin N THEN << >> ELSE <<q>> \o f[nxt[q]]
  <2> DEFINE Step(g) == [q \in D |-> IF q \notin N THEN << >> ELSE <<q>> \o g[nxt[q]]]
  <2>1. \A q \in D : Step(f)[q] = IF q \notin N THEN << >> ELSE <<q>> \o f[nxt[q]]
    OBVIOUS
  <2>2. f = Step(f)
    BY DEF IsWalk
  <2> HIDE DEF Step
  <2> QED
    BY <2>1, <2>2, Zenon
<1>2. ASSUME NEW q \in D, q \notin N PROVE IsChain(nxt, N, q, f[q])
  <2>1. f[q] = << >>
    BY <1>1, <1>2, Zenon
  <2> QED
    BY <1>2, <2>1 DEF IsChain
<1>3. ASSUME S # {} PROVE FALSE
  <2>1. PICK n \in S : nxt[n] \notin S
    BY <1>3 DEF Loopless
  <2>2. IsChain(nxt, N, nxt[n], f[nxt[n]])
    BY <1>2, <2>1
  <2>3. n \in D /\ n \in N
    OBVIOUS
  <2>4. f[n] = <<n>> \o f[nxt[n]]
    BY <1>1, <2>3, Zenon
  <2> QED
    BY <2>2, <2>3, <2>4, ChainGrowsInFront
<1> QED
  BY <1>2, <1>3
=============================================================================
