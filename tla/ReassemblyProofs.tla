---------------------------- MODULE ReassemblyProofs ----------------------------
(***************************************************************************)
(* Proofs of the safety of Reassembly for any segments, any timeout and any *)
(* maxima.  What ExpiringGroups promises comes first, of a store alone.    *)
(* The invariant then relates the store to the history of its groups: an   *)
(* entry holds what its account was answered for and lacks a part (Kept),  *)
(* an account without one is settled (Settled), and the store's total is   *)
(* what its entries weigh.                                                 *)
(***************************************************************************)
EXTENDS Reassembly, SequenceTheorems, FiniteSetTheorems, WellFoundedInduction, TLAPS

-----------------------------------------------------------------------------
(* Recursion and induction on the naturals.                                *)

\* Some natural numbers have a least one.
LEMMA Least ==
    ASSUME NEW T, T \subseteq Nat, T # {}
    PROVE  \E n \in T : \A m \in T : n <= m
<1>1. PICK n \in T : \A m \in T : ~(<<m, n>> \in OpToRel(<, Nat))
  BY NatLessThanWellFounded, WFMin
<1>2. \A m \in T : ~(m < n)
  BY <1>1 DEF OpToRel
<1>3. QED
  BY <1>2

\* Induction over the naturals, of a set of them.
LEMMA Inducts ==
    ASSUME NEW Good, 0 \in Good, \A n \in Nat : n \in Good => n + 1 \in Good
    PROVE  Nat \subseteq Good
<1>. SUFFICES ASSUME NEW k \in Nat, k \notin Good PROVE FALSE
  OBVIOUS
<1>. DEFINE Bad == {n \in Nat : n \notin Good}
<1>1. Bad \subseteq Nat /\ Bad # {}
  OBVIOUS
<1>2. PICK x \in Bad : \A y \in Bad : x <= y
  <2>. HIDE DEF Bad
  <2>1. QED
    BY <1>1, Least
<1>3. x # 0 /\ x \in Nat /\ x - 1 \in Nat
  OBVIOUS
<1>4. x - 1 \notin Bad
  BY <1>2, <1>3
<1>5. QED
  BY <1>3, <1>4

\* A function on the naturals up to N that starts at base and goes on by step.
Steps(f, N, V, base, step) ==
    f \in [0 .. N -> V] /\ f[0] = base /\ \A n \in 1 .. N : f[n] = step[<<n, f[n - 1]>>]

\* There is one.
LEMMA Recurs ==
    ASSUME NEW N \in Nat, NEW V, NEW base \in V, NEW step \in [(1 .. N) \X V -> V]
    PROVE  \E f : Steps(f, N, V, base, step)
<1>. DEFINE Is(f, n) == f[0] = base /\ \A m \in 1 .. n : f[m] = step[<<m, f[m - 1]>>]
            Good == {n \in Nat : n <= N => \E f \in [0 .. n -> V] : Is(f, n)}
<1>. \A n \in 1 .. N, v \in V : step[<<n, v>>] \in V
  OBVIOUS
<1>1. 0 \in Good
  <2>. DEFINE f == [m \in 0 .. 0 |-> base]
  <2>1. f \in [0 .. 0 -> V] /\ Is(f, 0)
    OBVIOUS
  <2>2. QED
    BY <2>1
<1>2. ASSUME NEW n \in Nat, n \in Good PROVE n + 1 \in Good
  <2>. SUFFICES ASSUME n + 1 <= N PROVE \E f \in [0 .. n + 1 -> V] : Is(f, n + 1)
    OBVIOUS
  <2>1. PICK g \in [0 .. n -> V] : Is(g, n)
    BY <1>2
  <2>. DEFINE f == [m \in 0 .. n + 1 |-> IF m = n + 1 THEN step[<<m, g[n]>>] ELSE g[m]]
  <2>2. f \in [0 .. n + 1 -> V]
    BY <2>1
  <2>3. ASSUME NEW m \in 1 .. n + 1 PROVE f[m] = step[<<m, f[m - 1]>>]
    <3>1. CASE m = n + 1
      <4>1. f[m] = step[<<m, g[n]>>] /\ f[n] = g[n] /\ m - 1 = n
        BY <3>1
      <4>2. QED
        BY <4>1
    <3>2. CASE m # n + 1
      <4>1. f[m] = g[m] /\ m \in 1 .. n
        BY <3>2
      <4>2. g[m] = step[<<m, g[m - 1]>>]
        BY <2>1, <4>1
      <4>3. f[m - 1] = g[m - 1]
        BY <4>1
      <4>4. QED
        BY <4>1, <4>2, <4>3
    <3>3. QED
      BY <3>1, <3>2
  <2>4. f[0] = base
    BY <2>1
  <2>5. QED
    BY <2>2, <2>3, <2>4
<1>3. N \in Good
  <2>. HIDE DEF Good
  <2>. QED
    BY <1>1, <1>2, Inducts
<1>4. QED
  BY <1>3 DEF Steps

-----------------------------------------------------------------------------
(* Some of the entries, and what entries weigh.                            *)

\* What only() takes of the first n entries.
Some(es, kept, f) ==
    /\ f[0] = <<>>
    /\ \A n \in 1 .. Len(es) : f[n] = IF es[n] \in kept THEN Append(f[n - 1], es[n]) ELSE f[n - 1]
    /\ only(es, kept) = f[Len(es)]

\* only() takes the entries one by one.
LEMMA OnlyRecurs ==
    ASSUME NEW E, NEW es \in Seq(E), NEW kept
    PROVE  \E f \in [0 .. Len(es) -> Seq(E)] : Some(es, kept, f)
<1>. DEFINE N == Len(es)
            Is(f) == f = [n \in 0 .. N |->
                            IF n = 0 THEN <<>>
                            ELSE IF es[n] \in kept THEN Append(f[n - 1], es[n]) ELSE f[n - 1]]
            step == [p \in (1 .. N) \X Seq(E) |->
                        IF es[p[1]] \in kept THEN Append(p[2], es[p[1]]) ELSE p[2]]
<1>1. N \in Nat /\ \A n \in 1 .. N : es[n] \in E
  OBVIOUS
<1>2. <<>> \in Seq(E)
  OBVIOUS
<1>3. \A n \in 1 .. N, v \in Seq(E) :
        step[<<n, v>>] = IF es[n] \in kept THEN Append(v, es[n]) ELSE v
  OBVIOUS
<1>. HIDE DEF step
<1>4. step \in [(1 .. N) \X Seq(E) -> Seq(E)]
  BY <1>1 DEF step
<1>5. PICK g \in [0 .. N -> Seq(E)] :
        g[0] = <<>> /\ \A n \in 1 .. N : g[n] = step[<<n, g[n - 1]>>]
  <2>. DEFINE V == Seq(E)
              base == <<>>
  <2>. HIDE DEF N
  <2>1. N \in Nat /\ base \in V /\ step \in [(1 .. N) \X V -> V]
    BY <1>1, <1>2, <1>4
  <2>. HIDE DEF V, base
  <2>2. \E g : Steps(g, N, V, base, step)
    BY <2>1, Recurs
  <2>3. QED
    BY <2>2 DEF V, base, Steps
<1>6. Is(g)
  <2>1. ASSUME NEW n \in 1 .. N
        PROVE  step[<<n, g[n - 1]>>] = IF es[n] \in kept THEN Append(g[n - 1], es[n]) ELSE g[n - 1]
    <3>1. g[n - 1] \in Seq(E)
      BY <1>1, g \in [0 .. N -> Seq(E)]
    <3>2. QED
      BY <1>3, <3>1
  <2>2. \A n \in 0 .. N : n # 0 => n \in 1 .. N
    BY <1>1
  <2>3. QED
    BY <1>5, <2>1, <2>2
<1>. DEFINE f == CHOOSE f : Is(f)
<1>7. Is(f)
  BY <1>6
<1>8. only(es, kept) = f[N]
  BY DEF only
<1>. HIDE DEF f
<1>9. f[0] = <<>>
  BY <1>1, <1>7
<1>10. ASSUME NEW n \in 1 .. N
       PROVE  f[n] = IF es[n] \in kept THEN Append(f[n - 1], es[n]) ELSE f[n - 1]
  <2>1. n \in 0 .. N /\ n # 0
    BY <1>1
  <2>2. QED
    BY <1>7, <2>1
<1>11. \A n \in 0 .. N : f[n] \in Seq(E)
  <2>. DEFINE Good == {n \in Nat : n <= N => f[n] \in Seq(E)}
  <2>. HIDE DEF N
  <2>1. 0 \in Good
    BY <1>2, <1>9
  <2>2. ASSUME NEW n \in Nat, n \in Good PROVE n + 1 \in Good
    <3>. SUFFICES ASSUME n + 1 <= N PROVE f[n + 1] \in Seq(E)
      OBVIOUS
    <3>1. f[n] \in Seq(E) /\ n + 1 \in 1 .. N /\ (n + 1) - 1 = n
      BY <1>1, <2>2
    <3>2. f[n + 1] = IF es[n + 1] \in kept THEN Append(f[n], es[n + 1]) ELSE f[n]
      BY <1>10, <3>1
    <3>3. es[n + 1] \in E
      BY <1>1, <3>1
    <3>4. QED
      BY <3>1, <3>2, <3>3
  <2>3. Nat \subseteq Good
    <3>. HIDE DEF Good
    <3>. QED
      BY <2>1, <2>2, Inducts
  <2>4. QED
    BY <1>1, <2>3
<1>12. f \in [0 .. N -> Seq(E)]
  BY <1>7, <1>11
<1>13. QED
  BY <1>8, <1>9, <1>10, <1>12 DEF Some

\* What the first n entries weigh.
Weighed(es, u) ==
    /\ u[0] = 0
    /\ \A n \in 1 .. Len(es) : u[n] = u[n - 1] + es[n].weight
    /\ weightOf(es) = u[Len(es)]

\* weightOf() adds the weights up one by one.
LEMMA WeightRecurs ==
    ASSUME NEW E, NEW es \in Seq(E), \A e \in E : e.weight \in Nat
    PROVE  \E u \in [0 .. Len(es) -> Nat] : Weighed(es, u)
<1>. DEFINE N == Len(es)
            Is(u) == u = [n \in 0 .. N |-> IF n = 0 THEN 0 ELSE u[n - 1] + es[n].weight]
            step == [p \in (1 .. N) \X Nat |-> p[2] + es[p[1]].weight]
<1>1. N \in Nat /\ \A n \in 1 .. N : es[n].weight \in Nat
  OBVIOUS
<1>2. \A n \in 1 .. N, v \in Nat : step[<<n, v>>] = v + es[n].weight
  OBVIOUS
<1>3. step \in [(1 .. N) \X Nat -> Nat]
  <2>. HIDE DEF N
  <2>. QED
    BY <1>1
<1>. HIDE DEF step
<1>4. PICK g : Steps(g, N, Nat, 0, step)
  <2>1. 0 \in Nat
    OBVIOUS
  <2>. HIDE DEF N
  <2>2. QED
    BY <1>1, <1>3, <2>1, Recurs
<1>5. Is(g)
  <2>1. ASSUME NEW n \in 1 .. N PROVE step[<<n, g[n - 1]>>] = g[n - 1] + es[n].weight
    <3>1. n - 1 \in 0 .. N /\ g \in [0 .. N -> Nat]
      BY <1>1, <1>4 DEF Steps
    <3>2. QED
      BY <1>2, <3>1
  <2>2. \A n \in 0 .. N : n # 0 => n \in 1 .. N
    BY <1>1
  <2>3. QED
    BY <1>4, <2>1, <2>2 DEF Steps
<1>. DEFINE u == CHOOSE u : Is(u)
<1>6. Is(u)
  BY <1>5
<1>7. weightOf(es) = u[N]
  BY DEF weightOf
<1>. HIDE DEF u
<1>8. u[0] = 0
  BY <1>1, <1>6
<1>9. ASSUME NEW n \in 1 .. N PROVE u[n] = u[n - 1] + es[n].weight
  <2>1. n \in 0 .. N /\ n # 0
    BY <1>1
  <2>2. QED
    BY <1>6, <2>1
<1>10. \A n \in 0 .. N : u[n] \in Nat
  <2>. DEFINE Good == {n \in Nat : n <= N => u[n] \in Nat}
  <2>. HIDE DEF N
  <2>1. 0 \in Good
    BY <1>8
  <2>2. ASSUME NEW n \in Nat, n \in Good PROVE n + 1 \in Good
    <3>. SUFFICES ASSUME n + 1 <= N PROVE u[n + 1] \in Nat
      OBVIOUS
    <3>1. u[n] \in Nat /\ n + 1 \in 1 .. N /\ (n + 1) - 1 = n
      BY <1>1, <2>2
    <3>2. u[n + 1] = u[n] + es[n + 1].weight /\ es[n + 1].weight \in Nat
      BY <1>1, <1>9, <3>1
    <3>3. QED
      BY <3>1, <3>2
  <2>3. Nat \subseteq Good
    <3>. HIDE DEF Good
    <3>. QED
      BY <2>1, <2>2, Inducts
  <2>4. QED
    BY <1>1, <2>3
<1>11. u \in [0 .. N -> Nat]
  BY <1>6, <1>10
<1>12. QED
  BY <1>7, <1>8, <1>9, <1>11 DEF Weighed

\* One entry more weighs its weight more.
LEMMA WeightAppend ==
    ASSUME NEW E, NEW es \in Seq(E), NEW e \in E, \A x \in E : x.weight \in Nat
    PROVE  weightOf(Append(es, e)) = weightOf(es) + e.weight /\ weightOf(es) \in Nat
<1>. DEFINE more == Append(es, e)
<1>1. /\ more \in Seq(E) /\ Len(more) = Len(es) + 1 /\ Len(es) \in Nat
      /\ more[Len(es) + 1] = e /\ \A n \in 1 .. Len(es) : more[n] = es[n]
  OBVIOUS
<1>2. PICK u \in [0 .. Len(es) -> Nat] : Weighed(es, u)
  BY WeightRecurs
<1>. HIDE DEF more
<1>3. PICK v \in [0 .. Len(more) -> Nat] : Weighed(more, v)
  BY <1>1, WeightRecurs
<1>. DEFINE Good == {n \in Nat : n <= Len(es) => v[n] = u[n]}
<1>4. 0 \in Good
  BY <1>2, <1>3 DEF Weighed
<1>5. ASSUME NEW n \in Nat, n \in Good PROVE n + 1 \in Good
  <2>. SUFFICES ASSUME n + 1 <= Len(es) PROVE v[n + 1] = u[n + 1]
    OBVIOUS
  <2>1. /\ v[n] = u[n] /\ (n + 1) - 1 = n
        /\ n + 1 \in 1 .. Len(es) /\ n + 1 \in 1 .. Len(more)
    BY <1>1, <1>5
  <2>2. v[n + 1] = v[n] + more[n + 1].weight /\ u[n + 1] = u[n] + es[n + 1].weight
    BY <1>2, <1>3, <2>1 DEF Weighed
  <2>3. QED
    BY <1>1, <2>1, <2>2
<1>6. v[Len(es)] = u[Len(es)]
  <2>. HIDE DEF Good
  <2>1. Nat \subseteq Good
    BY <1>4, <1>5, Inducts
  <2>2. QED
    BY <1>1, <2>1 DEF Good
<1>7. v[Len(es) + 1] = v[Len(es)] + e.weight
  <2>1. Len(es) + 1 \in 1 .. Len(more) /\ (Len(es) + 1) - 1 = Len(es)
    BY <1>1
  <2>2. QED
    BY <1>1, <1>3, <2>1 DEF Weighed
<1>8. weightOf(es) = u[Len(es)] /\ weightOf(more) = v[Len(es) + 1] /\ u[Len(es)] \in Nat
  <2>1. weightOf(es) = u[Len(es)] /\ weightOf(more) = v[Len(more)]
    BY <1>2, <1>3 DEF Weighed
  <2>2. Len(es) \in 0 .. Len(es)
    BY <1>1
  <2>3. QED
    BY <1>1, <1>2, <2>1, <2>2
<1>9. QED
  BY <1>6, <1>7, <1>8 DEF more

\* No entries weigh nothing.
LEMMA WeightEmpty == weightOf(<<>>) = 0
<1>. DEFINE E == [weight : Nat]
<1>1. <<>> \in Seq(E) /\ Len(<<>>) = 0 /\ \A e \in E : e.weight \in Nat
  OBVIOUS
<1>. HIDE DEF E
<1>2. PICK u \in [0 .. Len(<<>>) -> Nat] : Weighed(<<>>, u)
  BY <1>1, WeightRecurs
<1>3. QED
  BY <1>1, <1>2 DEF Weighed

\* What only() takes are the entries of es that are in kept, in their order.
LEMMA OnlyTakes ==
    ASSUME NEW E, NEW es \in Seq(E), NEW kept
    PROVE  /\ only(es, kept) \in Seq(E)
           /\ ToSet(only(es, kept)) = ToSet(es) \cap kept
           /\ \A i, j \in 1 .. Len(only(es, kept)) : i < j =>
                \E k, l \in 1 .. Len(es) :
                    k < l /\ only(es, kept)[i] = es[k] /\ only(es, kept)[j] = es[l]
<1>1. PICK f \in [0 .. Len(es) -> Seq(E)] : Some(es, kept, f)
  BY OnlyRecurs
<1>. DEFINE Taken(n) ==
                /\ {f[n][i] : i \in 1 .. Len(f[n])} = {es[k] : k \in 1 .. n} \cap kept
                /\ \A i, j \in 1 .. Len(f[n]) : i < j =>
                    \E k, l \in 1 .. n : k < l /\ f[n][i] = es[k] /\ f[n][j] = es[l]
            Good == {n \in Nat : n <= Len(es) => Taken(n)}
<1>2. 0 \in Good
  BY <1>1 DEF Some
<1>. HIDE DEF Taken
<1>3. ASSUME NEW n \in Nat, n \in Good PROVE n + 1 \in Good
  <2>. SUFFICES ASSUME n + 1 <= Len(es) PROVE Taken(n + 1)
    OBVIOUS
  <2>. DEFINE s == f[n]
              e == es[n + 1]
              t == f[n + 1]
  <2>1. /\ Taken(n) /\ (n + 1) - 1 = n /\ n + 1 \in 1 .. Len(es)
        /\ s \in Seq(E) /\ e \in E
    BY <1>3
  <2>. USE DEF Taken
  <2>2. t = IF e \in kept THEN Append(s, e) ELSE s
    BY <1>1, <2>1 DEF Some
  <2>3. {es[k] : k \in 1 .. n + 1} = {es[k] : k \in 1 .. n} \cup {e}
    <3>1. 1 .. n + 1 = (1 .. n) \cup {n + 1}
      OBVIOUS
    <3>2. QED
      BY <3>1
  <2>4. CASE e \notin kept
    <3>1. t = s
      BY <2>2, <2>4
    <3>2. 1 .. n \subseteq 1 .. n + 1
      OBVIOUS
    <3>. HIDE DEF e, t
    <3>3. {t[i] : i \in 1 .. Len(t)} = {es[k] : k \in 1 .. n + 1} \cap kept
      <4>1. {s[i] : i \in 1 .. Len(s)} = {es[k] : k \in 1 .. n} \cap kept
        BY <2>1
      <4>. HIDE DEF s
      <4>2. QED
        BY <2>3, <2>4, <3>1, <4>1
    <3>4. ASSUME NEW i \in 1 .. Len(t), NEW j \in 1 .. Len(t), i < j
          PROVE  \E k, l \in 1 .. n + 1 : k < l /\ t[i] = es[k] /\ t[j] = es[l]
      BY <2>1, <3>1, <3>2, <3>4
    <3>5. QED
      BY <3>3, <3>4 DEF t
  <2>5. CASE e \in kept
    <3>1. t = Append(s, e)
      BY <2>2, <2>5
    <3>. HIDE DEF s, e, t
    <3>2. /\ Len(t) = Len(s) + 1 /\ t[Len(s) + 1] = e /\ Len(s) \in Nat
          /\ \A i \in 1 .. Len(s) : t[i] = s[i]
      BY <2>1, <3>1
    <3>3. {t[i] : i \in 1 .. Len(t)} = {s[i] : i \in 1 .. Len(s)} \cup {e}
      <4>1. 1 .. Len(t) = (1 .. Len(s)) \cup {Len(s) + 1}
        BY <3>2
      <4>2. QED
        BY <3>2, <4>1
    <3>4. {t[i] : i \in 1 .. Len(t)} = {es[k] : k \in 1 .. n + 1} \cap kept
      <4>1. {s[i] : i \in 1 .. Len(s)} = {es[k] : k \in 1 .. n} \cap kept
        BY <2>1 DEF s
      <4>2. QED
        BY <2>3, <2>5, <3>3, <4>1
    <3>5. ASSUME NEW i \in 1 .. Len(t), NEW j \in 1 .. Len(t), i < j
          PROVE  \E k, l \in 1 .. n + 1 : k < l /\ t[i] = es[k] /\ t[j] = es[l]
      <4>1. i \in 1 .. Len(s) /\ t[i] = s[i]
        BY <3>2, <3>5
      <4>2. CASE j \in 1 .. Len(s)
        <5>1. PICK k \in 1 .. n, l \in 1 .. n : k < l /\ s[i] = es[k] /\ s[j] = es[l]
          BY <2>1, <3>5, <4>1, <4>2 DEF s
        <5>2. k \in 1 .. n + 1 /\ l \in 1 .. n + 1 /\ t[j] = s[j]
          BY <3>2, <4>2
        <5>3. QED
          BY <4>1, <5>1, <5>2
      <4>3. CASE j = Len(s) + 1
        <5>1. PICK k \in 1 .. n : s[i] = es[k]
          <6>1. s[i] \in {s[m] : m \in 1 .. Len(s)}
            BY <4>1
          <6>2. {s[m] : m \in 1 .. Len(s)} = {es[m] : m \in 1 .. n} \cap kept
            BY <2>1 DEF s
          <6>3. QED
            BY <6>1, <6>2
        <5>2. k \in 1 .. n + 1 /\ n + 1 \in 1 .. n + 1 /\ k < n + 1 /\ t[j] = es[n + 1]
          BY <3>2, <4>3 DEF e
        <5>3. QED
          BY <4>1, <5>1, <5>2
      <4>4. QED
        BY <3>2, <4>2, <4>3
    <3>6. QED
      BY <3>4, <3>5 DEF t
  <2>6. QED
    BY <2>4, <2>5
<1>4. Taken(Len(es))
  <2>. HIDE DEF Good
  <2>1. Nat \subseteq Good
    BY <1>2, <1>3, Inducts
  <2>2. Len(es) \in Nat /\ Len(es) <= Len(es)
    OBVIOUS
  <2>3. QED
    BY <2>1, <2>2 DEF Good
<1>5. only(es, kept) = f[Len(es)] /\ only(es, kept) \in Seq(E)
  BY <1>1 DEF Some
<1>6. /\ DOMAIN es = 1 .. Len(es)
      /\ DOMAIN only(es, kept) = 1 .. Len(only(es, kept))
  BY <1>5
<1>7. ToSet(es) = {es[k] : k \in 1 .. Len(es)}
  BY <1>6 DEF ToSet
<1>8. ToSet(only(es, kept)) = {only(es, kept)[i] : i \in 1 .. Len(only(es, kept))}
  BY <1>6 DEF ToSet
<1>9. QED
  BY <1>4, <1>5, <1>7, <1>8 DEF Taken

\* What is taken and what is left are all there was, in number and in weight.
LEMMA OnlySplits ==
    ASSUME NEW E, NEW es \in Seq(E), \A e \in E : e.weight \in Nat, NEW kept, NEW gone,
           \A n \in 1 .. Len(es) : es[n] \in kept <=> es[n] \notin gone
    PROVE  /\ Len(only(es, kept)) + Len(only(es, gone)) = Len(es)
           /\ weightOf(only(es, kept)) + weightOf(only(es, gone)) = weightOf(es)
<1>1. PICK f \in [0 .. Len(es) -> Seq(E)] : Some(es, kept, f)
  BY OnlyRecurs
<1>2. PICK g \in [0 .. Len(es) -> Seq(E)] : Some(es, gone, g)
  BY OnlyRecurs
<1>3. PICK u \in [0 .. Len(es) -> Nat] : Weighed(es, u)
  BY WeightRecurs
<1>. DEFINE Split(n) == /\ Len(f[n]) + Len(g[n]) = n
                        /\ weightOf(f[n]) + weightOf(g[n]) = u[n]
            Good == {n \in Nat : n <= Len(es) => Split(n)}
<1>4. 0 \in Good
  <2>1. f[0] = <<>> /\ g[0] = <<>> /\ u[0] = 0
    BY <1>1, <1>2, <1>3 DEF Some, Weighed
  <2>2. QED
    BY <2>1, WeightEmpty
<1>. HIDE DEF Split
<1>5. ASSUME NEW n \in Nat, n \in Good PROVE n + 1 \in Good
  <2>. SUFFICES ASSUME n + 1 <= Len(es) PROVE Split(n + 1)
    OBVIOUS
  <2>. DEFINE s == f[n]
              t == g[n]
              e == es[n + 1]
  <2>10. n \in 0 .. Len(es) /\ (n + 1) - 1 = n /\ n + 1 \in 1 .. Len(es)
    OBVIOUS
  <2>11. Split(n)
    BY <1>5, <2>10
  <2>12. s \in Seq(E) /\ t \in Seq(E) /\ e \in E /\ u[n] \in Nat
    BY <2>10
  <2>1. /\ Split(n) /\ (n + 1) - 1 = n /\ n + 1 \in 1 .. Len(es)
        /\ s \in Seq(E) /\ t \in Seq(E) /\ e \in E /\ u[n] \in Nat
    BY <2>10, <2>11, <2>12
  <2>2. /\ f[n + 1] = IF e \in kept THEN Append(s, e) ELSE s
        /\ g[n + 1] = IF e \in gone THEN Append(t, e) ELSE t
    BY <1>1, <1>2, <2>1 DEF Some
  <2>9. u[n + 1] = u[n] + e.weight /\ e.weight \in Nat
    BY <1>3, <2>1 DEF Weighed
  <2>3. Len(s) + Len(t) = n /\ weightOf(s) + weightOf(t) = u[n]
    BY <2>1 DEF Split
  <2>4. e \in kept <=> e \notin gone
    BY <2>1
  <2>. HIDE DEF s, t, e
  <2>5. /\ weightOf(Append(s, e)) = weightOf(s) + e.weight /\ weightOf(s) \in Nat
        /\ weightOf(Append(t, e)) = weightOf(t) + e.weight /\ weightOf(t) \in Nat
        /\ Len(Append(s, e)) = Len(s) + 1 /\ Len(s) \in Nat
        /\ Len(Append(t, e)) = Len(t) + 1 /\ Len(t) \in Nat
    BY <2>1, WeightAppend
  <2>6. CASE e \in kept
    <3>1. f[n + 1] = Append(s, e) /\ g[n + 1] = t
      BY <2>2, <2>4, <2>6
    <3>2. QED
      BY <2>1, <2>3, <2>5, <2>9, <3>1, SMTT(20) DEF Split
  <2>7. CASE e \notin kept
    <3>1. f[n + 1] = s /\ g[n + 1] = Append(t, e)
      BY <2>2, <2>4, <2>7
    <3>2. QED
      BY <2>1, <2>3, <2>5, <2>9, <3>1, SMTT(20) DEF Split
  <2>8. QED
    BY <2>6, <2>7
<1>6. Split(Len(es))
  <2>. HIDE DEF Good
  <2>1. Nat \subseteq Good
    BY <1>4, <1>5, Inducts
  <2>2. Len(es) \in Nat /\ Len(es) <= Len(es)
    OBVIOUS
  <2>3. QED
    BY <2>1, <2>2 DEF Good
<1>7. QED
  BY <1>1, <1>2, <1>3, <1>6 DEF Some, Weighed, Split

\* The oldest entries are those only() takes when it is asked for them.
LEMMA OnlyOldest ==
    ASSUME NEW E, NEW es \in Seq(E), NEW n \in 0 .. Len(es),
           \A i, j \in 1 .. Len(es) : es[i] = es[j] => i = j
    PROVE  only(es, ToSet(SubSeq(es, 1, n))) = SubSeq(es, 1, n)
<1>. DEFINE kept == ToSet(SubSeq(es, 1, n))
            upTo(k) == SubSeq(es, 1, IF k <= n THEN k ELSE n)
<1>1. \A k \in 1 .. Len(es) : es[k] \in kept <=> k <= n
  <2>. DEFINE s == SubSeq(es, 1, n)
  <2>1. s \in Seq(E) /\ Len(s) = n /\ \A k \in 1 .. n : s[k] = es[k]
    OBVIOUS
  <2>2. kept = ToSet(s)
    OBVIOUS
  <2>. HIDE DEF s
  <2>3. kept = {es[k] : k \in 1 .. n}
    <3>1. DOMAIN s = 1 .. n
      BY <2>1
    <3>2. ToSet(s) = {s[k] : k \in 1 .. n}
      BY <3>1 DEF ToSet
    <3>3. QED
      BY <2>1, <2>2, <3>2
  <2>4. 1 .. n \subseteq 1 .. Len(es)
    OBVIOUS
  <2>. HIDE DEF kept
  <2>5. QED
    BY <2>3, <2>4
<1>. HIDE DEF kept
<1>2. PICK f \in [0 .. Len(es) -> Seq(E)] : Some(es, kept, f)
  BY OnlyRecurs
<1>. DEFINE Good == {k \in Nat : k <= Len(es) => f[k] = upTo(k)}
<1>3. 0 \in Good
  BY <1>2 DEF Some
<1>4. ASSUME NEW k \in Nat, k \in Good PROVE k + 1 \in Good
  <2>. SUFFICES ASSUME k + 1 <= Len(es) PROVE f[k + 1] = upTo(k + 1)
    OBVIOUS
  <2>1. f[k] = upTo(k) /\ (k + 1) - 1 = k /\ k + 1 \in 1 .. Len(es)
    BY <1>4
  <2>2. f[k + 1] = IF k + 1 <= n THEN Append(f[k], es[k + 1]) ELSE f[k]
    BY <1>1, <1>2, <2>1 DEF Some
  <2>3. CASE k + 1 <= n
    <3>1. SubSeq(es, 1, k + 1) = Append(SubSeq(es, 1, k), es[k + 1])
      OBVIOUS
    <3>2. QED
      BY <2>1, <2>2, <2>3, <3>1
  <2>4. CASE ~(k + 1 <= n)
    <3>1. (IF k <= n THEN k ELSE n) = n
      BY <2>4
    <3>2. QED
      BY <2>1, <2>2, <2>4, <3>1
  <2>5. QED
    BY <2>3, <2>4
<1>5. f[Len(es)] = SubSeq(es, 1, n)
  <2>1. Nat \subseteq Good
    <3>. HIDE DEF Good
    <3>. QED
      BY <1>3, <1>4, Inducts
  <2>2. Len(es) \in Nat /\ Len(es) <= Len(es) /\ (IF Len(es) <= n THEN Len(es) ELSE n) = n
    OBVIOUS
  <2>3. QED
    BY <2>1, <2>2
<1>6. QED
  BY <1>2, <1>5 DEF Some, kept

\* Entries that weigh the same, but for one of them.
LEMMA WeightOfOne ==
    ASSUME NEW E, NEW es \in Seq(E), NEW ds \in Seq(E), \A e \in E : e.weight \in Nat,
           Len(ds) = Len(es), NEW k \in 1 .. Len(es),
           \A n \in 1 .. Len(es) : n # k => ds[n].weight = es[n].weight
    PROVE  weightOf(ds) = weightOf(es) + ds[k].weight - es[k].weight
<1>1. PICK u \in [0 .. Len(es) -> Nat] : Weighed(es, u)
  BY WeightRecurs
<1>2. PICK v \in [0 .. Len(ds) -> Nat] : Weighed(ds, v)
  BY WeightRecurs
<1>3. /\ k \in Nat /\ ds[k].weight \in Nat /\ es[k].weight \in Nat
      /\ Len(es) \in Nat /\ k <= Len(es)
  OBVIOUS
<1>. DEFINE Good == {n \in Nat : n <= Len(es) =>
                        v[n] = IF n < k THEN u[n] ELSE u[n] + ds[k].weight - es[k].weight}
<1>4. 0 \in Good
  <2>1. v[0] = 0 /\ u[0] = 0 /\ 0 < k
    BY <1>1, <1>2 DEF Weighed
  <2>2. QED
    BY <2>1
<1>5. ASSUME NEW n \in Nat, n \in Good PROVE n + 1 \in Good
  <2>. SUFFICES ASSUME n + 1 <= Len(es)
                PROVE  v[n + 1] = IF n + 1 < k THEN u[n + 1] ELSE u[n + 1] + ds[k].weight - es[k].weight
    OBVIOUS
  <2>1. /\ n + 1 \in 1 .. Len(es) /\ n \in 0 .. Len(es) /\ (n + 1) - 1 = n
        /\ n + 1 \in 0 .. Len(es)
    OBVIOUS
  <2>2. v[n] = IF n < k THEN u[n] ELSE u[n] + ds[k].weight - es[k].weight
    BY <1>5, <2>1
  <2>3. /\ u[n + 1] = u[n] + es[n + 1].weight /\ v[n + 1] = v[n] + ds[n + 1].weight
        /\ u[n] \in Nat /\ v[n] \in Nat /\ u[n + 1] \in Nat
    BY <1>1, <1>2, <2>1 DEF Weighed
  <2>4. es[n + 1].weight \in Nat /\ ds[n + 1].weight \in Nat
    BY <2>1
  <2>5. CASE n + 1 = k
    <3>1. v[n] = u[n] /\ es[n + 1].weight = es[k].weight /\ ds[n + 1].weight = ds[k].weight
      BY <2>2, <2>5
    <3>2. QED
      BY <1>3, <2>3, <2>4, <2>5, <3>1
  <2>6. CASE n + 1 # k
    <3>1. ds[n + 1].weight = es[n + 1].weight
      BY <2>1, <2>6
    <3>2. CASE n + 1 < k
      BY <1>3, <2>2, <2>3, <2>4, <3>1, <3>2
    <3>3. CASE ~(n + 1 < k)
      <4>1. ~(n < k)
        BY <1>3, <2>6, <3>3
      <4>2. v[n] = u[n] + ds[k].weight - es[k].weight
        BY <2>2, <4>1
      <4>3. QED
        BY <1>3, <2>3, <2>4, <3>1, <3>3, <4>2, SMTT(20)
    <3>4. QED
      BY <3>2, <3>3
  <2>7. QED
    BY <2>5, <2>6
<1>6. v[Len(es)] = u[Len(es)] + ds[k].weight - es[k].weight
  <2>. HIDE DEF Good
  <2>1. Nat \subseteq Good
    BY <1>4, <1>5, Inducts
  <2>2. Len(es) \in Good /\ ~(Len(es) < k) /\ Len(es) <= Len(es)
    BY <1>3, <2>1
  <2>3. QED
    BY <2>2 DEF Good
<1>7. QED
  BY <1>1, <1>2, <1>6 DEF Weighed

\* Entries that weigh the same, each of them.
LEMMA WeightOfSame ==
    ASSUME NEW E, NEW es \in Seq(E), NEW ds \in Seq(E), \A e \in E : e.weight \in Nat,
           Len(ds) = Len(es), \A n \in 1 .. Len(es) : ds[n].weight = es[n].weight
    PROVE  weightOf(ds) = weightOf(es)
<1>1. CASE Len(es) = 0
  BY <1>1
<1>2. CASE Len(es) # 0
  <2>1. 1 \in 1 .. Len(es) /\ \A n \in 1 .. Len(es) : n # 1 => ds[n].weight = es[n].weight
    BY <1>2
  <2>2. weightOf(ds) = weightOf(es) + ds[1].weight - es[1].weight
    BY <2>1, WeightOfOne
  <2>3. ds[1].weight = es[1].weight /\ es[1].weight \in Nat
    BY <2>1
  <2>4. PICK u \in [0 .. Len(es) -> Nat] : Weighed(es, u)
    BY WeightRecurs
  <2>5. weightOf(es) \in Nat
    BY <2>4 DEF Weighed
  <2>6. QED
    BY <2>2, <2>3, <2>5
<1>3. QED
  BY <1>1, <1>2

\* What entries weigh is a number.
LEMMA WeightType ==
    ASSUME NEW E, NEW es \in Seq(E), \A e \in E : e.weight \in Nat
    PROVE  weightOf(es) \in Nat
<1>1. PICK u \in [0 .. Len(es) -> Nat] : Weighed(es, u)
  BY WeightRecurs
<1>2. QED
  BY <1>1 DEF Weighed

-----------------------------------------------------------------------------
(* Stores: one entry to a key, and a total that is what the entries weigh. *)

EntriesOf(K, G) == [key : K, left : 0 .. Timeout, weight : Nat, group : G]

OneToAKey(es) == \A i, j \in 1 .. Len(es) : es[i].key = es[j].key => i = j

IsStore(st, K, G) ==
    /\ st \in [entries : Seq(EntriesOf(K, G)), total : Nat, sweeper : BOOLEAN]
    /\ OneToAKey(st.entries)
    /\ st.total = weightOf(st.entries)

held(st) == ToSet(st.entries)

\* An entry is what its key says it is.
LEMMA HeldOnce ==
    ASSUME NEW K, NEW G, NEW st, IsStore(st, K, G)
    PROVE  /\ held(st) \subseteq EntriesOf(K, G)
           /\ held(st) = {st.entries[i] : i \in 1 .. Len(st.entries)}
           /\ \A d, e \in held(st) : d.key = e.key => d = e
           /\ keysOf(st.entries) = {e.key : e \in held(st)}
           /\ \A key : has(st, key) <=> \E e \in held(st) : e.key = key
<1>. DEFINE es == st.entries
<1>1. es \in Seq(EntriesOf(K, G)) /\ OneToAKey(es)
  BY DEF IsStore
<1>. HIDE DEF es
<1>2. DOMAIN es = 1 .. Len(es) /\ \A i \in 1 .. Len(es) : es[i] \in EntriesOf(K, G)
  BY <1>1
<1>3. ToSet(es) = {es[i] : i \in 1 .. Len(es)} /\ keysOf(es) = {es[i].key : i \in 1 .. Len(es)}
  BY <1>2 DEF ToSet, keysOf
<1>4. ToSet(es) \subseteq EntriesOf(K, G) /\ keysOf(es) = {e.key : e \in ToSet(es)}
  BY <1>2, <1>3
<1>5. \A d, e \in ToSet(es) : d.key = e.key => d = e
  BY <1>1, <1>3 DEF OneToAKey
<1>6. QED
  BY <1>3, <1>4, <1>5 DEF es, held, has

\* The entry under a key is the one that is there.
LEMMA EntryIsHeld ==
    ASSUME NEW K, NEW G, NEW st, IsStore(st, K, G), NEW e \in held(st)
    PROVE  entry(st, e.key) = e /\ under(st, e.key) = {e} /\ has(st, e.key) /\ get(st, e.key) = e.group
<1>1. \A d \in held(st) : d.key = e.key => d = e
  BY HeldOnce
<1>2. entry(st, e.key) = e
  BY <1>1 DEF entry, held
<1>3. QED
  BY <1>1, <1>2, HeldOnce DEF under, get, held

\* What is left of a store and what is taken make up what was there.
AddsUp(st, gone) ==
    /\ Len(take(st, gone).left.entries) + Len(take(st, gone).taken) = Len(st.entries)
    /\ take(st, gone).left.total = st.total - weightOf(take(st, gone).taken)

\* The entries fs are in the order they have among es.
InOrderOf(es, fs) ==
    \A i, j \in 1 .. Len(fs) :
        i < j => \E k, l \in 1 .. Len(es) : k < l /\ fs[i] = es[k] /\ fs[j] = es[l]

\* What is taken from a store is out of it, and what is left is a store.
LEMMA TakeFacts ==
    ASSUME NEW K, NEW G, NEW st, IsStore(st, K, G), NEW gone, gone \subseteq held(st)
    PROVE  /\ IsStore(take(st, gone).left, K, G)
           /\ held(take(st, gone).left) = held(st) \ gone
           /\ take(st, gone).taken \in Seq(EntriesOf(K, G))
           /\ ToSet(take(st, gone).taken) = gone
           /\ AddsUp(st, gone)
           /\ InOrderOf(st.entries, take(st, gone).left.entries)
<1>. DEFINE es == st.entries
            E == EntriesOf(K, G)
            kept == ToSet(es) \ gone
            left == take(st, gone).left
<1>1. es \in Seq(E) /\ OneToAKey(es) /\ \A e \in E : e.weight \in Nat
  BY DEF IsStore, EntriesOf
<1>2. /\ take(st, gone).taken = only(es, gone)
      /\ left.entries = only(es, kept) /\ left.total = st.total - weightOf(only(es, gone))
      /\ left.sweeper = (st.sweeper /\ only(es, kept) # <<>>)
      /\ left = [entries |-> left.entries, total |-> left.total, sweeper |-> left.sweeper]
  BY DEF take, idle, remove, IsStore
<1>. HIDE DEF es, E, left
<1>3. /\ only(es, gone) \in Seq(E) /\ ToSet(only(es, gone)) = ToSet(es) \cap gone
      /\ only(es, kept) \in Seq(E) /\ ToSet(only(es, kept)) = ToSet(es) \cap kept
  BY <1>1, OnlyTakes
<1>4. OneToAKey(only(es, kept))
  <2>. DEFINE some == only(es, kept)
  <2>1. ASSUME NEW i \in 1 .. Len(some), NEW j \in 1 .. Len(some), i < j
        PROVE  some[i].key # some[j].key
    <3>1. PICK k \in 1 .. Len(es), l \in 1 .. Len(es) :
              k < l /\ some[i] = es[k] /\ some[j] = es[l]
      BY <1>1, <2>1, OnlyTakes
    <3>2. QED
      BY <1>1, <3>1 DEF OneToAKey
  <2>. HIDE DEF some
  <2>2. \A i, j \in 1 .. Len(some) : i # j => i < j \/ j < i
    OBVIOUS
  <2>3. OneToAKey(some)
    BY <2>1, <2>2 DEF OneToAKey
  <2>4. QED
    BY <2>3 DEF some
<1>5. /\ Len(only(es, kept)) + Len(only(es, gone)) = Len(es)
      /\ weightOf(only(es, kept)) + weightOf(only(es, gone)) = weightOf(es)
  <2>1. \A n \in 1 .. Len(es) : es[n] \in kept <=> es[n] \notin gone
    BY <1>1 DEF ToSet
  <2>. HIDE DEF kept
  <2>2. QED
    BY <1>1, <2>1, OnlySplits
<1>6. weightOf(only(es, kept)) \in Nat /\ weightOf(only(es, gone)) \in Nat
  BY <1>1, <1>3, WeightType
<1>7. left.total = weightOf(only(es, kept))
  BY <1>2, <1>5, <1>6 DEF IsStore, es
<1>8. left \in [entries : Seq(E), total : Nat, sweeper : BOOLEAN]
  <2>1. left.entries \in Seq(E) /\ left.total \in Nat /\ left.sweeper \in BOOLEAN
    BY <1>2, <1>3, <1>6, <1>7
  <2>2. QED
    BY <1>2, <2>1
<1>9. IsStore(left, K, G)
  BY <1>2, <1>4, <1>7, <1>8 DEF IsStore, E
<1>10. held(left) = held(st) \ gone
  BY <1>2, <1>3 DEF held, es
<1>11. ToSet(only(es, gone)) = gone
  BY <1>3 DEF held, es
<1>12. InOrderOf(es, only(es, kept))
  <2>. DEFINE some == only(es, kept)
  <2>1. ASSUME NEW i \in 1 .. Len(some), NEW j \in 1 .. Len(some), i < j
        PROVE  \E k, l \in 1 .. Len(es) : k < l /\ some[i] = es[k] /\ some[j] = es[l]
    BY <1>1, <2>1, OnlyTakes
  <2>. HIDE DEF some
  <2>2. InOrderOf(es, some)
    BY <2>1 DEF InOrderOf
  <2>3. QED
    BY <2>2 DEF some
<1>13. QED
  BY <1>2, <1>3, <1>5, <1>9, <1>10, <1>11, <1>12 DEF left, es, E, AddsUp

\* A store that has nothing.
LEMMA EmptyIsStore ==
    ASSUME NEW K, NEW G
    PROVE  IsStore(empty, K, G) /\ held(empty) = {} /\ Len(empty.entries) = 0 /\ empty.total = 0
<1>1. empty.entries = <<>> /\ empty.total = 0 /\ empty.sweeper = FALSE
  BY DEF empty
<1>2. empty \in [entries : Seq(EntriesOf(K, G)), total : Nat, sweeper : BOOLEAN]
  BY DEF empty
<1>3. QED
  BY <1>1, <1>2, WeightEmpty DEF IsStore, OneToAKey, held, ToSet

\* A group set under a key that has none is appended to the entries.
LEMMA SetAppends ==
    ASSUME NEW K, NEW G, NEW st, IsStore(st, K, G), NEW key \in K, NEW group \in G, ~has(st, key)
    PROVE  set(st, key, group) =
             [entries |-> Append(st.entries,
                                 [key |-> key, left |-> Timeout, weight |-> 0, group |-> group]),
              total |-> st.total, sweeper |-> TRUE]
<1>. DEFINE es == st.entries
            E == EntriesOf(K, G)
            new == [key |-> key, left |-> Timeout, weight |-> 0, group |-> group]
            after == set(st, key, group)
            total == st.total
            rest == remove(st, {})
<1>1. es \in Seq(E) /\ OneToAKey(es) /\ total \in Nat
  BY DEF IsStore, EntriesOf
<1>2. under(st, key) = {}
  BY HeldOnce DEF under, held
<1>3. only(es, ToSet(es) \ {}) = es /\ weightOf(only(es, {})) = 0
  <2>1. SubSeq(es, 1, Len(es)) = es /\ SubSeq(es, 1, 0) = <<>> /\ ToSet(<<>>) = {}
        /\ Len(es) \in 0 .. Len(es) /\ 0 \in 0 .. Len(es)
    BY <1>1 DEF ToSet
  <2>2. \A i, j \in 1 .. Len(es) : es[i] = es[j] => i = j
    BY <1>1 DEF OneToAKey
  <2>. HIDE DEF es, E
  <2>3. only(es, ToSet(SubSeq(es, 1, Len(es)))) = SubSeq(es, 1, Len(es))
        /\ only(es, ToSet(SubSeq(es, 1, 0))) = SubSeq(es, 1, 0)
    BY <1>1, <2>1, <2>2, OnlyOldest
  <2>4. ToSet(es) \ {} = ToSet(es)
    OBVIOUS
  <2>5. QED
    BY <2>1, <2>3, <2>4, WeightEmpty
<1>4. rest = [st EXCEPT !.entries = es, !.total = total - 0]
  BY <1>3 DEF remove
<1>5. st = [entries |-> es, total |-> total, sweeper |-> st.sweeper]
  BY DEF IsStore
<1>6. after = [rest EXCEPT !.entries = Append(rest.entries, new), !.sweeper = TRUE]
  BY <1>2 DEF set
<1>7. total - 0 = total
  BY <1>1
<1>. HIDE DEF new, rest, after, es, total
<1>8. rest = [entries |-> es, total |-> total, sweeper |-> st.sweeper]
  BY <1>4, <1>5, <1>7
<1>9. after = [entries |-> Append(es, new), total |-> total, sweeper |-> TRUE]
  BY <1>6, <1>8
<1>10. QED
  BY <1>9 DEF after, new, es, total

\* It is one entry more, that weighs nothing yet.
LEMMA SetFacts ==
    ASSUME NEW K, NEW G, NEW st, IsStore(st, K, G), NEW key \in K, NEW group \in G, ~has(st, key)
    PROVE  /\ IsStore(set(st, key, group), K, G)
           /\ held(set(st, key, group)) =
                held(st) \cup {[key |-> key, left |-> Timeout, weight |-> 0, group |-> group]}
           /\ Len(set(st, key, group).entries) = Len(st.entries) + 1
           /\ set(st, key, group).total = st.total
<1>. DEFINE es == st.entries
            E == EntriesOf(K, G)
            new == [key |-> key, left |-> Timeout, weight |-> 0, group |-> group]
            after == set(st, key, group)
<1>1. es \in Seq(E) /\ OneToAKey(es) /\ \A e \in E : e.weight \in Nat
  BY DEF IsStore, EntriesOf
<1>2. new \in E /\ new.weight = 0 /\ new.key = key
  BY StoreAssumption DEF EntriesOf
<1>3. after = [entries |-> Append(es, new), total |-> st.total, sweeper |-> TRUE]
  BY SetAppends
<1>. HIDE DEF after, new, E, es
<1>4. st.total \in Nat /\ after.total = st.total /\ st.total = weightOf(es)
  BY <1>3 DEF IsStore, es
<1>5. /\ Append(es, new) \in Seq(E) /\ Len(Append(es, new)) = Len(es) + 1 /\ Len(es) \in Nat
      /\ Append(es, new)[Len(es) + 1] = new
      /\ \A i \in 1 .. Len(es) : Append(es, new)[i] = es[i]
      /\ weightOf(Append(es, new)) = weightOf(es) + 0
  BY <1>1, <1>2, WeightAppend
<1>6. \A i \in 1 .. Len(es) : es[i].key # key
  BY HeldOnce DEF es
<1>7. OneToAKey(Append(es, new))
  <2>1. ASSUME NEW i \in 1 .. Len(es) + 1, NEW j \in 1 .. Len(es) + 1,
               Append(es, new)[i].key = Append(es, new)[j].key
        PROVE  i = j
    <3>1. \A k \in 1 .. Len(es) + 1 : k \in 1 .. Len(es) \/ k = Len(es) + 1
      BY <1>5
    <3>2. QED
      BY <1>1, <1>2, <1>5, <1>6, <2>1, <3>1 DEF OneToAKey
  <2>2. QED
    BY <1>5, <2>1 DEF OneToAKey
<1>8. ToSet(Append(es, new)) = ToSet(es) \cup {new}
  <2>1. DOMAIN Append(es, new) = (1 .. Len(es)) \cup {Len(es) + 1} /\ DOMAIN es = 1 .. Len(es)
    BY <1>1, <1>5
  <2>2. QED
    BY <1>5, <2>1 DEF ToSet
<1>9. after \in [entries : Seq(E), total : Nat, sweeper : BOOLEAN]
  BY <1>3, <1>4, <1>5
<1>10. IsStore(after, K, G)
  BY <1>3, <1>4, <1>5, <1>7, <1>9 DEF IsStore, E
<1>11. QED
  BY <1>3, <1>4, <1>5, <1>8, <1>10 DEF after, new, es, held

\* Entries of which one is replaced, under its key.
patched(es, key, d) == [i \in DOMAIN es |-> IF es[i].key = key THEN d ELSE es[i]]

\* It is the only one that changes.
LEMMA PatchFacts ==
    ASSUME NEW K, NEW G, NEW st, IsStore(st, K, G), NEW e \in held(st),
           NEW d \in EntriesOf(K, G), d.key = e.key, NEW es, es = st.entries
    PROVE  /\ patched(es, e.key, d) \in Seq(EntriesOf(K, G))
           /\ OneToAKey(patched(es, e.key, d))
           /\ ToSet(patched(es, e.key, d)) = (held(st) \ {e}) \cup {d}
           /\ Len(patched(es, e.key, d)) = Len(es)
           /\ weightOf(patched(es, e.key, d)) = st.total + d.weight - e.weight
<1>. DEFINE E == EntriesOf(K, G)
            ds == patched(es, e.key, d)
<1>1. /\ es \in Seq(E) /\ OneToAKey(es) /\ st.total = weightOf(es)
      /\ \A x \in E : x.weight \in Nat
  BY DEF IsStore, EntriesOf
<1>2. held(st) = {es[i] : i \in 1 .. Len(es)}
  BY HeldOnce
<1>3. PICK k \in 1 .. Len(es) : es[k] = e
  BY <1>2
<1>. HIDE DEF E
<1>4. DOMAIN es = 1 .. Len(es) /\ Len(es) \in Nat /\ \A i \in 1 .. Len(es) : es[i] \in E
  BY <1>1
<1>5. \A i \in 1 .. Len(es) : es[i].key = e.key <=> i = k
  BY <1>1, <1>3 DEF OneToAKey
<1>6. ds = [i \in 1 .. Len(es) |-> IF i = k THEN d ELSE es[i]]
  BY <1>4, <1>5 DEF patched
<1>. HIDE DEF ds
<1>7. d \in E
  BY DEF E
<1>8. ds \in Seq(E) /\ Len(ds) = Len(es) /\ DOMAIN ds = 1 .. Len(es)
  BY <1>4, <1>6, <1>7
<1>9. \A i \in 1 .. Len(es) : ds[i].key = es[i].key
  BY <1>3, <1>6
<1>10. OneToAKey(ds)
  BY <1>1, <1>8, <1>9 DEF OneToAKey
<1>11. \A i \in 1 .. Len(es) : i # k => es[i] # e
  BY <1>5
<1>12. ToSet(ds) = ({es[i] : i \in 1 .. Len(es)} \ {e}) \cup {d}
  <2>1. ToSet(ds) = {ds[i] : i \in 1 .. Len(es)}
    BY <1>8 DEF ToSet
  <2>2. QED
    BY <1>3, <1>6, <1>11, <2>1
<1>13. weightOf(ds) = weightOf(es) + ds[k].weight - es[k].weight
  <2>1. \A n \in 1 .. Len(es) : n # k => ds[n].weight = es[n].weight
    BY <1>6
  <2>2. QED
    BY <1>1, <1>8, <2>1, WeightOfOne
<1>14. ds[k] = d
  BY <1>6
<1>15. QED
  BY <1>1, <1>2, <1>3, <1>8, <1>10, <1>12, <1>13, <1>14 DEF ds, E

\* An amended group stays where its entry is.
LEMMA AmendFacts ==
    ASSUME NEW K, NEW G, NEW st, IsStore(st, K, G), NEW e \in held(st), NEW group \in G
    PROVE  /\ IsStore(amend(st, e.key, group), K, G)
           /\ held(amend(st, e.key, group)) = (held(st) \ {e}) \cup {[e EXCEPT !.group = group]}
           /\ Len(amend(st, e.key, group).entries) = Len(st.entries)
           /\ amend(st, e.key, group).total = st.total
<1>. DEFINE es == st.entries
            d == [e EXCEPT !.group = group]
            after == amend(st, e.key, group)
<1>1. e \in EntriesOf(K, G) /\ st.total \in Nat
  BY HeldOnce DEF IsStore
<1>2. d \in EntriesOf(K, G) /\ d.key = e.key /\ d.weight = e.weight /\ e.weight \in Nat
  BY <1>1 DEF EntriesOf
<1>3. \A i \in 1 .. Len(es) : es[i].key = e.key => es[i] = e
  BY HeldOnce
<1>4. DOMAIN es = 1 .. Len(es)
  BY DEF IsStore
<1>5. patched(es, e.key, d) = [i \in DOMAIN es |->
            IF es[i].key = e.key THEN [es[i] EXCEPT !.group = group] ELSE es[i]]
  <2>. HIDE DEF es
  <2>1. QED
    BY <1>3, <1>4 DEF patched
<1>6. after = [st EXCEPT !.entries = patched(es, e.key, d)]
  BY <1>5 DEF amend
<1>7. st = [entries |-> es, total |-> st.total, sweeper |-> st.sweeper] /\ st.sweeper \in BOOLEAN
  BY DEF IsStore
<1>. HIDE DEF d, after, es
<1>8. /\ patched(es, e.key, d) \in Seq(EntriesOf(K, G)) /\ OneToAKey(patched(es, e.key, d))
      /\ ToSet(patched(es, e.key, d)) = (held(st) \ {e}) \cup {d}
      /\ Len(patched(es, e.key, d)) = Len(es)
      /\ weightOf(patched(es, e.key, d)) = st.total + d.weight - e.weight
  BY <1>2, PatchFacts DEF es
<1>9. after = [entries |-> patched(es, e.key, d), total |-> st.total, sweeper |-> st.sweeper]
  BY <1>6, <1>7
<1>10. st.total + d.weight - e.weight = st.total
  BY <1>1, <1>2
<1>11. QED
  BY <1>1, <1>7, <1>8, <1>9, <1>10, SMTT(20) DEF IsStore, held, d, after, es

\* A weight that is another is told to the total.
LEMMA ReweighFacts ==
    ASSUME NEW K, NEW G, NEW st, IsStore(st, K, G), NEW e \in held(st), NEW w \in Nat
    PROVE  /\ IsStore(reweigh(st, e.key, w), K, G)
           /\ held(reweigh(st, e.key, w)) = (held(st) \ {e}) \cup {[e EXCEPT !.weight = w]}
           /\ Len(reweigh(st, e.key, w).entries) = Len(st.entries)
           /\ reweigh(st, e.key, w).total = st.total + w - e.weight
<1>. DEFINE es == st.entries
            d == [e EXCEPT !.weight = w]
            after == reweigh(st, e.key, w)
            total == st.total + w - e.weight
<1>1. e \in EntriesOf(K, G) /\ st.total \in Nat
  BY HeldOnce DEF IsStore
<1>2. d \in EntriesOf(K, G) /\ d.key = e.key /\ d.weight = w /\ e.weight \in Nat
  BY <1>1 DEF EntriesOf
<1>3. \A i \in 1 .. Len(es) : es[i].key = e.key => es[i] = e
  BY HeldOnce
<1>4. DOMAIN es = 1 .. Len(es)
  BY DEF IsStore
<1>5. patched(es, e.key, d) = [i \in DOMAIN es |->
            IF es[i].key = e.key THEN [es[i] EXCEPT !.weight = w] ELSE es[i]]
  <2>. HIDE DEF es
  <2>1. QED
    BY <1>3, <1>4 DEF patched
<1>6. after = [st EXCEPT !.entries = patched(es, e.key, d), !.total = total]
  <2>1. has(st, e.key) /\ entry(st, e.key) = e
    BY EntryIsHeld
  <2>2. QED
    BY <1>5, <2>1 DEF reweigh
<1>7. st = [entries |-> es, total |-> st.total, sweeper |-> st.sweeper] /\ st.sweeper \in BOOLEAN
  BY DEF IsStore
<1>. HIDE DEF d, after, es, total
<1>8. /\ patched(es, e.key, d) \in Seq(EntriesOf(K, G)) /\ OneToAKey(patched(es, e.key, d))
      /\ ToSet(patched(es, e.key, d)) = (held(st) \ {e}) \cup {d}
      /\ Len(patched(es, e.key, d)) = Len(es)
      /\ weightOf(patched(es, e.key, d)) = total
  BY <1>2, PatchFacts DEF es, total
<1>9. after = [entries |-> patched(es, e.key, d), total |-> total, sweeper |-> st.sweeper]
  BY <1>6, <1>7
<1>10. total \in Nat
  <2>1. \A x \in EntriesOf(K, G) : x.weight \in Nat
    BY DEF EntriesOf
  <2>2. QED
    BY <1>8, <2>1, WeightType
<1>11. IsStore(after, K, G)
  BY <1>7, <1>8, <1>9, <1>10 DEF IsStore
<1>12. QED
  BY <1>8, <1>9, <1>11 DEF held, d, after, es, total

\* weigh() takes what it has to, and nothing while the weight is within bounds.
LEMMA WeighFacts ==
    ASSUME NEW K, NEW G, NEW st, IsStore(st, K, G), NEW e \in held(st), NEW w \in Nat, NEW max \in Nat
    PROVE  \E gone \in SUBSET held(reweigh(st, e.key, w)) :
               /\ weigh(st, e.key, w, max) = take(reweigh(st, e.key, w), gone)
               /\ weigh(st, e.key, w, max).left.total <= max
               /\ reweigh(st, e.key, w).total <= max => gone = {}
<1>. DEFINE weighed == reweigh(st, e.key, w)
            es == weighed.entries
            E == EntriesOf(K, G)
            oldest(n) == SubSeq(es, 1, n)
            enough == {n \in 0 .. Len(es) : n = Len(es) \/ weighed.total - weightOf(oldest(n)) <= max}
            n == CHOOSE n \in enough : \A m \in enough : n <= m
            gone == ToSet(oldest(n))
<1>1. IsStore(weighed, K, G)
  BY ReweighFacts
<1>2. weigh(st, e.key, w, max) = take(weighed, gone)
  BY DEF weigh
<1>. HIDE DEF weighed
<1>3. /\ es \in Seq(E) /\ OneToAKey(es) /\ weighed.total \in Nat /\ weighed.total = weightOf(es)
      /\ \A x \in E : x.weight \in Nat
  BY <1>1 DEF IsStore, EntriesOf
<1>. HIDE DEF es, E
<1>4. n \in enough /\ \A m \in enough : n <= m
  <2>1. enough \subseteq Nat /\ Len(es) \in enough
    BY <1>3
  <2>. HIDE DEF enough
  <2>2. QED
    BY <2>1, Least
<1>5. n \in 0 .. Len(es) /\ (n = Len(es) \/ weighed.total - weightOf(oldest(n)) <= max)
  BY <1>4
<1>6. weighed.total <= max => n = 0
  <2>1. SubSeq(es, 1, 0) = <<>>
    BY <1>3
  <2>2. weighed.total <= max => 0 \in enough
    <3>1. 0 \in 0 .. Len(es) /\ oldest(0) = <<>>
      BY <1>3, <2>1
    <3>2. weightOf(oldest(0)) = 0
      BY <3>1, WeightEmpty
    <3>3. weighed.total - weightOf(oldest(0)) = weighed.total
      BY <1>3, <3>2
    <3>4. QED
      BY <3>1, <3>3
  <2>. HIDE DEF enough, n
  <2>3. QED
    BY <1>4, <1>5, <2>2
<1>. HIDE DEF n
<1>7. only(es, gone) = oldest(n)
  <2>1. \A i, j \in 1 .. Len(es) : es[i] = es[j] => i = j
    BY <1>3 DEF OneToAKey
  <2>2. QED
    BY <1>3, <1>5, <2>1, OnlyOldest
<1>8. gone \subseteq held(weighed)
  <2>1. /\ DOMAIN oldest(n) = 1 .. n /\ \A i \in 1 .. n : oldest(n)[i] = es[i] /\ i \in 1 .. Len(es)
        /\ DOMAIN es = 1 .. Len(es)
    BY <1>3, <1>5
  <2>2. QED
    BY <2>1 DEF ToSet, held, es
<1>9. take(weighed, gone).left.total = weighed.total - weightOf(oldest(n))
  <2>1. take(weighed, gone).taken = only(es, gone)
    BY DEF take, es
  <2>. HIDE DEF gone
  <2>2. AddsUp(weighed, gone)
    BY <1>1, <1>8, TakeFacts
  <2>3. QED
    BY <1>7, <2>1, <2>2 DEF AddsUp
<1>10. take(weighed, gone).left.total <= max
  <2>1. CASE n = Len(es)
    <3>1. oldest(n) = es
      BY <1>3, <2>1
    <3>2. take(weighed, gone).left.total = weighed.total - weighed.total
      BY <1>3, <1>9, <3>1
    <3>. HIDE DEF gone
    <3>3. QED
      BY <1>3, <3>2
  <2>2. CASE n # Len(es)
    BY <1>5, <1>9, <2>2
  <2>3. QED
    BY <2>1, <2>2
<1>11. weighed.total <= max => gone = {}
  <2>1. ToSet(SubSeq(es, 1, 0)) = {}
    BY <1>3 DEF ToSet
  <2>2. QED
    BY <1>6, <2>1
<1>. HIDE DEF gone
<1>12. QED
  BY <1>2, <1>8, <1>10, <1>11 DEF weighed

\* The clock touches nothing but the deadlines.
LEMMA TickFacts ==
    ASSUME NEW K, NEW G, NEW st, IsStore(st, K, G)
    PROVE  /\ IsStore(tick(st), K, G)
           /\ held(tick(st)) = {later(e) : e \in held(st)}
           /\ Len(tick(st).entries) = Len(st.entries) /\ tick(st).total = st.total
<1>. DEFINE es == st.entries
            E == EntriesOf(K, G)
            ds == [i \in DOMAIN es |-> later(es[i])]
<1>1. /\ es \in Seq(E) /\ OneToAKey(es) /\ \A e \in E : e.weight \in Nat
      /\ st.total \in Nat /\ st.sweeper \in BOOLEAN
      /\ st = [entries |-> es, total |-> st.total, sweeper |-> st.sweeper]
  BY DEF IsStore, EntriesOf
<1>2. \A e \in E : later(e) \in E /\ later(e).key = e.key /\ later(e).weight = e.weight
  BY StoreAssumption DEF EntriesOf, later
<1>3. tick(st) = [st EXCEPT !.entries = ds]
  BY DEF tick, later
<1>4. held(st) = {es[i] : i \in 1 .. Len(es)} /\ st.total = weightOf(es)
  BY HeldOnce DEF IsStore
<1>. HIDE DEF es, E
<1>5. DOMAIN es = 1 .. Len(es) /\ Len(es) \in Nat /\ \A i \in 1 .. Len(es) : es[i] \in E
  BY <1>1
<1>6. /\ ds \in Seq(E) /\ Len(ds) = Len(es) /\ DOMAIN ds = 1 .. Len(es)
      /\ \A i \in 1 .. Len(es) : ds[i] = later(es[i])
  BY <1>2, <1>5
<1>. HIDE DEF ds
<1>7. tick(st) = [entries |-> ds, total |-> st.total, sweeper |-> st.sweeper]
  BY <1>1, <1>3
<1>8. OneToAKey(ds)
  BY <1>1, <1>2, <1>5, <1>6 DEF OneToAKey
<1>9. weightOf(ds) = weightOf(es)
  <2>1. \A i \in 1 .. Len(es) : ds[i].weight = es[i].weight
    BY <1>2, <1>5, <1>6
  <2>2. QED
    BY <1>1, <1>6, <2>1, WeightOfSame
<1>10. ToSet(ds) = {later(e) : e \in held(st)}
  BY <1>4, <1>6 DEF ToSet
<1>11. IsStore(tick(st), K, G)
  BY <1>1, <1>4, <1>6, <1>7, <1>8, <1>9 DEF IsStore, E
<1>12. held(tick(st)) = {later(e) : e \in held(st)} /\ Len(tick(st).entries) = Len(es) /\ tick(st).total = st.total
  BY <1>6, <1>7, <1>10 DEF held
<1>13. QED
  BY <1>11, <1>12 DEF es

\* A store that is full gives up an entry when its oldest is taken.
LEMMA TakeOldestFacts ==
    ASSUME NEW K, NEW G, NEW st, IsStore(st, K, G)
    PROVE  \E gone \in SUBSET held(st) :
               /\ takeOldest(st) = take(st, gone)
               /\ \A e \in gone : 1 \in 1 .. Len(st.entries) /\ e = st.entries[1]
               /\ full(st) => Len(takeOldest(st).left.entries) = Len(st.entries) - 1
<1>. DEFINE es == st.entries
            gone == IF es = <<>> THEN {} ELSE {Head(es)}
<1>1. es \in Seq(EntriesOf(K, G)) /\ OneToAKey(es)
  BY DEF IsStore
<1>2. takeOldest(st) = take(st, gone)
  BY DEF takeOldest
<1>3. held(st) = {es[i] : i \in 1 .. Len(es)}
  BY HeldOnce
<1>. HIDE DEF es
<1>4. es # <<>> => 1 \in 1 .. Len(es) /\ Head(es) = es[1]
  BY <1>1
<1>5. gone \subseteq held(st)
  BY <1>3, <1>4
<1>6. es # <<>> => Len(take(st, gone).taken) = 1
  <2>1. es # <<>> => ToSet(SubSeq(es, 1, 1)) = gone /\ Len(SubSeq(es, 1, 1)) = 1 /\ 1 \in 0 .. Len(es)
    BY <1>1, <1>4 DEF ToSet
  <2>2. \A i, j \in 1 .. Len(es) : es[i] = es[j] => i = j
    BY <1>1 DEF OneToAKey
  <2>. HIDE DEF gone
  <2>3. es # <<>> => only(es, gone) = SubSeq(es, 1, 1)
    BY <1>1, <2>1, <2>2, OnlyOldest
  <2>4. QED
    BY <2>1, <2>3 DEF take, es
<1>. HIDE DEF gone
<1>7. Len(take(st, gone).left.entries) + Len(take(st, gone).taken) = Len(es)
  <2>1. AddsUp(st, gone)
    BY <1>5, TakeFacts
  <2>2. QED
    BY <2>1 DEF es, AddsUp
<1>8. Len(take(st, gone).left.entries) \in Nat
  <2>1. IsStore(take(st, gone).left, K, G)
    BY <1>5, TakeFacts
  <2>2. QED
    BY <2>1 DEF IsStore
<1>9. full(st) => es # <<>>
  BY <1>1, StoreAssumption DEF full, es
<1>10. full(st) => Len(take(st, gone).left.entries) = Len(es) - 1
  <2>1. Len(es) \in Nat
    BY <1>1
  <2>2. SUFFICES ASSUME full(st) PROVE Len(take(st, gone).left.entries) = Len(es) - 1
    OBVIOUS
  <2>3. Len(take(st, gone).left.entries) + 1 = Len(es)
    BY <1>6, <1>7, <1>9, <2>2
  <2>4. QED
    BY <1>8, <2>1, <2>3
<1>11. \A e \in gone : 1 \in 1 .. Len(es) /\ e = es[1]
  BY <1>4 DEF gone
<1>12. QED
  BY <1>2, <1>5, <1>10, <1>11 DEF es

\* As many keys as entries.
LEMMA KeysCounted ==
    ASSUME NEW K, NEW G, NEW st, IsStore(st, K, G)
    PROVE  IsFiniteSet(keysOf(st.entries)) /\ Cardinality(keysOf(st.entries)) = Len(st.entries)
<1>. DEFINE es == st.entries
            f == [i \in 1 .. Len(es) |-> es[i].key]
<1>1. es \in Seq(EntriesOf(K, G)) /\ OneToAKey(es)
  BY DEF IsStore
<1>. HIDE DEF es
<1>2. keysOf(es) = {es[i].key : i \in 1 .. Len(es)}
  <2>1. DOMAIN es = 1 .. Len(es)
    BY <1>1
  <2>2. QED
    BY <2>1 DEF keysOf
<1>3. f \in Bijection(1 .. Len(es), keysOf(es))
  <2>1. f \in [1 .. Len(es) -> keysOf(es)]
    BY <1>2
  <2>2. \A i, j \in 1 .. Len(es) : f[i] = f[j] => i = j
    BY <1>1 DEF OneToAKey
  <2>3. \A k \in keysOf(es) : \E i \in 1 .. Len(es) : f[i] = k
    BY <1>2
  <2>. HIDE DEF f
  <2>4. QED
    BY <2>1, <2>2, <2>3 DEF Bijection, Injection, Surjection, IsInjective
<1>4. ExistsBijection(1 .. Len(es), keysOf(es))
  BY <1>3 DEF ExistsBijection
<1>5. IsFiniteSet(1 .. Len(es)) /\ Cardinality(1 .. Len(es)) = Len(es)
  <2>. DEFINE n == Len(es)
  <2>1. n \in Nat
    BY <1>1
  <2>. HIDE DEF n
  <2>2. IsFiniteSet(1 .. n) /\ Cardinality(1 .. n) = IF 1 > n THEN 0 ELSE n - 1 + 1
    BY <2>1, FS_Interval
  <2>3. IsFiniteSet(1 .. n) /\ Cardinality(1 .. n) = n
    BY <2>1, <2>2
  <2>4. QED
    BY <2>3 DEF n
<1>6. IsFiniteSet(keysOf(es)) /\ Cardinality(keysOf(es)) = Cardinality(1 .. Len(es))
  BY <1>4, <1>5, FS_Bijection
<1>7. QED
  BY <1>5, <1>6 DEF es

\* What is deleted is what a key has, if anything.
LEMMA DeleteFacts ==
    ASSUME NEW K, NEW G, NEW st, IsStore(st, K, G), NEW key
    PROVE  /\ IsStore(delete(st, key), K, G)
           /\ held(delete(st, key)) = {e \in held(st) : e.key # key}
           /\ Len(delete(st, key).entries) <= Len(st.entries)
           /\ \E gone \in SUBSET held(st) :
                delete(st, key) = take(st, gone).left /\ \A e \in gone : e.key = key
<1>. DEFINE gone == under(st, key)
            after == take(st, gone)
<1>1. gone \subseteq held(st) /\ gone = {e \in held(st) : e.key = key}
  BY DEF under, held
<1>2. delete(st, key) = after.left
  BY DEF delete
<1>. HIDE DEF gone
<1>3. /\ IsStore(after.left, K, G) /\ held(after.left) = held(st) \ gone
      /\ after.taken \in Seq(EntriesOf(K, G)) /\ AddsUp(st, gone)
  BY <1>1, TakeFacts
<1>4. Len(after.left.entries) + Len(after.taken) = Len(st.entries)
  BY <1>3 DEF AddsUp
<1>5. Len(after.left.entries) \in Nat /\ Len(after.taken) \in Nat
  BY <1>3 DEF IsStore
<1>6. Len(after.left.entries) <= Len(st.entries)
  <2>. DEFINE a == Len(after.left.entries)
              b == Len(after.taken)
  <2>1. a \in Nat /\ b \in Nat /\ a + b = Len(st.entries)
    BY <1>4, <1>5
  <2>. HIDE DEF a, b
  <2>2. a <= Len(st.entries)
    BY <2>1
  <2>3. QED
    BY <2>2 DEF a
<1>7. QED
  BY <1>1, <1>2, <1>3, <1>6

-----------------------------------------------------------------------------
(* The invariant.                                                          *)

Keys == {s.key : s \in Segments}
PartNumbers == {s.part : s \in Segments}
PartsHeld == UNION {[P -> {s.octets : s \in Segments}] : P \in SUBSET PartNumbers}
Groups == [smsId : Ids, total : Nat, parts : PartsHeld]
Accounts == [total : Nat, answered : SUBSET PartNumbers, refused : SUBSET PartNumbers,
             fate : {"held", "whole", "lost"}, told : Nat]

idOf(e) == e.group.smsId

\* A held entry: the peer was answered for what is in it, and it is not whole.
Kept(e, a) ==
    /\ a.fate = "held" /\ a.answered = DOMAIN e.group.parts /\ a.refused = {}
    /\ DOMAIN e.group.parts \subseteq 1 .. e.group.total
    /\ Cardinality(DOMAIN e.group.parts) < e.group.total
    /\ DOMAIN e.group.parts # {} => a.total = e.group.total
    /\ e.weight = retainedOctets(e.group)

\* An account of which nothing is held any more.
Settled(a) ==
    /\ a.fate = "held" => a.answered = {}
    /\ a.fate = "whole" => a.answered = 1 .. a.total
    /\ a.fate = "lost" => a.told = Cardinality(a.answered \ a.refused)

\* The account of an id that no group has yet.
Unused(a) == a.fate = "held" /\ a.answered = {} /\ a.refused = {}

\* The store and the accounts agree, n groups having been opened.
Books(st, acc, n) ==
    /\ n \in 0 .. MaxIds
    /\ IsStore(st, Keys, Groups)
    /\ acc \in [Ids -> Accounts]
    /\ \A e, f \in held(st) : idOf(e) = idOf(f) => e = f
    /\ \A e \in held(st) : idOf(e) <= n /\ Kept(e, acc[idOf(e)])
    /\ \A id \in Ids : (\A e \in held(st) : idOf(e) # id) => Settled(acc[id])
    /\ \A id \in Ids : id > n => Unused(acc[id])

\* And the store is within its bounds.
Sound(st, acc, n) ==
    Books(st, acc, n) /\ st.total <= MaxOctets /\ Len(st.entries) <= MaxGroups

IInv == Sound(groups, account, issued)
-----------------------------------------------------------------------------
(* Sums over a finite function.                                            *)

pick(s) == CHOOSE x \in s : TRUE

\* What the fold of SumFunction computes of the subsets of S.
Sums(f, S, g) ==
    g = [s \in SUBSET S |-> IF s = {} THEN 0 ELSE f[pick(s)] + g[s \ {pick(s)}]]

\* There is such a function: the subsets of at most n elements have one, whatever n.
LEMMA SumRecurs ==
    ASSUME NEW S, IsFiniteSet(S), NEW f, \A x \in S : f[x] \in Nat
    PROVE  \E g : Sums(f, S, g) /\ \A s \in SUBSET S : g[s] \in Nat
<1>. DEFINE upTo(n) == {s \in SUBSET S : Cardinality(s) <= n}
            Is(g, n) == \A s \in upTo(n) : g[s] = IF s = {} THEN 0 ELSE f[pick(s)] + g[s \ {pick(s)}]
            Good == {n \in Nat : \E g \in [upTo(n) -> Nat] : Is(g, n)}
<1>1. \A s \in SUBSET S : IsFiniteSet(s) /\ Cardinality(s) \in Nat /\ Cardinality(s) <= Cardinality(S)
  BY FS_Subset, FS_CardinalityType
<1>2. \A s \in SUBSET S : s # {} => /\ pick(s) \in s /\ s \ {pick(s)} \in SUBSET S
                                   /\ Cardinality(s \ {pick(s)}) = Cardinality(s) - 1
  <2>. SUFFICES ASSUME NEW s \in SUBSET S, s # {}
                PROVE  /\ pick(s) \in s /\ s \ {pick(s)} \in SUBSET S
                       /\ Cardinality(s \ {pick(s)}) = Cardinality(s) - 1
    OBVIOUS
  <2>1. pick(s) \in s
    BY DEF pick
  <2>2. Cardinality(s \ {pick(s)}) = IF pick(s) \in s THEN Cardinality(s) - 1 ELSE Cardinality(s)
    BY <1>1, FS_RemoveElement
  <2>3. QED
    BY <2>1, <2>2
<1>3. 0 \in Good
  <2>1. upTo(0) = {{}}
    <3>1. \A s \in upTo(0) : s = {}
      BY <1>1, FS_EmptySet
    <3>2. {} \in upTo(0)
      BY FS_EmptySet
    <3>3. QED
      BY <3>1, <3>2
  <2>. DEFINE g == [s \in upTo(0) |-> 0]
  <2>2. g \in [upTo(0) -> Nat] /\ Is(g, 0)
    BY <2>1
  <2>3. QED
    BY <2>2
<1>4. ASSUME NEW n \in Nat, n \in Good PROVE n + 1 \in Good
  <2>1. PICK g \in [upTo(n) -> Nat] : Is(g, n)
    BY <1>4
  <2>. DEFINE next(s) == IF s = {} THEN 0 ELSE f[pick(s)] + g[s \ {pick(s)}]
              h == [s \in upTo(n + 1) |-> next(s)]
  <2>2. \A s \in upTo(n + 1) : s # {} => pick(s) \in S /\ s \ {pick(s)} \in upTo(n)
    BY <1>1, <1>2
  <2>3. \A s \in upTo(n + 1) : next(s) \in Nat
    BY <2>1, <2>2
  <2>4. h \in [upTo(n + 1) -> Nat]
    BY <2>3
  <2>5. \A s \in upTo(n) : s \in upTo(n + 1) /\ h[s] = g[s]
    BY <1>1, <2>1
  <2>6. Is(h, n + 1)
    <3>1. ASSUME NEW s \in upTo(n + 1)
          PROVE  h[s] = IF s = {} THEN 0 ELSE f[pick(s)] + h[s \ {pick(s)}]
      <4>1. h[s] = next(s)
        OBVIOUS
      <4>2. s # {} => h[s \ {pick(s)}] = g[s \ {pick(s)}]
        BY <2>2, <2>5
      <4>. HIDE DEF h, upTo
      <4>3. QED
        BY <4>1, <4>2
    <3>2. QED
      BY <3>1
  <2>7. \E k \in [upTo(n + 1) -> Nat] : Is(k, n + 1)
    <3>. HIDE DEF h, upTo, Is
    <3>1. QED
      BY <2>4, <2>6
  <2>. HIDE DEF Is, upTo
  <2>8. QED
    BY <2>7
<1>5. Cardinality(S) \in Good
  <2>1. Cardinality(S) \in Nat
    BY FS_CardinalityType
  <2>. HIDE DEF Good
  <2>2. Nat \subseteq Good
    BY <1>3, <1>4, Inducts
  <2>3. QED
    BY <2>1, <2>2
<1>6. upTo(Cardinality(S)) = SUBSET S
  BY <1>1
<1>7. PICK g \in [SUBSET S -> Nat] : Is(g, Cardinality(S))
  BY <1>5, <1>6
<1>8. g = [s \in SUBSET S |-> IF s = {} THEN 0 ELSE f[pick(s)] + g[s \ {pick(s)}]]
  BY <1>6, <1>7
<1>9. QED
  BY <1>7, <1>8 DEF Sums

\* A sum of naturals is a natural, and that of nothing is 0.
LEMMA SumOfNaturals ==
    ASSUME NEW f, IsFiniteSet(DOMAIN f), \A x \in DOMAIN f : f[x] \in Nat
    PROVE  SumFunction(f) \in Nat /\ (DOMAIN f = {} => SumFunction(f) = 0)
<1>. DEFINE S == DOMAIN f
            it == CHOOSE g : Sums(f, S, g)
            Good == {n \in Nat : \A s \in SUBSET S : Cardinality(s) <= n => it[s] \in Nat}
<1>1. SumFunction(f) = it[S]
  BY DEF SumFunction, SumFunctionOnSet, FoldFunctionOnSet, MapThenFoldSet, Sums, pick
<1>2. Sums(f, S, it)
  <2>1. \E g : Sums(f, S, g)
    BY SumRecurs
  <2>2. QED
    BY <2>1
<1>. HIDE DEF it, S
<1>3. \A s \in SUBSET S : it[s] = IF s = {} THEN 0 ELSE f[pick(s)] + it[s \ {pick(s)}]
  BY <1>2 DEF Sums
<1>4. IsFiniteSet(S) /\ \A x \in S : f[x] \in Nat
  BY DEF S
<1>5. \A s \in SUBSET S : IsFiniteSet(s) /\ Cardinality(s) \in Nat
  BY <1>4, FS_Subset, FS_CardinalityType
<1>6. it[{}] = 0
  <2>1. {} \in SUBSET S
    OBVIOUS
  <2>2. QED
    BY <1>3, <2>1
<1>7. 0 \in Good
  <2>1. \A s \in SUBSET S : Cardinality(s) <= 0 => s = {}
    BY <1>5, FS_EmptySet
  <2>2. QED
    BY <1>6, <2>1
<1>8. ASSUME NEW n \in Nat, n \in Good PROVE n + 1 \in Good
  <2>1. ASSUME NEW s \in SUBSET S, Cardinality(s) <= n + 1 PROVE it[s] \in Nat
    <3>1. CASE s = {}
      BY <1>6, <3>1
    <3>2. CASE s # {}
      <4>1. pick(s) \in s /\ s \ {pick(s)} \in SUBSET S
        BY <3>2 DEF pick
      <4>2. Cardinality(s \ {pick(s)}) = Cardinality(s) - 1
        BY <1>5, <4>1, FS_RemoveElement
      <4>3. it[s \ {pick(s)}] \in Nat
        BY <1>5, <1>8, <2>1, <4>1, <4>2
      <4>4. f[pick(s)] \in Nat
        BY <1>4, <4>1
      <4>5. it[s] = f[pick(s)] + it[s \ {pick(s)}]
        BY <1>3, <3>2
      <4>6. QED
        BY <4>3, <4>4, <4>5
    <3>3. QED
      BY <3>1, <3>2
  <2>2. QED
    BY <2>1
<1>9. it[S] \in Nat
  <2>. HIDE DEF Good
  <2>1. Nat \subseteq Good
    BY <1>7, <1>8, Inducts
  <2>2. Cardinality(S) \in Good
    BY <1>5, <2>1
  <2>3. QED
    BY <1>5, <2>2 DEF Good
<1>10. QED
  BY <1>1, <1>9, <1>6 DEF S

-----------------------------------------------------------------------------
(* Groups and the accounts of what is lost.                                *)

\* The parts there are to number are finitely many.
LEMMA PartsFinite == IsFiniteSet(PartNumbers)
<1>. DEFINE part == [s \in Segments |-> s.part]
<1>1. part \in Surjection(Segments, PartNumbers)
  BY DEF Surjection, PartNumbers
<1>2. QED
  BY <1>1, SegmentsAssumption, FS_Surjection

\* The parts of a group are finitely many, and their octets make a number.
LEMMA GroupFacts ==
    ASSUME NEW g \in Groups
    PROVE  /\ IsFiniteSet(DOMAIN g.parts) /\ Cardinality(DOMAIN g.parts) \in Nat
           /\ DOMAIN g.parts \subseteq PartNumbers
           /\ \A p \in DOMAIN g.parts : g.parts[p] \in Nat
           /\ retainedOctets(g) \in Nat
           /\ DOMAIN g.parts = {} => retainedOctets(g) = 0
<1>1. PICK P \in SUBSET PartNumbers : g.parts \in [P -> {s.octets : s \in Segments}]
  BY DEF Groups, PartsHeld
<1>2. IsFiniteSet(PartNumbers)
  BY PartsFinite
<1>3. DOMAIN g.parts = P /\ \A p \in P : g.parts[p] \in Nat
  BY <1>1, SegmentsAssumption
<1>4. IsFiniteSet(P) /\ Cardinality(P) \in Nat
  BY <1>2, FS_Subset, FS_CardinalityType
<1>5. SumFunction(g.parts) \in Nat /\ (DOMAIN g.parts = {} => SumFunction(g.parts) = 0)
  BY <1>3, <1>4, SumOfNaturals
<1>6. QED
  BY <1>3, <1>4, <1>5 DEF retainedOctets

\* Entries of which no two are for one message.
OneToAnId(S) == \A e, f \in S : idOf(e) = idOf(f) => e = f

\* The account of a message whose entry is lost.
without(a, e, refused) ==
    [a EXCEPT !.fate = "lost",
              !.told = Cardinality(DOMAIN e.group.parts) - (IF idOf(e) = refused THEN 1 ELSE 0)]

\* The accounts after the loss of the entries S.
Told(acc, after, S, refused) ==
    /\ \A id \in Ids : (\A e \in S : idOf(e) # id) => after[id] = acc[id]
    /\ \A e \in S : after[idOf(e)] = without(acc[idOf(e)], e, refused)

\* What a loss of the entries es puts in the accounts.
LEMMA LostAccounts ==
    ASSUME NEW es \in Seq(EntriesOf(Keys, Groups)), OneToAnId(ToSet(es)),
           NEW acc \in [Ids -> Accounts], NEW refused
    PROVE  Told(acc, lost(acc, es, refused), ToSet(es), refused)
<1>1. ToSet(es) = {es[i] : i \in DOMAIN es}
  BY DEF ToSet
<1>2. idsOf(es) = {idOf(e) : e \in ToSet(es)}
  BY <1>1 DEF idsOf, idOf
<1>3. \A e \in ToSet(es) : partsOf(es, idOf(e)) = DOMAIN e.group.parts
  <2>1. ASSUME NEW e \in ToSet(es) PROVE partsOf(es, idOf(e)) = DOMAIN e.group.parts
    <3>1. (CHOOSE f \in ToSet(es) : f.group.smsId = idOf(e)) = e
      BY DEF OneToAnId, idOf
    <3>2. QED
      BY <3>1 DEF partsOf
  <2>2. QED
    BY <2>1
<1>4. \A e \in ToSet(es) : idOf(e) \in Ids
  <2>1. \A i \in DOMAIN es : es[i] \in EntriesOf(Keys, Groups)
    OBVIOUS
  <2>2. \A e \in EntriesOf(Keys, Groups) : idOf(e) \in Ids
    BY DEF EntriesOf, Groups, idOf
  <2>3. QED
    BY <1>1, <2>1, <2>2
<1>5. ASSUME NEW id \in Ids, \A e \in ToSet(es) : idOf(e) # id
      PROVE  lost(acc, es, refused)[id] = acc[id]
  <2>1. id \notin idsOf(es)
    BY <1>2, <1>5
  <2>2. QED
    BY <2>1 DEF lost
<1>6. ASSUME NEW e \in ToSet(es)
      PROVE  lost(acc, es, refused)[idOf(e)] = without(acc[idOf(e)], e, refused)
  <2>1. idOf(e) \in Ids /\ idOf(e) \in idsOf(es) /\ partsOf(es, idOf(e)) = DOMAIN e.group.parts
    BY <1>2, <1>3, <1>4
  <2>2. QED
    BY <2>1 DEF lost, without
<1>7. QED
  BY <1>5, <1>6 DEF Told

\* Such an account is one: a refused segment is in its group.
LEMMA LostType ==
    ASSUME NEW es \in Seq(EntriesOf(Keys, Groups)), OneToAnId(ToSet(es)),
           NEW acc \in [Ids -> Accounts], NEW refused,
           \A e \in ToSet(es) : idOf(e) = refused => DOMAIN e.group.parts # {}
    PROVE  lost(acc, es, refused) \in [Ids -> Accounts]
<1>. DEFINE after == lost(acc, es, refused)
<1>1. after = [id \in Ids |-> after[id]]
  BY DEF lost
<1>7. Told(acc, after, ToSet(es), refused)
  BY LostAccounts
<1>2. \A e \in ToSet(es) : e \in EntriesOf(Keys, Groups)
  BY DEF ToSet
<1>3. \A id \in Ids : acc[id] \in Accounts
  OBVIOUS
<1>4. ASSUME NEW e \in ToSet(es)
      PROVE  Cardinality(DOMAIN e.group.parts) - (IF idOf(e) = refused THEN 1 ELSE 0) \in Nat
  <2>1. e.group \in Groups
    BY <1>2 DEF EntriesOf
  <2>2. IsFiniteSet(DOMAIN e.group.parts) /\ Cardinality(DOMAIN e.group.parts) \in Nat
    BY <2>1, GroupFacts
  <2>3. idOf(e) = refused => Cardinality(DOMAIN e.group.parts) # 0
    BY <2>2, FS_EmptySet
  <2>4. QED
    BY <2>2, <2>3
<1>5. ASSUME NEW a \in Accounts, NEW k \in Nat
      PROVE  [a EXCEPT !.fate = "lost", !.told = k] \in Accounts
  BY DEF Accounts
<1>6. ASSUME NEW id \in Ids PROVE after[id] \in Accounts
  <2>1. CASE \A e \in ToSet(es) : idOf(e) # id
    BY <1>3, <1>7, <2>1 DEF Told
  <2>2. CASE \E e \in ToSet(es) : idOf(e) = id
    <3>1. PICK e \in ToSet(es) : idOf(e) = id
      BY <2>2
    <3>2. after[idOf(e)] = without(acc[idOf(e)], e, refused)
      BY <1>7 DEF Told
    <3>3. acc[idOf(e)] \in Accounts
      BY <1>3, <3>1
    <3>4. without(acc[idOf(e)], e, refused) \in Accounts
      BY <1>4, <1>5, <3>3 DEF without
    <3>5. QED
      BY <3>1, <3>2, <3>4
  <2>3. QED
    BY <2>1, <2>2
<1>. HIDE DEF after
<1>8. after \in [Ids -> Accounts]
  BY <1>1, <1>6
<1>9. QED
  BY <1>8 DEF after

\* What the books say of the entries of the store.
LEMMA BooksFacts ==
    ASSUME NEW st, NEW acc, NEW n, Books(st, acc, n)
    PROVE  /\ IsStore(st, Keys, Groups) /\ acc \in [Ids -> Accounts] /\ OneToAnId(held(st))
           /\ n \in 0 .. MaxIds /\ n \in Nat
           /\ \A e \in held(st) :
                /\ e \in EntriesOf(Keys, Groups) /\ e.group \in Groups
                /\ idOf(e) \in Ids /\ idOf(e) <= n /\ Kept(e, acc[idOf(e)])
<1>1. IsStore(st, Keys, Groups)
  BY DEF Books
<1>2. \A e \in held(st) : e \in EntriesOf(Keys, Groups)
  BY <1>1, HeldOnce
<1>3. \A e \in EntriesOf(Keys, Groups) : e.group \in Groups /\ idOf(e) \in Ids
  BY DEF EntriesOf, Groups, idOf
<1>4. \A k \in 0 .. MaxIds : k \in Nat
  BY IdsAssumption
<1>5. QED
  BY <1>1, <1>2, <1>3, <1>4 DEF Books, OneToAnId

\* Entries that are taken and told of leave the books in order.
LEMMA Taking ==
    ASSUME NEW st, NEW acc, NEW n, Books(st, acc, n), NEW gone, gone \subseteq held(st)
    PROVE  Books(take(st, gone).left, lost(acc, take(st, gone).taken, 0), n)
<1>. DEFINE left == take(st, gone).left
            es == take(st, gone).taken
            after == lost(acc, es, 0)
<1>1. /\ IsStore(st, Keys, Groups) /\ acc \in [Ids -> Accounts] /\ OneToAnId(held(st))
      /\ n \in 0 .. MaxIds /\ n \in Nat
      /\ \A e \in held(st) :
           /\ e \in EntriesOf(Keys, Groups) /\ e.group \in Groups
           /\ idOf(e) \in Ids /\ idOf(e) <= n /\ Kept(e, acc[idOf(e)])
  BY BooksFacts
<1>2. /\ IsStore(left, Keys, Groups) /\ held(left) = held(st) \ gone
      /\ es \in Seq(EntriesOf(Keys, Groups)) /\ ToSet(es) = gone
  BY <1>1, TakeFacts
<1>. HIDE DEF left, es
<1>3. OneToAnId(ToSet(es))
  BY <1>1, <1>2 DEF OneToAnId
<1>4. \A e \in gone : idOf(e) # 0
  BY <1>1 DEF Ids
<1>5. after \in [Ids -> Accounts]
  BY <1>1, <1>2, <1>3, <1>4, LostType
<1>6. Told(acc, after, gone, 0)
  BY <1>1, <1>2, <1>3, LostAccounts
<1>7. ASSUME NEW e \in gone
      PROVE  after[idOf(e)] = [acc[idOf(e)] EXCEPT !.fate = "lost", !.told = Cardinality(DOMAIN e.group.parts)]
  <2>1. after[idOf(e)] = without(acc[idOf(e)], e, 0)
    BY <1>6 DEF Told
  <2>2. Cardinality(DOMAIN e.group.parts) \in Nat
    BY <1>1, GroupFacts
  <2>3. Cardinality(DOMAIN e.group.parts) - (IF idOf(e) = 0 THEN 1 ELSE 0) = Cardinality(DOMAIN e.group.parts)
    BY <1>4, <2>2
  <2>. HIDE DEF after
  <2>4. QED
    BY <2>1, <2>3 DEF without
<1>. HIDE DEF after
<1>8. \A e \in held(left) : idOf(e) <= n /\ Kept(e, after[idOf(e)])
  <2>1. \A e \in held(left) : \A f \in gone : idOf(f) # idOf(e)
    BY <1>1, <1>2 DEF OneToAnId
  <2>2. \A e \in held(left) : after[idOf(e)] = acc[idOf(e)]
    BY <1>1, <1>2, <1>6, <2>1 DEF Told
  <2>3. QED
    BY <1>1, <1>2, <2>2
<1>9. ASSUME NEW id \in Ids, \A e \in held(left) : idOf(e) # id
      PROVE  Settled(after[id])
  <2>1. CASE \A e \in gone : idOf(e) # id
    <3>1. \A e \in held(st) : idOf(e) # id
      BY <1>2, <1>9, <2>1
    <3>2. Settled(acc[id])
      BY <3>1 DEF Books
    <3>3. QED
      BY <1>6, <2>1, <3>2 DEF Told
  <2>2. CASE \E e \in gone : idOf(e) = id
    <3>1. PICK e \in gone : idOf(e) = id
      BY <2>2
    <3>2. /\ acc[id] \in Accounts /\ acc[id].answered = DOMAIN e.group.parts /\ acc[id].refused = {}
          /\ after[id] = [acc[id] EXCEPT !.fate = "lost", !.told = Cardinality(DOMAIN e.group.parts)]
      BY <1>1, <1>7, <3>1 DEF Kept
    <3>3. /\ after[id].fate = "lost" /\ after[id].told = Cardinality(after[id].answered)
          /\ after[id].answered \ after[id].refused = after[id].answered
      BY <3>2 DEF Accounts
    <3>4. QED
      BY <3>3 DEF Settled
  <2>3. QED
    BY <2>1, <2>2
<1>10. ASSUME NEW id \in Ids, id > n PROVE Unused(after[id])
  <2>1. Unused(acc[id])
    BY <1>10 DEF Books
  <2>2. \A e \in gone : idOf(e) # id
    BY <1>1, <1>10 DEF Ids
  <2>3. QED
    BY <1>6, <2>1, <2>2 DEF Told
<1>11. \A e, f \in held(left) : idOf(e) = idOf(f) => e = f
  BY <1>1, <1>2 DEF OneToAnId
<1>12. Books(left, after, n)
  BY <1>1, <1>2, <1>5, <1>8, <1>9, <1>10, <1>11 DEF Books
<1>13. QED
  BY <1>12 DEF left, after, es

\* Losses one after the other are told like one of them all.
LEMMA LostTwice ==
    ASSUME NEW es \in Seq(EntriesOf(Keys, Groups)), NEW fs \in Seq(EntriesOf(Keys, Groups)),
           OneToAnId(ToSet(es) \cup ToSet(fs)), NEW acc \in [Ids -> Accounts]
    PROVE  lost(acc, es \o fs, 0) = lost(lost(acc, es, 0), fs, 0)
<1>. DEFINE all == es \o fs
            first == lost(acc, es, 0)
            both == lost(first, fs, 0)
            once == lost(acc, all, 0)
<1>1. all \in Seq(EntriesOf(Keys, Groups)) /\ ToSet(all) = ToSet(es) \cup ToSet(fs)
  <2>1. /\ DOMAIN es = 1 .. Len(es) /\ DOMAIN fs = 1 .. Len(fs) /\ DOMAIN all = 1 .. Len(es) + Len(fs)
        /\ Len(es) \in Nat /\ Len(fs) \in Nat
        /\ \A i \in 1 .. Len(es) : all[i] = es[i] /\ i \in DOMAIN all
        /\ \A i \in 1 .. Len(fs) : all[i + Len(es)] = fs[i] /\ i + Len(es) \in DOMAIN all
        /\ \A i \in DOMAIN all : (i \in 1 .. Len(es) /\ all[i] = es[i])
                                 \/ (i - Len(es) \in 1 .. Len(fs) /\ all[i] = fs[i - Len(es)])
    OBVIOUS
  <2>2. /\ ToSet(es) = {es[i] : i \in DOMAIN es} /\ ToSet(fs) = {fs[i] : i \in DOMAIN fs}
        /\ ToSet(all) = {all[i] : i \in DOMAIN all}
    BY DEF ToSet
  <2>3. all \in Seq(EntriesOf(Keys, Groups))
    OBVIOUS
  <2>. HIDE DEF all
  <2>4. ToSet(all) \subseteq ToSet(es) \cup ToSet(fs)
    BY <2>1, <2>2
  <2>5. ToSet(es) \subseteq ToSet(all) /\ ToSet(fs) \subseteq ToSet(all)
    BY <2>1, <2>2
  <2>6. QED
    BY <2>3, <2>4, <2>5
<1>. HIDE DEF all
<1>2. \A e \in ToSet(es) \cup ToSet(fs) : e \in EntriesOf(Keys, Groups)
  BY DEF ToSet
<1>3. \A e \in ToSet(es) \cup ToSet(fs) : idOf(e) \in Ids /\ idOf(e) # 0
  BY <1>2 DEF EntriesOf, Groups, idOf, Ids
<1>4. OneToAnId(ToSet(es)) /\ OneToAnId(ToSet(fs)) /\ OneToAnId(ToSet(all))
  BY <1>1 DEF OneToAnId
<1>5. Told(acc, first, ToSet(es), 0) /\ Told(acc, once, ToSet(all), 0)
  BY <1>1, <1>4, LostAccounts
<1>6. first \in [Ids -> Accounts]
  BY <1>3, <1>4, LostType
<1>7. Told(first, both, ToSet(fs), 0)
  <2>. HIDE DEF first
  <2>1. QED
    BY <1>4, <1>6, LostAccounts
<1>8. once = [id \in Ids |-> once[id]] /\ both = [id \in Ids |-> both[id]]
  BY DEF lost
<1>. HIDE DEF first, once, both
<1>9. \A e, a : without(without(a, e, 0), e, 0) = without(a, e, 0)
  BY DEF without
<1>10. ASSUME NEW id \in Ids PROVE once[id] = both[id]
  <2>1. CASE \A e \in ToSet(all) : idOf(e) # id
    <3>1. once[id] = acc[id] /\ first[id] = acc[id] /\ both[id] = first[id]
      BY <1>1, <1>5, <1>7, <2>1 DEF Told
    <3>2. QED
      BY <3>1
  <2>2. ASSUME NEW e \in ToSet(es), idOf(e) = id PROVE once[id] = both[id]
    <3>1. once[id] = without(acc[id], e, 0) /\ first[id] = without(acc[id], e, 0)
      BY <1>1, <1>5, <2>2 DEF Told
    <3>2. CASE e \in ToSet(fs)
      <4>1. both[id] = without(first[id], e, 0)
        BY <1>7, <2>2, <3>2 DEF Told
      <4>2. QED
        BY <1>9, <3>1, <4>1
    <3>3. CASE e \notin ToSet(fs)
      <4>1. \A f \in ToSet(fs) : idOf(f) # id
        BY <2>2, <3>3 DEF OneToAnId
      <4>2. QED
        BY <1>7, <3>1, <4>1 DEF Told
    <3>4. QED
      BY <3>2, <3>3
  <2>3. ASSUME NEW e \in ToSet(fs), e \notin ToSet(es), idOf(e) = id PROVE once[id] = both[id]
    <3>1. once[id] = without(acc[id], e, 0) /\ both[id] = without(first[id], e, 0)
      BY <1>1, <1>5, <1>7, <2>3 DEF Told
    <3>2. \A f \in ToSet(es) : idOf(f) # id
      BY <2>3 DEF OneToAnId
    <3>3. first[id] = acc[id]
      BY <1>5, <3>2 DEF Told
    <3>4. QED
      BY <3>1, <3>3
  <2>4. QED
    BY <1>1, <2>1, <2>2, <2>3
<1>11. once = both
  BY <1>8, <1>10
<1>12. QED
  BY <1>11 DEF once, both, first, all

\* The books stay in order where entries go whose accounts are settled, and
\* nothing else changes.
LEMMA Restated ==
    ASSUME NEW st, NEW acc, NEW n, Books(st, acc, n), NEW left, NEW after,
           IsStore(left, Keys, Groups), held(left) \subseteq held(st), after \in [Ids -> Accounts],
           \A id \in Ids :
               \/ after[id] = acc[id] /\ \A e \in held(st) : idOf(e) = id => e \in held(left)
               \/ id <= n /\ Settled(after[id]) /\ \A e \in held(left) : idOf(e) # id
    PROVE  Books(left, after, n)
<1>1. /\ n \in 0 .. MaxIds /\ n \in Nat /\ OneToAnId(held(st))
      /\ \A e \in held(st) : idOf(e) \in Ids /\ idOf(e) <= n /\ Kept(e, acc[idOf(e)])
  BY BooksFacts
<1>2. \A e \in held(left) : idOf(e) <= n /\ Kept(e, after[idOf(e)])
  BY <1>1
<1>3. ASSUME NEW id \in Ids, \A e \in held(left) : idOf(e) # id
      PROVE  Settled(after[id])
  <2>1. CASE after[id] = acc[id] /\ \A e \in held(st) : idOf(e) = id => e \in held(left)
    BY <1>3, <2>1 DEF Books
  <2>2. CASE id <= n /\ Settled(after[id]) /\ \A e \in held(left) : idOf(e) # id
    BY <2>2
  <2>3. QED
    BY <2>1, <2>2
<1>4. ASSUME NEW id \in Ids, id > n PROVE Unused(after[id])
  <2>1. after[id] = acc[id]
    BY <1>1, <1>4 DEF Ids
  <2>2. QED
    BY <1>4, <2>1 DEF Books
<1>5. \A e, f \in held(left) : idOf(e) = idOf(f) => e = f
  BY <1>1 DEF OneToAnId
<1>6. QED
  BY <1>1, <1>2, <1>3, <1>4, <1>5 DEF Books

\* A group that is opened is one more in the books.
LEMMA Opening ==
    ASSUME NEW st, NEW acc, NEW n, Books(st, acc, n), n < MaxIds,
           NEW s \in Segments, s.total >= 1, ~has(st, s.key),
           NEW group, group = [smsId |-> n + 1, total |-> s.total, parts |-> <<>>]
    PROVE  /\ Books(set(st, s.key, group), acc, n + 1)
           /\ held(set(st, s.key, group)) =
                held(st) \cup {[key |-> s.key, left |-> Timeout, weight |-> 0, group |-> group]}
           /\ Len(set(st, s.key, group).entries) = Len(st.entries) + 1
           /\ set(st, s.key, group).total = st.total
<1>. DEFINE after == set(st, s.key, group)
            new == [key |-> s.key, left |-> Timeout, weight |-> 0, group |-> group]
<1>1. /\ IsStore(st, Keys, Groups) /\ acc \in [Ids -> Accounts] /\ OneToAnId(held(st))
      /\ n \in 0 .. MaxIds /\ n \in Nat
      /\ \A e \in held(st) :
           /\ e \in EntriesOf(Keys, Groups) /\ e.group \in Groups
           /\ idOf(e) \in Ids /\ idOf(e) <= n /\ Kept(e, acc[idOf(e)])
  BY BooksFacts
<1>2. n + 1 \in Ids /\ n + 1 \in 0 .. MaxIds
  BY <1>1, IdsAssumption DEF Ids
<1>3. group \in Groups
  <2>1. <<>> \in [{} -> {t.octets : t \in Segments}]
    OBVIOUS
  <2>2. <<>> \in PartsHeld
    BY <2>1 DEF PartsHeld
  <2>3. s.total \in Nat
    BY SegmentsAssumption
  <2>4. QED
    BY <1>2, <2>2, <2>3 DEF Groups
<1>4. s.key \in Keys
  BY DEF Keys
<1>5. /\ IsStore(after, Keys, Groups) /\ held(after) = held(st) \cup {new}
      /\ Len(after.entries) = Len(st.entries) + 1 /\ after.total = st.total
  BY <1>1, <1>3, <1>4, SetFacts
<1>. HIDE DEF after
<1>6. idOf(new) = n + 1 /\ new.group = group
  BY DEF idOf
<1>7. Kept(new, acc[n + 1])
  <2>1. acc[n + 1].fate = "held" /\ acc[n + 1].answered = {} /\ acc[n + 1].refused = {}
    BY <1>1, <1>2 DEF Books, Unused
  <2>2. DOMAIN group.parts = {} /\ group.total = s.total /\ s.total \in Nat
    BY SegmentsAssumption
  <2>3. retainedOctets(group) = 0
    BY <1>3, <2>2, GroupFacts
  <2>4. Cardinality(DOMAIN group.parts) = 0
    BY <2>2, FS_EmptySet
  <2>5. new.weight = 0
    OBVIOUS
  <2>. HIDE DEF new
  <2>6. QED
    BY <1>6, <2>1, <2>2, <2>3, <2>4, <2>5 DEF Kept
<1>. HIDE DEF new
<1>8. \A e \in held(after) : idOf(e) <= n + 1 /\ Kept(e, acc[idOf(e)])
  <2>1. \A e \in held(st) : idOf(e) <= n + 1
    BY <1>1 DEF Ids
  <2>2. QED
    BY <1>1, <1>5, <1>6, <1>7, <2>1
<1>9. \A e, f \in held(after) : idOf(e) = idOf(f) => e = f
  <2>1. \A e \in held(st) : idOf(e) # n + 1
    BY <1>1 DEF Ids
  <2>2. QED
    BY <1>1, <1>5, <1>6, <2>1 DEF OneToAnId
<1>10. \A id \in Ids : (\A e \in held(after) : idOf(e) # id) => Settled(acc[id])
  BY <1>5 DEF Books
<1>11. \A id \in Ids : id > n + 1 => Unused(acc[id])
  <2>1. \A id \in Ids : id > n + 1 => id > n
    BY <1>1 DEF Ids
  <2>2. QED
    BY <2>1 DEF Books
<1>12. Books(after, acc, n + 1)
  BY <1>1, <1>2, <1>5, <1>8, <1>9, <1>10, <1>11 DEF Books
<1>13. QED
  BY <1>5, <1>12 DEF after, new

\* The segment s finds its group in the entry e.
Finds(st, e, s) ==
    e \in held(st) /\ e.key = s.key /\ e.group.total = s.total /\ s.part \in 1 .. s.total

\* The group that a segment has joined.
joinedBy(e, s) ==
    [e.group EXCEPT !.parts =
        [p \in DOMAIN e.group.parts \cup {s.part} |-> IF p = s.part THEN s.octets ELSE e.group.parts[p]]]

\* It is the one of its entry, with a part more or the same one anew.
LEMMA JoinedFacts ==
    ASSUME NEW st, NEW acc, NEW n, Books(st, acc, n), NEW e, NEW s \in Segments, Finds(st, e, s)
    PROVE  /\ Joined(st, s) = joinedBy(e, s) /\ joinedBy(e, s) \in Groups
           /\ joinedBy(e, s).smsId = idOf(e) /\ joinedBy(e, s).total = s.total
           /\ DOMAIN joinedBy(e, s).parts = DOMAIN e.group.parts \cup {s.part}
           /\ joinedBy(e, s).parts[s.part] = s.octets
           /\ \A p \in DOMAIN e.group.parts : p # s.part => joinedBy(e, s).parts[p] = e.group.parts[p]
           /\ DOMAIN joinedBy(e, s).parts \subseteq 1 .. s.total
<1>. DEFINE parts == [p \in DOMAIN e.group.parts \cup {s.part} |->
                        IF p = s.part THEN s.octets ELSE e.group.parts[p]]
<1>1. /\ IsStore(st, Keys, Groups) /\ e \in held(st) /\ e.group \in Groups /\ idOf(e) \in Ids
      /\ Kept(e, acc[idOf(e)])
  BY BooksFacts DEF Finds
<1>2. get(st, s.key) = e.group
  BY <1>1, EntryIsHeld DEF Finds
<1>3. Joined(st, s) = joinedBy(e, s)
  BY <1>2 DEF Joined, joinedBy
<1>4. PICK P \in SUBSET PartNumbers : e.group.parts \in [P -> {t.octets : t \in Segments}]
  BY <1>1 DEF Groups, PartsHeld
<1>5. parts = [p \in {s.part} \cup P |-> IF p = s.part THEN s.octets ELSE e.group.parts[p]]
  BY <1>4
<1>6. s.part \in PartNumbers /\ s.octets \in {t.octets : t \in Segments}
  BY DEF PartNumbers
<1>. HIDE DEF parts
<1>7. parts \in [{s.part} \cup P -> {t.octets : t \in Segments}] /\ {s.part} \cup P \in SUBSET PartNumbers
  BY <1>4, <1>5, <1>6
<1>8. parts \in PartsHeld
  BY <1>7 DEF PartsHeld
<1>9. /\ DOMAIN parts = DOMAIN e.group.parts \cup {s.part} /\ parts[s.part] = s.octets
      /\ \A p \in DOMAIN e.group.parts : p # s.part => parts[p] = e.group.parts[p]
  BY <1>4, <1>5
<1>10. /\ joinedBy(e, s) = [smsId |-> idOf(e), total |-> s.total, parts |-> parts]
       /\ e.group = [smsId |-> idOf(e), total |-> s.total, parts |-> e.group.parts]
  <2>1. e.group = [smsId |-> e.group.smsId, total |-> e.group.total, parts |-> e.group.parts]
    BY <1>1 DEF Groups
  <2>2. joinedBy(e, s) = [e.group EXCEPT !.parts = parts]
    BY DEF joinedBy, parts
  <2>3. e.group.smsId = idOf(e) /\ e.group.total = s.total
    BY DEF idOf, Finds
  <2>4. QED
    BY <2>1, <2>2, <2>3
<1>11. joinedBy(e, s) \in Groups
  BY <1>1, <1>8, <1>10, SegmentsAssumption DEF Groups
<1>12. DOMAIN parts \subseteq 1 .. s.total
  BY <1>1, <1>9 DEF Finds, Kept
<1>13. QED
  BY <1>3, <1>9, <1>10, <1>11, <1>12

\* The accounts when the segment s of id is refused.
refusing(acc, id, s) == [acc EXCEPT ![id].refused = {s.part}]

\* An account with one answer more.
withAnswer(a, s) == [a EXCEPT !.answered = @ \cup {s.part}, !.total = s.total]

\* An answer is put in the account of its message and in no other.
LEMMA AnsweredFacts ==
    ASSUME NEW acc \in [Ids -> Accounts], NEW id \in Ids, NEW s \in Segments
    PROVE  /\ answered(acc, id, s) \in [Ids -> Accounts]
           /\ \A i \in Ids : i # id => answered(acc, id, s)[i] = acc[i]
           /\ answered(acc, id, s)[id] = withAnswer(acc[id], s)
           /\ answered(acc, id, s)[id].answered = acc[id].answered \cup {s.part}
           /\ answered(acc, id, s)[id].total = s.total
           /\ answered(acc, id, s)[id].fate = acc[id].fate
           /\ answered(acc, id, s)[id].told = acc[id].told
           /\ answered(acc, id, s)[id].refused = acc[id].refused
<1>. DEFINE a == withAnswer(acc[id], s)
            first == [acc EXCEPT ![id].answered = @ \cup {s.part}]
            after == answered(acc, id, s)
<1>1. acc[id] \in Accounts /\ s.part \in PartNumbers /\ s.total \in Nat
  BY SegmentsAssumption DEF PartNumbers
<1>2. /\ a \in Accounts /\ a.answered = acc[id].answered \cup {s.part} /\ a.total = s.total
      /\ a.fate = acc[id].fate /\ a.told = acc[id].told /\ a.refused = acc[id].refused
  BY <1>1 DEF Accounts, withAnswer
<1>3. first = [acc EXCEPT ![id] = [acc[id] EXCEPT !.answered = acc[id].answered \cup {s.part}]]
  OBVIOUS
<1>4. after = [first EXCEPT ![id] = [first[id] EXCEPT !.total = s.total]]
  BY DEF answered
<1>. HIDE DEF first, after
<1>5. first[id] = [acc[id] EXCEPT !.answered = acc[id].answered \cup {s.part}]
  BY <1>3
<1>6. after = [i \in Ids |-> IF i = id THEN a ELSE acc[i]]
  <2>1. after[id] = [first[id] EXCEPT !.total = s.total]
    BY <1>3, <1>4
  <2>2. acc[id] = [total |-> acc[id].total, answered |-> acc[id].answered, refused |-> acc[id].refused,
                 fate |-> acc[id].fate, told |-> acc[id].told]
    BY <1>1 DEF Accounts
  <2>3. after[id] = a
    BY <1>5, <2>1, <2>2 DEF withAnswer
  <2>4. DOMAIN after = Ids /\ \A i \in Ids : i # id => after[i] = acc[i]
    BY <1>3, <1>4
  <2>5. after = [i \in Ids |-> after[i]]
    BY <1>3, <1>4
  <2>. HIDE DEF a
  <2>6. QED
    BY <2>3, <2>4, <2>5
<1>. HIDE DEF a
<1>7. after \in [Ids -> Accounts] /\ after[id] = a /\ \A i \in Ids : i # id => after[i] = acc[i]
  BY <1>2, <1>6
<1>8. QED
  BY <1>2, <1>7 DEF after, a

\* The entry whose group the segment s has joined, with what it weighs then.
entryJoined(e, s) == [e EXCEPT !.group = joinedBy(e, s)]
entryWeighed(e, s) == [entryJoined(e, s) EXCEPT !.weight = retainedOctets(joinedBy(e, s))]

storeJoined(st, e, s) == amend(st, e.key, joinedBy(e, s))
storeWeighed(st, e, s) == reweigh(storeJoined(st, e, s), e.key, retainedOctets(joinedBy(e, s)))

\* What joining does to the store.
LEMMA StoreJoined ==
    ASSUME NEW st, NEW acc, NEW n, Books(st, acc, n), NEW e, NEW s \in Segments, Finds(st, e, s)
    PROVE  /\ IsStore(storeJoined(st, e, s), Keys, Groups)
           /\ held(storeJoined(st, e, s)) = (held(st) \ {e}) \cup {entryJoined(e, s)}
           /\ entryJoined(e, s).key = e.key /\ entryJoined(e, s) \notin held(st) \ {e}
           /\ Len(storeJoined(st, e, s).entries) = Len(st.entries)
           /\ storeJoined(st, e, s).total = st.total
<1>. DEFINE g == joinedBy(e, s)
<1>1. IsStore(st, Keys, Groups) /\ e \in held(st) /\ e \in EntriesOf(Keys, Groups)
  BY BooksFacts DEF Finds
<1>2. g \in Groups
  BY JoinedFacts
<1>. HIDE DEF g
<1>3. /\ IsStore(amend(st, e.key, g), Keys, Groups)
      /\ held(amend(st, e.key, g)) = (held(st) \ {e}) \cup {[e EXCEPT !.group = g]}
      /\ Len(amend(st, e.key, g).entries) = Len(st.entries) /\ amend(st, e.key, g).total = st.total
  BY <1>1, <1>2, AmendFacts
<1>4. entryJoined(e, s).key = e.key
  BY <1>1 DEF EntriesOf, entryJoined
<1>5. entryJoined(e, s) \notin held(st) \ {e}
  BY <1>1, <1>4, HeldOnce
<1>6. QED
  BY <1>3, <1>4, <1>5 DEF g, storeJoined, entryJoined

\* And weighing it anew.
LEMMA StoreWeighed ==
    ASSUME NEW st, NEW acc, NEW n, Books(st, acc, n), NEW e, NEW s \in Segments, Finds(st, e, s)
    PROVE  /\ IsStore(storeWeighed(st, e, s), Keys, Groups)
           /\ held(storeWeighed(st, e, s)) = (held(st) \ {e}) \cup {entryWeighed(e, s)}
           /\ entryWeighed(e, s).key = e.key /\ entryWeighed(e, s).group = joinedBy(e, s)
           /\ entryWeighed(e, s).weight = retainedOctets(joinedBy(e, s))
           /\ Len(storeWeighed(st, e, s).entries) = Len(st.entries)
           /\ joinedBy(e, s) = e.group => storeWeighed(st, e, s).total = st.total
<1>. DEFINE w == retainedOctets(joinedBy(e, s))
            d == entryJoined(e, s)
            mid == storeJoined(st, e, s)
<1>1. /\ IsStore(st, Keys, Groups) /\ e \in held(st) /\ e \in EntriesOf(Keys, Groups)
      /\ Kept(e, acc[idOf(e)]) /\ e.group \in Groups
  BY BooksFacts DEF Finds
<1>2. joinedBy(e, s) \in Groups /\ w \in Nat
  BY JoinedFacts, GroupFacts
<1>3. /\ IsStore(mid, Keys, Groups) /\ held(mid) = (held(st) \ {e}) \cup {d} /\ d.key = e.key
      /\ d \notin held(st) \ {e} /\ Len(mid.entries) = Len(st.entries) /\ mid.total = st.total
  BY StoreJoined
<1>. HIDE DEF mid, w
<1>4. d = [e EXCEPT !.group = joinedBy(e, s)]
  BY DEF entryJoined
<1>5. /\ d.weight = e.weight
      /\ [d EXCEPT !.weight = w].key = e.key /\ [d EXCEPT !.weight = w].group = joinedBy(e, s)
      /\ [d EXCEPT !.weight = w].weight = w
  BY <1>1, <1>4 DEF EntriesOf
<1>. HIDE DEF d
<1>6. /\ IsStore(reweigh(mid, d.key, w), Keys, Groups)
      /\ held(reweigh(mid, d.key, w)) = (held(mid) \ {d}) \cup {[d EXCEPT !.weight = w]}
      /\ Len(reweigh(mid, d.key, w).entries) = Len(mid.entries)
      /\ reweigh(mid, d.key, w).total = mid.total + w - d.weight
  <2>1. d \in held(mid)
    BY <1>3
  <2>2. QED
    BY <1>2, <1>3, <2>1, ReweighFacts
<1>7. held(mid) \ {d} = held(st) \ {e}
  BY <1>3
<1>8. ASSUME joinedBy(e, s) = e.group PROVE mid.total + w - d.weight = st.total
  <2>1. w = e.weight /\ e.weight \in Nat /\ st.total \in Nat
    BY <1>1, <1>8 DEF Kept, w, EntriesOf, IsStore
  <2>2. QED
    BY <1>3, <1>5, <2>1
<1>9. storeWeighed(st, e, s) = reweigh(mid, d.key, w) /\ entryWeighed(e, s) = [d EXCEPT !.weight = w]
  BY <1>3 DEF storeWeighed, entryWeighed, mid, w, d
<1>10. QED
  BY <1>3, <1>5, <1>6, <1>7, <1>8, <1>9 DEF w

\* A segment that does not complete its group leaves books that say it was answered.
LEMMA Joining ==
    ASSUME NEW st, NEW acc, NEW n, Books(st, acc, n), NEW e, NEW s \in Segments, Finds(st, e, s),
           Cardinality(DOMAIN joinedBy(e, s).parts) < s.total
    PROVE  Books(storeWeighed(st, e, s), answered(acc, idOf(e), s), n)
<1>. DEFINE x == storeWeighed(st, e, s)
            d == entryWeighed(e, s)
            g == joinedBy(e, s)
            id == idOf(e)
            after == answered(acc, id, s)
<1>1. /\ IsStore(st, Keys, Groups) /\ acc \in [Ids -> Accounts] /\ OneToAnId(held(st))
      /\ n \in 0 .. MaxIds /\ n \in Nat /\ e \in held(st)
      /\ \A f \in held(st) : idOf(f) \in Ids /\ idOf(f) <= n /\ Kept(f, acc[idOf(f)])
  BY BooksFacts DEF Finds
<1>2. /\ IsStore(x, Keys, Groups) /\ held(x) = (held(st) \ {e}) \cup {d}
      /\ d.key = e.key /\ d.group = g /\ d.weight = retainedOctets(g)
  BY StoreWeighed
<1>3. /\ g.smsId = id /\ g.total = s.total /\ DOMAIN g.parts = DOMAIN e.group.parts \cup {s.part}
      /\ g.parts[s.part] = s.octets /\ DOMAIN g.parts \subseteq 1 .. s.total
      /\ \A p \in DOMAIN e.group.parts : p # s.part => g.parts[p] = e.group.parts[p]
  BY JoinedFacts
<1>4. /\ after \in [Ids -> Accounts] /\ \A i \in Ids : i # id => after[i] = acc[i]
      /\ after[id].answered = acc[id].answered \cup {s.part} /\ after[id].total = s.total
      /\ after[id].fate = acc[id].fate /\ after[id].refused = acc[id].refused
  BY <1>1, AnsweredFacts
<1>. HIDE DEF x, d, g, after
<1>5. idOf(d) = id
  BY <1>2, <1>3 DEF idOf
<1>6. Kept(e, acc[id]) /\ id \in Ids /\ id <= n
  BY <1>1
<1>7. Kept(d, after[id])
  <2>1. after[id].fate = "held" /\ after[id].answered = DOMAIN g.parts /\ after[id].refused = {}
    BY <1>3, <1>4, <1>6 DEF Kept
  <2>2. Cardinality(DOMAIN g.parts) < g.total
    BY <1>3 DEF g
  <2>3. QED
    BY <1>2, <1>3, <1>4, <2>1, <2>2 DEF Kept
<1>8. \A f \in held(st) \ {e} : idOf(f) # id
  BY <1>1 DEF OneToAnId
<1>9. \A f \in held(x) : idOf(f) <= n /\ Kept(f, after[idOf(f)])
  BY <1>1, <1>2, <1>4, <1>5, <1>6, <1>7, <1>8
<1>10. \A f, h \in held(x) : idOf(f) = idOf(h) => f = h
  BY <1>1, <1>2, <1>5, <1>8 DEF OneToAnId
<1>11. ASSUME NEW i \in Ids, \A f \in held(x) : idOf(f) # i PROVE Settled(after[i])
  <2>1. i # id /\ \A f \in held(st) : idOf(f) # i
    BY <1>2, <1>5, <1>11
  <2>2. QED
    BY <1>4, <2>1 DEF Books
<1>12. ASSUME NEW i \in Ids, i > n PROVE Unused(after[i])
  <2>1. i # id
    BY <1>1, <1>6, <1>12 DEF Ids
  <2>2. QED
    BY <1>4, <1>12, <2>1 DEF Books
<1>13. Books(x, after, n)
  BY <1>1, <1>2, <1>4, <1>9, <1>10, <1>11, <1>12 DEF Books
<1>14. QED
  BY <1>13 DEF x, after

\* A group that is full has all the parts there are.
LEMMA FullIsWhole ==
    ASSUME NEW total \in Nat, NEW P \in SUBSET (1 .. total), ~(Cardinality(P) < total)
    PROVE  P = 1 .. total
<1>1. IsFiniteSet(1 .. total) /\ Cardinality(1 .. total) = total
  <2>1. Cardinality(1 .. total) = IF 1 > total THEN 0 ELSE total - 1 + 1
    BY FS_Interval
  <2>2. QED
    BY <2>1, FS_Interval
<1>2. IsFiniteSet(P) /\ Cardinality(P) <= total /\ (Cardinality(1 .. total) = Cardinality(P) => 1 .. total = P)
  BY <1>1, FS_Subset
<1>3. Cardinality(P) \in Nat
  BY <1>2, FS_CardinalityType
<1>4. QED
  BY <1>1, <1>2, <1>3

\* One that does is out of the store, and its account is of a whole message.
LEMMA Completing ==
    ASSUME NEW st, NEW acc, NEW n, Books(st, acc, n), NEW e, NEW s \in Segments, Finds(st, e, s),
           ~(Cardinality(DOMAIN joinedBy(e, s).parts) < s.total)
    PROVE  /\ Books(delete(storeJoined(st, e, s), s.key),
                    [answered(acc, idOf(e), s) EXCEPT ![idOf(e)].fate = "whole"], n)
           /\ \E gone \in SUBSET held(storeJoined(st, e, s)) :
                delete(storeJoined(st, e, s), s.key) = take(storeJoined(st, e, s), gone).left
<1>. DEFINE mid == storeJoined(st, e, s)
            d == entryJoined(e, s)
            left == delete(mid, s.key)
            g == joinedBy(e, s)
            id == idOf(e)
            told == answered(acc, id, s)
            after == [told EXCEPT ![id].fate = "whole"]
<1>1. /\ IsStore(st, Keys, Groups) /\ acc \in [Ids -> Accounts] /\ OneToAnId(held(st))
      /\ n \in Nat /\ e \in held(st) /\ id \in Ids /\ id <= n /\ Kept(e, acc[id])
  BY BooksFacts DEF Finds
<1>2. /\ IsStore(mid, Keys, Groups) /\ held(mid) = (held(st) \ {e}) \cup {d}
      /\ d.key = s.key /\ d \notin held(st) \ {e}
  BY StoreJoined DEF Finds
<1>. HIDE DEF mid, d
<1>3. left = take(mid, {d}).left
  <2>1. d \in held(mid)
    BY <1>2
  <2>2. under(mid, d.key) = {d}
    BY <1>2, <2>1, EntryIsHeld
  <2>3. QED
    BY <1>2, <2>2 DEF delete
<1>4. IsStore(left, Keys, Groups) /\ held(left) = held(st) \ {e}
  <2>1. {d} \subseteq held(mid)
    BY <1>2
  <2>2. IsStore(take(mid, {d}).left, Keys, Groups) /\ held(take(mid, {d}).left) = held(mid) \ {d}
    BY <1>2, <2>1, TakeFacts
  <2>3. QED
    BY <1>2, <1>3, <2>2
<1>. HIDE DEF left
<1>5. DOMAIN g.parts = 1 .. s.total
  <2>1. s.total \in Nat /\ DOMAIN g.parts \in SUBSET (1 .. s.total)
    BY JoinedFacts, SegmentsAssumption
  <2>2. ~(Cardinality(DOMAIN g.parts) < s.total)
    OBVIOUS
  <2>. HIDE DEF g
  <2>3. QED
    BY <2>1, <2>2, FullIsWhole
<1>6. DOMAIN g.parts = DOMAIN e.group.parts \cup {s.part}
  BY JoinedFacts
<1>7. /\ told \in [Ids -> Accounts] /\ \A i \in Ids : i # id => told[i] = acc[i]
      /\ told[id].answered = acc[id].answered \cup {s.part} /\ told[id].total = s.total
  BY <1>1, AnsweredFacts
<1>. HIDE DEF told, g
<1>8. after = [told EXCEPT ![id] = [told[id] EXCEPT !.fate = "whole"]]
  OBVIOUS
<1>9. told[id] \in Accounts
  BY <1>1, <1>7
<1>10. /\ [told[id] EXCEPT !.fate = "whole"] \in Accounts
       /\ [told[id] EXCEPT !.fate = "whole"].fate = "whole"
       /\ [told[id] EXCEPT !.fate = "whole"].answered = told[id].answered
       /\ [told[id] EXCEPT !.fate = "whole"].total = told[id].total
  BY <1>9 DEF Accounts
<1>. HIDE DEF after
<1>11. /\ after \in [Ids -> Accounts] /\ after[id].fate = "whole" /\ after[id].answered = 1 .. after[id].total
       /\ \A i \in Ids : i # id => after[i] = acc[i]
  <2>1. after[id] = [told[id] EXCEPT !.fate = "whole"] /\ after \in [Ids -> Accounts]
        /\ \A i \in Ids : i # id => after[i] = told[i]
    BY <1>1, <1>7, <1>8, <1>10
  <2>2. told[id].answered = 1 .. s.total
    BY <1>1, <1>5, <1>6, <1>7 DEF Kept
  <2>3. QED
    BY <1>7, <1>10, <2>1, <2>2
<1>12. Settled(after[id])
  BY <1>11 DEF Settled
<1>13. \A f \in held(left) : idOf(f) # id
  BY <1>1, <1>4 DEF OneToAnId
<1>14. Books(left, after, n)
  <2>1. held(left) \subseteq held(st)
    BY <1>4
  <2>2. \A i \in Ids :
               \/ after[i] = acc[i] /\ \A f \in held(st) : idOf(f) = i => f \in held(left)
               \/ i <= n /\ Settled(after[i]) /\ \A f \in held(left) : idOf(f) # i
    BY <1>1, <1>4, <1>11, <1>12, <1>13
  <2>3. QED
    BY <1>4, <1>11, <2>1, <2>2, Restated
<1>15. \E gone \in SUBSET held(mid) : left = take(mid, gone).left
  BY <1>2, <1>3
<1>16. QED
  BY <1>14, <1>15 DEF left, after, mid, told

\* What goes over the octet cap is told of, and of the segment that overran it
\* the peer keeps the one it was refused.
LEMMA Trimming ==
    ASSUME NEW st, NEW acc, NEW n, Books(st, acc, n), NEW e, NEW s \in Segments, Finds(st, e, s),
           Cardinality(DOMAIN joinedBy(e, s).parts) < s.total, st.total <= MaxOctets,
           NEW trimmed,
           trimmed = weigh(storeJoined(st, e, s), s.key, retainedOctets(joinedBy(e, s)), MaxOctets)
    PROVE  /\ has(trimmed.left, s.key) =>
                Books(trimmed.left, answered(lost(acc, trimmed.taken, 0), idOf(e), s), n)
           /\ ~has(trimmed.left, s.key) =>
                Books(trimmed.left, refusing(lost(acc, trimmed.taken, idOf(e)), idOf(e), s), n)
           /\ trimmed.left.total <= MaxOctets
           /\ Len(trimmed.left.entries) <= Len(st.entries)
<1>. DEFINE mid == storeJoined(st, e, s)
            x == storeWeighed(st, e, s)
            g == joinedBy(e, s)
            w == retainedOctets(g)
            d == entryWeighed(e, s)
            id == idOf(e)
            told == answered(acc, id, s)
            left == trimmed.left
            taken == trimmed.taken
<1>1. /\ IsStore(st, Keys, Groups) /\ acc \in [Ids -> Accounts] /\ e \in held(st)
      /\ id \in Ids /\ id <= n /\ n \in Nat /\ Kept(e, acc[id]) /\ e.group \in Groups
  BY BooksFacts DEF Finds
<1>2. /\ g \in Groups /\ g.smsId = id /\ DOMAIN g.parts = DOMAIN e.group.parts \cup {s.part}
  BY JoinedFacts
<1>3. /\ IsStore(x, Keys, Groups) /\ held(x) = (held(st) \ {e}) \cup {d}
      /\ d.key = s.key /\ d.group = g /\ Len(x.entries) = Len(st.entries)
      /\ g = e.group => x.total = st.total
  BY StoreWeighed DEF Finds
<1>4. PICK gone \in SUBSET held(x) :
            trimmed = take(x, gone) /\ trimmed.left.total <= MaxOctets /\ (x.total <= MaxOctets => gone = {})
  <2>. DEFINE f == entryJoined(e, s)
  <2>1. IsStore(mid, Keys, Groups) /\ f \in held(mid) /\ f.key = s.key /\ f.key = e.key
    BY StoreJoined DEF Finds
  <2>2. w \in Nat /\ MaxOctets \in Nat
    BY <1>2, GroupFacts, OctetsAssumption
  <2>3. x = reweigh(mid, f.key, w) /\ trimmed = weigh(mid, f.key, w, MaxOctets)
    BY <2>1 DEF storeWeighed
  <2>. HIDE DEF f, mid, w, x
  <2>4. \E gone \in SUBSET held(reweigh(mid, f.key, w)) :
               /\ weigh(mid, f.key, w, MaxOctets) = take(reweigh(mid, f.key, w), gone)
               /\ weigh(mid, f.key, w, MaxOctets).left.total <= MaxOctets
               /\ reweigh(mid, f.key, w).total <= MaxOctets => gone = {}
    BY <2>1, <2>2, WeighFacts
  <2>5. QED
    BY <2>3, <2>4
<1>. HIDE DEF x, d, g, w, mid
<1>5. Books(x, told, n)
  BY Joining DEF x, g
<1>6. /\ told \in [Ids -> Accounts] /\ told[id] = withAnswer(acc[id], s)
      /\ \A i \in Ids : i # id => told[i] = acc[i]
  BY <1>1, AnsweredFacts
<1>. HIDE DEF told
<1>7. /\ IsStore(left, Keys, Groups) /\ held(left) = held(x) \ gone
      /\ taken \in Seq(EntriesOf(Keys, Groups)) /\ ToSet(taken) = gone /\ AddsUp(x, gone)
  BY <1>3, <1>4, TakeFacts
<1>8. OneToAnId(held(x)) /\ \A f \in held(x) : idOf(f) \in Ids /\ idOf(f) # 0
  BY <1>5, BooksFacts DEF Ids
<1>9. idOf(d) = id /\ d \in held(x) /\ \A f \in held(x) : f.key = s.key <=> f = d
  <2>1. \A f \in held(x) : f.key = d.key => f = d
    BY <1>3, HeldOnce
  <2>2. QED
    BY <1>2, <1>3, <2>1 DEF idOf
<1>10. has(left, s.key) <=> d \notin gone
  <2>1. has(left, s.key) <=> \E f \in held(left) : f.key = s.key
    BY <1>7, HeldOnce
  <2>2. QED
    BY <1>7, <1>9, <2>1
<1>11. Books(left, lost(told, taken, 0), n)
  BY <1>4, <1>5, Taking
<1>12. OneToAnId(gone) /\ \A f \in gone : idOf(f) \in Ids /\ idOf(f) # 0
  BY <1>8 DEF OneToAnId
<1>13. Told(told, lost(told, taken, 0), gone, 0)
  BY <1>6, <1>7, <1>12, LostAccounts
<1>. HIDE DEF left, taken
<1>14. ASSUME d \notin gone PROVE Books(left, answered(lost(acc, taken, 0), id, s), n)
  <2>. DEFINE gave == lost(acc, taken, 0)
              after == answered(gave, id, s)
  <2>1. gave \in [Ids -> Accounts]
    BY <1>1, <1>7, <1>12, LostType
  <2>2. Told(acc, gave, gone, 0)
    BY <1>1, <1>7, <1>12, LostAccounts
  <2>. HIDE DEF gave
  <2>3. /\ after \in [Ids -> Accounts] /\ after[id] = withAnswer(gave[id], s)
        /\ \A i \in Ids : i # id => after[i] = gave[i]
    BY <1>1, <2>1, AnsweredFacts
  <2>. HIDE DEF after
  <2>4. \A f \in gone : idOf(f) # id
    BY <1>8, <1>9, <1>14 DEF OneToAnId
  <2>5. ASSUME NEW i \in Ids PROVE after[i] = lost(told, taken, 0)[i]
    <3>1. CASE i = id
      <4>1. gave[id] = acc[id] /\ lost(told, taken, 0)[id] = told[id]
        BY <1>1, <1>13, <2>2, <2>4 DEF Told
      <4>2. QED
        BY <1>6, <2>3, <3>1, <4>1
    <3>2. CASE i # id /\ \A f \in gone : idOf(f) # i
      BY <1>6, <1>13, <2>2, <2>3, <3>2 DEF Told
    <3>3. ASSUME i # id, NEW f \in gone, idOf(f) = i PROVE after[i] = lost(told, taken, 0)[i]
      <4>1. gave[i] = without(acc[i], f, 0) /\ lost(told, taken, 0)[i] = without(told[i], f, 0)
        BY <1>13, <2>2, <3>3 DEF Told
      <4>2. QED
        BY <1>6, <2>3, <3>3, <4>1
    <3>4. QED
      BY <3>1, <3>2, <3>3
  <2>6. Books(left, after, n)
    BY <1>7, <1>11, <2>3, <2>5, Restated DEF left
  <2>7. QED
    BY <2>6 DEF after, gave
<1>15. ASSUME d \in gone PROVE Books(left, refusing(lost(acc, taken, id), id, s), n)
  <2>. DEFINE gave == lost(acc, taken, id)
              after == refusing(gave, id, s)
  <2>1. \A f \in gone : idOf(f) = id => f = d
    BY <1>8, <1>9, <1>15 DEF OneToAnId
  <2>2. DOMAIN d.group.parts # {}
    BY <1>2, <1>3
  <2>3. gave \in [Ids -> Accounts]
    BY <1>1, <1>7, <1>12, <2>1, <2>2, LostType
  <2>4. Told(acc, gave, gone, id)
    BY <1>1, <1>7, <1>12, LostAccounts
  <2>. HIDE DEF gave
  <2>5. /\ after \in [Ids -> Accounts] /\ after[id] = [gave[id] EXCEPT !.refused = {s.part}]
         /\ \A i \in Ids : i # id => after[i] = gave[i]
    <3>1. gave[id] \in Accounts /\ {s.part} \in SUBSET PartNumbers
      BY <1>1, <2>3 DEF PartNumbers
    <3>. DEFINE a == [gave[id] EXCEPT !.refused = {s.part}]
    <3>2. a \in Accounts
      BY <3>1 DEF Accounts
    <3>3. after = [gave EXCEPT ![id] = a]
      BY DEF refusing
    <3>. HIDE DEF a, after
    <3>4. after \in [Ids -> Accounts] /\ after[id] = a /\ \A i \in Ids : i # id => after[i] = gave[i]
      BY <1>1, <2>3, <3>2, <3>3
    <3>5. QED
      BY <3>4 DEF a
  <2>. HIDE DEF after
  <2>6. ASSUME NEW i \in Ids, i # id PROVE after[i] = lost(told, taken, 0)[i]
    <3>1. CASE \A f \in gone : idOf(f) # i
      BY <1>6, <1>13, <2>4, <2>6, <2>5, <3>1 DEF Told
    <3>2. ASSUME NEW f \in gone, idOf(f) = i PROVE after[i] = lost(told, taken, 0)[i]
      <4>1. after[i] = without(acc[i], f, id) /\ lost(told, taken, 0)[i] = without(told[i], f, 0)
        BY <1>13, <2>4, <2>6, <2>5, <3>2 DEF Told
      <4>2. without(acc[i], f, id) = without(acc[i], f, 0)
        BY <1>12, <2>6, <3>2 DEF without
      <4>3. QED
        BY <1>6, <2>6, <4>1, <4>2
    <3>3. QED
      BY <3>1, <3>2
  <2>7. Settled(after[id])
    <3>1. gave[id] = without(acc[id], d, id) /\ acc[id] \in Accounts /\ gave[id] \in Accounts
      BY <1>1, <1>9, <1>15, <2>3, <2>4 DEF Told
    <3>2. /\ gave[id].fate = "lost" /\ gave[id].answered = acc[id].answered
          /\ gave[id].told = Cardinality(DOMAIN g.parts) - 1
      BY <1>3, <1>9, <3>1 DEF without, Accounts
    <3>3. /\ after[id].fate = "lost" /\ after[id].answered = acc[id].answered
          /\ after[id].told = Cardinality(DOMAIN g.parts) - 1 /\ after[id].refused = {s.part}
      BY <2>5, <3>1, <3>2 DEF Accounts
    <3>. DEFINE P == DOMAIN e.group.parts
                R == P \ {s.part}
    <3>4. IsFiniteSet(P)
      BY <1>1, GroupFacts
    <3>5. acc[id].answered = P /\ DOMAIN g.parts = R \cup {s.part}
      BY <1>1, <1>2 DEF Kept
    <3>6. IsFiniteSet(R) /\ Cardinality(R) \in Nat /\ s.part \notin R
      BY <3>4, FS_Subset, FS_CardinalityType
    <3>. HIDE DEF P
    <3>7. after[id].answered \ after[id].refused = R
      BY <3>3, <3>5
    <3>. HIDE DEF R
    <3>8. Cardinality(R \cup {s.part}) = Cardinality(R) + 1
      BY <3>6, FS_AddElement
    <3>9. after[id].told = Cardinality(R)
      BY <3>3, <3>5, <3>6, <3>8
    <3>10. QED
      BY <3>3, <3>7, <3>9 DEF Settled
  <2>8. \A f \in held(left) : idOf(f) # id
    BY <1>7, <1>8, <1>9, <1>15 DEF OneToAnId, left
  <2>9. \A i \in Ids :
               \/ after[i] = lost(told, taken, 0)[i] /\ \A f \in held(left) : idOf(f) = i => f \in held(left)
               \/ i <= n /\ Settled(after[i]) /\ \A f \in held(left) : idOf(f) # i
    BY <1>1, <2>6, <2>7, <2>8
  <2>10. Books(left, after, n)
    BY <1>7, <1>11, <2>9, <2>5, Restated DEF left
  <2>11. QED
    BY <2>10 DEF after, gave
<1>16. Len(left.entries) <= Len(st.entries)
  <2>1. Len(left.entries) + Len(taken) = Len(st.entries)
    BY <1>3, <1>4, <1>7 DEF AddsUp, left, taken
  <2>2. Len(left.entries) \in Nat /\ Len(taken) \in Nat
    BY <1>7 DEF IsStore, left, taken
  <2>3. QED
    BY <2>1, <2>2
<1>17. QED
  BY <1>4, <1>10, <1>14, <1>15, <1>16 DEF left, taken

-----------------------------------------------------------------------------
(* The steps.                                                              *)

\* What is taken and told of leaves the store within its bounds.
LEMMA TakeSound ==
    ASSUME NEW st, NEW acc, NEW n, Sound(st, acc, n), NEW gone, gone \subseteq held(st)
    PROVE  /\ Sound(take(st, gone).left, lost(acc, take(st, gone).taken, 0), n)
           /\ take(st, gone).taken \in Seq(EntriesOf(Keys, Groups))
           /\ ToSet(take(st, gone).taken) = gone
           /\ held(take(st, gone).left) = held(st) \ gone
           /\ OneToAnId(held(st)) /\ acc \in [Ids -> Accounts]
<1>. DEFINE left == take(st, gone).left
            taken == take(st, gone).taken
<1>1. Books(st, acc, n) /\ st.total <= MaxOctets /\ Len(st.entries) <= MaxGroups
  BY DEF Sound
<1>2. IsStore(st, Keys, Groups) /\ OneToAnId(held(st)) /\ acc \in [Ids -> Accounts]
  BY <1>1, BooksFacts
<1>3. /\ IsStore(left, Keys, Groups) /\ taken \in Seq(EntriesOf(Keys, Groups))
      /\ ToSet(taken) = gone /\ held(left) = held(st) \ gone /\ AddsUp(st, gone)
  BY <1>2, TakeFacts
<1>4. Books(left, lost(acc, taken, 0), n)
  BY <1>1, Taking
<1>5. /\ Len(left.entries) + Len(taken) = Len(st.entries)
      /\ left.total = st.total - weightOf(taken)
  BY <1>3 DEF AddsUp
<1>. HIDE DEF left, taken
<1>6. weightOf(taken) \in Nat
  <2>1. \A e \in EntriesOf(Keys, Groups) : e.weight \in Nat
    BY DEF EntriesOf
  <2>2. QED
    BY <1>3, <2>1, WeightType
<1>7. st.total \in Nat /\ MaxOctets \in Nat /\ MaxGroups \in Nat /\ Len(left.entries) \in Nat /\ Len(taken) \in Nat
  BY <1>2, <1>3, OctetsAssumption, StoreAssumption DEF IsStore
<1>8. left.total <= MaxOctets
  BY <1>1, <1>5, <1>6, <1>7
<1>9. Len(left.entries) <= MaxGroups
  BY <1>1, <1>5, <1>7
<1>10. Sound(left, lost(acc, taken, 0), n)
  BY <1>4, <1>8, <1>9 DEF Sound
<1>11. QED
  BY <1>2, <1>3, <1>10 DEF left, taken

\* To lose nothing is to tell nothing.
LEMMA LostNothing ==
    ASSUME NEW acc \in [Ids -> Accounts]
    PROVE  lost(acc, <<>>, 0) = acc
<1>1. idsOf(<<>>) = {}
  BY DEF idsOf
<1>2. lost(acc, <<>>, 0) = [id \in Ids |-> acc[id]]
  BY <1>1 DEF lost
<1>3. QED
  BY <1>2

\* A segment that has no group opens one, which it finds: at the cost of the
\* oldest one, told of, when the store is full.
LEMMA OpenFacts ==
    ASSUME NEW st, NEW acc, Sound(st, acc, issued), issued < MaxIds,
           NEW s \in Segments, s.part \in 1 .. s.total, s.total >= 1, ~has(st, s.key)
    PROVE  /\ \E e : Finds(open(st, s).left, e, s)
           /\ Sound(open(st, s).left, lost(acc, open(st, s).taken, 0), issued + 1)
           /\ open(st, s).taken \in Seq(EntriesOf(Keys, Groups)) /\ ToSet(open(st, s).taken) \subseteq held(st)
<1>. DEFINE room == IF full(st) THEN takeOldest(st) ELSE [left |-> st, taken |-> <<>>]
            group == [smsId |-> issued + 1, total |-> s.total, parts |-> <<>>]
            after == set(room.left, s.key, group)
            new == [key |-> s.key, left |-> Timeout, weight |-> 0, group |-> group]
<1>1. open(st, s) = [left |-> after, taken |-> room.taken]
  BY DEF open
<1>2. /\ Books(st, acc, issued) /\ IsStore(st, Keys, Groups) /\ acc \in [Ids -> Accounts]
      /\ st.total <= MaxOctets /\ Len(st.entries) <= MaxGroups
      /\ Len(st.entries) \in Nat /\ MaxGroups \in Nat /\ issued \in Nat
  <2>1. Books(st, acc, issued) /\ st.total <= MaxOctets /\ Len(st.entries) <= MaxGroups
    BY DEF Sound
  <2>2. IsStore(st, Keys, Groups) /\ acc \in [Ids -> Accounts] /\ issued \in Nat
    BY <2>1, BooksFacts
  <2>3. QED
    BY <2>1, <2>2, StoreAssumption DEF IsStore
<1>3. /\ Sound(room.left, lost(acc, room.taken, 0), issued) /\ Len(room.left.entries) + 1 <= MaxGroups
      /\ held(room.left) \subseteq held(st)
      /\ room.taken \in Seq(EntriesOf(Keys, Groups)) /\ ToSet(room.taken) \subseteq held(st)
  <2>1. CASE full(st)
    <3>1. PICK gone \in SUBSET held(st) :
              /\ takeOldest(st) = take(st, gone)
              /\ full(st) => Len(takeOldest(st).left.entries) = Len(st.entries) - 1
      BY <1>2, TakeOldestFacts
    <3>2. room = take(st, gone) /\ Len(room.left.entries) = Len(st.entries) - 1
      BY <2>1, <3>1
    <3>. HIDE DEF room
    <3>3. /\ Sound(take(st, gone).left, lost(acc, take(st, gone).taken, 0), issued)
          /\ take(st, gone).taken \in Seq(EntriesOf(Keys, Groups))
          /\ ToSet(take(st, gone).taken) = gone
          /\ held(take(st, gone).left) = held(st) \ gone
      BY TakeSound
    <3>4. Len(room.left.entries) + 1 <= MaxGroups
      BY <1>2, <3>2
    <3>5. QED
      BY <3>2, <3>3, <3>4
  <2>2. CASE ~full(st)
    <3>1. room.left = st /\ room.taken = <<>>
      BY <2>2
    <3>. HIDE DEF room
    <3>2. Len(st.entries) + 1 <= MaxGroups
      BY <1>2, <2>2 DEF full
    <3>3. lost(acc, <<>>, 0) = acc
      BY <1>2, LostNothing
    <3>4. <<>> \in Seq(EntriesOf(Keys, Groups)) /\ ToSet(<<>>) = {}
      BY DEF ToSet
    <3>5. QED
      BY <3>1, <3>2, <3>3, <3>4
  <2>3. QED
    BY <2>1, <2>2
<1>. HIDE DEF room
<1>4. Books(room.left, lost(acc, room.taken, 0), issued) /\ IsStore(room.left, Keys, Groups)
      /\ room.left.total <= MaxOctets
  <2>1. Books(room.left, lost(acc, room.taken, 0), issued) /\ room.left.total <= MaxOctets
    BY <1>3 DEF Sound
  <2>2. QED
    BY <2>1, BooksFacts
<1>5. ~has(room.left, s.key)
  <2>1. \A e \in held(st) : e.key # s.key
    BY <1>2, HeldOnce
  <2>2. QED
    BY <1>3, <1>4, <2>1, HeldOnce
<1>6. /\ Books(after, lost(acc, room.taken, 0), issued + 1) /\ held(after) = held(room.left) \cup {new}
      /\ Len(after.entries) = Len(room.left.entries) + 1 /\ after.total = room.left.total
  <2>. HIDE DEF after
  <2>1. group = [smsId |-> issued + 1, total |-> s.total, parts |-> <<>>] /\ after = set(room.left, s.key, group)
    BY DEF after
  <2>. HIDE DEF group
  <2>2. QED
    BY <1>4, <1>5, <2>1, Opening
<1>7. Sound(after, lost(acc, room.taken, 0), issued + 1)
  <2>. HIDE DEF after
  <2>1. QED
    BY <1>3, <1>4, <1>6 DEF Sound
<1>8. Finds(after, new, s)
  <2>1. new.key = s.key /\ new.group.total = s.total
    OBVIOUS
  <2>. HIDE DEF new, after
  <2>2. QED
    BY <1>6, <2>1 DEF Finds
<1>. HIDE DEF new, after
<1>9. open(st, s).left = after /\ open(st, s).taken = room.taken
  BY <1>1
<1>10. QED
  BY <1>3, <1>7, <1>8, <1>9

\* A segment that has its group: it joins it, and completes it or is weighed.
LEMMA Settling ==
    ASSUME NEW st, NEW acc, NEW n, Sound(st, acc, n), NEW e, NEW s \in Segments, Finds(st, e, s),
           NEW store, store = amend(st, s.key, Joined(st, s)),
           IF Cardinality(DOMAIN Joined(st, s).parts) < Joined(st, s).total
           THEN Trim(store, s, acc) ELSE Complete(store, s, acc)
    PROVE  Sound(groups', account', n)
<1>. DEFINE g == joinedBy(e, s)
            id == idOf(e)
<1>1. /\ Books(st, acc, n) /\ IsStore(st, Keys, Groups)
      /\ st.total <= MaxOctets /\ Len(st.entries) <= MaxGroups
      /\ st.total \in Nat /\ Len(st.entries) \in Nat /\ MaxOctets \in Nat /\ MaxGroups \in Nat
  <2>1. Books(st, acc, n) /\ st.total <= MaxOctets /\ Len(st.entries) <= MaxGroups
    BY DEF Sound
  <2>2. IsStore(st, Keys, Groups)
    BY <2>1, BooksFacts
  <2>3. QED
    BY <2>1, <2>2, OctetsAssumption, StoreAssumption DEF IsStore
<1>2. Joined(st, s) = g /\ g.smsId = id /\ g.total = s.total
  BY <1>1, JoinedFacts
<1>3. store = storeJoined(st, e, s)
  BY <1>2 DEF storeJoined, Finds
<1>4. get(store, s.key) = g
  <2>1. /\ IsStore(store, Keys, Groups) /\ entryJoined(e, s) \in held(store)
        /\ entryJoined(e, s).key = s.key
    BY <1>1, <1>3, StoreJoined DEF Finds
  <2>2. get(store, s.key) = entryJoined(e, s).group
    BY <2>1, EntryIsHeld
  <2>3. e \in EntriesOf(Keys, Groups)
    BY <1>1, BooksFacts DEF Finds
  <2>4. entryJoined(e, s).group = g
    BY <2>3 DEF entryJoined, EntriesOf
  <2>5. QED
    BY <2>2, <2>4
<1>. HIDE DEF g, id
<1>5. CASE Cardinality(DOMAIN g.parts) < s.total
  <2>. DEFINE trimmed == weigh(store, s.key, retainedOctets(g), MaxOctets)
  <2>1. Trim(store, s, acc)
    BY <1>2, <1>5
  <2>2. /\ groups' = trimmed.left
        /\ account' = IF has(trimmed.left, s.key)
                      THEN answered(lost(acc, trimmed.taken, 0), id, s)
                      ELSE refusing(lost(acc, trimmed.taken, id), id, s)
    BY <1>2, <1>4, <2>1 DEF Trim, refusing
  <2>. DEFINE t == trimmed
  <2>3. t = weigh(storeJoined(st, e, s), s.key, retainedOctets(joinedBy(e, s)), MaxOctets)
    BY <1>3 DEF g
  <2>. HIDE DEF trimmed
  <2>4. /\ has(trimmed.left, s.key) =>
                Books(trimmed.left, answered(lost(acc, trimmed.taken, 0), idOf(e), s), n)
        /\ ~has(trimmed.left, s.key) =>
                Books(trimmed.left, refusing(lost(acc, trimmed.taken, idOf(e)), idOf(e), s), n)
        /\ trimmed.left.total <= MaxOctets
        /\ Len(trimmed.left.entries) <= Len(st.entries)
    BY <1>1, <1>5, <2>3, Trimming DEF g
  <2>5. Books(groups', account', n)
    BY <2>2, <2>4 DEF id
  <2>6. Len(trimmed.left.entries) \in Nat
    <3>1. IsStore(groups', Keys, Groups)
      BY <2>5, BooksFacts
    <3>2. QED
      BY <2>2, <3>1 DEF IsStore
  <2>7. Len(trimmed.left.entries) <= MaxGroups
    BY <1>1, <2>4, <2>6
  <2>8. QED
    BY <2>2, <2>4, <2>5, <2>7 DEF Sound
<1>6. CASE ~(Cardinality(DOMAIN g.parts) < s.total)
  <2>1. Complete(store, s, acc)
    BY <1>2, <1>6
  <2>2. /\ groups' = delete(store, s.key)
        /\ account' = [answered(acc, id, s) EXCEPT ![id].fate = "whole"]
    BY <1>2, <1>4, <2>1 DEF Complete
  <2>3. /\ Books(groups', account', n)
        /\ \E gone \in SUBSET held(store) : groups' = take(store, gone).left
    <3>1. /\ Books(delete(storeJoined(st, e, s), s.key),
                    [answered(acc, idOf(e), s) EXCEPT ![idOf(e)].fate = "whole"], n)
          /\ \E gone \in SUBSET held(storeJoined(st, e, s)) :
                delete(storeJoined(st, e, s), s.key) = take(storeJoined(st, e, s), gone).left
      <4>1. ~(Cardinality(DOMAIN joinedBy(e, s).parts) < s.total)
        BY <1>6 DEF g
      <4>2. Books(st, acc, n)
        BY <1>1
      <4>3. QED
        BY <4>1, <4>2, Completing, SMTT(30)
    <3>2. /\ groups' = delete(storeJoined(st, e, s), s.key)
          /\ account' = [answered(acc, idOf(e), s) EXCEPT ![idOf(e)].fate = "whole"]
      BY <1>3, <2>2 DEF id
    <3>3. QED
      BY <1>3, <3>1, <3>2
  <2>4. PICK gone \in SUBSET held(store) : groups' = take(store, gone).left
    BY <2>3
  <2>. DEFINE taken == take(store, gone).taken
  <2>5. /\ IsStore(store, Keys, Groups) /\ store.total = st.total
        /\ Len(store.entries) = Len(st.entries)
    BY <1>1, <1>3, StoreJoined
  <2>6. /\ IsStore(take(store, gone).left, Keys, Groups)
        /\ taken \in Seq(EntriesOf(Keys, Groups)) /\ AddsUp(store, gone)
    BY <2>5, TakeFacts
  <2>7. weightOf(taken) \in Nat
    <3>1. \A x \in EntriesOf(Keys, Groups) : x.weight \in Nat
      BY DEF EntriesOf
    <3>. HIDE DEF taken
    <3>2. QED
      BY <2>6, <3>1, WeightType
  <2>8. Len(groups'.entries) + Len(taken) = Len(st.entries) /\ groups'.total = st.total - weightOf(taken)
    BY <2>4, <2>5, <2>6 DEF AddsUp
  <2>9. Len(groups'.entries) \in Nat /\ Len(taken) \in Nat
    BY <2>4, <2>6 DEF IsStore
  <2>. HIDE DEF taken
  <2>10. groups'.total <= MaxOctets /\ Len(groups'.entries) <= MaxGroups
    BY <1>1, <2>7, <2>8, <2>9
  <2>11. QED
    BY <2>3, <2>10 DEF Sound
<1>7. QED
  BY <1>5, <1>6

\* A segment that can be placed leaves the books in order.
LEMMA PlaceKeeps ==
    ASSUME NEW st, NEW taken, Sound(st, lost(account, taken, 0), issued),
           taken \in Seq(EntriesOf(Keys, Groups)), account \in [Ids -> Accounts],
           OneToAnId(ToSet(taken) \cup held(st)),
           NEW s \in Segments, placeable(st, s), Place(s, [left |-> st, taken |-> taken])
    PROVE  IInv'
<1>. DEFINE told == lost(account, taken, 0)
            opens == ~has(st, s.key)
            opened == IF opens THEN open(st, s) ELSE [left |-> st, taken |-> <<>>]
            store == amend(opened.left, s.key, Joined(opened.left, s))
            acc == lost(account, taken \o opened.taken, 0)
            n == IF opens THEN issued + 1 ELSE issued
<1>1. s.part \in 1 .. s.total /\ s.total \in Nat /\ s.total >= 1
  BY SegmentsAssumption DEF placeable
<1>2. /\ opens => issued < MaxIds
      /\ issued' = n
      /\ IF Cardinality(DOMAIN Joined(opened.left, s).parts) < Joined(opened.left, s).total
         THEN Trim(store, s, acc) ELSE Complete(store, s, acc)
  BY DEF Place
<1>3. /\ \E e : Finds(opened.left, e, s)
      /\ Sound(opened.left, lost(told, opened.taken, 0), n)
      /\ opened.taken \in Seq(EntriesOf(Keys, Groups)) /\ ToSet(opened.taken) \subseteq held(st)
  <2>1. CASE opens
    <3>1. opened = open(st, s) /\ n = issued + 1
      BY <2>1
    <3>. HIDE DEF opened, n, told
    <3>2. /\ \E e : Finds(open(st, s).left, e, s)
          /\ Sound(open(st, s).left, lost(told, open(st, s).taken, 0), issued + 1)
          /\ open(st, s).taken \in Seq(EntriesOf(Keys, Groups)) /\ ToSet(open(st, s).taken) \subseteq held(st)
      BY <1>1, <1>2, <2>1, OpenFacts DEF told
    <3>3. QED
      BY <3>1, <3>2
  <2>2. CASE ~opens
    <3>1. opened.left = st /\ opened.taken = <<>> /\ n = issued
      BY <2>2
    <3>. HIDE DEF opened, n
    <3>2. Books(st, told, issued)
      BY DEF Sound
    <3>. HIDE DEF told
    <3>3. IsStore(st, Keys, Groups) /\ told \in [Ids -> Accounts]
      BY <3>2, BooksFacts
    <3>4. PICK e \in held(st) : e.key = s.key
      BY <2>2, <3>3, HeldOnce
    <3>5. get(st, s.key) = e.group
      BY <3>3, <3>4, EntryIsHeld
    <3>6. e.group.total = s.total
      BY <2>2, <3>5 DEF placeable
    <3>7. Finds(st, e, s)
      BY <1>1, <3>4, <3>6 DEF Finds
    <3>8. lost(told, <<>>, 0) = told
      BY <3>3, LostNothing
    <3>9. Sound(st, told, issued)
      BY DEF told
    <3>10. <<>> \in Seq(EntriesOf(Keys, Groups)) /\ ToSet(<<>>) = {}
      BY DEF ToSet
    <3>11. QED
      BY <3>1, <3>7, <3>8, <3>9, <3>10
  <2>3. QED
    BY <2>1, <2>2
<1>. HIDE DEF opened, opens
<1>4. acc = lost(told, opened.taken, 0)
  <2>1. OneToAnId(ToSet(taken) \cup ToSet(opened.taken))
    BY <1>3 DEF OneToAnId
  <2>2. QED
    BY <1>3, <2>1, LostTwice
<1>5. PICK e : Finds(opened.left, e, s)
  BY <1>3
<1>. HIDE DEF acc, n
<1>6. Sound(opened.left, acc, n)
  BY <1>3, <1>4
<1>7. Sound(groups', account', n)
  <2>1. store = amend(opened.left, s.key, Joined(opened.left, s))
    OBVIOUS
  <2>. HIDE DEF store
  <2>2. QED
    BY <1>2, <1>5, <1>6, <2>1, Settling
<1>8. QED
  BY <1>2, <1>7 DEF IInv

\* What has expired is taken before anything else is done.
LEMMA Sweeping ==
    ASSUME IInv
    PROVE  /\ Sound(takeExpired(groups).left, lost(account, takeExpired(groups).taken, 0), issued)
           /\ takeExpired(groups).taken \in Seq(EntriesOf(Keys, Groups))
           /\ OneToAnId(ToSet(takeExpired(groups).taken) \cup held(takeExpired(groups).left))
           /\ account \in [Ids -> Accounts]
<1>. DEFINE gone == {e \in ToSet(groups.entries) : e.left = 0}
<1>1. takeExpired(groups) = take(groups, gone)
  BY DEF takeExpired
<1>2. gone \subseteq held(groups)
  BY DEF held
<1>. HIDE DEF gone
<1>3. Sound(groups, account, issued)
  BY DEF IInv
<1>4. /\ Sound(take(groups, gone).left, lost(account, take(groups, gone).taken, 0), issued)
      /\ take(groups, gone).taken \in Seq(EntriesOf(Keys, Groups))
      /\ ToSet(take(groups, gone).taken) = gone
      /\ held(take(groups, gone).left) = held(groups) \ gone
      /\ OneToAnId(held(groups)) /\ account \in [Ids -> Accounts]
  BY <1>2, <1>3, TakeSound
<1>5. gone \cup (held(groups) \ gone) = held(groups)
  BY <1>2
<1>6. QED
  BY <1>1, <1>4, <1>5

\* A segment, whatever it is, leaves the books in order.
LEMMA CollectKeeps ==
    ASSUME IInv, NEW s \in Segments, Collect(s)
    PROVE  IInv'
<1>. DEFINE swept == takeExpired(groups)
<1>1. swept = [left |-> swept.left, taken |-> swept.taken]
  BY DEF takeExpired, take
<1>2. /\ Sound(swept.left, lost(account, swept.taken, 0), issued)
      /\ swept.taken \in Seq(EntriesOf(Keys, Groups)) /\ account \in [Ids -> Accounts]
      /\ OneToAnId(ToSet(swept.taken) \cup held(swept.left))
  BY Sweeping
<1>3. \/ placeable(swept.left, s) /\ Place(s, swept)
      \/ groups' = swept.left /\ account' = lost(account, swept.taken, 0) /\ issued' = issued
  BY DEF Collect
<1>. HIDE DEF swept
<1>4. CASE placeable(swept.left, s) /\ Place(s, swept)
  <2>1. Place(s, [left |-> swept.left, taken |-> swept.taken])
    BY <1>1, <1>4
  <2>2. QED
    BY <1>2, <1>4, <2>1, PlaceKeeps
<1>5. CASE groups' = swept.left /\ account' = lost(account, swept.taken, 0) /\ issued' = issued
  BY <1>2, <1>5 DEF IInv
<1>6. QED
  BY <1>3, <1>4, <1>5

\* So does the sweeper.
LEMMA SweepKeeps ==
    ASSUME IInv, Sweep
    PROVE  IInv'
<1>1. /\ groups' = takeExpired(groups).left /\ issued' = issued
      /\ account' = lost(account, takeExpired(groups).taken, 0)
  BY DEF Sweep
<1>2. Sound(takeExpired(groups).left, lost(account, takeExpired(groups).taken, 0), issued)
  BY Sweeping
<1>3. QED
  BY <1>1, <1>2 DEF IInv

\* So does the end of the link, which takes all there is.
LEMMA ClearKeeps ==
    ASSUME IInv, Clear
    PROVE  IInv'
<1>1. /\ groups' = empty /\ issued' = issued
      /\ account' = lost(account, groups.entries, 0)
  BY DEF Clear, takeAll
<1>2. Books(groups, account, issued)
  BY DEF IInv, Sound
<1>3. Books(take(groups, held(groups)).left, lost(account, take(groups, held(groups)).taken, 0), issued)
  BY <1>2, Taking
<1>4. /\ IsStore(groups, Keys, Groups) /\ account \in [Ids -> Accounts] /\ OneToAnId(held(groups))
      /\ \A e \in held(groups) : idOf(e) \in Ids /\ idOf(e) <= issued /\ Kept(e, account[idOf(e)])
  BY <1>2, BooksFacts
<1>5. /\ groups.entries \in Seq(EntriesOf(Keys, Groups)) /\ ToSet(groups.entries) = held(groups)
  BY <1>4 DEF IsStore, held
<1>6. /\ take(groups, held(groups)).taken \in Seq(EntriesOf(Keys, Groups))
      /\ ToSet(take(groups, held(groups)).taken) = held(groups)
      /\ held(take(groups, held(groups)).left) = {}
  <2>1. /\ take(groups, held(groups)).taken \in Seq(EntriesOf(Keys, Groups))
        /\ ToSet(take(groups, held(groups)).taken) = held(groups)
        /\ held(take(groups, held(groups)).left) = held(groups) \ held(groups)
    <3>. DEFINE all == held(groups)
    <3>1. IsStore(groups, Keys, Groups) /\ all \subseteq held(groups)
      BY <1>4
    <3>. HIDE DEF all
    <3>2. /\ take(groups, all).taken \in Seq(EntriesOf(Keys, Groups)) /\ ToSet(take(groups, all).taken) = all
          /\ held(take(groups, all).left) = held(groups) \ all
      BY <3>1, TakeFacts
    <3>3. QED
      BY <3>2 DEF all
  <2>2. QED
    BY <2>1
<1>7. lost(account, groups.entries, 0) = lost(account, take(groups, held(groups)).taken, 0)
  <2>1. /\ idsOf(groups.entries) = {idOf(e) : e \in held(groups)}
        /\ idsOf(take(groups, held(groups)).taken) = {idOf(e) : e \in held(groups)}
    BY <1>5, <1>6 DEF idsOf, idOf, ToSet
  <2>2. \A id : partsOf(groups.entries, id) = partsOf(take(groups, held(groups)).taken, id)
    BY <1>5, <1>6 DEF partsOf
  <2>3. QED
    BY <2>1, <2>2 DEF lost
<1>8. /\ IsStore(empty, Keys, Groups) /\ held(empty) = {} /\ Len(empty.entries) = 0 /\ empty.total = 0
  BY EmptyIsStore
<1>9. lost(account, groups.entries, 0) \in [Ids -> Accounts]
  BY <1>3, <1>7, BooksFacts
<1>10. Books(empty, lost(account, groups.entries, 0), issued)
  BY <1>3, <1>6, <1>7, <1>8, <1>9, Restated
<1>11. 0 <= MaxOctets /\ 0 <= MaxGroups
  BY OctetsAssumption, StoreAssumption
<1>12. QED
  BY <1>1, <1>8, <1>10, <1>11 DEF IInv, Sound

\* So does the clock, which touches nothing but what an entry has left.
LEMMA TickKeeps ==
    ASSUME IInv, Tick
    PROVE  IInv'
<1>1. groups' = tick(groups) /\ issued' = issued /\ account' = account
  BY DEF Tick
<1>2. Books(groups, account, issued) /\ groups.total <= MaxOctets /\ Len(groups.entries) <= MaxGroups
  BY DEF IInv, Sound
<1>3. /\ IsStore(groups, Keys, Groups) /\ account \in [Ids -> Accounts] /\ OneToAnId(held(groups))
      /\ issued \in 0 .. MaxIds
      /\ \A e \in held(groups) :
            e \in EntriesOf(Keys, Groups) /\ idOf(e) <= issued /\ Kept(e, account[idOf(e)])
  BY <1>2, BooksFacts
<1>4. /\ IsStore(tick(groups), Keys, Groups) /\ held(tick(groups)) = {later(e) : e \in held(groups)}
      /\ Len(tick(groups).entries) = Len(groups.entries) /\ tick(groups).total = groups.total
  BY <1>3, TickFacts
<1>5. \A e \in held(groups) : /\ later(e).group = e.group /\ later(e).key = e.key
                             /\ later(e).weight = e.weight /\ idOf(later(e)) = idOf(e)
  BY <1>3 DEF later, EntriesOf, idOf
<1>6. \A e \in held(groups) : Kept(later(e), account[idOf(e)])
  BY <1>3, <1>5 DEF Kept
<1>7. \A e \in held(tick(groups)) : idOf(e) <= issued /\ Kept(e, account[idOf(e)])
  BY <1>3, <1>4, <1>5, <1>6
<1>8. \A e, f \in held(tick(groups)) : idOf(e) = idOf(f) => e = f
  BY <1>3, <1>4, <1>5 DEF OneToAnId
<1>9. ASSUME NEW id \in Ids, \A e \in held(tick(groups)) : idOf(e) # id
      PROVE  Settled(account[id])
  <2>1. \A e \in held(groups) : idOf(e) # id
    BY <1>4, <1>5, <1>9
  <2>2. QED
    BY <1>2, <2>1 DEF Books
<1>10. Books(tick(groups), account, issued)
  BY <1>2, <1>3, <1>4, <1>7, <1>8, <1>9 DEF Books
<1>11. QED
  BY <1>1, <1>2, <1>4, <1>10 DEF IInv, Sound

\* The books start in order.
LEMMA InitKeeps == Init => IInv
<1>. SUFFICES ASSUME Init PROVE IInv
  OBVIOUS
<1>. DEFINE a == [total |-> 0, answered |-> {}, refused |-> {}, fate |-> "held", told |-> 0]
<1>1. groups = empty /\ issued = 0 /\ account = [id \in Ids |-> a]
  BY DEF Init
<1>2. a \in Accounts /\ a.fate = "held" /\ Unused(a)
  BY DEF Accounts, Unused
<1>. HIDE DEF a
<1>3. account \in [Ids -> Accounts] /\ \A id \in Ids : Unused(account[id])
  BY <1>1, <1>2
<1>4. \A id \in Ids : Settled(account[id])
  BY <1>3 DEF Settled, Unused
<1>5. IsStore(groups, Keys, Groups) /\ held(groups) = {} /\ Len(groups.entries) = 0 /\ groups.total = 0
  BY <1>1, EmptyIsStore
<1>6. 0 \in 0 .. MaxIds /\ 0 <= MaxOctets /\ 0 <= MaxGroups
  BY IdsAssumption, OctetsAssumption, StoreAssumption
<1>7. Books(groups, account, issued)
  BY <1>1, <1>3, <1>4, <1>5, <1>6 DEF Books
<1>8. QED
  BY <1>5, <1>6, <1>7 DEF IInv, Sound

\* Every step of Reassembly keeps them so.
LEMMA NextKeeps == IInv /\ [Next]_vars => IInv'
<1>. SUFFICES ASSUME IInv, [Next]_vars PROVE IInv'
  OBVIOUS
<1>1. ASSUME NEW s \in Segments, Collect(s) PROVE IInv'
  BY <1>1, CollectKeeps
<1>2. CASE Sweep
  BY <1>2, SweepKeeps
<1>3. CASE Clear
  BY <1>3, ClearKeeps
<1>4. CASE Tick
  BY <1>4, TickKeeps
<1>5. CASE UNCHANGED vars
  BY <1>5 DEF vars, IInv
<1>6. QED
  BY <1>1, <1>2, <1>3, <1>4, <1>5 DEF Next

\* The store and the accounts agree in every state.
LEMMA BooksAgree == Spec => []IInv
<1>1. QED
  BY InitKeeps, NextKeeps, PTL DEF Spec

-----------------------------------------------------------------------------
\* The store of the reassembler holds no more groups than its maximum and no
\* more octets than its cap, each group under a key of its own.
THEOREM StoreIsBounded == Spec => []TypeOK
<1>1. IInv => TypeOK
  <2>. SUFFICES ASSUME IInv PROVE TypeOK
    OBVIOUS
  <2>1. Books(groups, account, issued) /\ groups.total <= MaxOctets /\ Len(groups.entries) <= MaxGroups
    BY DEF IInv, Sound
  <2>2. /\ IsStore(groups, Keys, Groups) /\ account \in [Ids -> Accounts]
        /\ issued \in 0 .. MaxIds /\ issued \in Nat
        /\ \A e \in held(groups) : e \in EntriesOf(Keys, Groups) /\ idOf(e) \in Ids /\ idOf(e) <= issued
    BY <2>1, BooksFacts
  <2>3. groups.total \in 0 .. MaxOctets
    BY <2>1, <2>2, OctetsAssumption DEF IsStore
  <2>4. \A e \in Entries : e.left \in 0 .. Timeout /\ e.group.smsId \in 1 .. issued
    BY <2>2 DEF Entries, held, EntriesOf, idOf, Ids
  <2>5. \A id \in Ids : account[id].fate \in {"held", "whole", "lost"} /\ account[id].told \in Nat
    BY <2>2 DEF Accounts
  <2>6. Cardinality(keysOf(groups.entries)) = Len(groups.entries)
    BY <2>2, KeysCounted
  <2>7. QED
    BY <2>1, <2>2, <2>3, <2>4, <2>5, <2>6 DEF TypeOK
<1>2. QED
  BY <1>1, BooksAgree, PTL

\* The weight that weigh(), remove() and set() keep is that of the octets there are.
THEOREM WeightIsKept == Spec => []WeightIsWhatIsHeld
<1>1. IInv => WeightIsWhatIsHeld
  <2>. SUFFICES ASSUME IInv PROVE WeightIsWhatIsHeld
    OBVIOUS
  <2>1. Books(groups, account, issued)
    BY DEF IInv, Sound
  <2>2. QED
    BY <2>1 DEF Books, IsStore, Kept, WeightIsWhatIsHeld, Entries, held
<1>2. QED
  BY <1>1, BooksAgree, PTL

\* The loss of a message is told with the number of its parts the peer was answered
\* for and was not refused since, whatever comes again and however heavy: the part that
\* trim() refuses is left out, and no other (reassembly.ts trim, lost).
THEOREM EveryLossIsTold == Spec => []LossIsTold
<1>1. IInv => LossIsTold
  <2>. SUFFICES ASSUME IInv, NEW id \in Ids, account[id].fate = "lost"
                PROVE  account[id].told = Cardinality(account[id].answered \ account[id].refused)
    BY DEF LossIsTold
  <2>1. Books(groups, account, issued)
    BY DEF IInv, Sound
  <2>2. \A e \in held(groups) : idOf(e) # id
    BY <2>1 DEF Books, Kept
  <2>3. QED
    BY <2>1, <2>2 DEF Books, Settled
<1>2. QED
  BY <1>1, BooksAgree, PTL

\* What was answered is in its group still, or went with it.
THEOREM NothingAnsweredIsForgotten == Spec => []AnsweredIsHeldOrSettled
<1>1. IInv => AnsweredIsHeldOrSettled
  <2>. SUFFICES ASSUME IInv, NEW id \in Ids
                PROVE  IF id \in Held
                       THEN /\ account[id].fate = "held"
                            /\ \E e \in Entries : e.group.smsId = id /\ DOMAIN e.group.parts = account[id].answered
                       ELSE account[id].fate = "held" => account[id].answered = {}
    BY DEF AnsweredIsHeldOrSettled
  <2>1. Books(groups, account, issued)
    BY DEF IInv, Sound
  <2>2. Entries = held(groups) /\ Held = {idOf(e) : e \in held(groups)}
    BY DEF Entries, Held, held, idOf
  <2>3. CASE id \in Held
    <3>1. PICK e \in held(groups) : idOf(e) = id
      BY <2>2, <2>3
    <3>2. Kept(e, account[id])
      BY <2>1, <3>1 DEF Books
    <3>3. QED
      BY <2>2, <2>3, <3>1, <3>2 DEF Kept, idOf
  <2>4. CASE id \notin Held
    <3>1. Settled(account[id])
      BY <2>1, <2>2, <2>4 DEF Books
    <3>2. QED
      BY <2>4, <3>1 DEF Settled
  <2>5. QED
    BY <2>3, <2>4
<1>2. QED
  BY <1>1, BooksAgree, PTL

\* A message is handed on with all of its parts, each of them answered.
THEOREM WholeHasEveryPart == Spec => []WholeIsWhole
<1>1. IInv => WholeIsWhole
  <2>. SUFFICES ASSUME IInv, NEW id \in Ids, account[id].fate = "whole"
                PROVE  account[id].answered = 1 .. account[id].total
    BY DEF WholeIsWhole
  <2>1. Books(groups, account, issued)
    BY DEF IInv, Sound
  <2>2. \A e \in held(groups) : idOf(e) # id
    BY <2>1 DEF Books, Kept
  <2>3. QED
    BY <2>1, <2>2 DEF Books, Settled
<1>2. QED
  BY <1>1, BooksAgree, PTL
=============================================================================
