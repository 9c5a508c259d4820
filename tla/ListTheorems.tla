---------------------------- MODULE ListTheorems ----------------------------
(* Induction over the naturals, without an operator parameter, and what    *)
(* the loops of module Lists compute.                                      *)
EXTENDS
    Lists, Integers, SequencesExt,
    FiniteSetTheorems, WellFoundedInduction, SequenceTheorems, TLAPS

LEMMA Smallest ==
    ASSUME NEW T, T \subseteq Nat, T # {}
    PROVE  \E m \in T : \A k \in T : m <= k
<1> DEFINE I == {1..n : n \in T}
<1>1. I \subseteq FiniteSubsetsOf(Nat)
  <2> SUFFICES ASSUME NEW n \in T PROVE 1..n \in FiniteSubsetsOf(Nat)
    OBVIOUS
  <2>1. IsFiniteSet(1..n)
    BY FS_Interval
  <2>2. 1..n \subseteq Nat
    OBVIOUS
  <2> QED
    BY <2>1, <2>2 DEF FiniteSubsetsOf
<1>2. I # {}
  OBVIOUS
<1>3. PICK x \in I : \A y \in I : <<y, x>> \notin StrictSubsetOrdering(Nat)
  <2> HIDE DEF I
  <2> QED
    BY <1>1, <1>2, FS_StrictSubsetOrderingWellFounded, WFMin
<1>4. PICK m \in T : x = 1..m
  OBVIOUS
<1>5. ASSUME NEW k \in T, k < m PROVE FALSE
  <2>1. 1..k \in I
    OBVIOUS
  <2>2. 1..k \subseteq Nat /\ 1..m \subseteq Nat /\ 1..k \subseteq 1..m /\ 1..k # 1..m
    <3>1. m \in 1..m /\ m \notin 1..k
      BY <1>5
    <3> QED
      BY <1>5, <3>1
  <2>3. <<1..k, x>> \in StrictSubsetOrdering(Nat)
    BY <1>1, <1>4, <2>1, <2>2 DEF StrictSubsetOrdering, FiniteSubsetsOf
  <2> QED
    BY <1>3, <2>1, <2>3
<1> QED
  BY <1>5

LEMMA Induction ==
    ASSUME NEW P, 0 \in P, \A n \in P : n \in Nat => n + 1 \in P
    PROVE  \A n \in Nat : n \in P
<1> SUFFICES ASSUME NEW z \in Nat, z \notin P PROVE FALSE
  OBVIOUS
<1> DEFINE T == Nat \ P
<1>1. PICK m \in T : \A k \in T : m <= k
  <2>1. T \subseteq Nat /\ T # {}
    OBVIOUS
  <2> HIDE DEF T
  <2> QED
    BY <2>1, Smallest
<1>2. m # 0 /\ m - 1 \in Nat /\ m = (m - 1) + 1
  OBVIOUS
<1>3. m - 1 \in P
  BY <1>1, <1>2
<1> QED
  BY <1>2, <1>3

(* The same up to a bound. *)
LEMMA BoundedInduction ==
    ASSUME NEW L \in Nat, NEW P, 0 \in P, \A n \in 0..(L - 1) : n \in P => n + 1 \in P
    PROVE  \A n \in 0..L : n \in P
<1> DEFINE Q == {n \in Nat : n <= L => n \in P}
<1>1. 0 \in Q
  OBVIOUS
<1>2. ASSUME NEW n \in Q PROVE n + 1 \in Q
  OBVIOUS
<1>3. \A n \in Nat : n \in Q
  <2> HIDE DEF Q
  <2> QED
    BY <1>1, <1>2, Induction
<1> QED
  BY <1>3

-----------------------------------------------------------------------------
(* f goes through a list of length L, one step per element. *)
Iterates(f, S, L, base, step) ==
    /\ f \in [0..L -> S] /\ f[0] = base
    /\ \A n \in 1..L : f[n] = step[<<n, f[n - 1]>>]

LEMMA IterationExists ==
    ASSUME NEW S, NEW L \in Nat, NEW base \in S, NEW step \in [(1..L) \X S -> S]
    PROVE  \E f : Iterates(f, S, L, base, step)
<1> DEFINE P == {n \in 0..L : \E f : /\ f \in [0..n -> S] /\ f[0] = base
                                     /\ \A k \in 1..n : f[k] = step[<<k, f[k - 1]>>]}
<1>1. 0 \in P
  <2> DEFINE f == [k \in 0..0 |-> base]
  <2>1. f \in [0..0 -> S] /\ f[0] = base /\ \A k \in 1..0 : f[k] = step[<<k, f[k - 1]>>]
    OBVIOUS
  <2> HIDE DEF f
  <2> QED
    BY <2>1
<1>2. ASSUME NEW n \in 0..(L - 1), n \in P PROVE n + 1 \in P
  <2>1. PICK f : /\ f \in [0..n -> S] /\ f[0] = base
                 /\ \A k \in 1..n : f[k] = step[<<k, f[k - 1]>>]
    BY <1>2
  <2> DEFINE g == [k \in 0..(n + 1) |-> IF k <= n THEN f[k] ELSE step[<<n + 1, f[n]>>]]
  <2>2. f[n] \in S /\ n + 1 \in 1..L
    BY <2>1
  <2>3. step[<<n + 1, f[n]>>] \in S
    BY <2>2
  <2>4. g \in [0..(n + 1) -> S] /\ g[0] = base
    BY <2>1, <2>3
  <2>5. ASSUME NEW k \in 1..(n + 1) PROVE g[k] = step[<<k, g[k - 1]>>]
    <3>1. CASE k <= n
      <4>1. k \in 1..n /\ k \in 0..(n + 1) /\ k - 1 \in 0..(n + 1) /\ k - 1 <= n
        BY <3>1
      <4>2. g[k] = f[k] /\ g[k - 1] = f[k - 1]
        BY <4>1
      <4>3. f[k] = step[<<k, f[k - 1]>>]
        BY <2>1, <4>1
      <4> HIDE DEF g
      <4> QED
        BY <4>2, <4>3
    <3>2. CASE k = n + 1
      <4>1. g[n + 1] = step[<<n + 1, f[n]>>] /\ g[n] = f[n] /\ (n + 1) - 1 = n
        OBVIOUS
      <4> HIDE DEF g
      <4> QED
        BY <3>2, <4>1
    <3> QED
      BY <3>1, <3>2
  <2> HIDE DEF g
  <2> QED
    BY <2>4, <2>5
<1>3. \A n \in 0..L : n \in P
  <2> HIDE DEF P
  <2> QED
    BY <1>1, <1>2, BoundedInduction
<1> QED
  BY <1>3 DEF Iterates

(* The elements kept of the first n, for every n: the loop's invariant. *)
Keeps(f, s, S) ==
    /\ f \in [0..Len(s) -> Seq(S)] /\ f[0] = <<>>
    /\ \A n \in 1..Len(s) :
           f[n] = IF s[n] \in S THEN Append(f[n - 1], s[n]) ELSE f[n - 1]

LEMMA KeptLoop ==
    ASSUME NEW X, NEW s \in Seq(X), NEW S
    PROVE  \E f : Keeps(f, s, S) /\ Kept(s, S) = f[Len(s)]
<1> DEFINE step == [p \in (1..Len(s)) \X Seq(S) |->
                       IF s[p[1]] \in S THEN Append(p[2], s[p[1]]) ELSE p[2]]
           Loop(f) == [n \in 0..Len(s) |->
                       IF n = 0 THEN <<>>
                       ELSE IF s[n] \in S THEN Append(f[n - 1], s[n])
                       ELSE f[n - 1]]
           kept == CHOOSE f : f = Loop(f)
<1>1. Len(s) \in Nat /\ <<>> \in Seq(S)
  OBVIOUS
<1>2. step \in [(1..Len(s)) \X Seq(S) -> Seq(S)]
  <2> SUFFICES ASSUME NEW n \in 1..Len(s), NEW t \in Seq(S)
               PROVE  (IF s[n] \in S THEN Append(t, s[n]) ELSE t) \in Seq(S)
    OBVIOUS
  <2> QED
    OBVIOUS
<1>3. PICK g : Iterates(g, Seq(S), Len(s), <<>>, step)
  <2> HIDE DEF step
  <2> QED
    BY <1>1, <1>2, IterationExists
<1>4. g = Loop(g)
  <2>1. g \in [0..Len(s) -> Seq(S)] /\ g[0] = <<>>
    BY <1>3 DEF Iterates
  <2>2. ASSUME NEW n \in 1..Len(s)
        PROVE  g[n] = IF s[n] \in S THEN Append(g[n - 1], s[n]) ELSE g[n - 1]
    <3>1. g[n - 1] \in Seq(S)
      BY <2>1, <1>1
    <3>2. g[n] = step[<<n, g[n - 1]>>]
      BY <1>3 DEF Iterates
    <3> QED
      BY <3>1, <3>2
  <2>3. ASSUME NEW n \in 0..Len(s)
        PROVE  g[n] = IF n = 0 THEN <<>>
                      ELSE IF s[n] \in S THEN Append(g[n - 1], s[n])
                      ELSE g[n - 1]
    <3> HIDE DEF step
    <3>1. n = 0 \/ n \in 1..Len(s)
      BY <1>1
    <3> QED
      BY <2>1, <2>2, <3>1
  <2>4. g = [n \in 0..Len(s) |-> g[n]]
    BY <2>1
  <2> HIDE DEF step
  <2> QED
    BY <2>3, <2>4
<1>5. kept = Loop(kept)
  <2> HIDE DEF Loop
  <2> QED
    BY <1>4
<1>6. Kept(s, S) = kept[Len(s)]
  BY DEF Kept
<1>7. Keeps(kept, s, S)
  <2>1. kept[0] = <<>> /\ DOMAIN kept = 0..Len(s) /\ kept = [n \in 0..Len(s) |-> kept[n]]
    <3> HIDE DEF kept
    <3> QED
      BY <1>1, <1>5
  <2>2. \A n \in 1..Len(s) :
            kept[n] = IF s[n] \in S THEN Append(kept[n - 1], s[n]) ELSE kept[n - 1]
    <3> HIDE DEF kept
    <3> SUFFICES ASSUME NEW n \in 1..Len(s)
                 PROVE  kept[n] = IF s[n] \in S THEN Append(kept[n - 1], s[n])
                                  ELSE kept[n - 1]
      OBVIOUS
    <3>1. n \in 0..Len(s) /\ n # 0
      BY <1>1
    <3>2. Loop(kept)[n] = IF s[n] \in S THEN Append(kept[n - 1], s[n]) ELSE kept[n - 1]
      BY <3>1
    <3> HIDE DEF Loop
    <3> QED
      BY <1>5, <3>2
  <2>3. \A n \in 0..Len(s) : kept[n] \in Seq(S)
    <3> HIDE DEF kept
    <3> DEFINE P == {n \in 0..Len(s) : kept[n] \in Seq(S)}
    <3>1. 0 \in P
      BY <1>1, <2>1
    <3>2. ASSUME NEW n \in 0..(Len(s) - 1), n \in P PROVE n + 1 \in P
      <4>1. n + 1 \in 1..Len(s) /\ (n + 1) - 1 = n /\ kept[n] \in Seq(S)
        BY <1>1, <3>2
      <4>2. kept[n + 1] = IF s[n + 1] \in S THEN Append(kept[n], s[n + 1]) ELSE kept[n]
        BY <2>2, <4>1
      <4>3. kept[n + 1] \in Seq(S)
        <5>1. CASE s[n + 1] \in S
          <6>1. kept[n + 1] = Append(kept[n], s[n + 1])
            BY <4>2, <5>1
          <6> QED
            BY <4>1, <5>1, <6>1, AppendProperties
        <5>2. CASE s[n + 1] \notin S
          BY <4>1, <4>2, <5>2
        <5> QED
          BY <5>1, <5>2
      <4>4. n + 1 \in 0..Len(s)
        BY <4>1
      <4> QED
        BY <4>3, <4>4
    <3>3. \A n \in 0..Len(s) : n \in P
      <4> HIDE DEF P
      <4> QED
        BY <1>1, <3>1, <3>2, BoundedInduction
    <3> QED
      BY <3>3
  <2> HIDE DEF kept
  <2> QED
    BY <2>1, <2>2, <2>3 DEF Keeps
<1> HIDE DEF kept
<1> QED
  BY <1>6, <1>7

(* The loop does the same on lists that start alike. *)
LEMMA KeepsAlike ==
    ASSUME NEW X, NEW s \in Seq(X), NEW t \in Seq(X), NEW S,
           NEW f, NEW g, Keeps(f, s, S), Keeps(g, t, S),
           NEW L \in Nat, L <= Len(s), L <= Len(t), \A i \in 1..L : s[i] = t[i]
    PROVE  f[L] = g[L]
<1> DEFINE P == {n \in 0..L : f[n] = g[n]}
<1>1. 0 \in P
  BY DEF Keeps
<1>2. ASSUME NEW n \in 0..(L - 1), n \in P PROVE n + 1 \in P
  <2>1. /\ n + 1 \in 1..L /\ n + 1 \in 1..Len(s) /\ n + 1 \in 1..Len(t)
        /\ (n + 1) - 1 = n /\ n + 1 \in 0..L
    OBVIOUS
  <2>2. f[n] = g[n] /\ s[n + 1] = t[n + 1]
    BY <1>2, <2>1
  <2>3. f[n + 1] = IF s[n + 1] \in S THEN Append(f[n], s[n + 1]) ELSE f[n]
    BY <2>1 DEF Keeps
  <2>4. g[n + 1] = IF t[n + 1] \in S THEN Append(g[n], t[n + 1]) ELSE g[n]
    BY <2>1 DEF Keeps
  <2> QED
    BY <2>1, <2>2, <2>3, <2>4
<1>3. \A n \in 0..L : n \in P
  <2> HIDE DEF P
  <2> QED
    BY <1>1, <1>2, BoundedInduction
<1> QED
  BY <1>3

LEMMA KeptEmpty == ASSUME NEW S PROVE Kept(<<>>, S) = <<>>
<1>1. PICK f : Keeps(f, <<>>, S) /\ Kept(<<>>, S) = f[Len(<<>>)]
  <2>1. <<>> \in Seq(S)
    OBVIOUS
  <2> QED
    BY <2>1, KeptLoop
<1> QED
  BY <1>1 DEF Keeps

LEMMA KeptAppend ==
    ASSUME NEW X, NEW s \in Seq(X), NEW x \in X, NEW S
    PROVE  Kept(Append(s, x), S) = IF x \in S THEN Append(Kept(s, S), x) ELSE Kept(s, S)
<1> DEFINE t == Append(s, x)
<1>1. /\ t \in Seq(X) /\ Len(t) = Len(s) + 1 /\ Len(s) \in Nat
      /\ t[Len(s) + 1] = x /\ \A i \in 1..Len(s) : t[i] = s[i]
  BY AppendProperties
<1> HIDE DEF t
<1>2. PICK f : Keeps(f, s, S) /\ Kept(s, S) = f[Len(s)]
  BY KeptLoop
<1>3. PICK g : Keeps(g, t, S) /\ Kept(t, S) = g[Len(t)]
  BY <1>1, KeptLoop
<1>4. g[Len(s)] = f[Len(s)]
  <2>1. Len(s) <= Len(s) /\ Len(s) <= Len(t)
    BY <1>1
  <2> QED
    BY <1>1, <1>2, <1>3, <2>1, KeepsAlike
<1>5. g[Len(s) + 1] = IF t[Len(s) + 1] \in S THEN Append(g[Len(s)], t[Len(s) + 1])
                      ELSE g[Len(s)]
  <2>1. Len(s) + 1 \in 1..Len(t) /\ (Len(s) + 1) - 1 = Len(s)
    BY <1>1
  <2> QED
    BY <1>3, <2>1 DEF Keeps
<1> QED
  BY <1>1, <1>2, <1>3, <1>4, <1>5 DEF t

(* What is kept was in the list and is wanted. *)
LEMMA KeptBound ==
    ASSUME NEW X, NEW s \in Seq(X), NEW S
    PROVE  Kept(s, S) \in Seq(X \cap S) /\ Len(Kept(s, S)) <= Len(s)
<1>1. PICK f : Keeps(f, s, S) /\ Kept(s, S) = f[Len(s)]
  BY KeptLoop
<1> DEFINE P == {n \in 0..Len(s) : f[n] \in Seq(X \cap S) /\ Len(f[n]) <= n}
<1>0. Len(s) \in Nat
  OBVIOUS
<1>2. 0 \in P
  BY <1>0, <1>1 DEF Keeps
<1>3. ASSUME NEW n \in 0..(Len(s) - 1), n \in P PROVE n + 1 \in P
  <2>1. /\ n + 1 \in 1..Len(s) /\ (n + 1) - 1 = n /\ n + 1 \in 0..Len(s)
        /\ f[n] \in Seq(X \cap S) /\ Len(f[n]) <= n /\ Len(f[n]) \in Nat
        /\ s[n + 1] \in X
    BY <1>0, <1>3
  <2>2. f[n + 1] = IF s[n + 1] \in S THEN Append(f[n], s[n + 1]) ELSE f[n]
    BY <1>1, <2>1 DEF Keeps
  <2>3. CASE s[n + 1] \in S
    <3>1. f[n + 1] = Append(f[n], s[n + 1]) /\ s[n + 1] \in X \cap S
      BY <2>1, <2>2, <2>3
    <3>2. f[n + 1] \in Seq(X \cap S) /\ Len(f[n + 1]) = Len(f[n]) + 1
      BY <2>1, <3>1, AppendProperties
    <3> QED
      BY <2>1, <3>2
  <2>4. CASE s[n + 1] \notin S
    BY <2>1, <2>2, <2>4
  <2> QED
    BY <2>3, <2>4
<1>4. \A n \in 0..Len(s) : n \in P
  <2> HIDE DEF P
  <2> QED
    BY <1>0, <1>2, <1>3, BoundedInduction
<1> QED
  BY <1>0, <1>1, <1>4

(* Keeping S first changes nothing for who wants less. *)
LEMMA KeptTwice ==
    ASSUME NEW X, NEW s \in Seq(X), NEW S, NEW T, \A x \in X : x \in T => x \in S
    PROVE  Kept(Kept(s, S), T) = Kept(s, T)
<1>1. PICK f : Keeps(f, s, S) /\ Kept(s, S) = f[Len(s)]
  BY KeptLoop
<1>2. PICK g : Keeps(g, s, T) /\ Kept(s, T) = g[Len(s)]
  BY KeptLoop
<1> DEFINE P == {n \in 0..Len(s) : Kept(f[n], T) = g[n]}
<1>0. Len(s) \in Nat
  OBVIOUS
<1>3. 0 \in P
  BY <1>0, <1>1, <1>2, KeptEmpty DEF Keeps
<1>4. ASSUME NEW n \in 0..(Len(s) - 1), n \in P PROVE n + 1 \in P
  <2>1. /\ n + 1 \in 1..Len(s) /\ (n + 1) - 1 = n /\ n + 1 \in 0..Len(s) /\ n \in 0..Len(s)
        /\ Kept(f[n], T) = g[n] /\ s[n + 1] \in X
    BY <1>0, <1>4
  <2>2. f[n] \in Seq(S)
    BY <1>1, <2>1 DEF Keeps
  <2>3. f[n + 1] = IF s[n + 1] \in S THEN Append(f[n], s[n + 1]) ELSE f[n]
    BY <1>1, <2>1 DEF Keeps
  <2>4. g[n + 1] = IF s[n + 1] \in T THEN Append(g[n], s[n + 1]) ELSE g[n]
    BY <1>2, <2>1 DEF Keeps
  <2>5. CASE s[n + 1] \in S
    <3>1. Kept(f[n + 1], T) =
              IF s[n + 1] \in T THEN Append(Kept(f[n], T), s[n + 1]) ELSE Kept(f[n], T)
      <4>1. f[n + 1] = Append(f[n], s[n + 1])
        BY <2>3, <2>5
      <4>2. Kept(Append(f[n], s[n + 1]), T) =
                IF s[n + 1] \in T THEN Append(Kept(f[n], T), s[n + 1]) ELSE Kept(f[n], T)
        <5> DEFINE u == f[n]
                   x == s[n + 1]
        <5>1. u \in Seq(S) /\ x \in S
          BY <2>2, <2>5
        <5> HIDE DEF u, x
        <5>2. Kept(Append(u, x), T) = IF x \in T THEN Append(Kept(u, T), x) ELSE Kept(u, T)
          BY <5>1, KeptAppend
        <5> QED
          BY <5>2 DEF u, x
      <4> QED
        BY <4>1, <4>2
    <3> QED
      BY <2>1, <2>4, <3>1
  <2>6. CASE s[n + 1] \notin S
    BY <2>1, <2>3, <2>4, <2>6
  <2> QED
    BY <2>5, <2>6
<1>5. \A n \in 0..Len(s) : n \in P
  <2> HIDE DEF P
  <2> QED
    BY <1>0, <1>3, <1>4, BoundedInduction
<1> QED
  BY <1>0, <1>1, <1>2, <1>5

LEMMA KeptNone ==
    ASSUME NEW X, NEW s \in Seq(X), NEW S, \A i \in 1..Len(s) : s[i] \notin S
    PROVE  Kept(s, S) = <<>>
<1>1. PICK f : Keeps(f, s, S) /\ Kept(s, S) = f[Len(s)]
  BY KeptLoop
<1> DEFINE P == {n \in 0..Len(s) : f[n] = <<>>}
<1>0. Len(s) \in Nat
  OBVIOUS
<1>2. 0 \in P
  BY <1>0, <1>1 DEF Keeps
<1>3. ASSUME NEW n \in 0..(Len(s) - 1), n \in P PROVE n + 1 \in P
  <2>1. n + 1 \in 1..Len(s) /\ (n + 1) - 1 = n /\ n + 1 \in 0..Len(s) /\ f[n] = <<>>
    BY <1>0, <1>3
  <2> QED
    BY <1>1, <2>1 DEF Keeps
<1>4. \A n \in 0..Len(s) : n \in P
  <2> HIDE DEF P
  <2> QED
    BY <1>0, <1>2, <1>3, BoundedInduction
<1> QED
  BY <1>0, <1>1, <1>4

(* A list in order stays in order. *)
LEMMA KeptOrdered ==
    ASSUME NEW s \in Seq(Nat), NEW S, \A i, j \in 1..Len(s) : i <= j => s[i] <= s[j]
    PROVE  \A i, j \in 1..Len(Kept(s, S)) : i <= j => Kept(s, S)[i] <= Kept(s, S)[j]
<1> DEFINE Ordered(t) == \A i, j \in 1..Len(t) : i <= j => t[i] <= t[j]
           Before(t, n) == \A i \in 1..Len(t), m \in n + 1 .. Len(s) : t[i] <= s[m]
<1>1. PICK f : Keeps(f, s, S) /\ Kept(s, S) = f[Len(s)]
  BY KeptLoop
<1> DEFINE P == {n \in 0..Len(s) : f[n] \in Seq(Nat) /\ Ordered(f[n]) /\ Before(f[n], n)}
<1>0. Len(s) \in Nat /\ \A i \in 1..Len(s) : s[i] \in Nat
  OBVIOUS
<1>2. 0 \in P
  <2>1. f[0] = <<>> /\ Len(f[0]) = 0
    BY <1>1 DEF Keeps
  <2>2. f[0] \in Seq(Nat)
    BY <2>1
  <2>3. 1..Len(f[0]) = {}
    BY <2>1
  <2>4. Ordered(f[0]) /\ Before(f[0], 0)
    BY <2>3
  <2> HIDE DEF Ordered, Before
  <2> QED
    BY <1>0, <2>2, <2>4
<1>3. ASSUME NEW n \in 0..(Len(s) - 1), n \in P PROVE n + 1 \in P
  <2> DEFINE t == f[n]
             x == s[n + 1]
  <2>1. /\ n + 1 \in 1..Len(s) /\ (n + 1) - 1 = n /\ n + 1 \in 0..Len(s)
        /\ t \in Seq(Nat) /\ Len(t) \in Nat /\ Ordered(t) /\ Before(t, n)
        /\ x \in Nat
    <3>1. n + 1 \in 1..Len(s) /\ (n + 1) - 1 = n /\ n + 1 \in 0..Len(s)
      BY <1>0
    <3>2. t \in Seq(Nat) /\ Ordered(t) /\ Before(t, n)
      <4> HIDE DEF Ordered, Before
      <4> QED
        BY <1>3
    <3> HIDE DEF t, Ordered, Before
    <3> QED
      BY <1>0, <3>1, <3>2
  <2>2. f[n + 1] = IF x \in S THEN Append(t, x) ELSE t
    BY <1>1, <2>1 DEF Keeps
  <2>3. /\ Append(t, x) \in Seq(Nat) /\ Len(Append(t, x)) = Len(t) + 1
        /\ Append(t, x)[Len(t) + 1] = x
        /\ \A i \in 1..Len(t) : Append(t, x)[i] = t[i] /\ t[i] \in Nat
    <3> HIDE DEF t, x, Ordered, Before
    <3>1. t \in Seq(Nat) /\ x \in Nat /\ \A i \in 1..Len(t) : t[i] \in Nat
      BY <2>1
    <3> QED
      BY <3>1, AppendProperties
  <2>4. \A i \in 1..Len(t) : t[i] <= x
    BY <2>1
  <2>5. \A m \in (n + 1) + 1 .. Len(s) : m \in n + 1 .. Len(s) /\ m \in 1..Len(s) /\ x <= s[m]
    BY <1>0, <2>1
  <2> HIDE DEF t, x
  <2>6. Ordered(Append(t, x))
    <3> SUFFICES ASSUME NEW i \in 1..(Len(t) + 1), NEW j \in 1..(Len(t) + 1), i <= j
                 PROVE  Append(t, x)[i] <= Append(t, x)[j]
      BY <2>3
    <3>1. CASE j \in 1..Len(t)
      <4>1. i \in 1..Len(t)
        BY <2>1, <3>1
      <4> QED
        BY <2>1, <2>3, <3>1, <4>1
    <3>2. CASE j = Len(t) + 1
      <4>1. i \in 1..Len(t) \/ i = Len(t) + 1
        BY <2>1
      <4> QED
        BY <2>1, <2>3, <2>4, <3>2, <4>1
    <3> QED
      BY <2>1, <3>1, <3>2
  <2>7. Before(Append(t, x), n + 1)
    <3> SUFFICES ASSUME NEW i \in 1..(Len(t) + 1), NEW m \in (n + 1) + 1 .. Len(s)
                 PROVE  Append(t, x)[i] <= s[m]
      BY <2>3
    <3>1. i \in 1..Len(t) \/ i = Len(t) + 1
      BY <2>1
    <3> QED
      BY <2>1, <2>3, <2>5, <3>1
  <2>8. Before(t, n + 1)
    BY <2>1, <2>5
  <2> HIDE DEF Ordered, Before
  <2> QED
    BY <2>1, <2>2, <2>3, <2>6, <2>7, <2>8
<1>4. \A n \in 0..Len(s) : n \in P
  <2> HIDE DEF P
  <2> QED
    BY <1>0, <1>2, <1>3, BoundedInduction
<1> QED
  BY <1>0, <1>1, <1>4

-----------------------------------------------------------------------------
(* f[n] is what the first n of the lists c are, put together. *)
Joins(f, c, L, X) ==
    /\ f \in [0..L -> Seq(X)] /\ f[0] = <<>>
    /\ \A n \in 1..L : f[n] = f[n - 1] \o c[n]

LEMMA JoinExists ==
    ASSUME NEW X, NEW L \in Nat, NEW c, \A i \in 1..L : c[i] \in Seq(X)
    PROVE  \E f : Joins(f, c, L, X)
<1> DEFINE step == [p \in (1..L) \X Seq(X) |-> p[2] \o c[p[1]]]
<1>1. step \in [(1..L) \X Seq(X) -> Seq(X)]
  <2> SUFFICES ASSUME NEW n \in 1..L, NEW t \in Seq(X) PROVE t \o c[n] \in Seq(X)
    OBVIOUS
  <2> QED
    BY ConcatProperties
<1>2. PICK g : Iterates(g, Seq(X), L, <<>>, step)
  <2>1. <<>> \in Seq(X)
    OBVIOUS
  <2> HIDE DEF step
  <2> QED
    BY <1>1, <2>1, IterationExists
<1>3. g \in [0..L -> Seq(X)] /\ g[0] = <<>>
  BY <1>2 DEF Iterates
<1>4. ASSUME NEW n \in 1..L PROVE g[n] = g[n - 1] \o c[n]
  <2>1. n - 1 \in 0..L
    OBVIOUS
  <2>2. g[n - 1] \in Seq(X)
    BY <1>3, <2>1
  <2>3. g[n] = step[<<n, g[n - 1]>>]
    BY <1>2 DEF Iterates
  <2> QED
    BY <2>2, <2>3
<1> QED
  BY <1>3, <1>4 DEF Joins

LEMMA FlattenLoop ==
    ASSUME NEW X, NEW L \in Nat, NEW c, \A i \in 1..L : c[i] \in Seq(X),
           NEW f, Joins(f, c, L, X), Len(c) = L, L = 0 => c = <<>>
    PROVE  FlattenSeq(c) = f[L]
<1> DEFINE Loop(h) == [i \in 1..L |-> IF i = 1 THEN c[i] ELSE h[i - 1] \o c[i]]
           flatten == CHOOSE h : h = Loop(h)
<1>1. CASE L = 0
  BY <1>1 DEF Joins, FlattenSeq
<1>2. CASE L # 0
  <2> DEFINE h == [i \in 1..L |-> f[i]]
  <2>1. ASSUME NEW i \in 1..L
        PROVE  h[i] = IF i = 1 THEN c[i] ELSE h[i - 1] \o c[i]
    <3>1. h[i] = f[i - 1] \o c[i]
      BY DEF Joins
    <3>2. CASE i = 1
      <4>1. f[i - 1] = <<>>
        BY <3>2 DEF Joins
      <4>2. c[i] \in Seq(X)
        OBVIOUS
      <4> HIDE DEF h
      <4> QED
        BY <3>1, <3>2, <4>1, <4>2, ConcatEmptySeq
    <3>3. CASE i # 1
      <4>1. i - 1 \in 1..L
        BY <3>3
      <4>2. h[i - 1] = f[i - 1]
        BY <4>1
      <4> HIDE DEF h
      <4> QED
        BY <3>1, <3>3, <4>2
    <3> QED
      BY <3>2, <3>3
  <2>2. h = Loop(h)
    <3>1. Loop(h) = [i \in 1..L |-> h[i]]
      <4> HIDE DEF h
      <4> QED
        BY <2>1
    <3>2. h = [i \in 1..L |-> h[i]]
      OBVIOUS
    <3> HIDE DEF h, Loop
    <3> QED
      BY <3>1, <3>2
  <2>3. flatten = Loop(flatten)
    <3> HIDE DEF Loop, h
    <3> QED
      BY <2>2
  <2>4. FlattenSeq(c) = flatten[L]
    BY <1>2 DEF FlattenSeq
  <2> HIDE DEF flatten
  <2>5. ASSUME NEW i \in 1..L
        PROVE  flatten[i] = IF i = 1 THEN c[i] ELSE flatten[i - 1] \o c[i]
    <3>1. Loop(flatten)[i] = IF i = 1 THEN c[i] ELSE flatten[i - 1] \o c[i]
      OBVIOUS
    <3> HIDE DEF Loop
    <3> QED
      BY <2>3, <3>1
  <2> DEFINE P == {n \in 0..L : n # 0 => flatten[n] = f[n]}
  <2>6. 0 \in P
    OBVIOUS
  <2>7. ASSUME NEW n \in 0..(L - 1), n \in P PROVE n + 1 \in P
    <3>1. n + 1 \in 1..L /\ (n + 1) - 1 = n /\ n + 1 \in 0..L
      OBVIOUS
    <3>2. flatten[n + 1] = IF n + 1 = 1 THEN c[n + 1] ELSE flatten[n] \o c[n + 1]
      BY <2>5, <3>1
    <3>3. f[n + 1] = f[n] \o c[n + 1]
      BY <3>1 DEF Joins
    <3>4. flatten[n + 1] = f[n + 1]
      <4>1. CASE n = 0
        <5>1. f[n] = <<>> /\ c[n + 1] \in Seq(X)
          BY <3>1, <4>1 DEF Joins
        <5>2. <<>> \o c[n + 1] = c[n + 1]
          BY <5>1, ConcatEmptySeq
        <5> QED
          BY <3>2, <3>3, <4>1, <5>1, <5>2
      <4>2. CASE n # 0
        <5>1. n + 1 # 1 /\ flatten[n] = f[n]
          BY <2>7, <4>2
        <5> HIDE DEF P
        <5> QED
          BY <3>2, <3>3, <5>1
      <4> QED
        BY <4>1, <4>2
    <3> QED
      BY <3>1, <3>4
  <2>8. \A n \in 0..L : n \in P
    <3> HIDE DEF P
    <3> QED
      BY <2>6, <2>7, BoundedInduction
  <2> QED
    BY <1>2, <2>4, <2>8
<1> QED
  BY <1>1, <1>2

(* Where the lists lie in the result. *)
Adds(f, c, L, X) ==
    /\ \A i \in 0..L : f[i] \in Seq(X) /\ Len(f[i]) \in Nat
    /\ \A i \in 1..L : /\ Len(c[i]) \in Nat
                       /\ Len(f[i]) = Len(f[i - 1]) + Len(c[i])
                       /\ \A m \in 1..Len(f[i - 1]) : f[i][m] = f[i - 1][m]
                       /\ \A k \in 1..Len(c[i]) : f[i][Len(f[i - 1]) + k] = c[i][k]

LEMMA JoinedLengths ==
    ASSUME NEW X, NEW L \in Nat, NEW c, \A i \in 1..L : c[i] \in Seq(X),
           NEW f, Joins(f, c, L, X)
    PROVE  Adds(f, c, L, X)
<1>1. ASSUME NEW i \in 0..L PROVE f[i] \in Seq(X) /\ Len(f[i]) \in Nat
  <2>1. f[i] \in Seq(X)
    BY DEF Joins
  <2> QED
    BY <2>1
<1>2. ASSUME NEW i \in 1..L
      PROVE  /\ Len(c[i]) \in Nat
             /\ Len(f[i]) = Len(f[i - 1]) + Len(c[i])
             /\ \A m \in 1..Len(f[i - 1]) : f[i][m] = f[i - 1][m]
             /\ \A k \in 1..Len(c[i]) : f[i][Len(f[i - 1]) + k] = c[i][k]
  <2> DEFINE a == f[i - 1]
             b == c[i]
             r == f[i]
  <2>1. i - 1 \in 0..L
    OBVIOUS
  <2>2. a \in Seq(X) /\ b \in Seq(X)
    BY <1>1, <2>1
  <2>3. r = a \o b
    BY DEF Joins
  <2> HIDE DEF a, b, r
  <2>4. Len(a) \in Nat /\ Len(b) \in Nat
    BY <2>2
  <2>5. /\ Len(r) = Len(a) + Len(b)
        /\ \A m \in 1 .. Len(a) + Len(b) : r[m] = IF m <= Len(a) THEN a[m] ELSE b[m - Len(a)]
    BY <2>2, <2>3, ConcatProperties
  <2>6. \A m \in 1..Len(a) : r[m] = a[m]
    BY <2>4, <2>5
  <2>7. ASSUME NEW k \in 1..Len(b) PROVE r[Len(a) + k] = b[k]
    <3>1. /\ Len(a) + k \in 1 .. Len(a) + Len(b)
          /\ ~(Len(a) + k <= Len(a)) /\ (Len(a) + k) - Len(a) = k
      BY <2>4
    <3> QED
      BY <2>5, <3>1
  <2> QED
    BY <2>4, <2>5, <2>6, <2>7 DEF a, b, r
<1> QED
  BY <1>1, <1>2 DEF Adds

Lies(f, c, L) ==
    /\ \A i, j \in 0..L : i <= j => Len(f[i]) <= Len(f[j])
    /\ \A i \in 1..L : \A k \in 1..Len(c[i]) : f[L][Len(f[i - 1]) + k] = c[i][k]
    /\ \A j \in 1..Len(f[L]) :
           \E i \in 1..L : \E k \in 1..Len(c[i]) : j = Len(f[i - 1]) + k

LEMMA JoinedPlaces ==
    ASSUME NEW X, NEW L \in Nat, NEW c, \A i \in 1..L : c[i] \in Seq(X),
           NEW f, Joins(f, c, L, X)
    PROVE  Lies(f, c, L)
<1>0. Adds(f, c, L, X)
  BY JoinedLengths
<1>1. \A i \in 0..L : Len(f[i]) \in Nat
  BY <1>0 DEF Adds
<1>2. ASSUME NEW i \in 1..L
      PROVE  /\ Len(c[i]) \in Nat
             /\ Len(f[i]) = Len(f[i - 1]) + Len(c[i])
             /\ \A m \in 1..Len(f[i - 1]) : f[i][m] = f[i - 1][m]
             /\ \A k \in 1..Len(c[i]) : f[i][Len(f[i - 1]) + k] = c[i][k]
  BY Zenon, <1>0 DEF Adds
<1> DEFINE Grows(n) == \A i \in 0..n : /\ Len(f[i]) <= Len(f[n])
                                       /\ \A m \in 1..Len(f[i]) : f[n][m] = f[i][m]
           Covered(n) == \A j \in 1..Len(f[n]) :
                             \E i \in 1..n : \E k \in 1..Len(c[i]) : j = Len(f[i - 1]) + k
           P == {n \in 0..L : Grows(n) /\ Covered(n)}
<1>3. 0 \in P
  <2>1. 0 \in 0..L /\ Len(f[0]) \in Nat
    BY <1>1
  <2>2. Grows(0)
    BY <2>1
  <2>3. Len(f[0]) = 0
    BY DEF Joins
  <2>4. Covered(0)
    BY <2>3
  <2> HIDE DEF Grows, Covered
  <2> QED
    BY <2>1, <2>2, <2>4
<1>4. ASSUME NEW n \in 0..(L - 1), n \in P PROVE n + 1 \in P
  <2>1. n + 1 \in 1..L /\ (n + 1) - 1 = n /\ n + 1 \in 0..L /\ n \in 0..L
    OBVIOUS
  <2>2. Len(f[n]) \in Nat /\ Len(f[n + 1]) \in Nat
    BY <1>1, <2>1
  <2>3. /\ Len(f[n + 1]) = Len(f[n]) + Len(c[n + 1]) /\ Len(c[n + 1]) \in Nat
        /\ \A m \in 1..Len(f[n]) : f[n + 1][m] = f[n][m]
    <3> DEFINE m == n + 1
    <3>1. m \in 1..L /\ m - 1 = n
      BY <2>1
    <3> HIDE DEF m, P, Grows, Covered
    <3>2. /\ Len(f[m]) = Len(f[n]) + Len(c[m]) /\ Len(c[m]) \in Nat
          /\ \A j \in 1..Len(f[n]) : f[m][j] = f[n][j]
      BY <1>2, <3>1
    <3> QED
      BY <3>2 DEF m
  <2>4. Grows(n) /\ Covered(n)
    <3> HIDE DEF Grows, Covered
    <3> QED
      BY <1>4
  <2>5. Grows(n + 1)
    <3> SUFFICES ASSUME NEW i \in 0..(n + 1)
                 PROVE  /\ Len(f[i]) <= Len(f[n + 1])
                        /\ \A m \in 1..Len(f[i]) : f[n + 1][m] = f[i][m]
      OBVIOUS
    <3>1. CASE i = n + 1
      BY <2>2, <3>1
    <3>2. CASE i # n + 1
      <4>1. i \in 0..n /\ i \in 0..L
        BY <3>2
      <4>2. Len(f[i]) \in Nat /\ Len(f[i]) <= Len(f[n])
            /\ \A m \in 1..Len(f[i]) : f[n][m] = f[i][m]
        BY <1>1, <2>4, <4>1
      <4>3. \A m \in 1..Len(f[i]) : m \in 1..Len(f[n])
        BY <2>2, <4>2
      <4>4. Len(f[i]) <= Len(f[n + 1])
        <5> DEFINE a == Len(f[i])
                   b == Len(f[n])
                   d == Len(c[n + 1])
        <5>1. a \in Nat /\ b \in Nat /\ d \in Nat /\ a <= b /\ Len(f[n + 1]) = b + d
          BY <2>2, <2>3, <4>2
        <5> HIDE DEF a, b, d
        <5>2. a <= b + d
          BY <5>1
        <5> QED
          BY <5>1, <5>2 DEF a
      <4>5. ASSUME NEW m \in 1..Len(f[i]) PROVE f[n + 1][m] = f[i][m]
        <5> HIDE DEF P, Grows, Covered
        <5> QED
          BY <2>3, <4>2, <4>3
      <4> QED
        BY <4>4, <4>5
    <3> QED
      BY <3>1, <3>2
  <2>6. Covered(n + 1)
    <3> SUFFICES ASSUME NEW j \in 1..Len(f[n + 1])
                 PROVE  \E i \in 1..(n + 1) : \E k \in 1..Len(c[i]) : j = Len(f[i - 1]) + k
      OBVIOUS
    <3>1. CASE j <= Len(f[n])
      <4>1. j \in 1..Len(f[n])
        BY <2>2, <3>1
      <4>2. PICK i \in 1..n : \E k \in 1..Len(c[i]) : j = Len(f[i - 1]) + k
        BY <2>4, <4>1
      <4>3. i \in 1..(n + 1)
        OBVIOUS
      <4> QED
        BY <4>2, <4>3
    <3>2. CASE ~(j <= Len(f[n]))
      <4>1. j - Len(f[n]) \in 1..Len(c[n + 1]) /\ j = Len(f[n]) + (j - Len(f[n]))
        <5> DEFINE b == Len(f[n])
                   d == Len(c[n + 1])
        <5>1. b \in Nat /\ d \in Nat /\ j \in 1 .. b + d /\ ~(j <= b)
          BY <2>2, <2>3, <3>2
        <5> HIDE DEF b, d
        <5>2. j - b \in 1..d /\ j = b + (j - b)
          BY <5>1
        <5> QED
          BY <5>2 DEF b, d
      <4>2. n + 1 \in 1..(n + 1)
        OBVIOUS
      <4> QED
        BY <2>1, <4>1, <4>2
    <3> QED
      BY <3>1, <3>2
  <2> HIDE DEF Grows, Covered
  <2> QED
    BY <2>1, <2>5, <2>6
<1>5. ASSUME NEW n \in 0..L PROVE Grows(n) /\ Covered(n)
  <2>1. \A m \in 0..L : m \in P
    <3> HIDE DEF P
    <3> QED
      BY <1>3, <1>4, BoundedInduction
  <2> HIDE DEF Grows, Covered
  <2> QED
    BY <2>1
<1>6. ASSUME NEW i \in 1..L, NEW k \in 1..Len(c[i])
      PROVE  f[L][Len(f[i - 1]) + k] = c[i][k]
  <2>1. i \in 0..L /\ i - 1 \in 0..L /\ L \in 0..L
    OBVIOUS
  <2>2. /\ Len(f[i]) = Len(f[i - 1]) + Len(c[i]) /\ Len(f[i - 1]) \in Nat
        /\ Len(c[i]) \in Nat /\ f[i][Len(f[i - 1]) + k] = c[i][k]
    BY <1>1, <1>2, <2>1
  <2>3. Len(f[i - 1]) + k \in 1..Len(f[i])
    <3> DEFINE a == Len(f[i - 1])
               b == Len(c[i])
    <3>1. a \in Nat /\ b \in Nat /\ k \in 1..b /\ Len(f[i]) = a + b
      BY <2>2
    <3> HIDE DEF a, b, P, Grows, Covered
    <3>2. a + k \in 1 .. a + b
      BY <3>1
    <3> QED
      BY <3>1, <3>2 DEF a
  <2>4. Grows(L) /\ i \in 0..L
    BY <1>5, <2>1
  <2>5. f[L][Len(f[i - 1]) + k] = f[i][Len(f[i - 1]) + k]
    BY <2>3, <2>4
  <2> QED
    BY <2>2, <2>5
<1>7. ASSUME NEW i \in 0..L, NEW j \in 0..L, i <= j PROVE Len(f[i]) <= Len(f[j])
  <2>1. Grows(j) /\ i \in 0..j
    BY <1>5, <1>7
  <2> QED
    BY <2>1
<1>8. Covered(L)
  <2>1. L \in 0..L
    OBVIOUS
  <2> HIDE DEF Grows, Covered
  <2> QED
    BY <1>5, <2>1
<1>9. \A i, j \in 0..L : i <= j => Len(f[i]) <= Len(f[j])
  BY <1>7
<1> HIDE DEF Grows, P
<1> QED
  BY <1>6, <1>8, <1>9 DEF Lies
=============================================================================
