------------------------------ MODULE SdpProofs ------------------------------
(***************************************************************************)
(* Theorems about Sdp: what the PBX makes of a body says what it should to *)
(* whoever parses it, for bodies of any length and with any lines.         *)
(* Everything is drawn from one description of an edit, Edited: which line *)
(* each line becomes and where it is.                                      *)
(***************************************************************************)
EXTENDS Sdp, ListTheorems

-----------------------------------------------------------------------------
(* The lines of bodies whose addresses are in A. *)
Key == [tag : Nat, suite : Nat, key : Nat \cup {Bad}]
Crypto == [tag : Nat, suite : Nat, key : Nat]
OLine(A) == [k : {"o"}, ver : Nat, addr : A]
CLine(A) == [k : {"c"}, addr : A]
MLine == [k : {"m"}, media : {"audio", "video"}, port : Nat, srtp : BOOLEAN,
          feedback : BOOLEAN, fmts : Seq(Nat)]
DirLine == [k : {"dir"}, dir : Directions]
RtcpLine == [k : {"rtcp"}, port : Nat \ {0}]
KeyLine == [k : {"crypto"}, tag : Nat, suite : Nat, key : Nat \cup {Bad}]
EventLine == [k : {"event"}, pt : Nat]
OtherLine == [k : {"ice", "text"}]

Line(A) ==
    OLine(A) \cup CLine(A) \cup MLine \cup DirLine \cup RtcpLine \cup KeyLine
    \cup EventLine \cup OtherLine

(* A line is of one kind. *)
LEMMA LineKinds ==
    ASSUME NEW A, NEW l \in Line(A)
    PROVE  /\ l.k \in {"o", "c", "m", "dir", "rtcp", "crypto", "event", "ice", "text"}
           /\ l.k = "o" => l \in OLine(A)
           /\ l.k = "c" => l \in CLine(A)
           /\ l.k = "m" => l \in MLine
           /\ l.k = "dir" => l \in DirLine
           /\ l.k = "rtcp" => l \in RtcpLine
           /\ l.k = "crypto" => l \in KeyLine
           /\ l.k = "event" => l \in EventLine
           /\ l # NoLine
  BY DEF Line, OLine, CLine, MLine, DirLine, RtcpLine, KeyLine, EventLine, OtherLine, NoLine

-----------------------------------------------------------------------------
(* The least and the greatest element of a set of places. *)
LEMMA MinOf ==
    ASSUME NEW S, S \subseteq Nat, S # {}
    PROVE  Min(S) \in S /\ \A x \in S : Min(S) <= x
<1>1. \E m \in S : \A x \in S : m <= x
  BY Smallest
<1> QED
  BY <1>1 DEF Min

(* An element that no other is below is the least. *)
LEMMA MinIs ==
    ASSUME NEW S, S \subseteq Nat, NEW m \in S, \A x \in S : m <= x
    PROVE  Min(S) = m
<1>1. Min(S) \in S /\ \A x \in S : Min(S) <= x
  BY MinOf
<1> DEFINE n == Min(S)
<1>2. n \in Nat /\ m \in Nat /\ n <= m /\ m <= n
  BY <1>1
<1> HIDE DEF n
<1>3. n = m
  BY <1>2
<1> QED
  BY <1>3 DEF n

(* The greatest element of a set of places. *)
LEMMA MaxOf ==
    ASSUME NEW n \in Nat, NEW S, S \subseteq 0..n, S # {}
    PROVE  Max(S) \in S /\ \A x \in S : x <= Max(S)
<1> DEFINE T == {n - x : x \in S}
<1>0. \A x \in S : x \in Nat /\ x <= n /\ n - x \in Nat
  OBVIOUS
<1>1. T \subseteq Nat /\ T # {}
  BY <1>0
<1>2. PICK t \in T : \A y \in T : t <= y
  <2> HIDE DEF T
  <2> QED
    BY <1>1, Smallest
<1>3. PICK m \in S : t = n - m
  OBVIOUS
<1>4. ASSUME NEW x \in S PROVE m >= x
  <2>1. n - x \in T
    OBVIOUS
  <2>2. n - m <= n - x
    <3> HIDE DEF T
    <3> QED
      BY <1>2, <1>3, <2>1
  <2> QED
    BY <1>0, <2>2
<1>5. \E m0 \in S : \A x \in S : m0 >= x
  BY <1>4
<1>6. Max(S) \in S /\ \A x \in S : Max(S) >= x
  <2> HIDE DEF T
  <2> QED
    BY <1>5 DEF Max
<1>7. Max(S) \in Nat
  BY <1>0, <1>6
<1> QED
  BY <1>0, <1>6, <1>7

(* An element that no other is above is the greatest. *)
LEMMA MaxIs ==
    ASSUME NEW n \in Nat, NEW S, S \subseteq 0..n, NEW m \in S, \A x \in S : x <= m
    PROVE  Max(S) = m
<1>1. Max(S) \in S /\ \A x \in S : x <= Max(S)
  BY MaxOf
<1> DEFINE k == Max(S)
<1>2. k \in Nat /\ m \in Nat /\ k <= m /\ m <= k
  <2>1. \A x \in S : x \in Nat
    OBVIOUS
  <2> QED
    BY <1>1, <2>1
<1> HIDE DEF k
<1>3. k = m
  BY <1>2
<1> QED
  BY <1>3 DEF k

-----------------------------------------------------------------------------
(* The first audio stream of a body, by what makes its bounds these. *)
LEMMA StreamBounds ==
    ASSUME NEW X, NEW b \in Seq(X), AudioLines(b) # {}
    PROVE  /\ Len(b) \in Nat /\ DOMAIN b = 1..Len(b)
           /\ Audio(b) \in AudioLines(b) /\ Audio(b) \in 1..Len(b)
           /\ \A i \in AudioLines(b) : Audio(b) <= i
           /\ AudioEnd(b) \in Audio(b)..Len(b) /\ AudioEnd(b) \in 1..Len(b)
           /\ \A i \in Audio(b) + 1 .. AudioEnd(b) : b[i].k # "m"
           /\ AudioEnd(b) = Len(b) \/ b[AudioEnd(b) + 1].k = "m"
<1>1. Len(b) \in Nat /\ DOMAIN b = 1..Len(b)
  OBVIOUS
<1>2. AudioLines(b) \subseteq 1..Len(b) /\ AudioLines(b) \subseteq Nat
  BY <1>1 DEF AudioLines, Lines
<1>3. /\ Audio(b) \in AudioLines(b) /\ Audio(b) \in 1..Len(b)
      /\ \A i \in AudioLines(b) : Audio(b) <= i
  BY <1>2, MinOf DEF Audio
<1> DEFINE a == Audio(b)
           T == {i \in a + 1 .. Len(b) : b[i].k = "m"} \cup {Len(b) + 1}
           z == Min(T)
<1>4. AudioEnd(b) = z - 1
  BY DEF AudioEnd
<1>5. a \in Nat /\ a >= 1 /\ a <= Len(b)
  BY <1>1, <1>3
<1> HIDE DEF a
<1>6. T \subseteq Nat /\ T # {}
  BY <1>1, <1>5
<1>7. z \in T /\ \A i \in T : z <= i
  <2> HIDE DEF T
  <2> QED
    BY <1>6, MinOf
<1> HIDE DEF z
<1>8. z \in Nat /\ a < z /\ z <= Len(b) + 1
  BY <1>1, <1>5, <1>7
<1>9. ASSUME NEW i \in a + 1 .. z - 1 PROVE b[i].k # "m"
  <2>1. i \in a + 1 .. Len(b) /\ ~(z <= i)
    BY <1>1, <1>5, <1>8
  <2> QED
    BY <1>7, <2>1
<1>10. z - 1 = Len(b) \/ b[(z - 1) + 1].k = "m"
  <2>1. (z - 1) + 1 = z
    BY <1>8
  <2>2. z = Len(b) + 1 => z - 1 = Len(b)
    BY <1>1
  <2> QED
    BY <1>7, <2>1, <2>2
<1>11. z - 1 \in a..Len(b) /\ z - 1 \in 1..Len(b)
  BY <1>1, <1>5, <1>8
<1> QED
  BY <1>1, <1>3, <1>4, <1>9, <1>10, <1>11 DEF a

(* What has the bounds of the first audio stream is the first audio        *)
(* stream.                                                                 *)
LEMMA StreamIs ==
    ASSUME NEW X, NEW b \in Seq(X), NEW a \in AudioLines(b),
           \A i \in AudioLines(b) : a <= i,
           NEW z \in a..Len(b), \A i \in a + 1 .. z : b[i].k # "m",
           z = Len(b) \/ b[z + 1].k = "m"
    PROVE  Audio(b) = a /\ AudioEnd(b) = z
<1>1. Len(b) \in Nat /\ DOMAIN b = 1..Len(b)
  OBVIOUS
<1>2. AudioLines(b) \subseteq 1..Len(b) /\ AudioLines(b) \subseteq Nat
  BY <1>1 DEF AudioLines, Lines
<1>3. Audio(b) = a
  BY <1>2, MinIs DEF Audio
<1> DEFINE n == Len(b)
<1>4. a \in Nat /\ a >= 1 /\ a <= n /\ z \in Nat /\ a <= z /\ z <= n /\ n \in Nat
  <2>1. a \in 1..n /\ n \in Nat /\ z \in a..n
    BY <1>1, <1>2
  <2> HIDE DEF n
  <2> QED
    BY <2>1
<1> HIDE DEF n
<1> DEFINE M == {i \in a + 1 .. n : b[i].k = "m"}
           T == M \cup {n + 1}
<1>M. \A i \in M : i \in Nat /\ i >= a + 1 /\ b[i].k = "m"
  BY <1>4
<1>5. T \subseteq Nat
  <2> HIDE DEF M
  <2> QED
    BY <1>4, <1>M
<1>6. z + 1 \in T
  <2>1. CASE z = n
    BY <2>1
  <2>2. CASE z # n
    <3>1. z + 1 \in a + 1 .. n
      BY <1>1, <1>4, <2>2
    <3> QED
      BY <2>2, <3>1 DEF n
  <2> QED
    BY <2>1, <2>2
<1>7. ASSUME NEW i \in T PROVE z + 1 <= i
  <2> HIDE DEF M
  <2>1. CASE i = n + 1
    BY <1>4, <2>1
  <2>2. CASE i \in M
    <3>1. i \notin a + 1 .. z /\ i \in Nat /\ i >= a + 1
      BY <1>M, <2>2
    <3> QED
      BY <1>4, <3>1
  <2> QED
    BY <2>1, <2>2
<1>8. Min(T) = z + 1
  <2> HIDE DEF T
  <2> QED
    BY <1>5, <1>6, <1>7, MinIs
<1>9. AudioEnd(b) = Min(T) - 1
  BY <1>3 DEF AudioEnd, n
<1> HIDE DEF T
<1> QED
  BY <1>3, <1>4, <1>8, <1>9

(* The session part ends before the first media line. *)
LEMMA SessionLines ==
    ASSUME NEW X, NEW b \in Seq(X)
    PROVE  InSession(b) = {i \in 1..Len(b) : \A j \in Lines(b, "m") : i < j}
<1>1. Len(b) \in Nat /\ DOMAIN b = 1..Len(b)
  OBVIOUS
<1> DEFINE T == Lines(b, "m") \cup {Len(b) + 1}
           z == Min(T)
<1>2. Lines(b, "m") \subseteq 1..Len(b)
  BY <1>1 DEF Lines
<1>3. T \subseteq Nat /\ T # {} /\ \A i \in T : i <= Len(b) + 1
  BY <1>1, <1>2
<1>4. z \in T /\ \A i \in T : z <= i
  <2> HIDE DEF T
  <2> QED
    BY <1>3, MinOf
<1>5. InSession(b) = 1 .. z - 1
  BY DEF InSession
<1> HIDE DEF z
<1>6. z \in Nat /\ z <= Len(b) + 1
  BY <1>3, <1>4
<1>7. ASSUME NEW i \in 1 .. z - 1 PROVE i \in 1..Len(b) /\ \A j \in Lines(b, "m") : i < j
  <2>1. \A j \in Lines(b, "m") : z <= j /\ j \in Nat
    BY <1>2, <1>4
  <2> QED
    BY <1>1, <1>6, <2>1
<1>8. ASSUME NEW i \in 1..Len(b), \A j \in Lines(b, "m") : i < j PROVE i \in 1 .. z - 1
  <2>1. i < z
    BY <1>1, <1>4, <1>8
  <2> QED
    BY <1>6, <2>1
<1> QED
  BY <1>5, <1>7, <1>8

-----------------------------------------------------------------------------
(* r is b with each line i edited to e[i], and with x at the end of the    *)
(* audio stream; p[i] is how many lines the first i have become.           *)
Edited(b, e, x, r, p) ==
    /\ p[0] = 0 /\ p[Len(b)] = Len(r) /\ \A i \in 0..Len(b) : p[i] \in Nat
    /\ \A i, j \in 0..Len(b) : i <= j => p[i] <= p[j]
    /\ \A i \in 1..Len(b) :
           /\ p[i] = p[i - 1] + Len(e[i]) + (IF i = AudioEnd(b) THEN Len(x) ELSE 0)
           /\ e[i] # <<>> => p[i - 1] + 1 \in 1..Len(r) /\ r[p[i - 1] + 1] = e[i][1]
    /\ x # <<>> => p[AudioEnd(b)] \in 1..Len(r) /\ r[p[AudioEnd(b)]] = x[1]
    /\ \A j \in 1..Len(r) :
           \/ \E i \in 1..Len(b) : e[i] # <<>> /\ j = p[i - 1] + 1
           \/ x # <<>> /\ j = p[AudioEnd(b)]

(* A list of one or none. *)
LEMMA Short ==
    ASSUME NEW X, NEW s \in Seq(X), Len(s) <= 1
    PROVE  \/ s = <<>> /\ Len(s) = 0
           \/ s # <<>> /\ Len(s) = 1 /\ s[1] \in X
<1>1. Len(s) \in Nat
  OBVIOUS
<1>2. CASE Len(s) = 0
  BY <1>2, EmptySeq
<1>3. CASE Len(s) = 1
  <2>1. s # <<>>
    BY <1>3
  <2>2. s[1] \in X
    BY <1>3
  <2> QED
    BY <1>3, <2>1, <2>2
<1>4. Len(s) = 0 \/ Len(s) = 1
  <2> DEFINE n == Len(s)
  <2>1. n \in Nat /\ n <= 1
    BY <1>1
  <2> HIDE DEF n
  <2>2. n = 0 \/ n = 1
    BY <2>1
  <2> QED
    BY <2>2 DEF n
<1> QED
  BY <1>2, <1>3, <1>4

(* EditLines does what Edited says: every line of the result is an edited  *)
(* line or the extra one, in its place.                                    *)
LEMMA EditedLines ==
    ASSUME NEW X, NEW b \in Seq(X), AudioLines(b) # {}, NEW Y,
           NEW e, \A i \in 1..Len(b) : e[i] \in Seq(Y) /\ Len(e[i]) <= 1,
           NEW x \in Seq(Y), Len(x) <= 1
    PROVE  /\ EditLines(b, e, x) \in Seq(Y)
           /\ \E p : Edited(b, e, x, EditLines(b, e, x), p)
<1> DEFINE L == Len(b)
           end == AudioEnd(b)
           y(i) == IF i = end THEN x ELSE <<>>
           c == [i \in 1..L |-> e[i] \o y(i)]
           r == EditLines(b, e, x)
<1>1. L \in Nat /\ L # 0 /\ DOMAIN b = 1..L /\ end \in 1..L
  BY StreamBounds
<1>2. ASSUME NEW i \in 1..L
      PROVE  /\ y(i) \in Seq(Y) /\ c[i] = e[i] \o y(i) /\ c[i] \in Seq(Y)
             /\ Len(c[i]) = Len(e[i]) + Len(y(i))
             /\ \A k \in 1..Len(e[i]) : c[i][k] = e[i][k]
             /\ \A k \in 1..Len(y(i)) : c[i][Len(e[i]) + k] = y(i)[k]
  <2> DEFINE u == e[i]
             v == y(i)
             w == c[i]
  <2>1. u \in Seq(Y) /\ v \in Seq(Y) /\ w = u \o v
    <3>1. <<>> \in Seq(Y)
      OBVIOUS
    <3> QED
      BY <3>1
  <2> HIDE DEF u, v, w
  <2>2. w \in Seq(Y) /\ Len(w) = Len(u) + Len(v)
        /\ \A m \in 1 .. Len(u) + Len(v) : w[m] = IF m <= Len(u) THEN u[m] ELSE v[m - Len(u)]
    BY <2>1, ConcatProperties
  <2>3. Len(u) \in Nat /\ Len(v) \in Nat
    BY <2>1
  <2>4. \A k \in 1..Len(u) : w[k] = u[k]
    BY <2>2, <2>3
  <2>5. ASSUME NEW k \in 1..Len(v) PROVE w[Len(u) + k] = v[k]
    <3>1. /\ Len(u) + k \in 1 .. Len(u) + Len(v) /\ ~(Len(u) + k <= Len(u))
          /\ (Len(u) + k) - Len(u) = k
      BY <2>3
    <3> QED
      BY <2>2, <3>1
  <2> QED
    BY <2>1, <2>2, <2>4, <2>5 DEF u, v, w
<1>3. r = FlattenSeq(c)
  BY <1>1 DEF EditLines
<1>4. Len(c) = L /\ \A i \in 1..L : c[i] \in Seq(Y)
  BY <1>1, <1>2
<1> HIDE DEF c, y, r
<1>5. PICK f : Joins(f, c, L, Y)
  BY <1>1, <1>4, JoinExists
<1>6. r = f[L]
  BY <1>1, <1>3, <1>4, <1>5, FlattenLoop
<1>7. Adds(f, c, L, Y)
  BY <1>1, <1>4, <1>5, JoinedLengths
<1>8. Lies(f, c, L)
  <2> HIDE DEF L
  <2> QED
    BY <1>1, <1>4, <1>5, JoinedPlaces
<1> DEFINE p == [i \in 0..L |-> Len(f[i])]
<1>9. /\ \A i \in 0..L : p[i] = Len(f[i]) /\ p[i] \in Nat
      /\ r \in Seq(Y) /\ f[0] = <<>> /\ Len(r) = p[L]
      /\ p[0] = 0
  <2>1. \A i \in 0..L : p[i] = Len(f[i]) /\ p[i] \in Nat /\ f[i] \in Seq(Y)
    BY <1>7 DEF Adds
  <2>2. f[0] = <<>> /\ 0 \in 0..L /\ L \in 0..L
    BY <1>1, <1>5 DEF Joins
  <2> QED
    BY <1>6, <2>1, <2>2
<1>10. \A i, j \in 0..L : i <= j => p[i] <= p[j]
  BY <1>8, <1>9 DEF Lies
<1>11. ASSUME NEW i \in 1..L
       PROVE  /\ i - 1 \in 0..L /\ i \in 0..L
              /\ p[i] = p[i - 1] + Len(e[i]) + Len(y(i))
              /\ \A k \in 1..Len(c[i]) : p[i - 1] + k \in 1..Len(r) /\ r[p[i - 1] + k] = c[i][k]
  <2>1. i - 1 \in 0..L /\ i \in 0..L /\ i <= L /\ L \in 0..L
    BY <1>1
  <2>2. Len(f[i]) = Len(f[i - 1]) + Len(c[i]) /\ Len(c[i]) \in Nat
    BY <1>7 DEF Adds
  <2>3. p[i - 1] = Len(f[i - 1]) /\ p[i] = Len(f[i]) /\ p[i] <= p[L] /\ p[L] = Len(r)
        /\ p[i - 1] \in Nat /\ p[i] \in Nat /\ p[L] \in Nat
    BY <1>9, <1>10, <2>1
  <2>4. \A k \in 1..Len(c[i]) : r[p[i - 1] + k] = c[i][k]
    BY <1>6, <1>8, <2>3 DEF Lies
  <2>5. ASSUME NEW k \in 1..Len(c[i]) PROVE p[i - 1] + k \in 1..Len(r)
    <3> DEFINE lc == Len(c[i])
               lr == Len(r)
               pi == p[i]
               pj == p[i - 1]
               pl == p[L]
    <3>1. pi = pj + lc /\ lc \in Nat /\ pi <= pl /\ pl = lr /\ pi \in Nat /\ pj \in Nat
          /\ pl \in Nat
          /\ k \in 1..lc
      BY <2>2, <2>3
    <3> HIDE DEF lc, lr, pi, pj, pl
    <3>2. pj + k \in 1..lr
      BY <3>1
    <3> QED
      BY <3>2 DEF pj, lr
  <2>6. Len(c[i]) = Len(e[i]) + Len(y(i)) /\ Len(e[i]) \in Nat /\ Len(y(i)) \in Nat
    BY <1>2
  <2>7. p[i] = p[i - 1] + Len(e[i]) + Len(y(i))
    <3> DEFINE pi == p[i]
               pj == p[i - 1]
               lc == Len(c[i])
               le == Len(e[i])
               ly == Len(y(i))
    <3>1. pi = pj + lc /\ lc = le + ly /\ pj \in Nat /\ le \in Nat /\ ly \in Nat
      BY <2>2, <2>3, <2>6
    <3> HIDE DEF pi, pj, lc, le, ly
    <3>2. pi = pj + le + ly
      BY <3>1
    <3> QED
      BY <3>2 DEF pi, pj, le, ly
  <2> QED
    BY <2>1, <2>4, <2>5, <2>7
<1> HIDE DEF p
<1>12. ASSUME NEW i \in 1..L
       PROVE  /\ p[i] = p[i - 1] + Len(e[i]) + (IF i = end THEN Len(x) ELSE 0)
              /\ e[i] # <<>> => p[i - 1] + 1 \in 1..Len(r) /\ r[p[i - 1] + 1] = e[i][1]
  <2>1. Len(y(i)) = IF i = end THEN Len(x) ELSE 0
    BY DEF y
  <2>2. ASSUME e[i] # <<>> PROVE 1 \in 1..Len(e[i]) /\ 1 \in 1..Len(c[i]) /\ c[i][1] = e[i][1]
    <3>1. Len(e[i]) = 1 /\ 1 \in 1..Len(e[i])
      BY <2>2, Short
    <3>2. y(i) \in Seq(Y) /\ Len(c[i]) = Len(e[i]) + Len(y(i))
          /\ \A k \in 1..Len(e[i]) : c[i][k] = e[i][k]
      BY <1>2
    <3>3. Len(y(i)) \in Nat
      BY <3>2
    <3>4. 1 \in 1..Len(c[i])
      BY <3>1, <3>2, <3>3
    <3> QED
      BY <3>1, <3>2, <3>4
  <2> QED
    BY <1>11, <2>1, <2>2
<1>13. ASSUME x # <<>> PROVE p[end] \in 1..Len(r) /\ r[p[end]] = x[1]
  <2>1. y(end) = x /\ Len(x) = 1 /\ 1 \in 1..Len(y(end))
    BY <1>1, <1>13, Short DEF y
  <2>2. Len(e[end]) \in Nat /\ Len(c[end]) = Len(e[end]) + 1 /\ c[end][Len(e[end]) + 1] = x[1]
    <3>1. end \in 1..L /\ e[end] \in Seq(Y)
      BY <1>1
    <3>2. /\ Len(c[end]) = Len(e[end]) + Len(y(end))
          /\ \A k \in 1..Len(y(end)) : c[end][Len(e[end]) + k] = y(end)[k]
      BY <1>2, <3>1
    <3>3. Len(e[end]) \in Nat
      BY <3>1
    <3> QED
      BY <2>1, <3>2, <3>3
  <2>3. Len(e[end]) + 1 \in 1..Len(c[end])
    BY <2>2
  <2>4. p[end] = p[end - 1] + Len(e[end]) + 1 /\ p[end - 1] \in Nat
    BY <1>1, <1>9, <1>11, <2>1
  <2>5. p[end - 1] + (Len(e[end]) + 1) \in 1..Len(r)
        /\ r[p[end - 1] + (Len(e[end]) + 1)] = x[1]
    BY <1>1, <1>11, <2>2, <2>3
  <2>6. p[end - 1] + (Len(e[end]) + 1) = p[end]
    BY <2>2, <2>4
  <2> QED
    BY <2>5, <2>6
<1>14. ASSUME NEW j \in 1..Len(r)
       PROVE  \/ \E i \in 1..L : e[i] # <<>> /\ j = p[i - 1] + 1
              \/ x # <<>> /\ j = p[end]
  <2>1. PICK i \in 1..L : \E k \in 1..Len(c[i]) : j = Len(f[i - 1]) + k
    BY <1>6, <1>8 DEF Lies
  <2>2. PICK k \in 1..Len(c[i]) : j = Len(f[i - 1]) + k
    BY <2>1
  <2>3. j = p[i - 1] + k /\ p[i - 1] \in Nat
    BY <1>9, <1>11, <2>2
  <2>4. Len(c[i]) = Len(e[i]) + Len(y(i)) /\ Len(e[i]) \in Nat /\ Len(y(i)) \in Nat
    BY <1>2
  <2>5. CASE e[i] # <<>> /\ k = 1
    BY <2>3, <2>5
  <2>6. CASE e[i] = <<>> \/ k # 1
    <3>1. e[i] = <<>> => Len(e[i]) = 0
      OBVIOUS
    <3>2. k \in Int /\ k >= 1 /\ k <= Len(c[i])
      BY <2>4
    <3>3. Len(e[i]) = 0 \/ Len(e[i]) = 1
      BY Short
    <3>4. k > Len(e[i])
      BY <2>6, <3>1, <3>2, <3>3
    <3>5. Len(y(i)) # 0
      BY <2>4, <3>2, <3>4
    <3>6. i = end /\ x # <<>> /\ y(i) = x /\ Len(x) = 1
      BY <3>5, Short DEF y
    <3>7. k = Len(e[i]) + 1
      BY <2>4, <3>2, <3>4, <3>6
    <3>8. p[i] = p[i - 1] + Len(e[i]) + 1
      BY <1>11, <3>6
    <3> QED
      BY <2>3, <2>4, <3>6, <3>7, <3>8
  <2> QED
    BY <2>5, <2>6
<1>15. Edited(b, e, x, r, p)
  BY <1>9, <1>10, <1>12, <1>13, <1>14 DEF Edited
<1> QED
  BY <1>9, <1>15 DEF r

(* Lines keep their order, and those up to the end of the stream stay up   *)
(* to its end.                                                             *)
Ordered(b, e, x, p) ==
    \A i \in 1..Len(b) :
        /\ p[i - 1] + 1 \in Nat /\ p[AudioEnd(b)] \in Nat
        /\ e[i] # <<>> => \A j \in 1..Len(b) : i < j => p[i - 1] + 1 < p[j - 1] + 1
        /\ e[i] # <<>> /\ i <= AudioEnd(b) =>
               /\ p[i - 1] + 1 <= p[AudioEnd(b)]
               /\ x # <<>> => p[i - 1] + 1 < p[AudioEnd(b)]
        /\ i > AudioEnd(b) => p[i - 1] + 1 > p[AudioEnd(b)]

(* The lines of an edited list are in the order they had. *)
LEMMA EditedOrder ==
    ASSUME NEW X, NEW b \in Seq(X), AudioLines(b) # {}, NEW Y,
           NEW e, \A i \in 1..Len(b) : e[i] \in Seq(Y) /\ Len(e[i]) <= 1,
           NEW x \in Seq(Y), Len(x) <= 1, NEW r, NEW p, Edited(b, e, x, r, p)
    PROVE  Ordered(b, e, x, p)
<1> DEFINE L == Len(b)
           end == AudioEnd(b)
<1>1. L \in Nat /\ end \in 1..L /\ end \in 0..L
  BY StreamBounds
<1> HIDE DEF L, end
<1>2. ASSUME NEW i \in 1..L
      PROVE  /\ i - 1 \in 0..L /\ i \in 0..L /\ p[i - 1] \in Nat /\ p[i] \in Nat /\ p[end] \in Nat
             /\ p[i] = p[i - 1] + Len(e[i]) + (IF i = end THEN Len(x) ELSE 0)
             /\ p[i - 1] <= p[i]
  <2>1. i - 1 \in 0..L /\ i \in 0..L
    BY <1>1
  <2> QED
    BY <1>1, <2>1 DEF Edited, L, end
<1>3. \A i, j \in 0..L : i <= j => p[i] <= p[j]
  BY DEF Edited, L
<1>4. ASSUME NEW i \in 1..L, e[i] # <<>> PROVE p[i - 1] + 1 <= p[i]
  <2> DEFINE v == IF i = end THEN Len(x) ELSE 0
             le == Len(e[i])
  <2>1. le = 1
    BY <1>4, Short DEF L
  <2>2. v \in Nat
    OBVIOUS
  <2>3. p[i] = p[i - 1] + le + v
    BY <1>2
  <2> HIDE DEF v, le
  <2> QED
    BY <1>2, <2>1, <2>2, <2>3
<1>5. ASSUME NEW i \in 1..L, e[i] # <<>>, NEW j \in 1..L, i < j
      PROVE  p[i - 1] + 1 < p[j - 1] + 1
  <2>1. i \in 0..L /\ j - 1 \in 0..L /\ i <= j - 1
    BY <1>2, <1>5
  <2>2. p[i] <= p[j - 1]
    BY <1>3, <2>1
  <2> QED
    BY <1>2, <1>4, <1>5, <2>2
<1>6. ASSUME NEW i \in 1..L, e[i] # <<>>, i <= end
      PROVE  /\ p[i - 1] + 1 <= p[end]
             /\ x # <<>> => p[i - 1] + 1 < p[end]
  <2>1. p[i] <= p[end] /\ p[i - 1] + 1 <= p[i]
    BY <1>1, <1>2, <1>3, <1>4, <1>6
  <2>2. ASSUME x # <<>> PROVE p[i - 1] + 1 < p[end]
    <3>1. Len(x) = 1
      BY <2>2, Short
    <3>2. Len(e[end]) \in Nat
      BY <1>1 DEF L
    <3>3. p[end] = p[end - 1] + Len(e[end]) + 1 /\ p[end - 1] \in Nat /\ p[end] \in Nat
      BY <1>1, <1>2, <3>1
    <3>4. CASE i = end
      <4>1. Len(e[end]) = 1
        BY <1>6, <3>4, Short DEF L
      <4> QED
        BY <3>3, <3>4, <4>1
    <3>5. CASE i # end
      <4>1. i <= end - 1 /\ end - 1 \in 0..L /\ i \in 0..L
        BY <1>1, <1>2, <1>6, <3>5
      <4>2. p[i] <= p[end - 1]
        BY <1>3, <4>1
      <4> QED
        BY <1>2, <1>4, <1>6, <3>2, <3>3, <4>2
    <3> QED
      BY <3>4, <3>5
  <2> QED
    BY <1>2, <2>1, <2>2
<1>7. ASSUME NEW i \in 1..L, i > end PROVE p[i - 1] + 1 > p[end]
  <2>1. end <= i - 1
    BY <1>1, <1>7
  <2>2. p[end] <= p[i - 1]
    BY <1>1, <1>2, <1>3, <2>1
  <2> QED
    BY <1>2, <2>2
<1>8. \A i \in 1..L : p[i - 1] + 1 \in Nat /\ p[end] \in Nat
  BY <1>2
<1> QED
  BY <1>5, <1>6, <1>7, <1>8 DEF Ordered, L, end

(* An edit that keeps the media lines and adds none.                       *)
KeepsMedia(b, e, x) ==
    /\ \A i \in 1..Len(b) :
           /\ b[i].k = "m" =>
                  e[i] # <<>> /\ e[i][1].k = "m" /\ e[i][1].media = b[i].media
           /\ b[i].k # "m" /\ e[i] # <<>> => e[i][1].k # "m"
    /\ x # <<>> => x[1].k # "m"

(* The stream and the session part of the edited body are those of b.      *)
StreamMoved(b, e, x, r, p) ==
    /\ AudioLines(r) # {}
    /\ Audio(r) = p[Audio(b) - 1] + 1 /\ AudioEnd(r) = p[AudioEnd(b)]
    /\ Lines(r, "m") = {p[i - 1] + 1 : i \in Lines(b, "m")}
    /\ \A i \in 1..Len(b) : e[i] # <<>> =>
           /\ p[i - 1] + 1 \in InAudio(r) <=> i \in InAudio(b)
           /\ p[i - 1] + 1 \in InSession(r) <=> i \in InSession(b)
    /\ x # <<>> => p[AudioEnd(b)] \in InAudio(r) /\ p[AudioEnd(b)] \notin InSession(r)

(* The first audio stream of an edited body is what became of the first    *)
(* audio stream.                                                           *)
LEMMA StreamKept ==
    ASSUME NEW X, NEW b \in Seq(X), AudioLines(b) # {}, NEW Y,
           NEW e, \A i \in 1..Len(b) : e[i] \in Seq(Y) /\ Len(e[i]) <= 1,
           NEW x \in Seq(Y), Len(x) <= 1, NEW r \in Seq(Y), NEW p, Edited(b, e, x, r, p),
           KeepsMedia(b, e, x)
    PROVE  StreamMoved(b, e, x, r, p)
<1> DEFINE L == Len(b)
           a == Audio(b)
           z == AudioEnd(b)
           q(i) == p[i - 1] + 1
<1>0. /\ L \in Nat /\ DOMAIN b = 1..L /\ Len(r) \in Nat /\ DOMAIN r = 1..Len(r)
      /\ a \in AudioLines(b) /\ a \in 1..L /\ a \in Nat
      /\ \A i \in AudioLines(b) : a <= i
      /\ z \in a..L /\ z \in 1..L /\ z \in Nat /\ a <= z
      /\ \A i \in a + 1 .. z : b[i].k # "m"
      /\ z = L \/ b[z + 1].k = "m"
  <2>1. Len(r) \in Nat /\ DOMAIN r = 1..Len(r)
    OBVIOUS
  <2> QED
    BY <2>1, StreamBounds
<1>1. Ordered(b, e, x, p)
  BY EditedOrder
<1> HIDE DEF L, a, z
<1>2. \A i \in 1..L : q(i) \in Nat /\ p[z] \in Nat
  BY <1>1 DEF Ordered, L, z
<1>3. \A i, j \in 1..L : e[i] # <<>> /\ i < j => q(i) < q(j)
  BY <1>1 DEF Ordered, L
<1>4. \A i \in 1..L : e[i] # <<>> /\ i <= z => q(i) <= p[z]
  BY <1>1 DEF Ordered, L, z
<1>5. \A i \in 1..L : e[i] # <<>> /\ i <= z /\ x # <<>> => q(i) < p[z]
  BY <1>1 DEF Ordered, L, z
<1>6. \A i \in 1..L : i > z => q(i) > p[z]
  BY <1>1 DEF Ordered, L, z
<1>7. \A i \in 1..L : e[i] # <<>> => q(i) \in 1..Len(r) /\ r[q(i)] = e[i][1]
  BY DEF Edited, L
<1>8. x # <<>> => p[z] \in 1..Len(r) /\ r[p[z]] = x[1]
  BY DEF Edited, z
<1>9. \A j \in 1..Len(r) :
          \/ \E i \in 1..L : e[i] # <<>> /\ j = q(i)
          \/ x # <<>> /\ j = p[z]
  BY DEF Edited, L, z
<1>10. \A i \in 1..L : b[i].k = "m" =>
           e[i] # <<>> /\ e[i][1].k = "m" /\ e[i][1].media = b[i].media
  BY DEF KeepsMedia, L
<1>11. \A i \in 1..L : b[i].k # "m" /\ e[i] # <<>> => e[i][1].k # "m"
  BY DEF KeepsMedia, L
<1>12. x # <<>> => x[1].k # "m"
  BY DEF KeepsMedia
<1> HIDE DEF q
(* The media lines, and the audio ones among them. *)
<1>13. ASSUME NEW i \in 1..L, b[i].k = "m" PROVE q(i) \in Lines(r, "m")
  BY <1>0, <1>7, <1>10, <1>13 DEF Lines
<1>14. ASSUME NEW j \in 1..Len(r), r[j].k = "m"
       PROVE  \E i \in 1..L : b[i].k = "m" /\ e[i] # <<>> /\ j = q(i)
              /\ r[j].media = b[i].media
  <2>1. ~(x # <<>> /\ j = p[z])
    BY <1>8, <1>12, <1>14
  <2>2. PICK i \in 1..L : e[i] # <<>> /\ j = q(i)
    BY <1>9, <2>1
  <2>3. r[j] = e[i][1]
    BY <1>7, <2>2
  <2>4. b[i].k = "m"
    BY <1>11, <1>14, <2>2, <2>3
  <2> QED
    BY <1>10, <2>2, <2>3, <2>4
<1>15. Lines(r, "m") = {q(i) : i \in Lines(b, "m")}
  BY <1>0, <1>13, <1>14 DEF Lines
<1>16. a \in 1..L /\ b[a].k = "m" /\ b[a].media = "audio" /\ e[a] # <<>>
  <2>1. b[a].k = "m" /\ b[a].media = "audio"
    BY <1>0 DEF AudioLines, Lines
  <2> QED
    BY <1>0, <1>10, <2>1
<1>17. q(a) \in AudioLines(r)
  <2>1. q(a) \in Lines(r, "m") /\ r[q(a)] = e[a][1] /\ e[a][1].media = b[a].media
    BY <1>7, <1>10, <1>13, <1>16
  <2> QED
    BY <1>16, <2>1 DEF AudioLines
<1>18. ASSUME NEW j \in AudioLines(r) PROVE q(a) <= j
  <2>1. j \in 1..Len(r) /\ r[j].k = "m" /\ r[j].media = "audio"
    BY <1>0 DEF AudioLines, Lines
  <2>2. PICK i \in 1..L : b[i].k = "m" /\ e[i] # <<>> /\ j = q(i) /\ r[j].media = b[i].media
    BY <1>14, <2>1
  <2>3. a <= i
    BY <1>0, <2>1, <2>2 DEF AudioLines, Lines
  <2>4. CASE a = i
    BY <1>2, <2>2, <2>4
  <2>5. CASE a < i
    <3>1. q(a) < q(i)
      BY <1>3, <1>16, <2>5
    <3> QED
      BY <1>2, <1>16, <2>2, <3>1
  <2> QED
    BY <1>0, <2>3, <2>4, <2>5
(* The end of the stream. *)
<1>19. p[z] \in q(a)..Len(r)
  <2>1. q(a) <= p[z] /\ q(a) \in Nat /\ p[z] \in Nat
    BY <1>0, <1>2, <1>4, <1>16
  <2>2. p[z] <= p[L] /\ p[L] = Len(r)
    <3>1. z \in 0..L /\ L \in 0..L /\ z <= L
      BY <1>0
    <3>2. \A i, j \in 0..L : i <= j => p[i] <= p[j]
      BY DEF Edited, L
    <3>3. p[L] = Len(r)
      BY DEF Edited, L
    <3> QED
      BY <3>1, <3>2, <3>3
  <2> QED
    BY <1>0, <2>1, <2>2
<1>20. ASSUME NEW j \in q(a) + 1 .. p[z] PROVE r[j].k # "m"
  <2> SUFFICES ASSUME r[j].k = "m" PROVE FALSE
    OBVIOUS
  <2>0. q(a) \in Nat /\ p[z] \in Nat
    BY <1>2, <1>16
  <2>1. j \in Nat /\ q(a) < j /\ j <= p[z] /\ j \in 1..Len(r)
    BY <1>0, <1>19, <2>0
  <2>2. PICK i \in 1..L : b[i].k = "m" /\ e[i] # <<>> /\ j = q(i)
    BY <1>14, <2>1
  <2>3. ~(i > z)
    <3>1. q(i) \in Nat
      BY <1>2
    <3> QED
      BY <1>6, <2>0, <2>1, <2>2, <3>1
  <2>4. ~(i < a)
    <3> SUFFICES ASSUME i < a PROVE FALSE
      OBVIOUS
    <3>1. q(i) < q(a)
      BY <1>0, <1>3, <2>2
    <3> QED
      BY <2>0, <2>1, <2>2, <3>1
  <2>5. i # a
    BY <2>0, <2>1, <2>2
  <2>6. i \in a + 1 .. z
    BY <1>0, <2>3, <2>4, <2>5
  <2> QED
    BY <1>0, <2>2, <2>6
<1>21. p[z] = Len(r) \/ r[p[z] + 1].k = "m"
  <2>1. CASE z = L
    BY <2>1 DEF Edited, L
  <2>2. CASE z # L
    <3>1. z + 1 \in 1..L /\ b[z + 1].k = "m" /\ (z + 1) - 1 = z
      BY <1>0, <2>2
    <3>2. e[z + 1] # <<>> /\ e[z + 1][1].k = "m" /\ r[q(z + 1)] = e[z + 1][1]
      BY <1>7, <1>10, <3>1
    <3>3. q(z + 1) = p[z] + 1
      BY <3>1 DEF q
    <3> QED
      BY <3>2, <3>3
  <2> QED
    BY <2>1, <2>2
<1>22. Audio(r) = q(a) /\ AudioEnd(r) = p[z]
  BY <1>17, <1>18, <1>19, <1>20, <1>21, StreamIs
<1>23. InAudio(b) = a + 1 .. z /\ InAudio(r) = q(a) + 1 .. p[z]
  BY <1>0, <1>17, <1>22 DEF InAudio, a, z
<1>24. ASSUME NEW i \in 1..L, e[i] # <<>> PROVE q(i) \in InAudio(r) <=> i \in InAudio(b)
  <2>0. i \in Nat /\ q(i) \in Nat /\ q(a) \in Nat /\ p[z] \in Nat
    BY <1>0, <1>2, <1>16
  <2>1. CASE i \in a + 1 .. z
    <3>1. a < i /\ i <= z
      BY <1>0, <2>0, <2>1
    <3>2. q(a) < q(i) /\ q(i) <= p[z]
      BY <1>3, <1>4, <1>16, <1>24, <3>1
    <3> QED
      BY <1>23, <2>0, <2>1, <3>2
  <2>2. CASE i <= a
    <3>1. q(i) <= q(a)
      <4>1. CASE i = a
        BY <2>0, <4>1
      <4>2. CASE i < a
        BY <1>3, <1>16, <1>24, <2>0, <4>2
      <4> QED
        BY <1>0, <2>0, <2>2, <4>1, <4>2
    <3> QED
      BY <1>0, <1>23, <2>0, <2>2, <3>1
  <2>3. CASE i > z
    <3>1. q(i) > p[z]
      BY <1>6, <2>3
    <3> QED
      BY <1>0, <1>23, <2>0, <2>3, <3>1
  <2> QED
    BY <1>0, <2>0, <2>1, <2>2, <2>3
<1>25. ASSUME NEW i \in 1..L, e[i] # <<>> PROVE q(i) \in InSession(r) <=> i \in InSession(b)
  <2>0. Lines(b, "m") \subseteq 1..L /\ \A m \in Lines(b, "m") : b[m].k = "m" /\ e[m] # <<>>
    BY <1>0, <1>10 DEF Lines
  <2>1. \A m \in Lines(b, "m") : i < m <=> q(i) < q(m)
    <3> SUFFICES ASSUME NEW m \in Lines(b, "m") PROVE i < m <=> q(i) < q(m)
      OBVIOUS
    <3>1. m \in 1..L /\ e[m] # <<>> /\ q(i) \in Nat /\ q(m) \in Nat /\ i \in Nat /\ m \in Nat
      BY <1>0, <1>2, <2>0
    <3>2. i < m => q(i) < q(m)
      BY <1>3, <1>25, <3>1
    <3>3. m < i => q(m) < q(i)
      BY <1>3, <1>25, <3>1
    <3>4. m = i => q(m) = q(i)
      OBVIOUS
    <3> QED
      BY <3>1, <3>2, <3>3, <3>4
  <2>2. i \in InSession(b) <=> \A m \in Lines(b, "m") : i < m
    BY SessionLines DEF L
  <2>3. q(i) \in InSession(r) <=> \A m \in Lines(r, "m") : q(i) < m
    BY <1>7, <1>25, SessionLines
  <2> QED
    BY <1>15, <2>1, <2>2, <2>3
<1>26. ASSUME x # <<>> PROVE p[z] \in InAudio(r) /\ p[z] \notin InSession(r)
  <2>0. q(a) \in Nat /\ p[z] \in Nat
    BY <1>2, <1>16
  <2>1. q(a) < p[z]
    BY <1>0, <1>5, <1>16, <1>26
  <2>2. p[z] \in InAudio(r)
    BY <1>23, <2>0, <2>1
  <2>3. q(a) \in Lines(r, "m")
    BY <1>13, <1>16
  <2>4. ~(p[z] < q(a))
    BY <2>0, <2>1
  <2>5. InSession(r) = {i \in 1..Len(r) : \A j \in Lines(r, "m") : i < j}
    BY SessionLines
  <2> QED
    BY <2>2, <2>3, <2>4, <2>5
<1>27. AudioLines(r) # {}
  BY <1>17
<1> QED
  BY <1>15, <1>22, <1>24, <1>25, <1>26, <1>27 DEF StreamMoved, q, L, a, z

-----------------------------------------------------------------------------
(* The lines among which Effective finds a setting: the stream's, or else  *)
(* the session's.                                                          *)
Chosen(b, I) == IF I \cap InAudio(b) # {} THEN I \cap InAudio(b) ELSE I \cap InSession(b)

(* What LastOf returns. *)
LEMMA LastLine ==
    ASSUME NEW X, NEW b \in Seq(X), NEW I, I \subseteq 1..Len(b)
    PROVE  /\ I # {} => Max(I) \in I /\ LastOf(b, I) = b[Max(I)] /\ LastOf(b, I) \in X
           /\ I = {} => LastOf(b, I) = NoLine
<1>1. CASE I # {}
  <2>1. Len(b) \in Nat /\ I \subseteq 0..Len(b)
    OBVIOUS
  <2> DEFINE m == Max(I)
  <2>2. m \in I
    BY <1>1, <2>1, MaxOf
  <2>3. LastOf(b, I) = b[m]
    BY <1>1 DEF LastOf
  <2> HIDE DEF m
  <2>4. b[m] \in X
    BY <2>2
  <2> QED
    BY <1>1, <2>2, <2>3, <2>4 DEF m
<1>2. CASE I = {}
  BY <1>2 DEF LastOf
<1> QED
  BY <1>1, <1>2

(* What Effective returns: the last of the lines it chooses from. *)
LEMMA EffectiveLine ==
    ASSUME NEW X, NoLine \notin X, NEW b \in Seq(X), NEW I, I \subseteq 1..Len(b)
    PROVE  /\ Chosen(b, I) \subseteq I
           /\ Effective(b, InAudio(b), I) = LastOf(b, Chosen(b, I))
<1>1. Chosen(b, I) \subseteq I
  BY DEF Chosen
<1>2. CASE I \cap InAudio(b) # {}
  <2>1. LastOf(b, I \cap InAudio(b)) \in X
    BY <1>2, LastLine
  <2> QED
    BY <1>1, <1>2, <2>1 DEF Effective, Chosen
<1>3. CASE I \cap InAudio(b) = {}
  <2>1. LastOf(b, I \cap InAudio(b)) = NoLine
    BY <1>3, LastLine
  <2> QED
    BY <1>1, <1>3, <2>1 DEF Effective, Chosen
<1> QED
  BY <1>2, <1>3

(* Where the kept lines I are in the edited body. *)
Moved(I, p) == {p[i - 1] + 1 : i \in I}

MovesLast(e, r, p, I) ==
    /\ Moved(I, p) \subseteq 1..Len(r) /\ (Moved(I, p) = {} <=> I = {})
    /\ LastOf(r, Moved(I, p)) = IF I = {} THEN NoLine ELSE e[Max(I)][1]

(* The last of the kept lines becomes the last of those they became. *)
LEMMA LastMoved ==
    ASSUME NEW X, NEW b \in Seq(X), AudioLines(b) # {}, NEW Y,
           NEW e, \A i \in 1..Len(b) : e[i] \in Seq(Y) /\ Len(e[i]) <= 1,
           NEW x \in Seq(Y), Len(x) <= 1, NEW r \in Seq(Y), NEW p, Edited(b, e, x, r, p),
           NEW I, I \subseteq 1..Len(b), \A i \in I : e[i] # <<>>
    PROVE  MovesLast(e, r, p, I)
<1> DEFINE q(i) == p[i - 1] + 1
           J == Moved(I, p)
<1>1. Ordered(b, e, x, p)
  BY EditedOrder
<1>2. \A i \in I : q(i) \in Nat /\ q(i) \in 1..Len(r) /\ r[q(i)] = e[i][1]
  BY <1>1 DEF Ordered, Edited
<1>3. J \subseteq 1..Len(r) /\ (J = {} <=> I = {})
  BY <1>2 DEF Moved
<1>4. ASSUME I # {} PROVE LastOf(r, J) = e[Max(I)][1]
  <2> DEFINE m == Max(I)
  <2>1. m \in I /\ \A i \in I : i <= m
    <3>1. Len(b) \in Nat /\ I \subseteq 0..Len(b)
      OBVIOUS
    <3> QED
      BY <1>4, <3>1, MaxOf
  <2> HIDE DEF m
  <2>2. ASSUME NEW j \in J PROVE j <= q(m)
    <3>1. PICK i \in I : j = q(i)
      BY DEF Moved
    <3>2. CASE i = m
      BY <1>2, <3>1, <3>2
    <3>3. CASE i # m
      <4>1. i < m /\ i \in 1..Len(b) /\ m \in 1..Len(b)
        <5>1. i \in 1..Len(b) /\ m \in 1..Len(b) /\ i <= m
          BY <2>1
        <5>2. i \in Int /\ m \in Int
          BY <5>1
        <5> QED
          BY <3>3, <5>1, <5>2
      <4>2. q(i) < q(m)
        BY <1>1, <4>1 DEF Ordered
      <4> QED
        BY <1>2, <2>1, <3>1, <4>2
    <3> QED
      BY <3>2, <3>3
  <2>3. q(m) \in J
    BY <2>1 DEF Moved
  <2>4. Max(J) = q(m)
    <3>1. Len(r) \in Nat /\ J \subseteq 0..Len(r)
      BY <1>3
    <3> HIDE DEF J, q
    <3> QED
      BY <2>2, <2>3, <3>1, MaxIs
  <2>5. LastOf(r, J) = r[Max(J)]
    BY <1>3, <1>4, LastLine
  <2> QED
    BY <1>2, <2>1, <2>4, <2>5 DEF m
<1>5. I = {} => LastOf(r, J) = NoLine
  BY <1>3 DEF LastOf
<1> QED
  BY <1>3, <1>4, <1>5 DEF MovesLast

(* All that the lemmas on edited bodies ask for. *)
EditOf(X, b, Y, e, x, r, p) ==
    /\ b \in Seq(X) /\ AudioLines(b) # {} /\ NoLine \notin X /\ NoLine \notin Y
    /\ \A i \in 1..Len(b) : e[i] \in Seq(Y) /\ Len(e[i]) <= 1
    /\ x \in Seq(Y) /\ Len(x) <= 1 /\ r \in Seq(Y) /\ Edited(b, e, x, r, p)
    /\ StreamMoved(b, e, x, r, p)

MovesSetting(b, e, r, p, I) ==
    Effective(r, InAudio(r), Moved(I, p)) =
        IF Chosen(b, I) = {} THEN NoLine ELSE e[Max(Chosen(b, I))][1]

(* An edit that keeps the lines of a setting keeps the one that takes      *)
(* effect.                                                                 *)
LEMMA EffectiveMoved ==
    ASSUME NEW X, NEW b, NEW Y, NEW e, NEW x, NEW r, NEW p, EditOf(X, b, Y, e, x, r, p),
           NEW I, I \subseteq 1..Len(b), \A i \in I : e[i] # <<>>
    PROVE  MovesSetting(b, e, r, p, I)
<1> DEFINE J == Moved(I, p)
<1>0. /\ b \in Seq(X) /\ AudioLines(b) # {} /\ NoLine \notin X /\ NoLine \notin Y
      /\ \A i \in 1..Len(b) : e[i] \in Seq(Y) /\ Len(e[i]) <= 1
      /\ x \in Seq(Y) /\ Len(x) <= 1 /\ r \in Seq(Y) /\ Edited(b, e, x, r, p)
      /\ StreamMoved(b, e, x, r, p)
  BY DEF EditOf
<1>1. J \subseteq 1..Len(r)
  <2>1. MovesLast(e, r, p, I)
    BY <1>0, LastMoved
  <2> QED
    BY <2>1 DEF MovesLast
<1>2. \A i \in I : /\ p[i - 1] + 1 \in InAudio(r) <=> i \in InAudio(b)
                   /\ p[i - 1] + 1 \in InSession(r) <=> i \in InSession(b)
  BY <1>0 DEF StreamMoved
<1>3. Moved(I \cap InAudio(b), p) = J \cap InAudio(r)
  BY <1>2 DEF Moved
<1>4. Moved(I \cap InSession(b), p) = J \cap InSession(r)
  BY <1>2 DEF Moved
<1>5. J \cap InAudio(r) = {} <=> I \cap InAudio(b) = {}
  BY <1>3 DEF Moved
<1>6. Chosen(r, J) = Moved(Chosen(b, I), p)
  BY <1>3, <1>4, <1>5 DEF Chosen
<1>7. Chosen(b, I) \subseteq I
  BY DEF Chosen
<1>8. Effective(r, InAudio(r), J) = LastOf(r, Chosen(r, J))
  BY <1>0, <1>1, EffectiveLine
<1>9. Chosen(b, I) \subseteq 1..Len(b) /\ \A i \in Chosen(b, I) : e[i] # <<>>
  BY <1>7
<1>10. LastOf(r, Moved(Chosen(b, I), p)) =
           IF Chosen(b, I) = {} THEN NoLine ELSE e[Max(Chosen(b, I))][1]
  <2> DEFINE C == Chosen(b, I)
  <2>1. C \subseteq 1..Len(b) /\ \A i \in C : e[i] # <<>>
    BY <1>9
  <2> HIDE DEF C
  <2>2. MovesLast(e, r, p, C)
    BY <1>0, <2>1, LastMoved
  <2> QED
    BY <2>2 DEF C, MovesLast
<1> QED
  BY <1>6, <1>8, <1>10 DEF MovesSetting

-----------------------------------------------------------------------------
(* The keys of the stream.  A list of lines, one after the other. *)
LEMMA NextLine ==
    ASSUME NEW X, NEW s \in Seq(X), NEW m \in 1..Len(s), NEW n \in m..Len(s)
    PROVE  /\ SubSeq(s, m, n - 1) \in Seq(X)
           /\ SubSeq(s, m, n) = Append(SubSeq(s, m, n - 1), s[n])
<1>1. /\ Len(s) \in Nat /\ m \in Int /\ n \in Int /\ n - 1 \in Int /\ n \in 1..Len(s)
      /\ m >= 1 /\ n <= Len(s)
  OBVIOUS
<1>2. \A i \in m .. n - 1 : s[i] \in X
  BY <1>1
<1>3. SubSeq(s, m, n - 1) \in Seq(X)
  BY <1>1, <1>2, SubSeqProperties
<1>4. SubSeq(s, m, n) = SubSeq(s, m, n - 1) \o <<s[n]>>
  BY SubSeqRecursiveSecond
<1>5. s[n] \in X
  BY <1>1
<1> QED
  BY <1>3, <1>4, <1>5, AppendIsConcat

(* The loop keeps in the edited stream what it keeps in the stream, and    *)
(* the extra line.                                                         *)
LEMMA KeptMoved ==
    ASSUME NEW X, NEW b, NEW Y, NEW e, NEW x, NEW r, NEW p, EditOf(X, b, Y, e, x, r, p),
           NEW S, NEW T,
           \A i \in 1..Len(b) :
               /\ e[i] = <<>> => b[i] \notin S
               /\ e[i] # <<>> => /\ e[i][1] \in T <=> b[i] \in S
                                 /\ e[i][1] \in T => e[i][1] = b[i]
    PROVE  Kept(SubSeq(r, Audio(r), AudioEnd(r)), T) =
               LET old == Kept(SubSeq(b, Audio(b), AudioEnd(b)), S) IN
               IF x # <<>> /\ x[1] \in T THEN Append(old, x[1]) ELSE old
<1> DEFINE L == Len(b)
           a == Audio(b)
           z == AudioEnd(b)
           h == p[a - 1] + 1
           u(i) == IF i = z THEN p[z] - Len(x) ELSE p[i]
           old(i) == SubSeq(b, a, i)
           new(i) == SubSeq(r, h, u(i))
<1>0. /\ b \in Seq(X) /\ AudioLines(b) # {} /\ NoLine \notin X /\ NoLine \notin Y
      /\ \A i \in 1..Len(b) : e[i] \in Seq(Y) /\ Len(e[i]) <= 1
      /\ x \in Seq(Y) /\ Len(x) <= 1 /\ r \in Seq(Y) /\ Edited(b, e, x, r, p)
      /\ StreamMoved(b, e, x, r, p)
  BY DEF EditOf
<1> USE <1>0
<1>1. /\ L \in Nat /\ a \in 1..L /\ z \in a..L /\ z \in 1..L /\ a \in Nat /\ z \in Nat /\ a <= z
      /\ Len(r) \in Nat
  <2>1. Len(r) \in Nat
    OBVIOUS
  <2> QED
    BY <2>1, StreamBounds
<1>2. Audio(r) = h /\ AudioEnd(r) = p[z] /\ h \in 1..Len(r) /\ p[z] \in h..Len(r)
  <2>1. Audio(r) = h /\ AudioEnd(r) = p[z] /\ AudioLines(r) # {}
    BY DEF StreamMoved
  <2> QED
    BY <2>1, StreamBounds
<1> HIDE DEF L, a, z
<1>3. \A i \in 0..L : p[i] \in Nat
  BY DEF Edited, L
<1>4. \A i \in 1..L : i - 1 \in 0..L /\ p[i] = p[i - 1] + Len(e[i]) + (IF i = z THEN Len(x) ELSE 0)
  BY <1>1 DEF Edited, L, z
<1>5. \A i \in 1..L : e[i] # <<>> => r[p[i - 1] + 1] = e[i][1]
  BY DEF Edited, L
<1>6. \A i \in 1..L : /\ e[i] = <<>> => Len(e[i]) = 0 /\ b[i] \notin S
                      /\ e[i] # <<>> => /\ Len(e[i]) = 1
                                        /\ e[i][1] \in T <=> b[i] \in S
                                        /\ e[i][1] \in T => e[i][1] = b[i]
  BY Short DEF L
<1>7. \A i, j \in 0..L : i <= j => p[i] <= p[j]
  BY DEF Edited, L
<1>8. Len(x) \in Nat
  OBVIOUS
<1>9. ASSUME NEW i \in a..z
      PROVE  /\ i \in 1..L /\ i - 1 \in 0..L /\ i - 1 # z /\ u(i - 1) = p[i - 1]
             /\ u(i) = p[i - 1] + Len(e[i]) /\ u(i) \in Nat
             /\ p[i - 1] \in Nat /\ u(i) <= p[z] /\ h <= p[i - 1] + 1
  <2>1. i \in 1..L /\ i - 1 \in 0..L /\ i - 1 # z /\ i \in 0..L /\ z \in 0..L /\ i <= z
        /\ a - 1 \in 0..L /\ a - 1 <= i - 1
    BY <1>1
  <2>2. u(i - 1) = p[i - 1]
    BY <2>1
  <2>3. p[i - 1] \in Nat /\ p[i] \in Nat /\ p[z] \in Nat /\ p[a - 1] \in Nat
    BY <1>3, <2>1
  <2>4. Len(e[i]) \in Nat
    BY <2>1 DEF L
  <2>5. p[i] = p[i - 1] + Len(e[i]) + (IF i = z THEN Len(x) ELSE 0)
    BY <1>4, <2>1
  <2>6. u(i) = p[i - 1] + Len(e[i])
    <3>1. CASE i = z
      <4>1. p[i] = p[i - 1] + Len(e[i]) + Len(x)
        BY <2>5, <3>1
      <4> DEFINE pi == p[i]
                 pj == p[i - 1]
                 le == Len(e[i])
                 lx == Len(x)
      <4>2. pi = pj + le + lx /\ pj \in Nat /\ le \in Nat /\ lx \in Nat /\ pi \in Nat
        BY <1>8, <2>3, <2>4, <4>1
      <4> HIDE DEF pi, pj, le, lx
      <4>3. pi - lx = pj + le
        BY <4>2
      <4> QED
        BY <3>1, <4>3 DEF pi, pj, le, lx
    <3>2. CASE i # z
      <4>1. p[i] = p[i - 1] + Len(e[i]) + 0
        BY <2>5, <3>2
      <4> QED
        BY <2>3, <2>4, <3>2, <4>1
    <3> QED
      BY <3>1, <3>2
  <2>7. p[i] <= p[z] /\ p[a - 1] <= p[i - 1]
    BY <1>7, <2>1
  <2>8. u(i) <= p[z]
    <3>1. CASE i = z
      BY <1>8, <2>3, <3>1
    <3>2. CASE i # z
      BY <2>7, <3>2
    <3> QED
      BY <3>1, <3>2
  <2>9. h <= p[i - 1] + 1
    BY <2>3, <2>7
  <2> HIDE DEF u, h
  <2> QED
    BY <2>1, <2>2, <2>3, <2>4, <2>6, <2>8, <2>9
<1> DEFINE P == {n \in 0 .. z - a + 1 : Kept(new(a - 1 + n), T) = Kept(old(a - 1 + n), S)}
<1>10. 0 \in P
  <2>1. old(a - 1) = <<>>
    BY <1>1, SubSeqEmpty
  <2>2. new(a - 1) = <<>>
    <3>1. a \in a..z /\ (a - 1) + 0 = a - 1
      BY <1>1
    <3>2. u(a - 1) = p[a - 1] /\ p[a - 1] \in Nat
      BY <1>9, <3>1
    <3>3. h \in Int /\ u(a - 1) \in Int /\ u(a - 1) < h
      BY <3>2
    <3> HIDE DEF u, h
    <3> QED
      BY <3>3, SubSeqEmpty
  <2>3. Kept(new(a - 1), T) = Kept(old(a - 1), S)
    <3> HIDE DEF new, old
    <3> QED
      BY <2>1, <2>2, KeptEmpty
  <2>4. a - 1 + 0 = a - 1 /\ 0 \in 0 .. z - a + 1
    BY <1>1
  <2> HIDE DEF new, old
  <2> QED
    BY <2>3, <2>4
<1>11. ASSUME NEW n \in 0..((z - a + 1) - 1), n \in P PROVE n + 1 \in P
  <2> DEFINE i == a + n
  <2>0. /\ i \in a..z /\ i \in Nat /\ a - 1 + n = i - 1 /\ a - 1 + (n + 1) = i
        /\ n + 1 \in 0 .. z - a + 1
    BY <1>1
  <2> HIDE DEF i
  <2>1. Kept(new(i - 1), T) = Kept(old(i - 1), S)
    <3> HIDE DEF new, old
    <3> QED
      BY <1>11, <2>0
  <2>2. /\ i \in 1..L /\ u(i - 1) = p[i - 1] /\ u(i) = p[i - 1] + Len(e[i]) /\ u(i) \in Nat
        /\ p[i - 1] \in Nat /\ u(i) <= p[z] /\ h <= p[i - 1] + 1
    <3> HIDE DEF u, h
    <3> QED
      BY <1>9, <2>0
  <2>3. old(i - 1) \in Seq(X) /\ old(i) = Append(old(i - 1), b[i]) /\ b[i] \in X
    <3>1. a \in 1..Len(b) /\ i \in a..Len(b) /\ i \in 1..Len(b)
      BY <1>1, <2>0 DEF L
    <3>2. SubSeq(b, a, i - 1) \in Seq(X) /\ SubSeq(b, a, i) = Append(SubSeq(b, a, i - 1), b[i])
      BY <3>1, NextLine
    <3>3. b[i] \in X
      BY <3>1
    <3> QED
      BY <3>2, <3>3
  <2>4. Kept(old(i), S) =
            IF b[i] \in S THEN Append(Kept(old(i - 1), S), b[i]) ELSE Kept(old(i - 1), S)
    <3> DEFINE s == old(i - 1)
               l == b[i]
    <3>1. s \in Seq(X) /\ l \in X
      BY <2>3
    <3> HIDE DEF old, s, l
    <3>2. Kept(Append(s, l), S) = IF l \in S THEN Append(Kept(s, S), l) ELSE Kept(s, S)
      BY <3>1, KeptAppend
    <3> QED
      BY <2>3, <3>2 DEF s, l
  <2>5. Kept(new(i), T) = Kept(old(i), S)
    <3>1. CASE e[i] = <<>>
      <4>1. u(i) = u(i - 1) /\ b[i] \notin S
        <5>1. Len(e[i]) = 0 /\ b[i] \notin S
          BY <1>6, <2>2, <3>1
        <5> HIDE DEF u
        <5> QED
          BY <2>2, <5>1
      <4>2. new(i) = new(i - 1)
        <5> HIDE DEF u
        <5> QED
          BY <4>1
      <4> HIDE DEF new, old
      <4> QED
        BY <2>1, <2>4, <4>1, <4>2
    <3>2. CASE e[i] # <<>>
      <4> DEFINE k == u(i)
                 l == e[i][1]
      <4>1. /\ Len(e[i]) = 1 /\ (l \in T <=> b[i] \in S) /\ (l \in T => l = b[i])
            /\ r[p[i - 1] + 1] = l
        BY <1>5, <1>6, <2>2, <3>2
      <4> HIDE DEF u, h, l
      <4>2. k = p[i - 1] + 1 /\ k - 1 = u(i - 1) /\ k \in h..Len(r) /\ k \in 1..Len(r)
        BY <1>2, <2>2, <4>1
      <4>3. SubSeq(r, h, k - 1) \in Seq(Y) /\ SubSeq(r, h, k) = Append(SubSeq(r, h, k - 1), r[k])
        BY <1>2, <4>2, NextLine
      <4>4. new(i - 1) \in Seq(Y) /\ new(i) = Append(new(i - 1), l) /\ l \in Y
        <5>1. r[k] = l
          BY <4>1, <4>2
        <5>2. r[k] \in Y
          BY <4>2
        <5> QED
          BY <4>2, <4>3, <5>1, <5>2
      <4> HIDE DEF new, old, k
      <4>5. Kept(new(i), T) =
                IF l \in T THEN Append(Kept(new(i - 1), T), l) ELSE Kept(new(i - 1), T)
        <5>1. Kept(Append(new(i - 1), l), T) =
                  IF l \in T THEN Append(Kept(new(i - 1), T), l) ELSE Kept(new(i - 1), T)
          BY <4>4, KeptAppend
        <5> QED
          BY <4>4, <5>1
      <4> QED
        BY <2>1, <2>4, <4>1, <4>5
    <3> QED
      BY <3>1, <3>2
  <2> HIDE DEF new, old
  <2> QED
    BY <2>0, <2>5
<1>12. Kept(new(z), T) = Kept(old(z), S)
  <2>1. z - a + 1 \in Nat /\ z - a + 1 \in 0 .. z - a + 1 /\ a - 1 + (z - a + 1) = z
    BY <1>1
  <2> HIDE DEF P
  <2>2. \A n \in 0 .. z - a + 1 : n \in P
    BY <1>10, <1>11, <2>1, BoundedInduction
  <2>3. z - a + 1 \in P
    BY <2>1, <2>2
  <2> HIDE DEF new, old
  <2> QED
    BY <2>1, <2>3 DEF P
<1>13. CASE x = <<>>
  <2>1. u(z) = p[z]
    <3>1. Len(x) = 0 /\ p[z] \in Nat
      BY <1>1, <1>3, <1>13
    <3> QED
      BY <3>1
  <2>2. new(z) = SubSeq(r, Audio(r), AudioEnd(r))
    <3> HIDE DEF u, h
    <3> QED
      BY <1>2, <2>1
  <2> HIDE DEF new
  <2> QED
    BY <1>12, <1>13, <2>2 DEF a, z
<1>14. CASE x # <<>>
  <2>1. Len(x) = 1 /\ r[p[z]] = x[1] /\ p[z] \in Nat /\ x[1] \in Y
    <3>1. r[p[z]] = x[1]
      BY <1>14 DEF Edited, z
    <3> QED
      BY <1>1, <1>3, <1>14, <3>1, Short
  <2>2. u(z) = p[z] - 1
    BY <2>1
  <2>3. /\ SubSeq(r, h, p[z] - 1) \in Seq(Y)
        /\ SubSeq(r, h, p[z]) = Append(SubSeq(r, h, p[z] - 1), r[p[z]])
    <3> HIDE DEF h
    <3> QED
      BY <1>2, NextLine
  <2>4. new(z) \in Seq(Y) /\ SubSeq(r, Audio(r), AudioEnd(r)) = Append(new(z), x[1])
    <3> HIDE DEF u, h
    <3> QED
      BY <1>2, <2>1, <2>2, <2>3
  <2> HIDE DEF new
  <2>5. Kept(SubSeq(r, Audio(r), AudioEnd(r)), T) =
            IF x[1] \in T THEN Append(Kept(new(z), T), x[1]) ELSE Kept(new(z), T)
    <3>1. Kept(Append(new(z), x[1]), T) =
              IF x[1] \in T THEN Append(Kept(new(z), T), x[1]) ELSE Kept(new(z), T)
      BY <2>1, <2>4, KeptAppend
    <3> QED
      BY <2>4, <3>1
  <2> QED
    BY <1>12, <1>14, <2>5 DEF a, z
<1> QED
  BY <1>13, <1>14

-----------------------------------------------------------------------------
(***************************************************************************)
(* What Parse reads from an edited body, and so from a rewritten one.      *)
(***************************************************************************)
(* What Parse reads: the lines it takes each field from.                   *)
Addresses(b) == {i \in Lines(b, "c") : b[i].addr # Bad}
Conn(b) == Effective(b, InAudio(b), Addresses(b))
Dir(b) == Effective(b, InAudio(b), Lines(b, "dir"))
Rtcp(b) == LastOf(b, Lines(b, "rtcp") \cap InAudio(b))
Event(b) == LastOf(b, Lines(b, "event") \cap InAudio(b))
Media(b) == b[Audio(b)]
Readable(b) == AudioLines(b) # {} /\ Media(b).fmts # <<>> /\ Conn(b) # NoLine
RtcpPort(b) ==
    IF Rtcp(b) # NoLine /\ Rtcp(b).port # 0 THEN Rtcp(b).port
    ELSE IF Media(b).port # 0 THEN Media(b).port + 1 ELSE 0
Read(b) ==
    [ok |-> TRUE, addr |-> Conn(b).addr, port |-> Media(b).port, rtcp |-> RtcpPort(b),
     dir |-> IF Dir(b) = NoLine THEN "sendrecv" ELSE Dir(b).dir,
     secure |-> Media(b).srtp, cryptos |-> Cryptos(b), fmts |-> Media(b).fmts,
     dtmf |-> IF Event(b) = NoLine THEN None ELSE Event(b).pt]

(* Parse reads a body if and only if it is readable. *)
LEMMA ParseReads ==
    ASSUME NEW b
    PROVE  /\ Readable(b) => Parse(b) = Read(b)
           /\ ~Readable(b) => Parse(b) = NoInfo
           /\ Parse(b).ok <=> Readable(b)
<1>1. Readable(b) => Parse(b) = Read(b)
  BY DEF Parse, Read, Readable, Conn, Dir, Rtcp, Event, Media, RtcpPort, Addresses
<1>2. ~Readable(b) => Parse(b) = NoInfo
  BY DEF Parse, Readable, Conn, Media, Addresses
<1>3. Read(b).ok /\ ~NoInfo.ok
  BY DEF Read, NoInfo
<1> QED
  BY <1>1, <1>2, <1>3

(* The line f of b that a setting is read from and the line g of the       *)
(* edited body: none, or the one what the edit makes of the other.         *)
Carried(b, e, f, g, I) ==
    \/ f = NoLine /\ g = NoLine
    \/ \E m \in I : f = b[m] /\ g = e[m][1]

(* The lines J of the edited body are the lines I of b. *)
Follows(b, e, x, r, p, I, J) ==
    /\ I \subseteq 1..Len(b) /\ J \subseteq 1..Len(r)
    /\ \A i \in I : e[i] # <<>>
    /\ \A i \in 1..Len(b) : e[i] # <<>> => (p[i - 1] + 1 \in J <=> i \in I)
    /\ x # <<>> => p[AudioEnd(b)] \notin J

(* Lines that an edit keeps are where Moved says. *)
LEMMA MovedIs ==
    ASSUME NEW b, NEW e, NEW x, NEW r, NEW p, Edited(b, e, x, r, p),
           NEW I, NEW J, Follows(b, e, x, r, p, I, J)
    PROVE  J = Moved(I, p)
<1>1. \A j \in 1..Len(r) :
          \/ \E i \in 1..Len(b) : e[i] # <<>> /\ j = p[i - 1] + 1
          \/ x # <<>> /\ j = p[AudioEnd(b)]
  BY DEF Edited
<1> QED
  BY <1>1 DEF Moved, Follows

(* A setting whose lines are kept, changed or not, is read from the line   *)
(* that became of the one it was read from.                                *)
LEMMA EffectiveCarried ==
    ASSUME NEW X, NEW b, NEW Y, NEW e, NEW x, NEW r, NEW p, EditOf(X, b, Y, e, x, r, p),
           NEW I, NEW J, Follows(b, e, x, r, p, I, J)
    PROVE  Carried(b, e, Effective(b, InAudio(b), I), Effective(r, InAudio(r), J), I)
<1>0. /\ b \in Seq(X) /\ AudioLines(b) # {} /\ NoLine \notin X /\ NoLine \notin Y
      /\ \A i \in 1..Len(b) : e[i] \in Seq(Y) /\ Len(e[i]) <= 1
      /\ x \in Seq(Y) /\ Len(x) <= 1 /\ r \in Seq(Y) /\ Edited(b, e, x, r, p)
      /\ I \subseteq 1..Len(b) /\ \A i \in I : e[i] # <<>>
  BY DEF EditOf, Follows
<1>1. J = Moved(I, p)
  BY <1>0, MovedIs
<1>2. MovesSetting(b, e, r, p, I)
  <2>1. I \subseteq 1..Len(b) /\ \A i \in I : e[i] # <<>>
    BY <1>0
  <2> QED
    BY <2>1, EffectiveMoved
<1> DEFINE C == Chosen(b, I)
<1>3. C \subseteq I /\ Effective(b, InAudio(b), I) = LastOf(b, C)
  BY <1>0, EffectiveLine
<1>4. C \subseteq 1..Len(b)
  BY <1>0, <1>3
<1>5. Effective(r, InAudio(r), J) = IF C = {} THEN NoLine ELSE e[Max(C)][1]
  BY <1>1, <1>2 DEF MovesSetting
<1> HIDE DEF C
<1>6. /\ C # {} => Max(C) \in C /\ LastOf(b, C) = b[Max(C)]
      /\ C = {} => LastOf(b, C) = NoLine
  BY <1>0, <1>4, LastLine
<1> QED
  BY <1>3, <1>5, <1>6 DEF Carried

(* So is an attribute of the stream. *)
LEMMA LastCarried ==
    ASSUME NEW X, NEW b, NEW Y, NEW e, NEW x, NEW r, NEW p, EditOf(X, b, Y, e, x, r, p),
           NEW I, NEW J, Follows(b, e, x, r, p, I, J)
    PROVE  Carried(b, e, LastOf(b, I), LastOf(r, J), I)
<1>0. /\ b \in Seq(X) /\ AudioLines(b) # {}
      /\ \A i \in 1..Len(b) : e[i] \in Seq(Y) /\ Len(e[i]) <= 1
      /\ x \in Seq(Y) /\ Len(x) <= 1 /\ r \in Seq(Y) /\ Edited(b, e, x, r, p)
      /\ I \subseteq 1..Len(b) /\ \A i \in I : e[i] # <<>>
  BY DEF EditOf, Follows
<1>1. J = Moved(I, p)
  BY <1>0, MovedIs
<1>2. MovesLast(e, r, p, I)
  BY <1>0, LastMoved
<1>3. /\ I # {} => Max(I) \in I /\ LastOf(b, I) = b[Max(I)]
      /\ I = {} => LastOf(b, I) = NoLine
  BY <1>0, LastLine
<1> QED
  BY <1>1, <1>2, <1>3 DEF Carried, MovesLast

-----------------------------------------------------------------------------
(* Rewriting, line by line. *)
Rewritten(l, y, first, inAudio, ip, port, crypto, A) ==
    /\ y \in Seq(Line(A \cup {ip})) /\ Len(y) <= 1
    /\ y = <<>> <=> l.k \in Dropped \/ (l.k = "rtcp" /\ ~inAudio)
    /\ y # <<>> => y[1].k = l.k
    /\ l.k = "c" => y[1].addr = IF l.addr \in {Bad, Zero} THEN l.addr ELSE ip
    /\ l.k = "m" => y[1].media = l.media /\ y[1].fmts = l.fmts
    /\ l.k = "m" /\ first => /\ y[1].port = (IF l.port = 0 THEN 0 ELSE port)
                             /\ y[1].srtp = (crypto # None)
    /\ l.k = "m" /\ ~first => y[1].port = 0
    /\ l.k = "rtcp" /\ inAudio => y[1].port = port + 1
    /\ l.k \in {"dir", "event"} => y[1] = l

(* A list of one line. *)
LEMMA One ==
    ASSUME NEW Y, NEW l \in Y
    PROVE  <<l>> \in Seq(Y) /\ Len(<<l>>) = 1 /\ <<l>> # <<>> /\ <<l>>[1] = l
  OBVIOUS

(* What RewriteLine makes of a line of each kind. *)
LEMMA RewriteLineIs ==
    ASSUME NEW A, NEW l \in Line(A), NEW first \in BOOLEAN, NEW inAudio \in BOOLEAN,
           NEW ip, NEW port \in Nat, NEW crypto
    PROVE  Rewritten(l, RewriteLine(l, first, inAudio, ip, port, crypto),
                     first, inAudio, ip, port, crypto, A)
<1> DEFINE y == RewriteLine(l, first, inAudio, ip, port, crypto)
           B == A \cup {ip}
<1>1. CASE l.k = "o"
  <2> DEFINE n == [l EXCEPT !.addr = ip]
  <2>1. l \in OLine(A)
    BY <1>1, LineKinds
  <2>2. n \in OLine(B) /\ n.k = "o"
    BY <2>1 DEF OLine
  <2>3. n \in Line(B)
    BY <2>2 DEF Line
  <2>4. y = <<n>>
    BY <1>1 DEF RewriteLine, Dropped
  <2> HIDE DEF y, n
  <2>5. y \in Seq(Line(B)) /\ Len(y) = 1 /\ y # <<>> /\ y[1] = n
    BY <2>3, <2>4, One
  <2> QED
    BY <1>1, <2>2, <2>5 DEF Rewritten, Dropped, y
<1>2. CASE l.k = "c"
  <2> DEFINE n == [l EXCEPT !.addr = IF @ \in {Bad, Zero} THEN @ ELSE ip]
  <2>1. l \in CLine(A)
    BY <1>2, LineKinds
  <2>2. n \in CLine(B) /\ n.k = "c" /\ n.addr = IF l.addr \in {Bad, Zero} THEN l.addr ELSE ip
    BY <2>1 DEF CLine
  <2>3. n \in Line(B)
    BY <2>2 DEF Line
  <2>4. y = <<n>>
    BY <1>2 DEF RewriteLine, Dropped
  <2> HIDE DEF y, n
  <2>5. y \in Seq(Line(B)) /\ Len(y) = 1 /\ y # <<>> /\ y[1] = n
    BY <2>3, <2>4, One
  <2> QED
    BY <1>2, <2>2, <2>5 DEF Rewritten, Dropped, y
<1>3. CASE l.k = "m" /\ first
  <2> DEFINE n == [l EXCEPT !.port = IF @ = 0 THEN 0 ELSE port, !.srtp = crypto # None]
  <2>1. l \in MLine
    BY <1>3, LineKinds
  <2>2. /\ n \in MLine /\ n.k = "m" /\ n.media = l.media /\ n.fmts = l.fmts
        /\ n.port = (IF l.port = 0 THEN 0 ELSE port) /\ n.srtp = (crypto # None)
    BY <2>1 DEF MLine
  <2>3. n \in Line(B)
    BY <2>2 DEF Line
  <2>4. y = <<n>>
    BY <1>3 DEF RewriteLine, Dropped
  <2> HIDE DEF y, n
  <2>5. y \in Seq(Line(B)) /\ Len(y) = 1 /\ y # <<>> /\ y[1] = n
    BY <2>3, <2>4, One
  <2> QED
    <3>1. /\ y \in Seq(Line(B)) /\ Len(y) <= 1 /\ y # <<>> /\ y[1].k = l.k
          /\ l.k \notin {"c", "rtcp", "dir", "event", "crypto", "ice"}
      BY <1>3, <2>2, <2>5
    <3>2. /\ y[1].media = l.media /\ y[1].fmts = l.fmts
          /\ y[1].port = (IF l.port = 0 THEN 0 ELSE port)
      BY <2>2, <2>5
    <3>3. y[1].srtp = (crypto # None)
      BY <2>2, <2>5
    <3> HIDE DEF B
    <3> QED
      BY <1>3, <3>1, <3>2, <3>3, Zenon DEF Rewritten, Dropped, y, B
<1>4. CASE l.k = "m" /\ ~first
  <2> DEFINE n == [l EXCEPT !.port = 0]
  <2>1. l \in MLine
    BY <1>4, LineKinds
  <2>2. n \in MLine /\ n.k = "m" /\ n.media = l.media /\ n.fmts = l.fmts /\ n.port = 0
    BY <2>1 DEF MLine
  <2>3. n \in Line(B)
    BY <2>2 DEF Line
  <2>4. y = <<n>>
    BY <1>4 DEF RewriteLine, Dropped
  <2> HIDE DEF y, n
  <2>5. y \in Seq(Line(B)) /\ Len(y) = 1 /\ y # <<>> /\ y[1] = n
    BY <2>3, <2>4, One
  <2> QED
    BY <1>4, <2>2, <2>5 DEF Rewritten, Dropped, y
<1>5. CASE l.k = "rtcp" /\ inAudio
  <2> DEFINE n == [l EXCEPT !.port = port + 1]
  <2>1. l \in RtcpLine
    BY <1>5, LineKinds
  <2>2. n \in RtcpLine /\ n.k = "rtcp" /\ n.port = port + 1
    BY <2>1 DEF RtcpLine
  <2>3. n \in Line(B)
    BY <2>2 DEF Line
  <2>4. y = <<n>>
    BY <1>5 DEF RewriteLine, Dropped
  <2> HIDE DEF y, n
  <2>5. y \in Seq(Line(B)) /\ Len(y) = 1 /\ y # <<>> /\ y[1] = n
    BY <2>3, <2>4, One
  <2> QED
    <3>1. /\ y \in Seq(Line(B)) /\ Len(y) <= 1 /\ y # <<>> /\ y[1].k = l.k
          /\ y[1].port = port + 1
          /\ l.k \notin {"c", "m", "dir", "event", "crypto", "ice"}
      BY <1>5, <2>2, <2>5
    <3> QED
      BY <1>5, <3>1, Zenon DEF Rewritten, Dropped, y
<1>6. CASE l.k \in Dropped \/ (l.k = "rtcp" /\ ~inAudio)
  <2>1. y = <<>>
    BY <1>6 DEF RewriteLine, Dropped
  <2>2. y \in Seq(Line(B)) /\ Len(y) = 0
    BY <2>1
  <2> HIDE DEF y
  <2> QED
    BY <1>6, <2>1, <2>2 DEF Rewritten, Dropped, y
<1>7. CASE l.k \in {"dir", "event", "text"}
  <2>1. l \in Line(B)
    BY DEF Line, OLine, CLine
  <2>2. y = <<l>>
    BY <1>7 DEF RewriteLine, Dropped
  <2> HIDE DEF y
  <2>3. y \in Seq(Line(B)) /\ Len(y) = 1 /\ y # <<>> /\ y[1] = l
    BY <2>1, <2>2, One
  <2> QED
    BY <1>7, <2>3 DEF Rewritten, Dropped, y
<1> QED
  BY <1>1, <1>2, <1>3, <1>4, <1>5, <1>6, <1>7, LineKinds DEF Dropped

(* The lines that carry the key. *)
LEMMA CryptoLineIs ==
    ASSUME NEW A, NEW crypto \in Crypto \cup {None}
    PROVE  LET x == CryptoLine(crypto) IN
           /\ x \in Seq(Line(A)) /\ Len(x) <= 1
           /\ x = <<>> <=> crypto = None
           /\ crypto # None => /\ x = <<KeyAttr(crypto)>> /\ x[1] = KeyAttr(crypto)
                               /\ KeyAttr(crypto) \in KeyLine
<1>0. None \notin Crypto
  BY SdpAssumption DEF Crypto
<1>1. CASE crypto = None
  <2>1. CryptoLine(crypto) = <<>>
    BY <1>1 DEF CryptoLine
  <2> QED
    BY <1>1, <2>1
<1>2. CASE crypto # None
  <2> DEFINE l == KeyAttr(crypto)
  <2>1. l \in KeyLine
    BY <1>2 DEF Crypto, KeyAttr, KeyLine
  <2>2. l \in Line(A)
    BY <2>1 DEF Line
  <2>3. CryptoLine(crypto) = <<l>>
    BY <1>2 DEF CryptoLine
  <2> HIDE DEF l
  <2>4. <<l>> \in Seq(Line(A)) /\ Len(<<l>>) = 1 /\ <<l>> # <<>> /\ <<l>>[1] = l
    BY <2>2, One
  <2> QED
    BY <1>2, <2>1, <2>3, <2>4 DEF l
<1> QED
  BY <1>1, <1>2

(* What the rewriting makes of each line. *)
RewriteEdits(b, ip, port, crypto) ==
    [i \in DOMAIN b |->
        RewriteLine(b[i], i = Audio(b), i \in InAudio(b), ip, port, crypto)]

EditsRewrite(b, e, ip, port, crypto, A) ==
    \A i \in 1..Len(b) :
        Rewritten(b[i], e[i], i = Audio(b), i \in InAudio(b), ip, port, crypto, A)

(* Rewrite edits every line as RewriteLine says. *)
LEMMA RewriteEditsLines ==
    ASSUME NEW A, NEW b \in Seq(Line(A)), NEW ip, NEW port \in Nat, NEW crypto
    PROVE  EditsRewrite(b, RewriteEdits(b, ip, port, crypto), ip, port, crypto, A)
<1> DEFINE e == RewriteEdits(b, ip, port, crypto)
<1>1. ASSUME NEW i \in 1..Len(b)
      PROVE  Rewritten(b[i], e[i], i = Audio(b), i \in InAudio(b), ip, port, crypto, A)
  <2> DEFINE l == b[i]
             first == (i = Audio(b))
             inAudio == (i \in InAudio(b))
  <2>1. e[i] = RewriteLine(l, first, inAudio, ip, port, crypto)
    BY DEF RewriteEdits
  <2>2. l \in Line(A)
    OBVIOUS
  <2>3. first \in BOOLEAN /\ inAudio \in BOOLEAN
    OBVIOUS
  <2> HIDE DEF l, first, inAudio, e
  <2>4. Rewritten(l, RewriteLine(l, first, inAudio, ip, port, crypto),
                  first, inAudio, ip, port, crypto, A)
    BY <2>2, <2>3, RewriteLineIs
  <2> QED
    BY <2>1, <2>4 DEF l, first, inAudio
<1> QED
  BY <1>1 DEF EditsRewrite

(* No line is NoLine. *)
LEMMA NoLineApart ==
    ASSUME NEW A
    PROVE  NoLine \notin Line(A)
  BY LineKinds

(* It keeps the media lines, and so the streams. *)
LEMMA RewriteEdit ==
    ASSUME NEW A, NEW b \in Seq(Line(A)), AudioLines(b) # {}, NEW ip, NEW port \in Nat,
           NEW crypto \in Crypto \cup {None}
    PROVE  \E p : EditOf(Line(A), b, Line(A \cup {ip}), RewriteEdits(b, ip, port, crypto),
                         CryptoLine(crypto), Rewrite(b, ip, port, crypto), p)
<1> DEFINE X == Line(A)
           Y == Line(A \cup {ip})
           e == RewriteEdits(b, ip, port, crypto)
           x == CryptoLine(crypto)
           r == Rewrite(b, ip, port, crypto)
<1>1. r = EditLines(b, e, x)
  BY DEF Rewrite, RewriteEdits
<1>2. EditsRewrite(b, e, ip, port, crypto, A)
  BY RewriteEditsLines
<1>3. NoLine \notin X /\ NoLine \notin Y
  BY NoLineApart
<1>4. x \in Seq(Y) /\ Len(x) <= 1 /\ (x # <<>> => x[1].k = "crypto")
  <2>1. /\ x \in Seq(Y) /\ Len(x) <= 1
        /\ x = <<>> <=> crypto = None
        /\ crypto # None => x[1] = KeyAttr(crypto) /\ KeyAttr(crypto) \in KeyLine
    BY CryptoLineIs
  <2>2. \A l \in KeyLine : l.k = "crypto"
    BY DEF KeyLine
  <2> HIDE DEF x
  <2> QED
    BY <2>1, <2>2
<1> HIDE DEF e, x, r
<1>5. \A i \in 1..Len(b) : e[i] \in Seq(Y) /\ Len(e[i]) <= 1
  BY <1>2 DEF EditsRewrite, Rewritten
<1>6. ASSUME NEW i \in 1..Len(b)
      PROVE  /\ b[i].k = "m" => e[i] # <<>> /\ e[i][1].k = "m" /\ e[i][1].media = b[i].media
             /\ b[i].k # "m" /\ e[i] # <<>> => e[i][1].k # "m"
  <2>1. /\ e[i] = <<>> <=> b[i].k \in Dropped \/ (b[i].k = "rtcp" /\ ~(i \in InAudio(b)))
        /\ e[i] # <<>> => e[i][1].k = b[i].k
        /\ b[i].k = "m" => e[i][1].media = b[i].media
    BY <1>2, Zenon DEF EditsRewrite, Rewritten
  <2> QED
    BY <2>1 DEF Dropped
<1>7. KeepsMedia(b, e, x)
  BY <1>4, <1>6 DEF KeepsMedia
<1>8. r \in Seq(Y) /\ \E p : Edited(b, e, x, r, p)
  <2> HIDE DEF X, Y
  <2>1. b \in Seq(X)
    BY DEF X
  <2> QED
    BY <1>1, <1>4, <1>5, <2>1, EditedLines
<1>9. PICK p : Edited(b, e, x, r, p)
  BY <1>8
<1>10. b \in Seq(X)
  OBVIOUS
<1> HIDE DEF X, Y
<1>11. StreamMoved(b, e, x, r, p)
  BY <1>4, <1>5, <1>7, <1>8, <1>9, <1>10, StreamKept
<1>12. EditOf(X, b, Y, e, x, r, p)
  BY <1>3, <1>4, <1>5, <1>8, <1>9, <1>10, <1>11 DEF EditOf
<1> QED
  BY <1>12 DEF X, Y, e, x, r

(* The lines of a kind that no edit removes, changes to another or adds.   *)
LEMMA KindFollows ==
    ASSUME NEW X, NEW b, NEW Y, NEW e, NEW x, NEW r, NEW p, EditOf(X, b, Y, e, x, r, p),
           NEW K, \A i \in 1..Len(b) : /\ b[i].k = K => e[i] # <<>>
                                       /\ e[i] # <<>> => e[i][1].k = b[i].k,
           x # <<>> => x[1].k # K
    PROVE  Follows(b, e, x, r, p, Lines(b, K), Lines(r, K))
<1>1. /\ b \in Seq(X) /\ r \in Seq(Y) /\ Edited(b, e, x, r, p)
  BY DEF EditOf
<1>2. DOMAIN b = 1..Len(b) /\ DOMAIN r = 1..Len(r)
  BY <1>1
<1>3. \A i \in 1..Len(b) : e[i] # <<>> =>
          p[i - 1] + 1 \in 1..Len(r) /\ r[p[i - 1] + 1] = e[i][1]
  BY <1>1 DEF Edited
<1>4. x # <<>> => r[p[AudioEnd(b)]] = x[1]
  BY <1>1 DEF Edited
<1> QED
  BY <1>2, <1>3, <1>4 DEF Lines, Follows

(* A description by its fields, and with those replaced that a rewriting  *)
(* changes.                                                                *)
InfoOf(a, p, q, d, s, c, f, t) ==
    [ok |-> TRUE, addr |-> a, port |-> p, rtcp |-> q, dir |-> d,
     secure |-> s, cryptos |-> c, fmts |-> f, dtmf |-> t]
InfoAs(i, a, p, q, s, c) ==
    [i EXCEPT !.addr = a, !.port = p, !.rtcp = q, !.secure = s, !.cryptos = c]
InfoFacing(i, d) == [i EXCEPT !.dir = d]

(* A description is its fields, with those replaced that a rewriting       *)
(* changes.                                                                *)
LEMMA FieldsChanged ==
    ASSUME NEW a, NEW p, NEW q, NEW d, NEW s, NEW c, NEW f, NEW t,
           NEW a2, NEW p2, NEW q2, NEW s2, NEW c2
    PROVE  InfoAs(InfoOf(a, p, q, d, s, c, f, t), a2, p2, q2, s2, c2) =
               InfoOf(a2, p2, q2, d, s2, c2, f, t)
<1> DEFINE R == [ok : {TRUE}, addr : {a, a2}, port : {p, p2}, rtcp : {q, q2}, dir : {d},
                 secure : {s, s2}, cryptos : {c, c2}, fmts : {f}, dtmf : {t}]
           i == InfoOf(a, p, q, d, s, c, f, t)
           j == [i EXCEPT !.addr = a2, !.port = p2, !.rtcp = q2, !.secure = s2, !.cryptos = c2]
<1>1. i \in R /\ i.dir = d /\ i.fmts = f /\ i.dtmf = t
  BY DEF InfoOf
<1> HIDE DEF i
<1>2. j \in R
  BY <1>1
<1>3. /\ j.addr = a2 /\ j.port = p2 /\ j.rtcp = q2 /\ j.dir = d
      /\ j.secure = s2 /\ j.cryptos = c2 /\ j.fmts = f /\ j.dtmf = t
  BY <1>1
<1> HIDE DEF j
<1>4. j = InfoOf(a2, p2, q2, d, s2, c2, f, t)
  <2>1. j.ok = TRUE
    BY <1>2
  <2>2. j = [ok |-> j.ok, addr |-> j.addr, port |-> j.port, rtcp |-> j.rtcp, dir |-> j.dir,
             secure |-> j.secure, cryptos |-> j.cryptos, fmts |-> j.fmts, dtmf |-> j.dtmf]
    BY <1>2
  <2> QED
    BY <1>3, <2>1, <2>2 DEF InfoOf
<1> QED
  BY <1>4 DEF i, j, InfoAs

(* A description is its fields, with the direction replaced. *)
LEMMA DirectionChanged ==
    ASSUME NEW a, NEW p, NEW q, NEW d, NEW s, NEW c, NEW f, NEW t, NEW d2
    PROVE  InfoFacing(InfoOf(a, p, q, d, s, c, f, t), d2) = InfoOf(a, p, q, d2, s, c, f, t)
<1> DEFINE R == [ok : {TRUE}, addr : {a}, port : {p}, rtcp : {q}, dir : {d, d2},
                 secure : {s}, cryptos : {c}, fmts : {f}, dtmf : {t}]
           i == InfoOf(a, p, q, d, s, c, f, t)
           j == [i EXCEPT !.dir = d2]
<1>1. i \in R
  BY DEF InfoOf
<1> HIDE DEF i
<1>2. j \in R
  BY <1>1
<1>3. /\ j.addr = a /\ j.port = p /\ j.rtcp = q /\ j.dir = d2
      /\ j.secure = s /\ j.cryptos = c /\ j.fmts = f /\ j.dtmf = t
  BY <1>1
<1> HIDE DEF j
<1>4. j = InfoOf(a, p, q, d2, s, c, f, t)
  <2>1. j.ok = TRUE
    BY <1>2
  <2>2. j = [ok |-> j.ok, addr |-> j.addr, port |-> j.port, rtcp |-> j.rtcp, dir |-> j.dir,
             secure |-> j.secure, cryptos |-> j.cryptos, fmts |-> j.fmts, dtmf |-> j.dtmf]
    BY <1>2
  <2> QED
    BY <1>3, <2>1, <2>2 DEF InfoOf
<1> QED
  BY <1>4 DEF i, j, InfoFacing

(* What is read from a rewritten body.                                     *)
LEMMA RewriteReads ==
    ASSUME NEW A, NEW b \in Seq(Line(A)), Readable(b), NEW ip, ip # Bad,
           NEW port \in Nat \ {0}, NEW crypto \in Crypto \cup {None}
    PROVE  LET r == Rewrite(b, ip, port, crypto) IN
           /\ Readable(r)
           /\ Parse(r) = Redirected(Parse(b), ip, port, crypto)
           /\ \A i \in Lines(r, "m") : r[i].port # 0 => i = Audio(r)
<1> DEFINE X == Line(A)
           Y == Line(A \cup {ip})
           e == RewriteEdits(b, ip, port, crypto)
           x == CryptoLine(crypto)
           r == Rewrite(b, ip, port, crypto)
           a == Audio(b)
<1>0. AudioLines(b) # {} /\ Media(b).fmts # <<>> /\ Conn(b) # NoLine
  BY DEF Readable
<1>1. PICK p : EditOf(X, b, Y, e, x, r, p)
  BY <1>0, RewriteEdit
<1>2. EditsRewrite(b, e, ip, port, crypto, A)
  BY RewriteEditsLines
<1>3. /\ x \in Seq(Y) /\ Len(x) <= 1 /\ (x = <<>> <=> crypto = None)
      /\ crypto # None => x[1] = KeyAttr(crypto) /\ KeyAttr(crypto) \in KeyLine
  BY CryptoLineIs
<1> HIDE DEF e, x, r
<1>4. /\ b \in Seq(X) /\ r \in Seq(Y) /\ DOMAIN b = 1..Len(b) /\ DOMAIN r = 1..Len(r)
      /\ NoLine \notin X /\ NoLine \notin Y
      /\ Edited(b, e, x, r, p) /\ StreamMoved(b, e, x, r, p)
  <2>1. b \in Seq(X) /\ r \in Seq(Y) /\ Edited(b, e, x, r, p) /\ StreamMoved(b, e, x, r, p)
        /\ NoLine \notin X /\ NoLine \notin Y
    BY <1>1 DEF EditOf
  <2> HIDE DEF X, Y
  <2> QED
    BY <2>1
<1> HIDE DEF a
<1>5. a \in AudioLines(b) /\ a \in 1..Len(b) /\ b[a].k = "m"
  BY <1>0, <1>4, StreamBounds DEF AudioLines, Lines, a
<1>6. \A i \in 1..Len(b) : e[i] # <<>> =>
          p[i - 1] + 1 \in 1..Len(r) /\ r[p[i - 1] + 1] = e[i][1]
  BY <1>4 DEF Edited
<1>7. /\ \A i \in 1..Len(b) :
             /\ e[i] = <<>> <=> b[i].k \in Dropped \/ (b[i].k = "rtcp" /\ ~(i \in InAudio(b)))
             /\ e[i] # <<>> => e[i][1].k = b[i].k
  BY <1>2, Zenon DEF EditsRewrite, Rewritten
<1>8. x # <<>> => x[1].k = "crypto" /\ r[p[AudioEnd(b)]] = x[1]
  <2>1. \A l \in KeyLine : l.k = "crypto"
    BY DEF KeyLine
  <2> QED
    BY <1>3, <1>4, <2>1 DEF Edited
(* Media. *)
<1>9. /\ AudioLines(r) # {} /\ Media(r).fmts = Media(b).fmts
      /\ Media(r).port = (IF Media(b).port = 0 THEN 0 ELSE port)
      /\ Media(r).srtp = (crypto # None)
  <2>1. AudioLines(r) # {} /\ Audio(r) = p[a - 1] + 1
    BY <1>4 DEF StreamMoved, a
  <2>2. e[a] # <<>>
    BY <1>5, <1>7 DEF Dropped
  <2>3. Media(r) = e[a][1] /\ Media(b) = b[a]
    BY <1>5, <1>6, <2>1, <2>2 DEF Media, a
  <2>4. Rewritten(b[a], e[a], a = Audio(b), a \in InAudio(b), ip, port, crypto, A)
    BY <1>2, <1>5 DEF EditsRewrite
  <2>5. /\ e[a][1].fmts = b[a].fmts
        /\ e[a][1].port = (IF b[a].port = 0 THEN 0 ELSE port)
        /\ e[a][1].srtp = (crypto # None)
    BY <1>5, <2>4, Zenon DEF Rewritten, a
  <2> QED
    BY <2>1, <2>3, <2>5
<1>10. \A i \in Lines(r, "m") : r[i].port # 0 => i = Audio(r)
  <2> SUFFICES ASSUME NEW j \in Lines(r, "m"), j # Audio(r) PROVE r[j].port = 0
    OBVIOUS
  <2>1. Audio(r) = p[a - 1] + 1 /\ Lines(r, "m") = {p[i - 1] + 1 : i \in Lines(b, "m")}
    BY <1>4 DEF StreamMoved, a
  <2>2. PICK i \in Lines(b, "m") : j = p[i - 1] + 1
    BY <2>1
  <2>3. i \in 1..Len(b) /\ b[i].k = "m" /\ i # a
    BY <1>4, <2>1, <2>2 DEF Lines
  <2>4. e[i] # <<>>
    BY <1>7, <2>3 DEF Dropped
  <2>5. r[j] = e[i][1]
    BY <1>6, <2>2, <2>3, <2>4
  <2>6. Rewritten(b[i], e[i], i = Audio(b), i \in InAudio(b), ip, port, crypto, A)
    BY <1>2, <2>3 DEF EditsRewrite
  <2>7. e[i][1].port = 0
    BY <2>3, <2>6 DEF Rewritten, a
  <2> QED
    BY <2>5, <2>7
(* Address. *)
<1>11. /\ Conn(r) # NoLine
       /\ Conn(r).addr = IF Conn(b).addr = Zero THEN Zero ELSE ip
  <2>1. Follows(b, e, x, r, p, Lines(b, "c"), Lines(r, "c"))
    <3>1. \A i \in 1..Len(b) : /\ b[i].k = "c" => e[i] # <<>>
                               /\ e[i] # <<>> => e[i][1].k = b[i].k
      BY <1>7 DEF Dropped
    <3>2. x # <<>> => x[1].k # "c"
      BY <1>8
    <3> HIDE DEF X, Y
    <3> QED
      BY <1>1, <3>1, <3>2, KindFollows
  <2>2. \A i \in 1..Len(b) : b[i].k = "c" =>
            e[i][1].addr = IF b[i].addr \in {Bad, Zero} THEN b[i].addr ELSE ip
    BY <1>2, Zenon DEF EditsRewrite, Rewritten
  <2>3. Follows(b, e, x, r, p, Addresses(b), Addresses(r))
    <3>1. \A i \in 1..Len(b) : b[i].k = "c" => (e[i][1].addr # Bad <=> b[i].addr # Bad)
      BY <2>2, SdpAssumption
    <3>2. /\ Lines(b, "c") \subseteq 1..Len(b) /\ Lines(r, "c") \subseteq 1..Len(r)
          /\ \A i \in Lines(b, "c") : e[i] # <<>>
          /\ \A i \in 1..Len(b) : e[i] # <<>> =>
                 (p[i - 1] + 1 \in Lines(r, "c") <=> i \in Lines(b, "c"))
          /\ x # <<>> => p[AudioEnd(b)] \notin Lines(r, "c")
      BY <2>1 DEF Follows
    <3>3. \A i \in Lines(b, "c") : i \in 1..Len(b) /\ b[i].k = "c"
      BY <1>4 DEF Lines
    <3>4. \A i \in 1..Len(b) : e[i] # <<>> =>
              (p[i - 1] + 1 \in Addresses(r) <=> i \in Addresses(b))
      BY <1>6, <3>1, <3>2, <3>3 DEF Addresses
    <3> QED
      BY <3>2, <3>4 DEF Addresses, Follows
  <2>4. Carried(b, e, Conn(b), Conn(r), Addresses(b))
    <3> HIDE DEF X, Y
    <3> QED
      BY <1>1, <2>3, EffectiveCarried DEF Conn
  <2>5. PICK m \in Addresses(b) : Conn(b) = b[m] /\ Conn(r) = e[m][1]
    BY <1>0, <2>4 DEF Carried
  <2>6. m \in 1..Len(b) /\ b[m].k = "c" /\ b[m].addr # Bad
    BY <1>4 DEF Addresses, Lines
  <2>7. Conn(r) \in Y
    <3>1. e[m] # <<>>
      BY <1>7, <2>6 DEF Dropped
    <3>2. Conn(r) = r[p[m - 1] + 1] /\ p[m - 1] + 1 \in 1..Len(r)
      BY <1>6, <2>5, <2>6, <3>1
    <3> HIDE DEF Y
    <3> QED
      BY <1>4, <3>2
  <2> QED
    BY <1>4, <2>2, <2>5, <2>6, <2>7
(* Direction and DTMF. *)
<1>12. Dir(r) = Dir(b) /\ Event(r) = Event(b)
  <2>1. \A i \in 1..Len(b) : b[i].k \in {"dir", "event"} => e[i] # <<>> /\ e[i][1] = b[i]
    <3>1. \A i \in 1..Len(b) : b[i].k \in {"dir", "event"} => e[i][1] = b[i]
      BY <1>2, Zenon DEF EditsRewrite, Rewritten
    <3> QED
      BY <1>7, <3>1 DEF Dropped
  <2>2. \A i \in 1..Len(b) : e[i] # <<>> => e[i][1].k = b[i].k
    BY <1>7
  <2>3. Follows(b, e, x, r, p, Lines(b, "dir"), Lines(r, "dir"))
    <3>1. x # <<>> => x[1].k # "dir"
      BY <1>8
    <3>2. \A i \in 1..Len(b) : /\ b[i].k = "dir" => e[i] # <<>>
                               /\ e[i] # <<>> => e[i][1].k = b[i].k
      BY <2>1, <2>2
    <3> HIDE DEF X, Y
    <3> QED
      BY <1>1, <3>1, <3>2, KindFollows
  <2>4. Carried(b, e, Dir(b), Dir(r), Lines(b, "dir"))
    <3> HIDE DEF X, Y
    <3> QED
      BY <1>1, <2>3, EffectiveCarried DEF Dir
  <2>5. Dir(r) = Dir(b)
    <3>1. \A m \in Lines(b, "dir") : e[m][1] = b[m]
      BY <1>4, <2>1 DEF Lines
    <3> QED
      BY <2>4, <3>1 DEF Carried
  <2>6. Follows(b, e, x, r, p, Lines(b, "event"), Lines(r, "event"))
    <3>1. x # <<>> => x[1].k # "event"
      BY <1>8
    <3>2. \A i \in 1..Len(b) : /\ b[i].k = "event" => e[i] # <<>>
                               /\ e[i] # <<>> => e[i][1].k = b[i].k
      BY <2>1, <2>2
    <3> HIDE DEF X, Y
    <3> QED
      BY <1>1, <3>1, <3>2, KindFollows
  <2>7. Follows(b, e, x, r, p, Lines(b, "event") \cap InAudio(b), Lines(r, "event") \cap InAudio(r))
    BY <1>4, <2>6 DEF Follows, StreamMoved
  <2>8. Carried(b, e, Event(b), Event(r), Lines(b, "event") \cap InAudio(b))
    <3> HIDE DEF X, Y
    <3> QED
      BY <1>1, <2>7, LastCarried DEF Event
  <2>9. Event(r) = Event(b)
    <3>1. \A m \in Lines(b, "event") : e[m][1] = b[m]
      BY <1>4, <2>1 DEF Lines
    <3> QED
      BY <2>8, <3>1 DEF Carried
  <2> QED
    BY <2>5, <2>9
(* RTCP. *)
<1>13. RtcpPort(r) = IF RtcpPort(b) = 0 THEN 0 ELSE port + 1
  <2> DEFINE I == Lines(b, "rtcp") \cap InAudio(b)
             J == Lines(r, "rtcp") \cap InAudio(r)
  <2>1. \A i \in I : i \in 1..Len(b) /\ b[i].k = "rtcp" /\ i \in InAudio(b) /\ e[i] # <<>>
    BY <1>4, <1>7 DEF Lines, Dropped
  <2>2. \A i \in 1..Len(b) : e[i] # <<>> =>
            (p[i - 1] + 1 \in Lines(r, "rtcp") <=> i \in Lines(b, "rtcp"))
    BY <1>4, <1>6, <1>7 DEF Lines
  <2>3. x # <<>> => p[AudioEnd(b)] \notin Lines(r, "rtcp")
    BY <1>8 DEF Lines
  <2>4. Follows(b, e, x, r, p, I, J)
    <3>1. J \subseteq 1..Len(r)
      BY <1>4 DEF Lines
    <3>2. \A i \in 1..Len(b) : e[i] # <<>> =>
              (p[i - 1] + 1 \in InAudio(r) <=> i \in InAudio(b))
      BY <1>4 DEF StreamMoved
    <3> QED
      BY <2>1, <2>2, <2>3, <3>1, <3>2 DEF Follows
  <2>5. Carried(b, e, Rtcp(b), Rtcp(r), I)
    <3> HIDE DEF X, Y
    <3> QED
      BY <1>1, <2>4, LastCarried DEF Rtcp
  <2>6. CASE Rtcp(b) = NoLine /\ Rtcp(r) = NoLine
    <3>1. Media(b).port \in Nat
      <4>1. Media(b) = b[a] /\ b[a] \in X
        BY <1>5 DEF Media, a
      <4>2. b[a] \in MLine
        BY <1>5, <4>1, LineKinds
      <4> QED
        BY <4>1, <4>2 DEF MLine
    <3> QED
      BY <1>9, <2>6, <3>1 DEF RtcpPort
  <2>7. CASE \E m \in I : Rtcp(b) = b[m] /\ Rtcp(r) = e[m][1]
    <3>1. PICK m \in I : Rtcp(b) = b[m] /\ Rtcp(r) = e[m][1]
      BY <2>7
    <3>2. m \in 1..Len(b) /\ b[m].k = "rtcp" /\ m \in InAudio(b) /\ e[m] # <<>>
      BY <2>1
    <3>3. b[m] \in X /\ b[m] \in RtcpLine
      <4>1. b[m] \in X
        BY <3>2
      <4> QED
        BY <3>2, <4>1, LineKinds
    <3>4. b[m] # NoLine /\ b[m].port \in Nat /\ b[m].port # 0
      BY <1>4, <3>3 DEF RtcpLine
    <3>5. e[m][1].port = port + 1
      BY <1>2, <3>2, Zenon DEF EditsRewrite, Rewritten
    <3>6. e[m][1] # NoLine
      <4>1. r[p[m - 1] + 1] = e[m][1] /\ p[m - 1] + 1 \in 1..Len(r)
        BY <1>6, <3>2
      <4>2. e[m][1] \in Y
        <5> HIDE DEF Y
        <5> QED
          BY <1>4, <4>1
      <4> QED
        BY <1>4, <4>2
    <3>7. port + 1 # 0
      OBVIOUS
    <3> QED
      BY <3>1, <3>4, <3>5, <3>6, <3>7 DEF RtcpPort
  <2> QED
    BY <2>5, <2>6, <2>7 DEF Carried
(* Keys. *)
<1>14. Cryptos(r) = IF crypto = None THEN <<>> ELSE <<crypto>>
  <2> DEFINE T == {l \in ToSet(r) : l.k = "crypto" /\ l.key # Bad}
             stream == SubSeq(b, Audio(b), AudioEnd(b))
  <2>1. \A i \in 1..Len(b) :
            /\ e[i] = <<>> => b[i] \notin {}
            /\ e[i] # <<>> => /\ e[i][1] \in T <=> b[i] \in {}
                              /\ e[i][1] \in T => e[i][1] = b[i]
    <3>1. \A i \in 1..Len(b) : e[i] # <<>> => e[i][1].k # "crypto"
      BY <1>7 DEF Dropped
    <3> QED
      BY <3>1
  <2>2. Kept(SubSeq(r, Audio(r), AudioEnd(r)), T) =
            IF x # <<>> /\ x[1] \in T THEN Append(Kept(stream, {}), x[1]) ELSE Kept(stream, {})
    <3> HIDE DEF X, Y, T
    <3> QED
      BY <1>1, <2>1, KeptMoved
  <2>3. Kept(stream, {}) = <<>>
    <3>1. Audio(b) \in 1..Len(b) /\ AudioEnd(b) \in Audio(b)..Len(b) /\ Len(b) \in Nat
      BY <1>0, <1>4, StreamBounds
    <3>2. stream \in Seq(X)
      <4> HIDE DEF X
      <4> QED
        BY <1>4, <3>1, SubSeqProperties
    <3> HIDE DEF X, stream
    <3> QED
      BY <3>2, KeptNone
  <2>4. Cryptos(r) = LET usable == Kept(SubSeq(r, Audio(r), AudioEnd(r)), T) IN
            [i \in DOMAIN usable |->
                [tag |-> usable[i].tag, suite |-> usable[i].suite, key |-> usable[i].key]]
    BY DEF Cryptos
  <2>5. CASE crypto = None
    <3>1. Kept(SubSeq(r, Audio(r), AudioEnd(r)), T) = <<>>
      BY <1>3, <2>2, <2>3, <2>5
    <3> HIDE DEF T
    <3> QED
      BY <2>4, <2>5, <3>1
  <2>6. CASE crypto # None
    <3>1. crypto \in Crypto /\ x # <<>> /\ x[1] = KeyAttr(crypto)
      BY <1>3, <2>6
    <3>2. x[1] \in T
      <4>1. x[1] \in ToSet(r)
        <5>1. p[AudioEnd(b)] \in 1..Len(r) /\ r[p[AudioEnd(b)]] = x[1]
          BY <1>4, <3>1 DEF Edited
        <5> QED
          BY <1>4, <5>1 DEF ToSet
      <4>2. x[1].k = "crypto" /\ x[1].key # Bad
        BY <3>1, SdpAssumption DEF KeyAttr, Crypto
      <4> QED
        BY <4>1, <4>2
    <3>3. Kept(SubSeq(r, Audio(r), AudioEnd(r)), T) = <<x[1]>>
      <4> DEFINE l == x[1]
      <4>1. Append(<<>>, l) = <<l>>
        OBVIOUS
      <4> HIDE DEF T, l
      <4>2. Kept(SubSeq(r, Audio(r), AudioEnd(r)), T) = Append(<<>>, l)
        BY <2>2, <2>3, <3>1, <3>2 DEF l
      <4> QED
        BY <4>1, <4>2 DEF l
    <3> HIDE DEF T
    <3>4. Cryptos(r) = [i \in 1..1 |-> [tag |-> x[1].tag, suite |-> x[1].suite, key |-> x[1].key]]
      BY <2>4, <3>3
    <3>5. [tag |-> x[1].tag, suite |-> x[1].suite, key |-> x[1].key] = crypto
      BY <3>1 DEF KeyAttr, Crypto
    <3>6. <<crypto>> = [i \in 1..1 |-> crypto]
      OBVIOUS
    <3> QED
      BY <2>6, <3>4, <3>5, <3>6
  <2> QED
    BY <2>5, <2>6
<1>15. Readable(r)
  BY <1>0, <1>9, <1>11 DEF Readable
<1>16. Parse(r) = Read(r) /\ Parse(b) = Read(b)
  BY <1>15, ParseReads
<1>17. Read(r) = Redirected(Read(b), ip, port, crypto)
  <2> DEFINE addr == Conn(b).addr
             mp == Media(b).port
             rp == RtcpPort(b)
             dir == IF Dir(b) = NoLine THEN "sendrecv" ELSE Dir(b).dir
             secure == Media(b).srtp
             cryptos == Cryptos(b)
             fmts == Media(b).fmts
             dtmf == IF Event(b) = NoLine THEN None ELSE Event(b).pt
             secured == (crypto # None)
  <2>1. Read(b) = [ok |-> TRUE, addr |-> addr, port |-> mp, rtcp |-> rp, dir |-> dir,
                   secure |-> secure, cryptos |-> cryptos, fmts |-> fmts, dtmf |-> dtmf]
    BY DEF Read
  <2>2. Read(r) = [ok |-> TRUE, addr |-> IF addr = Zero THEN Zero ELSE ip,
                   port |-> IF mp = 0 THEN 0 ELSE port,
                   rtcp |-> IF rp = 0 THEN 0 ELSE port + 1, dir |-> dir,
                   secure |-> secured,
                   cryptos |-> IF crypto = None THEN <<>> ELSE <<crypto>>,
                   fmts |-> fmts, dtmf |-> dtmf]
    <3>1. Media(r).srtp = secured
      BY <1>9
    <3> HIDE DEF secured
    <3> QED
      BY <1>9, <1>11, <1>12, <1>13, <1>14, <3>1 DEF Read
  <2>3. Redirected(Read(b), ip, port, crypto) =
            [Read(b) EXCEPT !.addr = IF @ = Zero THEN Zero ELSE ip,
                            !.port = IF @ = 0 THEN 0 ELSE port,
                            !.rtcp = IF @ = 0 THEN 0 ELSE port + 1,
                            !.secure = secured,
                            !.cryptos = IF crypto = None THEN <<>> ELSE <<crypto>>]
    BY DEF Redirected
  <2> DEFINE addr2 == IF addr = Zero THEN Zero ELSE ip
             mp2 == IF mp = 0 THEN 0 ELSE port
             rp2 == IF rp = 0 THEN 0 ELSE port + 1
             keys2 == IF crypto = None THEN <<>> ELSE <<crypto>>
  <2>4. Redirected(Read(b), ip, port, crypto) =
            InfoAs(Read(b), addr2, mp2, rp2, secured, keys2)
    <3>1. Read(b).addr = addr /\ Read(b).port = mp /\ Read(b).rtcp = rp
      <4> HIDE DEF addr, mp, rp, dir, secure, cryptos, fmts, dtmf
      <4> QED
        BY <2>1
    <3> HIDE DEF addr, mp, rp
    <3> QED
      BY <2>3, <3>1 DEF InfoAs
  <2>5. Read(r) = InfoOf(addr2, mp2, rp2, dir, secured, keys2, fmts, dtmf)
    BY <2>2 DEF InfoOf
  <2>6. Read(b) = InfoOf(addr, mp, rp, dir, secure, cryptos, fmts, dtmf)
    BY <2>1 DEF InfoOf
  <2> HIDE DEF addr, mp, rp, dir, secure, cryptos, fmts, dtmf, secured, addr2, mp2, rp2, keys2
  <2> QED
    BY <2>4, <2>5, <2>6, FieldsChanged
<1> QED
  BY <1>10, <1>15, <1>16, <1>17 DEF r

-----------------------------------------------------------------------------
(***************************************************************************)
(* Setting the direction and bumping the version.                          *)
(***************************************************************************)
(* Setting the direction. *)
DirectionEdits(b) == [i \in DOMAIN b |-> IF b[i].k = "dir" THEN <<>> ELSE <<b[i]>>]

(* SetDirection is an edit: it drops the direction lines and adds one. *)
LEMMA DirectionEdit ==
    ASSUME NEW A, NEW b \in Seq(Line(A)), AudioLines(b) # {}, NEW dir \in Directions
    PROVE  \E p : EditOf(Line(A), b, Line(A), DirectionEdits(b), <<[k |-> "dir", dir |-> dir]>>,
                         SetDirection(b, dir), p)
<1> DEFINE X == Line(A)
           e == DirectionEdits(b)
           l == [k |-> "dir", dir |-> dir]
           x == <<l>>
           r == SetDirection(b, dir)
<1>1. r = EditLines(b, e, x)
  BY DEF SetDirection, DirectionEdits
<1>2. NoLine \notin X
  BY NoLineApart
<1>3. x \in Seq(X) /\ Len(x) <= 1 /\ (x # <<>> => x[1].k = "dir")
  <2>1. l \in DirLine /\ l.k = "dir"
    BY DEF DirLine
  <2>2. l \in X
    BY <2>1 DEF Line
  <2> HIDE DEF X, l
  <2> QED
    BY <2>1, <2>2, One
<1>4. b \in Seq(X) /\ \A i \in 1..Len(b) : b[i] \in X
  <2> HIDE DEF X
  <2>1. b \in Seq(X)
    BY DEF X
  <2> QED
    BY <2>1
<1>5. \A i \in 1..Len(b) : e[i] = IF b[i].k = "dir" THEN <<>> ELSE <<b[i]>>
  BY DEF DirectionEdits
<1> HIDE DEF X, e, r, x
<1>6. ASSUME NEW i \in 1..Len(b)
      PROVE  /\ e[i] \in Seq(X) /\ Len(e[i]) <= 1
             /\ b[i].k = "m" => e[i] # <<>> /\ e[i][1].k = "m" /\ e[i][1].media = b[i].media
             /\ b[i].k # "m" /\ e[i] # <<>> => e[i][1].k # "m"
  <2> DEFINE c == b[i]
             y == e[i]
  <2>1. c \in X /\ y = IF c.k = "dir" THEN <<>> ELSE <<c>>
    BY <1>4, <1>5
  <2> HIDE DEF c, y
  <2>2. CASE c.k = "dir"
    BY <2>1, <2>2 DEF c, y
  <2>3. CASE c.k # "dir"
    <3>1. y \in Seq(X) /\ Len(y) = 1 /\ y # <<>> /\ y[1] = c
      BY <2>1, <2>3, One
    <3> QED
      BY <2>3, <3>1 DEF c, y
  <2> QED
    BY <2>2, <2>3
<1>7. KeepsMedia(b, e, x)
  BY <1>3, <1>6 DEF KeepsMedia
<1>8. r \in Seq(X) /\ \E p : Edited(b, e, x, r, p)
  BY <1>1, <1>3, <1>4, <1>6, EditedLines
<1>9. PICK p : Edited(b, e, x, r, p)
  BY <1>8
<1>10. StreamMoved(b, e, x, r, p)
  BY <1>3, <1>4, <1>6, <1>7, <1>8, <1>9, StreamKept
<1>11. EditOf(X, b, X, e, x, r, p)
  BY <1>2, <1>3, <1>4, <1>6, <1>8, <1>9, <1>10 DEF EditOf
<1> QED
  BY <1>11 DEF X, e, x, r

(* Only the audio stream is left enabled. *)
OneStream(b) == \A i \in Lines(b, "m") : b[i].port # 0 => i = Audio(b)

(* What is read after the direction was set. *)
LEMMA DirectionReads ==
    ASSUME NEW A, NEW b \in Seq(Line(A)), Readable(b), NEW dir \in Directions
    PROVE  LET r == SetDirection(b, dir) IN
           /\ r \in Seq(Line(A)) /\ Readable(r)
           /\ Parse(r) = [Parse(b) EXCEPT !.dir = dir]
           /\ OneStream(b) => OneStream(r)
<1> DEFINE X == Line(A)
           e == DirectionEdits(b)
           l == [k |-> "dir", dir |-> dir]
           x == <<l>>
           r == SetDirection(b, dir)
           a == Audio(b)
<1>0. AudioLines(b) # {} /\ Media(b).fmts # <<>> /\ Conn(b) # NoLine
  BY DEF Readable
<1>1. PICK p : EditOf(X, b, X, e, x, r, p)
  BY <1>0, DirectionEdit
<1>2. \A i \in 1..Len(b) : e[i] = IF b[i].k = "dir" THEN <<>> ELSE <<b[i]>>
  BY DEF DirectionEdits
<1>3. x # <<>> /\ x[1] = l /\ l.k = "dir" /\ l.dir = dir
  OBVIOUS
<1> HIDE DEF e, x, r, a, l
<1>4. /\ b \in Seq(X) /\ r \in Seq(X) /\ DOMAIN b = 1..Len(b) /\ DOMAIN r = 1..Len(r)
      /\ NoLine \notin X
      /\ Edited(b, e, x, r, p) /\ StreamMoved(b, e, x, r, p)
  <2>1. b \in Seq(X) /\ r \in Seq(X) /\ Edited(b, e, x, r, p) /\ StreamMoved(b, e, x, r, p)
        /\ NoLine \notin X
    BY <1>1 DEF EditOf
  <2> HIDE DEF X
  <2> QED
    BY <2>1
<1> HIDE DEF X
<1>5. a \in AudioLines(b) /\ a \in 1..Len(b) /\ b[a].k = "m"
  BY <1>0, <1>4, StreamBounds DEF AudioLines, Lines, a
<1>6. \A i \in 1..Len(b) : e[i] # <<>> =>
          p[i - 1] + 1 \in 1..Len(r) /\ r[p[i - 1] + 1] = e[i][1]
  BY <1>4 DEF Edited
<1>7. \A i \in 1..Len(b) :
          /\ e[i] = <<>> <=> b[i].k = "dir"
          /\ e[i] # <<>> => e[i][1] = b[i]
  <2> SUFFICES ASSUME NEW i \in 1..Len(b)
               PROVE  /\ e[i] = <<>> <=> b[i].k = "dir"
                      /\ e[i] # <<>> => e[i][1] = b[i]
    OBVIOUS
  <2> DEFINE c == b[i]
  <2>1. <<c>> # <<>> /\ <<c>>[1] = c
    OBVIOUS
  <2>2. e[i] = IF c.k = "dir" THEN <<>> ELSE <<c>>
    BY <1>2
  <2> HIDE DEF c
  <2>3. (e[i] = <<>> <=> c.k = "dir") /\ (e[i] # <<>> => e[i][1] = c)
    BY <2>1, <2>2
  <2> QED
    BY <2>3 DEF c
<1>8. p[AudioEnd(b)] \in 1..Len(r) /\ r[p[AudioEnd(b)]] = l /\ p[AudioEnd(b)] \in InAudio(r)
  BY <1>3, <1>4 DEF Edited, StreamMoved
(* Media. *)
<1>9. AudioLines(r) # {} /\ Audio(r) = p[a - 1] + 1 /\ Media(r) = Media(b)
  <2>1. AudioLines(r) # {} /\ Audio(r) = p[a - 1] + 1
    BY <1>4 DEF StreamMoved, a
  <2> QED
    BY <1>5, <1>6, <1>7, <2>1 DEF Media, a
<1>10. ASSUME OneStream(b), NEW j \in Lines(r, "m"), j # Audio(r) PROVE r[j].port = 0
  <2>1. Lines(r, "m") = {p[i - 1] + 1 : i \in Lines(b, "m")}
    BY <1>4 DEF StreamMoved
  <2>2. PICK i \in Lines(b, "m") : j = p[i - 1] + 1
    BY <2>1
  <2>3. i \in 1..Len(b) /\ b[i].k = "m" /\ i # a
    BY <1>4, <1>9, <1>10, <2>2 DEF Lines
  <2>4. r[j] = b[i]
    BY <1>6, <1>7, <2>2, <2>3
  <2> QED
    BY <1>10, <2>2, <2>3, <2>4 DEF OneStream, a
(* What is taken from lines of other kinds. *)
<1>11. ASSUME NEW K, K # "dir" PROVE Follows(b, e, x, r, p, Lines(b, K), Lines(r, K))
  <2>1. \A i \in 1..Len(b) : /\ b[i].k = K => e[i] # <<>>
                             /\ e[i] # <<>> => e[i][1].k = b[i].k
    BY <1>7, <1>11
  <2>2. x # <<>> => x[1].k # K
    BY <1>3, <1>11
  <2> QED
    BY <1>1, <2>1, <2>2, KindFollows
<1>12. ASSUME NEW K, K # "dir", NEW i \in Lines(b, K)
       PROVE  i \in 1..Len(b) /\ e[i] # <<>> /\ e[i][1] = b[i]
  BY <1>4, <1>7, <1>12 DEF Lines
<1>13. Conn(r) = Conn(b)
  <2>1. Follows(b, e, x, r, p, Lines(b, "c"), Lines(r, "c"))
    BY <1>11
  <2>2. \A i \in Lines(b, "c") : i \in 1..Len(b) /\ e[i] # <<>> /\ e[i][1] = b[i]
    BY <1>12
  <2>3. Follows(b, e, x, r, p, Addresses(b), Addresses(r))
    BY <1>6, <2>1, <2>2 DEF Follows, Addresses
  <2>4. Carried(b, e, Conn(b), Conn(r), Addresses(b))
    BY <1>1, <2>3, EffectiveCarried DEF Conn
  <2> QED
    BY <2>2, <2>4 DEF Carried, Addresses
<1>14. ASSUME NEW K, K # "dir"
       PROVE  LastOf(r, Lines(r, K) \cap InAudio(r)) = LastOf(b, Lines(b, K) \cap InAudio(b))
  <2> DEFINE I == Lines(b, K) \cap InAudio(b)
             J == Lines(r, K) \cap InAudio(r)
  <2>1. Follows(b, e, x, r, p, Lines(b, K), Lines(r, K))
    BY <1>11, <1>14
  <2>2. \A i \in Lines(b, K) : i \in 1..Len(b) /\ e[i] # <<>> /\ e[i][1] = b[i]
    BY <1>12, <1>14
  <2>3. Follows(b, e, x, r, p, I, J)
    BY <1>4, <2>1 DEF Follows, StreamMoved
  <2>4. \A i \in I : i \in Lines(b, K)
    OBVIOUS
  <2> HIDE DEF I, J
  <2>5. Carried(b, e, LastOf(b, I), LastOf(r, J), I)
    BY <1>1, <2>3, LastCarried
  <2>6. LastOf(r, J) = LastOf(b, I)
    BY <2>2, <2>4, <2>5 DEF Carried
  <2> QED
    BY <2>6 DEF I, J
<1>15. RtcpPort(r) = RtcpPort(b) /\ Event(r) = Event(b)
  BY <1>9, <1>14 DEF RtcpPort, Rtcp, Event
(* Direction. *)
<1>16. Dir(r) = l
  <2> DEFINE D == Lines(r, "dir")
             z == p[AudioEnd(b)]
  <2>1. ASSUME NEW j \in D PROVE j = z
    <3>1. j \in 1..Len(r) /\ r[j].k = "dir"
      BY <1>4 DEF Lines
    <3>2. ASSUME NEW i \in 1..Len(b), e[i] # <<>>, j = p[i - 1] + 1 PROVE FALSE
      BY <1>6, <1>7, <3>1, <3>2
    <3> QED
      BY <1>4, <3>1, <3>2 DEF Edited
  <2>2. D = {z}
    BY <1>3, <1>4, <1>8, <2>1 DEF Lines
  <2>3. D \cap InAudio(r) = {z} /\ {z} \subseteq 1..Len(r)
    BY <1>8, <2>2
  <2>4. Max({z}) = z
    <3>1. Len(r) \in Nat /\ {z} \subseteq 0..Len(r) /\ z \in {z} /\ \A y \in {z} : y <= z
      BY <1>4, <1>8
    <3> HIDE DEF z
    <3> QED
      BY <3>1, MaxIs
  <2>5. LastOf(r, {z}) = l
    BY <1>8, <2>4 DEF LastOf
  <2>6. l # NoLine
    BY <1>4, <1>8
  <2> QED
    BY <2>3, <2>5, <2>6 DEF Dir, Effective
(* Keys. *)
<1>17. Cryptos(r) = Cryptos(b)
  <2> DEFINE S == {c \in ToSet(b) : c.k = "crypto" /\ c.key # Bad}
             T == {c \in ToSet(r) : c.k = "crypto" /\ c.key # Bad}
             old == Kept(SubSeq(b, Audio(b), AudioEnd(b)), S)
             new == Kept(SubSeq(r, Audio(r), AudioEnd(r)), T)
  <2>1. ASSUME NEW i \in 1..Len(b)
        PROVE  /\ e[i] = <<>> => b[i] \notin S
               /\ e[i] # <<>> => /\ e[i][1] \in T <=> b[i] \in S
                                 /\ e[i][1] \in T => e[i][1] = b[i]
    <3>1. b[i] \in ToSet(b)
      BY <1>4 DEF ToSet
    <3>2. e[i] # <<>> => b[i] \in ToSet(r) /\ e[i][1] = b[i]
      BY <1>4, <1>6, <1>7 DEF ToSet
    <3>3. e[i] = <<>> => b[i].k = "dir"
      BY <1>7
    <3> QED
      BY <3>1, <3>2, <3>3
  <2>2. ~(x # <<>> /\ x[1] \in T)
    BY <1>3
  <2>3. new = IF x # <<>> /\ x[1] \in T THEN Append(old, x[1]) ELSE old
    <3> HIDE DEF S, T
    <3> QED
      BY <1>1, <2>1, KeptMoved
  <2>4. new = old
    BY <2>2, <2>3
  <2> QED
    BY <2>4 DEF Cryptos
<1>18. Readable(r)
  BY <1>0, <1>9, <1>13 DEF Readable
<1>19. Parse(r) = Read(r) /\ Parse(b) = Read(b)
  BY <1>18, ParseReads
<1>20. Read(r) = [Read(b) EXCEPT !.dir = dir]
  <2> DEFINE addr == Conn(b).addr
             mp == Media(b).port
             rp == RtcpPort(b)
             dir1 == IF Dir(b) = NoLine THEN "sendrecv" ELSE Dir(b).dir
             secure == Media(b).srtp
             cryptos == Cryptos(b)
             fmts == Media(b).fmts
             dtmf == IF Event(b) = NoLine THEN None ELSE Event(b).pt
  <2>1. Read(b) = InfoOf(addr, mp, rp, dir1, secure, cryptos, fmts, dtmf)
    BY DEF Read, InfoOf
  <2>2. l # NoLine
    BY <1>4, <1>8
  <2>3. Read(r) = InfoOf(addr, mp, rp, dir, secure, cryptos, fmts, dtmf)
    BY <1>3, <1>9, <1>13, <1>15, <1>16, <1>17, <2>2 DEF Read, InfoOf
  <2> HIDE DEF addr, mp, rp, dir1, secure, cryptos, fmts, dtmf
  <2>4. Read(r) = InfoFacing(Read(b), dir)
    BY <2>1, <2>3, DirectionChanged
  <2> QED
    BY <2>4 DEF InfoFacing
<1>21. OneStream(b) => OneStream(r)
  BY <1>10 DEF OneStream
<1> QED
  BY <1>4, <1>18, <1>19, <1>20, <1>21 DEF r, X

-----------------------------------------------------------------------------
(* The loop keeps the same from two lists whose wanted elements are the    *)
(* same, in the same places.                                               *)
LEMMA KeptSame ==
    ASSUME NEW X, NEW s \in Seq(X), NEW Y, NEW t \in Seq(Y), Len(t) = Len(s), NEW S, NEW T,
           \A i \in 1..Len(s) : (t[i] \in T <=> s[i] \in S) /\ (s[i] \in S => t[i] = s[i])
    PROVE  Kept(t, T) = Kept(s, S)
<1> DEFINE n == Len(s)
<1>0. n \in Nat
  OBVIOUS
<1>1. PICK f : Keeps(f, s, S) /\ Kept(s, S) = f[n]
  BY KeptLoop
<1>2. PICK g : Keeps(g, t, T) /\ Kept(t, T) = g[n]
  BY KeptLoop
<1> DEFINE P == {i \in 0..n : f[i] = g[i]}
<1>3. 0 \in P
  BY <1>0, <1>1, <1>2 DEF Keeps
<1>4. ASSUME NEW i \in 0..(n - 1), i \in P PROVE i + 1 \in P
  <2>1. i + 1 \in 1..n /\ (i + 1) - 1 = i /\ i + 1 \in 0..n
    BY <1>0
  <2>2. f[i + 1] = IF s[i + 1] \in S THEN Append(f[i], s[i + 1]) ELSE f[i]
    BY <1>1, <2>1 DEF Keeps
  <2>3. g[i + 1] = IF t[i + 1] \in T THEN Append(g[i], t[i + 1]) ELSE g[i]
    BY <1>2, <2>1 DEF Keeps
  <2>4. (t[i + 1] \in T <=> s[i + 1] \in S) /\ (s[i + 1] \in S => t[i + 1] = s[i + 1])
    BY <2>1
  <2> QED
    BY <1>4, <2>1, <2>2, <2>3, <2>4
<1>5. \A i \in 0..n : i \in P
  <2> HIDE DEF P, n
  <2> QED
    BY <1>0, <1>3, <1>4, BoundedInduction
<1>6. n \in P
  BY <1>0, <1>5
<1> QED
  BY <1>1, <1>2, <1>6

(* Bumping the version. *)
LEMMA BumpReads ==
    ASSUME NEW A, NEW b \in Seq(Line(A)), Readable(b)
    PROVE  LET r == BumpVersion(b) IN
           /\ r \in Seq(Line(A)) /\ Readable(r) /\ Parse(r) = Parse(b)
           /\ OneStream(b) => OneStream(r)
<1> DEFINE X == Line(A)
           r == BumpVersion(b)
<1>0. AudioLines(b) # {} /\ Media(b).fmts # <<>> /\ Conn(b) # NoLine
  BY DEF Readable
<1>1. /\ b \in Seq(X) /\ Len(b) \in Nat /\ DOMAIN b = 1..Len(b)
      /\ \A i \in 1..Len(b) : b[i] \in X
      /\ NoLine \notin X
  <2>1. b \in Seq(X) /\ NoLine \notin X
    BY NoLineApart
  <2> HIDE DEF X
  <2> QED
    BY <2>1
<1>2. ASSUME NEW i \in 1..Len(b)
      PROVE  /\ r[i] \in X /\ r[i].k = b[i].k
             /\ b[i].k # "o" => r[i] = b[i]
  <2> DEFINE l == b[i]
             m == [l EXCEPT !.ver = (@ + 1) % VersionModulus]
  <2>1. r[i] = IF l.k = "o" THEN m ELSE l
    BY <1>1 DEF BumpVersion
  <2>2. l \in X
    BY <1>1
  <2> HIDE DEF l
  <2>3. CASE l.k = "o"
    <3>1. l \in OLine(A)
      BY <2>2, <2>3, LineKinds
    <3>2. (l.ver + 1) % VersionModulus \in Nat
      BY <3>1, SdpAssumption DEF OLine
    <3>3. m \in OLine(A) /\ m.k = "o"
      BY <3>1, <3>2 DEF OLine
    <3>4. m \in X
      BY <3>3 DEF Line
    <3> QED
      BY <2>1, <2>3, <3>3, <3>4 DEF l
  <2>4. CASE l.k # "o"
    BY <2>1, <2>2, <2>4 DEF l
  <2> QED
    BY <2>3, <2>4
<1>3. r \in Seq(X) /\ Len(r) = Len(b) /\ DOMAIN r = 1..Len(b)
  <2>1. r = [i \in 1..Len(b) |-> r[i]]
    BY <1>1 DEF BumpVersion
  <2> HIDE DEF X, r
  <2>2. r \in [1..Len(b) -> X]
    BY <1>2, <2>1
  <2> QED
    BY <1>1, <2>2
<1> HIDE DEF X, r
(* The same lines of each kind, and the same streams. *)
<1>4. \A K : Lines(r, K) = Lines(b, K)
  BY <1>1, <1>2, <1>3 DEF Lines
<1>5. \A K : K # "o" => \A i \in Lines(b, K) : r[i] = b[i]
  BY <1>1, <1>2 DEF Lines
<1>6. AudioLines(r) = AudioLines(b) /\ Audio(r) = Audio(b)
  <2>1. AudioLines(r) = AudioLines(b)
    BY <1>4, <1>5 DEF AudioLines
  <2> QED
    BY <2>1 DEF Audio
<1>7. /\ Audio(b) \in 1..Len(b) /\ Audio(b) \in AudioLines(b)
      /\ AudioEnd(b) \in Audio(b)..Len(b) /\ AudioEnd(b) \in 1..Len(b)
      /\ \A i \in AudioLines(b) : Audio(b) <= i
      /\ \A i \in Audio(b) + 1 .. AudioEnd(b) : b[i].k # "m"
      /\ AudioEnd(b) = Len(b) \/ b[AudioEnd(b) + 1].k = "m"
  BY <1>0, <1>1, StreamBounds
<1>8. AudioEnd(r) = AudioEnd(b)
  <2> DEFINE a == Audio(b)
             z == AudioEnd(b)
  <2>1. a \in 1..Len(b) /\ z \in a..Len(b) /\ z \in 1..Len(b)
    BY <1>7
  <2>2. \A i \in a + 1 .. z : b[i].k # "m"
    BY <1>7
  <2>3. z = Len(b) \/ b[z + 1].k = "m"
    BY <1>7
  <2>4. a \in AudioLines(r) /\ \A i \in AudioLines(r) : a <= i
    BY <1>6, <1>7
  <2> HIDE DEF a, z
  <2>5. z \in a..Len(r) /\ \A i \in a + 1 .. z : i \in 1..Len(b)
    BY <1>1, <1>3, <2>1
  <2>6. \A i \in a + 1 .. z : r[i].k # "m"
    BY <1>2, <2>2, <2>5
  <2>7. z = Len(r) \/ r[z + 1].k = "m"
    <3>1. z # Len(b) => z + 1 \in 1..Len(b)
      <4> DEFINE n == Len(b)
      <4>1. n \in Nat /\ z \in 1..n
        BY <1>1, <2>1
      <4> HIDE DEF n
      <4>2. z # n => z + 1 \in 1..n
        BY <4>1
      <4> QED
        BY <4>2 DEF n
    <3> QED
      BY <1>2, <1>3, <2>3, <3>1
  <2>8. AudioEnd(r) = z
    BY <1>3, <2>4, <2>5, <2>6, <2>7, StreamIs
  <2> QED
    BY <2>8 DEF z
<1>9. InAudio(r) = InAudio(b) /\ InSession(r) = InSession(b)
  BY <1>3, <1>4, <1>6, <1>8 DEF InAudio, InSession
<1>10. Media(r) = Media(b)
  BY <1>5, <1>6, <1>7 DEF Media, AudioLines
<1>11. ASSUME NEW K, K # "o", NEW I, I \subseteq Lines(b, K) PROVE LastOf(r, I) = LastOf(b, I)
  <2>1. I \subseteq 1..Len(b)
    BY <1>1, <1>11 DEF Lines
  <2>2. I # {} => Max(I) \in I
    BY <1>1, <2>1, LastLine
  <2> QED
    BY <1>5, <1>11, <2>2 DEF LastOf
<1>12. ASSUME NEW K, K # "o", NEW I, I \subseteq Lines(b, K)
       PROVE  Effective(r, InAudio(r), I) = Effective(b, InAudio(b), I)
  <2>1. I \cap InAudio(b) \subseteq Lines(b, K) /\ I \cap InSession(b) \subseteq Lines(b, K)
    BY <1>12
  <2>2. LastOf(r, I \cap InAudio(b)) = LastOf(b, I \cap InAudio(b))
    BY <1>11, <1>12, <2>1
  <2>3. LastOf(r, I \cap InSession(b)) = LastOf(b, I \cap InSession(b))
    BY <1>11, <1>12, <2>1
  <2> QED
    BY <1>9, <2>2, <2>3 DEF Effective
<1>13. Conn(r) = Conn(b)
  <2>1. Addresses(r) = Addresses(b)
    BY <1>4, <1>5 DEF Addresses
  <2>2. Addresses(b) \subseteq Lines(b, "c")
    BY DEF Addresses
  <2>3. Effective(r, InAudio(r), Addresses(b)) = Effective(b, InAudio(b), Addresses(b))
    BY <1>12, <2>2
  <2> QED
    BY <2>1, <2>3 DEF Conn
<1>14. Dir(r) = Dir(b)
  <2>1. Effective(r, InAudio(r), Lines(b, "dir")) = Effective(b, InAudio(b), Lines(b, "dir"))
    BY <1>12
  <2> QED
    BY <1>4, <2>1 DEF Dir
<1>15. Event(r) = Event(b) /\ Rtcp(r) = Rtcp(b)
  <2>1. ASSUME NEW K, K # "o"
        PROVE  LastOf(r, Lines(r, K) \cap InAudio(r)) = LastOf(b, Lines(b, K) \cap InAudio(b))
    <3>1. Lines(b, K) \cap InAudio(b) \subseteq Lines(b, K)
      OBVIOUS
    <3>2. LastOf(r, Lines(b, K) \cap InAudio(b)) = LastOf(b, Lines(b, K) \cap InAudio(b))
      BY <1>11, <2>1, <3>1
    <3> QED
      BY <1>4, <1>9, <3>2
  <2> QED
    BY <2>1 DEF Event, Rtcp
<1>16. Cryptos(r) = Cryptos(b)
  <2> DEFINE S == {c \in ToSet(b) : c.k = "crypto" /\ c.key # Bad}
             T == {c \in ToSet(r) : c.k = "crypto" /\ c.key # Bad}
             a == Audio(b)
             z == AudioEnd(b)
             s == SubSeq(b, a, z)
             t == SubSeq(r, a, z)
  <2>1. a \in 1..Len(b) /\ z \in a..Len(b) /\ a \in Int /\ z \in Int /\ a <= z
    BY <1>1, <1>7
  <2>2. \A i \in 1..Len(b) : (r[i] \in T <=> b[i] \in S) /\ (b[i] \in S => r[i] = b[i])
    <3> SUFFICES ASSUME NEW i \in 1..Len(b)
                 PROVE  (r[i] \in T <=> b[i] \in S) /\ (b[i] \in S => r[i] = b[i])
      OBVIOUS
    <3>1. b[i] \in ToSet(b) /\ r[i] \in ToSet(r)
      BY <1>1, <1>3 DEF ToSet
    <3>2. r[i].k = b[i].k /\ (b[i].k # "o" => r[i] = b[i])
      BY <1>2
    <3> QED
      BY <3>1, <3>2
  <2> HIDE DEF S, T, a, z
  <2>3. \A i \in a..z : i \in 1..Len(b) /\ b[i] \in X /\ r[i] \in X
    <3>1. \A i \in a..z : i \in 1..Len(b)
      BY <1>1, <2>1
    <3> QED
      BY <1>1, <1>2, <3>1
  <2>4. /\ s \in Seq(X) /\ Len(s) = z - a + 1 /\ \A i \in 1 .. z - a + 1 : s[i] = b[a + i - 1]
        /\ t \in Seq(X) /\ Len(t) = z - a + 1 /\ \A i \in 1 .. z - a + 1 : t[i] = r[a + i - 1]
    BY <2>1, <2>3, SubSeqProperties
  <2> HIDE DEF s, t
  <2>5. \A i \in 1..Len(s) : (t[i] \in T <=> s[i] \in S) /\ (s[i] \in S => t[i] = s[i])
    <3> SUFFICES ASSUME NEW i \in 1..Len(s)
                 PROVE  (t[i] \in T <=> s[i] \in S) /\ (s[i] \in S => t[i] = s[i])
      OBVIOUS
    <3>1. i \in 1 .. z - a + 1 /\ a + i - 1 \in a..z
      BY <2>1, <2>4
    <3> QED
      BY <2>2, <2>3, <2>4, <3>1
  <2>6. Kept(t, T) = Kept(s, S)
    BY <2>4, <2>5, KeptSame
  <2> QED
    BY <1>6, <1>8, <2>6 DEF Cryptos, S, T, s, t, a, z
<1>17. Readable(r)
  BY <1>0, <1>6, <1>10, <1>13 DEF Readable
<1>18. Read(r) = Read(b)
  BY <1>10, <1>13, <1>14, <1>15, <1>16 DEF Read, RtcpPort
<1>19. Parse(r) = Parse(b)
  BY <1>17, <1>18, ParseReads
<1>20. OneStream(b) => OneStream(r)
  BY <1>4, <1>5, <1>6 DEF OneStream
<1> QED
  BY <1>3, <1>17, <1>19, <1>20 DEF r, X

-----------------------------------------------------------------------------
(***************************************************************************)
(* RewriteRedirects, DirectionSet and BumpInvisible for any body that      *)
(* parses: reading what Rewrite makes of it gives the description          *)
(* redirected to the relay, in which one audio stream at most is enabled;  *)
(* SetDirection changes the direction read and nothing else; BumpVersion   *)
(* changes nothing that is read.                                           *)
(***************************************************************************)
THEOREM RewritingRedirects ==
    ASSUME NEW A, NEW b \in Seq(Line(A)), Parse(b).ok, NEW ip, ip # Bad,
           NEW port \in Nat \ {0}, NEW crypto \in Crypto \cup {None}
    PROVE  LET r == Rewrite(b, ip, port, crypto) IN
           /\ Parse(r) = Redirected(Parse(b), ip, port, crypto)
           /\ \A i \in Lines(r, "m") : r[i].port # 0 => i = Audio(r)
  BY ParseReads, RewriteReads

(* SetDirection, as handleHold uses it. *)
THEOREM DirectionIsSet ==
    ASSUME NEW A, NEW b \in Seq(Line(A)), Parse(b).ok, NEW dir \in Directions
    PROVE  DirectionSet(b, dir)
  BY ParseReads, DirectionReads DEF DirectionSet

(* BumpVersion. *)
THEOREM BumpIsInvisible ==
    ASSUME NEW A, NEW b \in Seq(Line(A)), Parse(b).ok
    PROVE  BumpInvisible(b)
  BY ParseReads, BumpReads DEF BumpInvisible
=============================================================================
