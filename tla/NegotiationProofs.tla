-------------------------- MODULE NegotiationProofs --------------------------
(***************************************************************************)
(* Theorems about Negotiation, for any offers and answers of the phones    *)
(* and any number of them: the keys and ports of the relay and the phones  *)
(* agree (KeysAgree), and what the PBX sends names the relay alone         *)
(* (SentNamesRelay).                                                       *)
(***************************************************************************)
EXTENDS Negotiation, SdpProofs

-----------------------------------------------------------------------------
(***************************************************************************)
(* The bodies that phones send, by the lines they have.                    *)
(***************************************************************************)

(* What the loop keeps is in the list, and it keeps something if it can.   *)
LEMMA KeptFirst ==
    ASSUME NEW X, NEW s \in Seq(X), NEW S
    PROVE  /\ \A i \in 1..Len(s) : s[i] \in S => Kept(s, S) # <<>>
           /\ Kept(s, S) # <<>> =>
                  \E i \in 1..Len(s) : s[i] \in S /\ Head(Kept(s, S)) = s[i]
<1> DEFINE n == Len(s)
           R == {s[i] : i \in 1..n}
<1>0. n \in Nat /\ \A i \in 1..n : s[i] \in X
  OBVIOUS
<1>1. PICK f : Keeps(f, s, S) /\ Kept(s, S) = f[n]
  BY KeptLoop
<1> DEFINE P == {m \in 0..n : \A i \in 1..m : s[i] \in S => f[m] # <<>>}
<1>2. 0 \in P
  BY <1>0
<1>3. ASSUME NEW m \in 0..(n - 1), m \in P PROVE m + 1 \in P
  <2>1. m + 1 \in 1..n /\ (m + 1) - 1 = m /\ m \in 0..n /\ m \in Nat
    BY <1>0
  <2>2. f[m] \in Seq(S) /\ f[m + 1] = IF s[m + 1] \in S THEN Append(f[m], s[m + 1]) ELSE f[m]
    BY <1>1, <2>1 DEF Keeps
  <2>3. s[m + 1] \in S => f[m + 1] # <<>>
    <3> DEFINE u == f[m]
               v == s[m + 1]
    <3>1. u \in Seq(S)
      BY <2>2
    <3> HIDE DEF u, v
    <3>2. v \in S => Append(u, v) # <<>>
      BY <3>1, AppendProperties
    <3> QED
      BY <2>2, <3>2 DEF u, v
  <2>4. ASSUME NEW i \in 1..(m + 1), s[i] \in S PROVE f[m + 1] # <<>>
    <3>1. CASE i = m + 1
      BY <2>3, <2>4, <3>1
    <3>2. CASE i # m + 1
      <4>1. i \in 1..m
        BY <2>1, <3>2
      <4>2. f[m] # <<>>
        BY <1>3, <2>4, <4>1
      <4>3. s[m + 1] \notin S => f[m + 1] = f[m]
        BY <2>2
      <4> QED
        BY <2>3, <4>2, <4>3
    <3> QED
      BY <3>1, <3>2
  <2>5. m + 1 \in 0..n
    BY <2>1
  <2> QED
    BY <2>4, <2>5
<1>4. n \in P
  <2>1. \A m \in 0..n : m \in P
    <3> HIDE DEF P, n
    <3> QED
      BY <1>0, <1>2, <1>3, BoundedInduction
  <2> QED
    BY <1>0, <2>1
<1>5. \A i \in 1..n : s[i] \in S => Kept(s, S) # <<>>
  BY <1>1, <1>4
<1>6. s \in Seq(R)
  BY <1>0
<1> DEFINE k == Kept(s, S)
<1>7. k \in Seq(R \cap S)
  <2> HIDE DEF R
  <2> QED
    BY <1>6, KeptBound
<1>8. ASSUME k # <<>> PROVE \E i \in 1..n : s[i] \in S /\ Head(k) = s[i]
  <2>1. Head(k) \in R \cap S
    <3> HIDE DEF k, R
    <3> QED
      BY <1>7, <1>8, HeadTailProperties
  <2> QED
    BY <2>1
<1> QED
  BY <1>5, <1>8

(* The keys that a stream's lines carry.                                   *)
KeyOf(l) == [tag |-> l.tag, suite |-> l.suite, key |-> l.key]
KeysOf(u) == [i \in DOMAIN u |-> KeyOf(u[i])]

(* The keys of a longer list of lines. *)
LEMMA KeysOfAppend ==
    ASSUME NEW X, NEW u \in Seq(X), NEW x \in X
    PROVE  KeysOf(Append(u, x)) = Append(KeysOf(u), KeyOf(x))
<1> DEFINE K == {KeyOf(l) : l \in X}
           v == Append(u, x)
           k == KeysOf(u)
           a == Append(k, KeyOf(x))
<1>1. /\ v \in Seq(X) /\ Len(v) = Len(u) + 1 /\ v[Len(u) + 1] = x
      /\ Len(u) \in Nat /\ \A i \in 1..Len(u) : v[i] = u[i]
  BY AppendProperties
<1>2. k \in Seq(K) /\ Len(k) = Len(u) /\ \A i \in 1..Len(u) : k[i] = KeyOf(u[i])
  BY DEF KeysOf
<1>3. /\ a \in Seq(K) /\ Len(a) = Len(u) + 1 /\ a[Len(u) + 1] = KeyOf(x)
      /\ \A i \in 1..Len(u) : a[i] = KeyOf(u[i])
  <2>1. KeyOf(x) \in K
    OBVIOUS
  <2> HIDE DEF K, k
  <2> QED
    BY <1>1, <1>2, <2>1, AppendProperties
<1> HIDE DEF v, a, k
<1>4. /\ KeysOf(v) \in Seq(K) /\ Len(KeysOf(v)) = Len(u) + 1
      /\ \A i \in 1 .. Len(u) + 1 : KeysOf(v)[i] = KeyOf(v[i])
  BY <1>1 DEF KeysOf
<1>5. \A i \in 1 .. Len(u) + 1 : KeysOf(v)[i] = a[i]
  <2> SUFFICES ASSUME NEW i \in 1 .. Len(u) + 1 PROVE KeysOf(v)[i] = a[i]
    OBVIOUS
  <2>1. i = Len(u) + 1 \/ i \in 1..Len(u)
    BY <1>1
  <2> QED
    BY <1>1, <1>3, <1>4, <2>1
<1>6. KeysOf(v) = a
  <2> HIDE DEF K
  <2> QED
    BY <1>3, <1>4, <1>5, SeqEqual
<1> QED
  BY <1>6 DEF v, a, k

(* The keys among the lines of a list are the usable ones of the phone. *)
LEMMA KeptKeys ==
    ASSUME NEW s \in Seq(Key), NEW X, NEW t \in Seq(X), Len(s) + 1 <= Len(t), NEW T,
           t[1] \notin T,
           \A i \in 1..Len(s) : /\ KeyOf(t[i + 1]) = s[i]
                                /\ t[i + 1] \in T <=> s[i] \in Crypto,
           \A i \in Len(s) + 2 .. Len(t) : t[i] \notin T
    PROVE  KeysOf(Kept(t, T)) = Kept(s, Crypto)
<1> DEFINE n == Len(s)
           m == Len(t)
<1>0. n \in Nat /\ m \in Nat /\ n + 1 <= m
  OBVIOUS
<1>1. PICK f : Keeps(f, t, T) /\ Kept(t, T) = f[m]
  BY KeptLoop
<1>2. PICK g : Keeps(g, s, Crypto) /\ Kept(s, Crypto) = g[n]
  BY KeptLoop
<1>3. /\ f \in [0..m -> Seq(T)] /\ f[0] = <<>>
      /\ \A i \in 1..m : f[i] = IF t[i] \in T THEN Append(f[i - 1], t[i]) ELSE f[i - 1]
  BY <1>1 DEF Keeps
<1>4. /\ g[0] = <<>>
      /\ \A i \in 1..n : g[i] = IF s[i] \in Crypto THEN Append(g[i - 1], s[i]) ELSE g[i - 1]
  BY <1>2 DEF Keeps
<1>5. t[1] \notin T
  OBVIOUS
<1>6. \A i \in 1..n : KeyOf(t[i + 1]) = s[i] /\ (t[i + 1] \in T <=> s[i] \in Crypto)
  OBVIOUS
<1>7. \A i \in n + 2 .. m : t[i] \notin T
  OBVIOUS
<1> HIDE DEF n, m
<1> DEFINE P == {i \in 0..n : KeysOf(f[i + 1]) = g[i]}
<1>8. 0 \in P
  <2>1. 1 \in 1..m /\ 1 - 1 = 0 /\ 0 \in 0..n /\ 0 + 1 = 1
    BY <1>0
  <2>2. f[1] = <<>>
    BY <1>3, <1>5, <2>1
  <2>3. KeysOf(<<>>) = <<>>
    BY DEF KeysOf
  <2> QED
    BY <1>4, <2>1, <2>2, <2>3
<1>9. ASSUME NEW i \in 0..(n - 1), i \in P PROVE i + 1 \in P
  <2>1. i + 1 \in 1..n /\ (i + 1) - 1 = i /\ i + 1 \in 0..n /\ (i + 1) + 1 \in 1..m
        /\ ((i + 1) + 1) - 1 = i + 1 /\ i + 1 \in 0..m
    BY <1>0
  <2> DEFINE j == i + 1
             u == f[j]
             l == t[j + 1]
  <2>2. f[j + 1] = IF l \in T THEN Append(u, l) ELSE u
    BY <1>3, <2>1
  <2>3. g[j] = IF s[j] \in Crypto THEN Append(g[i], s[j]) ELSE g[i]
    <3>1. j \in 1..n /\ j - 1 = i
      BY <2>1
    <3> HIDE DEF j
    <3>2. g[j] = IF s[j] \in Crypto THEN Append(g[j - 1], s[j]) ELSE g[j - 1]
      BY <1>4, <3>1
    <3> QED
      BY <3>1, <3>2
  <2>4. KeyOf(l) = s[j] /\ (l \in T <=> s[j] \in Crypto)
    BY <1>6, <2>1
  <2>5. KeysOf(u) = g[i] /\ u \in Seq(T)
    BY <1>3, <1>9, <2>1
  <2>6. l \in T => KeysOf(Append(u, l)) = Append(KeysOf(u), KeyOf(l))
    <3> HIDE DEF u, l
    <3> QED
      BY <2>5, KeysOfAppend
  <2>7. KeysOf(f[j + 1]) = g[j]
    <3> HIDE DEF u, l, j
    <3> QED
      BY <2>2, <2>3, <2>4, <2>5, <2>6
  <2> QED
    BY <2>1, <2>7
<1>10. KeysOf(f[n + 1]) = g[n]
  <2>1. \A i \in 0..n : i \in P
    <3> HIDE DEF P
    <3> QED
      BY <1>0, <1>8, <1>9, BoundedInduction
  <2> QED
    BY <1>0, <2>1
<1> DEFINE d == m - (n + 1)
           Q == {i \in 0..d : f[n + 1 + i] = f[n + 1]}
<1>11. d \in Nat /\ n + 1 + d = m /\ n + 1 + 0 = n + 1
  BY <1>0
<1>12. 0 \in Q
  BY <1>11
<1>13. ASSUME NEW i \in 0..(d - 1), i \in Q PROVE i + 1 \in Q
  <2>1. n + 1 + (i + 1) \in 1..m /\ n + 1 + (i + 1) \in n + 2 .. m
        /\ n + 1 + (i + 1) - 1 = n + 1 + i /\ i + 1 \in 0..d
    BY <1>0, <1>11
  <2>2. f[n + 1 + (i + 1)] = f[n + 1 + i]
    <3> DEFINE j == n + 1 + (i + 1)
               k == n + 1 + i
    <3>1. j \in 1..m /\ j \in n + 2 .. m /\ j - 1 = k
      <4>1. i \in Nat /\ n \in Nat
        BY <1>0, <1>11
      <4> QED
        BY <2>1, <4>1
    <3> HIDE DEF j, k
    <3>2. t[j] \notin T /\ f[j] = IF t[j] \in T THEN Append(f[j - 1], t[j]) ELSE f[j - 1]
      BY <1>3, <1>7, <3>1
    <3>3. f[j] = f[k]
      BY <3>1, <3>2
    <3> QED
      BY <3>3 DEF j, k
  <2> QED
    BY <1>13, <2>1, <2>2
<1>14. f[m] = f[n + 1]
  <2>1. \A i \in 0..d : i \in Q
    <3> HIDE DEF Q, d
    <3> QED
      BY <1>11, <1>12, <1>13, BoundedInduction
  <2>2. d \in Q
    BY <1>11, <2>1
  <2> QED
    BY <1>11, <2>2
<1> QED
  BY <1>1, <1>2, <1>10, <1>14

-----------------------------------------------------------------------------
(* The body of an offer: its audio stream starts at line 4, its keys       *)
(* follow, and line q has its address.                                     *)
PhoneAddrs == {PhoneAddr, Zero}

Shape(d, b, z, q) ==
    LET n == Len(d.cryptos) IN
    /\ b \in Seq(Line(PhoneAddrs)) /\ z \in 4 + n .. Len(b) /\ 4 + n <= Len(b)
    /\ \A i \in 1..3 : b[i].k \notin {"m", "crypto"}
    /\ b[4] = [k |-> "m", media |-> "audio", port |-> d.port, srtp |-> d.srtp,
               feedback |-> d.video, fmts |-> d.fmts]
    /\ \A i \in 1..n : b[4 + i] = KeyAttr(d.cryptos[i])
    /\ \A i \in 4 + n + 1 .. z : b[i].k \notin {"m", "crypto"}
    /\ z = Len(b) \/ b[z + 1].k = "m"
    /\ q \in 1..3 \cup (5..z)
    /\ b[q] = [k |-> "c", addr |-> IF d.zero THEN Zero ELSE PhoneAddr]
    /\ \A i \in 5..z : b[i].k = "c" => i = q
    /\ q \in 1..3 => \A i \in 1..3 : b[i].k = "c" => i = q

Joined(X, s, t, w) ==
    /\ w \in Seq(X) /\ Len(w) = Len(s) + Len(t)
    /\ \A i \in 1..Len(s) : w[i] = s[i]
    /\ \A i \in 1..Len(t) : w[Len(s) + i] = t[i]

(* The lines of two lists one after the other. *)
LEMMA ConcatLines ==
    ASSUME NEW X, NEW s \in Seq(X), NEW t \in Seq(X)
    PROVE  Joined(X, s, t, s \o t)
<1> DEFINE w == s \o t
           m == Len(s)
           n == Len(t)
<1>1. m \in Nat /\ n \in Nat
  OBVIOUS
<1>2. w \in Seq(X) /\ Len(w) = m + n
      /\ \A i \in 1 .. m + n : w[i] = IF i <= m THEN s[i] ELSE t[i - m]
  BY ConcatProperties
<1> HIDE DEF w, m, n
<1>3. \A i \in 1..m : w[i] = s[i]
  BY <1>1, <1>2
<1>4. ASSUME NEW i \in 1..n PROVE w[m + i] = t[i]
  <2>1. m + i \in 1 .. m + n /\ ~(m + i <= m) /\ (m + i) - m = i
    BY <1>1
  <2> QED
    BY <1>2, <2>1
<1> QED
  BY <1>2, <1>3, <1>4 DEF Joined, w, m, n

(* A list of four lines. *)
LEMMA FourLines ==
    ASSUME NEW X, NEW a \in X, NEW b \in X, NEW c \in X, NEW d \in X
    PROVE  LET s == <<a, b, c, d>> IN
           s \in Seq(X) /\ Len(s) = 4 /\ s[1] = a /\ s[2] = b /\ s[3] = c /\ s[4] = d
  OBVIOUS

(* Every body of a phone has the shape that Shape describes. *)
LEMMA BodyShape ==
    ASSUME NEW d \in Offer
    PROVE  \E z, q : Shape(d, Body(d), z, q)
<1> DEFINE X == Line(PhoneAddrs)
           n == Len(d.cryptos)
           addr == IF d.zero THEN Zero ELSE PhoneAddr
           conn == [k |-> "c", addr |-> addr]
           m == [k |-> "m", media |-> "audio", port |-> d.port, srtp |-> d.srtp,
                 feedback |-> d.video, fmts |-> d.fmts]
           dir == [k |-> "dir", dir |-> d.dir]
           o == [k |-> "o", ver |-> 1, addr |-> PhoneAddr]
           cryptos == [i \in DOMAIN d.cryptos |-> KeyAttr(d.cryptos[i])]
           home == [k |-> "c", addr |-> PhoneAddr]
           ice == [k |-> "ice"]
           rtcp == [k |-> "rtcp", port |-> d.port + 5]
           video == [k |-> "m", media |-> "video", port |-> 9, srtp |-> FALSE,
                     feedback |-> FALSE, fmts |-> <<99>>]
           off == [k |-> "dir", dir |-> "inactive"]
           b == Body(d)
<1>0. /\ d.cryptos \in Seq(Key) /\ n \in Nat /\ d.port \in Nat /\ d.port # 0
      /\ d.srtp \in BOOLEAN /\ d.video \in BOOLEAN /\ d.fmts \in Seq(Nat) /\ d.dir \in Directions
  BY DEF Offer, Key
<1>1. conn \in X /\ conn.k = "c" /\ conn.addr = addr
  <2>1. conn \in CLine(PhoneAddrs) /\ conn.k = "c" /\ conn.addr = addr
    BY DEF CLine, PhoneAddrs
  <2> HIDE DEF conn
  <2> QED
    BY <2>1 DEF Line
<1>2. m \in X /\ m.k = "m"
  <2>1. m \in MLine /\ m.k = "m"
    BY <1>0 DEF MLine
  <2> HIDE DEF m
  <2> QED
    BY <2>1 DEF Line
<1>3. dir \in X /\ dir.k = "dir" /\ off \in X /\ off.k = "dir"
  <2>1. dir \in DirLine /\ dir.k = "dir" /\ off \in DirLine /\ off.k = "dir"
    BY <1>0 DEF DirLine, Directions
  <2> HIDE DEF dir, off
  <2> QED
    BY <2>1 DEF Line
<1>4. o \in X /\ o.k = "o"
  <2>1. o \in OLine(PhoneAddrs) /\ o.k = "o"
    BY DEF OLine, PhoneAddrs
  <2> HIDE DEF o
  <2> QED
    BY <2>1 DEF Line
<1>5. home \in X /\ home.k = "c"
  <2>1. home \in CLine(PhoneAddrs) /\ home.k = "c"
    BY DEF CLine, PhoneAddrs
  <2> HIDE DEF home
  <2> QED
    BY <2>1 DEF Line
<1>6. ice \in X /\ ice.k = "ice"
  <2>1. ice \in OtherLine /\ ice.k = "ice"
    BY DEF OtherLine
  <2> HIDE DEF ice
  <2> QED
    BY <2>1 DEF Line
<1>7. rtcp \in X /\ rtcp.k = "rtcp"
  <2>1. rtcp \in RtcpLine /\ rtcp.k = "rtcp"
    BY <1>0 DEF RtcpLine
  <2> HIDE DEF rtcp
  <2> QED
    BY <2>1 DEF Line
<1>8. video \in X /\ video.k = "m"
  <2>1. <<99>> \in Seq(Nat)
    OBVIOUS
  <2>2. video \in MLine /\ video.k = "m"
    BY <2>1 DEF MLine
  <2> HIDE DEF video
  <2> QED
    BY <2>2 DEF Line
<1>9. cryptos \in Seq(X) /\ Len(cryptos) = n
      /\ \A i \in 1..n : cryptos[i] = KeyAttr(d.cryptos[i]) /\ cryptos[i].k = "crypto"
  <2>1. DOMAIN d.cryptos = 1..n /\ \A i \in 1..n : d.cryptos[i] \in Key
    BY <1>0
  <2>2. ASSUME NEW i \in 1..n
        PROVE  KeyAttr(d.cryptos[i]) \in X /\ KeyAttr(d.cryptos[i]).k = "crypto"
    <3> DEFINE c == d.cryptos[i]
    <3>1. c \in Key
      BY <2>1
    <3> HIDE DEF c
    <3>2. KeyAttr(c) \in KeyLine /\ KeyAttr(c).k = "crypto"
      BY <3>1 DEF KeyAttr, Key, KeyLine
    <3>3. KeyAttr(c) \in X
      BY <3>2 DEF Line
    <3> QED
      BY <3>2, <3>3 DEF c
  <2>3. cryptos = [i \in 1..n |-> KeyAttr(d.cryptos[i])]
    BY <2>1
  <2> HIDE DEF X, n
  <2> QED
    BY <1>0, <2>2, <2>3
<1>10. CASE ~d.video
  <2> DEFINE s == <<o, conn, dir, m>>
  <2>1. b = s \o cryptos
    BY <1>10 DEF Body
  <2> HIDE DEF X, n, conn, m, dir, o, cryptos, b
  <2>2. s \in Seq(X) /\ Len(s) = 4 /\ s[1] = o /\ s[2] = conn /\ s[3] = dir /\ s[4] = m
    BY <1>1, <1>2, <1>3, <1>4, FourLines
  <2> HIDE DEF s
  <2>3. /\ b \in Seq(X) /\ Len(b) = 4 + n
        /\ \A i \in 1..4 : b[i] = s[i]
        /\ \A i \in 1..n : b[4 + i] = cryptos[i]
    <3>1. Joined(X, s, cryptos, b)
      BY <1>9, <2>1, <2>2, ConcatLines
    <3> QED
      BY <1>9, <2>2, <3>1 DEF Joined
  <2>4. b[1] = o /\ b[2] = conn /\ b[3] = dir /\ b[4] = m
    BY <2>2, <2>3
  <2>5. \A i \in 1..3 : b[i].k \notin {"m", "crypto"} /\ (b[i].k = "c" => i = 2)
    <3>1. \A i \in 1..3 : i = 1 \/ i = 2 \/ i = 3
      OBVIOUS
    <3> QED
      BY <1>1, <1>3, <1>4, <2>4, <3>1
  <2>6. \A i \in 5 .. 4 + n : b[i].k # "c"
    <3> SUFFICES ASSUME NEW i \in 5 .. 4 + n PROVE b[i].k # "c"
      OBVIOUS
    <3> DEFINE j == i - 4
    <3>1. j \in 1..n /\ i = 4 + j
      BY <1>0
    <3> HIDE DEF j
    <3>2. b[i].k = "crypto"
      BY <1>9, <2>3, <3>1
    <3> QED
      BY <3>2
  <2>7. 4 + n \in Nat /\ 4 + n \in 4 + n .. Len(b) /\ 4 + n <= Len(b)
        /\ \A i \in 4 + n + 1 .. 4 + n : FALSE
    BY <1>0, <2>3
  <2>8. Shape(d, b, 4 + n, 2)
    <3>1. \A i \in 1..n : b[4 + i] = KeyAttr(d.cryptos[i])
      BY <1>9, <2>3
    <3> QED
      BY <2>3, <2>4, <2>5, <2>6, <2>7, <3>1 DEF Shape, X, n, m, conn
  <2> QED
    BY <2>8 DEF b
<1>11. CASE d.video
  <2> DEFINE s == <<o, home, ice, m>>
             w == s \o cryptos
             t == <<conn, rtcp, dir, video, off>>
  <2>1. b = w \o t
    BY <1>11 DEF Body
  <2> HIDE DEF X, n, conn, m, dir, o, cryptos, home, ice, rtcp, video, off, b
  <2>2. s \in Seq(X) /\ Len(s) = 4 /\ s[1] = o /\ s[2] = home /\ s[3] = ice /\ s[4] = m
    BY <1>2, <1>4, <1>5, <1>6, FourLines
  <2>3. /\ t \in Seq(X) /\ Len(t) = 5 /\ t[1] = conn /\ t[2] = rtcp /\ t[3] = dir
        /\ t[4] = video
    BY <1>1, <1>3, <1>7, <1>8
  <2> HIDE DEF s, t
  <2>4. /\ w \in Seq(X) /\ Len(w) = 4 + n
        /\ \A i \in 1..4 : w[i] = s[i]
        /\ \A i \in 1..n : w[4 + i] = cryptos[i]
    <3>1. Joined(X, s, cryptos, s \o cryptos)
      BY <1>9, <2>2, ConcatLines
    <3>2. Joined(X, s, cryptos, w)
      BY <3>1
    <3> HIDE DEF w
    <3> QED
      BY <1>9, <2>2, <3>2 DEF Joined
  <2> HIDE DEF w
  <2>5. /\ b \in Seq(X) /\ Len(b) = 4 + n + 5
        /\ \A i \in 1 .. 4 + n : b[i] = w[i]
        /\ \A i \in 1..5 : b[4 + n + i] = t[i]
    <3>1. Joined(X, w, t, b)
      BY <2>1, <2>3, <2>4, ConcatLines
    <3> QED
      BY <1>0, <2>3, <2>4, <3>1 DEF Joined
  <2>6. /\ b[1] = o /\ b[2] = home /\ b[3] = ice /\ b[4] = m
        /\ b[4 + n + 1] = conn /\ b[4 + n + 2] = rtcp /\ b[4 + n + 3] = dir
        /\ b[4 + n + 4] = video
    <3>1. \A i \in 1..4 : i \in 1 .. 4 + n
      BY <1>0
    <3> QED
      BY <2>2, <2>3, <2>4, <2>5, <3>1
  <2>7. \A i \in 1..n : b[4 + i] = cryptos[i]
    <3> SUFFICES ASSUME NEW i \in 1..n PROVE b[4 + i] = cryptos[i]
      OBVIOUS
    <3>1. 4 + i \in 1 .. 4 + n
      BY <1>0
    <3> QED
      BY <2>4, <2>5, <3>1
  <2>8. \A i \in 1..3 : b[i].k \notin {"m", "crypto"}
    <3>1. \A i \in 1..3 : i = 1 \/ i = 2 \/ i = 3
      OBVIOUS
    <3> QED
      BY <1>4, <1>5, <1>6, <2>6, <3>1
  <2> DEFINE z == 4 + n + 3
             q == 4 + n + 1
  <2>9. /\ z \in Nat /\ z \in 4 + n .. Len(b) /\ 4 + n <= Len(b) /\ z + 1 = 4 + n + 4
        /\ q \in 5..z /\ ~(q \in 1..3)
    BY <1>0, <2>5
  <2>10. \A i \in 4 + n + 1 .. z : b[i].k \notin {"m", "crypto"} /\ (b[i].k = "c" => i = q)
    <3>1. \A i \in 4 + n + 1 .. z : i = 4 + n + 1 \/ i = 4 + n + 2 \/ i = 4 + n + 3
      BY <1>0
    <3> QED
      BY <1>1, <1>3, <1>7, <2>6, <3>1
  <2>11. \A i \in 5..z : b[i].k = "c" => i = q
    <3> SUFFICES ASSUME NEW i \in 5..z, b[i].k = "c" PROVE i = q
      OBVIOUS
    <3>1. CASE i <= 4 + n
      <4> DEFINE j == i - 4
      <4>1. j \in 1..n /\ i = 4 + j
        BY <1>0, <3>1
      <4> HIDE DEF j
      <4>2. b[i].k = "crypto"
        BY <1>9, <2>7, <4>1
      <4> QED
        BY <4>2
    <3>2. CASE ~(i <= 4 + n)
      <4>1. i \in 4 + n + 1 .. z
        BY <1>0, <3>2
      <4> QED
        BY <2>10, <4>1
    <3> QED
      BY <3>1, <3>2
  <2>12. /\ \A i \in 1..n : b[4 + i] = KeyAttr(d.cryptos[i])
         /\ b[z + 1].k = "m" /\ b[q] = conn
    BY <1>8, <1>9, <2>6, <2>7, <2>9
  <2> HIDE DEF z, q
  <2>13. Shape(d, b, z, q)
    BY <2>5, <2>6, <2>8, <2>9, <2>10, <2>11, <2>12 DEF Shape, X, n, m, conn
  <2> QED
    BY <2>13 DEF b
<1> QED
  BY <1>0, <1>10, <1>11

(* What the PBX reads in an offer or an answer.                            *)
InfoTaken(d, b, i) ==
    /\ b \in Seq(Line(PhoneAddrs))
    /\ i.ok <=> Readable(b)
    /\ Readable(b) <=> d.fmts # <<>>
    /\ i.ok => /\ i.addr = IF d.zero THEN Zero ELSE PhoneAddr
               /\ i.port = d.port /\ i.secure = d.srtp
               /\ i.cryptos = Kept(d.cryptos, Crypto)

(* The audio stream of such a body is where the shape says. *)
LEMMA ShapeStream ==
    ASSUME NEW d \in Offer, NEW b, NEW z, NEW q, Shape(d, b, z, q)
    PROVE  /\ AudioLines(b) # {} /\ Audio(b) = 4 /\ AudioEnd(b) = z
           /\ InAudio(b) = 5..z /\ InSession(b) = 1..3
<1> DEFINE n == Len(d.cryptos)
           X == Line(PhoneAddrs)
<1>0. /\ n \in Nat /\ b \in Seq(X) /\ z \in 4 + n .. Len(b) /\ 4 + n <= Len(b)
      /\ Len(b) \in Nat /\ DOMAIN b = 1..Len(b)
  BY DEF Shape, Offer
<1>1. b[4].k = "m" /\ b[4].media = "audio" /\ \A i \in 1..3 : b[i].k # "m"
  BY DEF Shape
<1>2. \A i \in 5..z : b[i].k # "m"
  <2> SUFFICES ASSUME NEW i \in 5..z PROVE b[i].k # "m"
    OBVIOUS
  <2>1. CASE i <= 4 + n
    <3> DEFINE j == i - 4
    <3>1. j \in 1..n /\ 4 + j = i
      BY <1>0, <2>1
    <3> HIDE DEF j
    <3>2. b[4 + j] = KeyAttr(d.cryptos[j])
      BY <3>1 DEF Shape
    <3> QED
      BY <3>1, <3>2 DEF KeyAttr
  <2>2. CASE ~(i <= 4 + n)
    <3>1. i \in 4 + n + 1 .. z
      BY <1>0, <2>2
    <3> QED
      BY <3>1 DEF Shape
  <2> QED
    BY <2>1, <2>2
<1>3. z = Len(b) \/ b[z + 1].k = "m"
  BY DEF Shape
<1> HIDE DEF n, X
<1>4. 4 \in AudioLines(b) /\ z \in 4..Len(b) /\ 4 + 1 = 5
  BY <1>0, <1>1 DEF AudioLines, Lines
<1>5. \A i \in Lines(b, "m") : 4 <= i
  BY <1>0, <1>1 DEF Lines
<1>6. \A i \in AudioLines(b) : 4 <= i
  BY <1>5 DEF AudioLines
<1>7. Audio(b) = 4 /\ AudioEnd(b) = z
  BY <1>0, <1>2, <1>3, <1>4, <1>6, StreamIs
<1>8. InAudio(b) = 5..z
  BY <1>4, <1>7 DEF InAudio
<1>9. InSession(b) = 1..3
  <2>1. InSession(b) = {i \in 1..Len(b) : \A j \in Lines(b, "m") : i < j}
    BY <1>0, SessionLines
  <2>2. 4 \in Lines(b, "m")
    BY <1>4 DEF AudioLines
  <2>3. \A j \in Lines(b, "m") : j \in Nat
    BY <1>0 DEF Lines
  <2> QED
    BY <1>0, <1>4, <1>5, <2>1, <2>2, <2>3
<1> QED
  BY <1>4, <1>7, <1>8, <1>9

(* The address read from it. *)
LEMMA ShapeConn ==
    ASSUME NEW d \in Offer, NEW b, NEW z, NEW q, Shape(d, b, z, q)
    PROVE  Conn(b) = b[q] /\ Conn(b) # NoLine
<1> DEFINE X == Line(PhoneAddrs)
           I == Addresses(b)
<1>0. /\ b \in Seq(X) /\ Len(b) \in Nat /\ DOMAIN b = 1..Len(b) /\ NoLine \notin X
      /\ z \in Nat /\ z <= Len(b) /\ 4 <= z
  BY NoLineApart DEF Shape, Offer
<1>1. InAudio(b) = 5..z /\ InSession(b) = 1..3
  BY ShapeStream
<1>2. \A i \in Lines(b, "c") : b[i].addr # Bad
  <2> SUFFICES ASSUME NEW i \in 1..Len(b), b[i].k = "c" PROVE b[i].addr # Bad
    BY <1>0 DEF Lines
  <2> DEFINE l == b[i]
  <2>1. l \in X /\ l.k = "c"
    BY <1>0
  <2> HIDE DEF l
  <2>2. l \in CLine(PhoneAddrs)
    BY <2>1, LineKinds
  <2>3. l.addr \in PhoneAddrs
    BY <2>2 DEF CLine
  <2>4. Bad \notin PhoneAddrs
    BY SdpAssumption, OffersAssumption DEF PhoneAddrs
  <2> QED
    BY <2>3, <2>4 DEF l
<1>3. I = {i \in 1..Len(b) : b[i].k = "c"}
  BY <1>0, <1>2 DEF Addresses, Lines
<1>4. q \in 1..Len(b) /\ b[q].k = "c" /\ q \in 1..3 \cup (5..z)
  <2>1. q \in 1..3 \cup (5..z) /\ b[q].k = "c"
    BY DEF Shape
  <2> QED
    BY <1>0, <2>1
<1>5. Chosen(b, I) = {q}
  <2>1. \A i \in 5..z : b[i].k = "c" => i = q
    BY DEF Shape
  <2>2. q \in 1..3 => \A i \in 1..3 : b[i].k = "c" => i = q
    BY DEF Shape
  <2> HIDE DEF I, X
  <2>3. CASE q \in 5..z
    <3>1. I \cap (5..z) = {q}
      BY <1>0, <1>3, <1>4, <2>1, <2>3
    <3> QED
      BY <1>1, <3>1 DEF Chosen
  <2>4. CASE q \in 1..3
    <3>1. I \cap (5..z) = {}
      <4> SUFFICES ASSUME NEW i \in I, i \in 5..z PROVE FALSE
        OBVIOUS
      <4>1. i = q
        BY <1>3, <2>1
      <4> QED
        BY <1>0, <2>4, <4>1
    <3>2. I \cap (1..3) = {q}
      BY <1>0, <1>3, <1>4, <2>2, <2>4
    <3> QED
      BY <1>1, <3>1, <3>2 DEF Chosen
  <2> QED
    BY <1>4, <2>3, <2>4
<1>6. Conn(b) = LastOf(b, {q})
  <2>1. I \subseteq 1..Len(b)
    BY <1>3
  <2> HIDE DEF X
  <2>2. Effective(b, InAudio(b), I) = LastOf(b, Chosen(b, I))
    <3> HIDE DEF I
    <3> QED
      BY <1>0, <2>1, EffectiveLine
  <2> QED
    BY <1>5, <2>2 DEF Conn
<1>7. LastOf(b, {q}) = b[q] /\ b[q] \in X
  <2> HIDE DEF X
  <2>1. {q} \subseteq 1..Len(b) /\ {q} # {}
    BY <1>4
  <2>2. Max({q}) \in {q} /\ LastOf(b, {q}) = b[Max({q})] /\ LastOf(b, {q}) \in X
    BY <1>0, <2>1, LastLine
  <2> QED
    BY <2>2
<1> QED
  BY <1>0, <1>6, <1>7

(* The keys read from it. *)
LEMMA ShapeKeys ==
    ASSUME NEW d \in Offer, NEW b, NEW z, NEW q, Shape(d, b, z, q)
    PROVE  Cryptos(b) = Kept(d.cryptos, Crypto)
<1> DEFINE n == Len(d.cryptos)
           X == Line(PhoneAddrs)
           s == d.cryptos
           t == SubSeq(b, 4, z)
           T == {l \in ToSet(b) : l.k = "crypto" /\ l.key # Bad}
<1>0. /\ s \in Seq(Key) /\ n \in Nat /\ b \in Seq(X) /\ z \in 4 + n .. Len(b) /\ 4 + n <= Len(b)
      /\ Len(b) \in Nat /\ DOMAIN b = 1..Len(b) /\ z \in Nat
  BY DEF Shape, Offer, Key
<1>1. Audio(b) = 4 /\ AudioEnd(b) = z
  BY ShapeStream
<1>2. /\ t \in Seq(X) /\ Len(t) = z - 3
      /\ \A i \in 1 .. z - 3 : t[i] = b[i + 3]
  <2>1. /\ t \in Seq(X) /\ Len(t) = z - 4 + 1
        /\ \A i \in 1 .. z - 4 + 1 : t[i] = b[4 + i - 1]
    <3> HIDE DEF X, n, s
    <3> QED
      BY <1>0, SubSeqProperties
  <2>2. z - 4 + 1 = z - 3
    BY <1>0
  <2> HIDE DEF t, X
  <2>3. \A i \in 1 .. z - 3 : 4 + i - 1 = i + 3
    BY <1>0
  <2> QED
    BY <2>1, <2>2, <2>3
<1>3. t[1] \notin T
  <2>1. 1 \in 1 .. z - 3 /\ 1 + 3 = 4
    BY <1>0
  <2>2. t[1] = b[4]
    BY <1>2, <2>1
  <2>3. b[4].k = "m"
    BY DEF Shape
  <2> QED
    BY <2>2, <2>3
<1>4. ASSUME NEW i \in 1..n
      PROVE  KeyOf(t[i + 1]) = s[i] /\ (t[i + 1] \in T <=> s[i] \in Crypto)
  <2> DEFINE c == s[i]
  <2>1. i + 1 \in 1 .. z - 3 /\ i + 1 + 3 = 4 + i /\ 4 + i \in 1..Len(b)
    BY <1>0
  <2>2. t[i + 1] = KeyAttr(c)
    <3>1. t[i + 1] = b[i + 1 + 3]
      BY <1>2, <2>1
    <3>2. b[4 + i] = KeyAttr(s[i])
      BY DEF Shape
    <3> QED
      BY <2>1, <3>1, <3>2
  <2>3. KeyAttr(c) \in ToSet(b)
    <3>1. b[4 + i] = KeyAttr(s[i])
      BY DEF Shape
    <3> QED
      BY <1>0, <2>1, <3>1 DEF ToSet
  <2>4. c \in Key
    BY <1>0
  <2> HIDE DEF c
  <2>5. KeyOf(KeyAttr(c)) = c
    BY <2>4 DEF KeyOf, KeyAttr, Key
  <2>6. KeyAttr(c).k = "crypto" /\ KeyAttr(c).key = c.key
    BY DEF KeyAttr
  <2>7. c \in Crypto <=> c.key # Bad
    BY <2>4, SdpAssumption DEF Key, Crypto
  <2> QED
    BY <2>2, <2>3, <2>5, <2>6, <2>7 DEF c
<1>5. \A i \in n + 2 .. z - 3 : t[i] \notin T
  <2> SUFFICES ASSUME NEW i \in n + 2 .. z - 3 PROVE t[i] \notin T
    OBVIOUS
  <2>1. i \in 1 .. z - 3 /\ i + 3 \in 4 + n + 1 .. z
    BY <1>0
  <2>2. t[i] = b[i + 3]
    BY <1>2, <2>1
  <2>3. b[i + 3].k # "crypto"
    BY <2>1 DEF Shape
  <2> QED
    BY <2>2, <2>3
<1>6. n + 1 <= Len(t) /\ Len(t) = z - 3
  BY <1>0, <1>2
<1>7. KeysOf(Kept(t, T)) = Kept(s, Crypto)
  <2>1. \A i \in 1..Len(s) : KeyOf(t[i + 1]) = s[i] /\ (t[i + 1] \in T <=> s[i] \in Crypto)
    BY <1>4
  <2>2. \A i \in Len(s) + 2 .. Len(t) : t[i] \notin T
    BY <1>5, <1>6
  <2>3. Len(s) + 1 <= Len(t)
    BY <1>6
  <2> HIDE DEF s, t, T, X, n
  <2> QED
    <3>1. s \in Seq(Key) /\ t \in Seq(X)
      BY <1>0, <1>2
    <3> QED
      BY <1>3, <2>1, <2>2, <2>3, <3>1, KeptKeys
<1>8. Cryptos(b) = KeysOf(Kept(t, T))
  BY <1>1 DEF Cryptos, KeysOf, KeyOf
<1> QED
  BY <1>7, <1>8

(* What the PBX reads in it. *)
LEMMA BodyRead ==
    ASSUME NEW d \in Offer
    PROVE  InfoTaken(d, Body(d), Parse(Body(d)))
<1>1. PICK z, q : Shape(d, Body(d), z, q)
  BY BodyShape
<1> DEFINE b == Body(d)
<1>2. Shape(d, b, z, q)
  BY <1>1
<1> HIDE DEF b
<1>3. AudioLines(b) # {} /\ Audio(b) = 4
  BY <1>2, ShapeStream
<1>4. Conn(b) = b[q] /\ Conn(b) # NoLine
  BY <1>2, ShapeConn
<1>5. Cryptos(b) = Kept(d.cryptos, Crypto)
  BY <1>2, ShapeKeys
<1>6. /\ b[4].port = d.port /\ b[4].srtp = d.srtp /\ b[4].fmts = d.fmts
      /\ b[q].addr = IF d.zero THEN Zero ELSE PhoneAddr
      /\ b \in Seq(Line(PhoneAddrs))
  BY <1>2 DEF Shape
<1>7. Readable(b) <=> d.fmts # <<>>
  BY <1>3, <1>4, <1>6 DEF Readable, Media
<1> DEFINE i == Parse(b)
<1>8. i.ok <=> Readable(b)
  BY ParseReads
<1>9. ASSUME Readable(b)
      PROVE  /\ i.addr = IF d.zero THEN Zero ELSE PhoneAddr
             /\ i.port = d.port /\ i.secure = d.srtp
             /\ i.cryptos = Kept(d.cryptos, Crypto)
  <2>1. i = Read(b)
    BY <1>9, ParseReads
  <2>2. /\ Read(b).addr = Conn(b).addr /\ Read(b).port = Media(b).port
        /\ Read(b).secure = Media(b).srtp /\ Read(b).cryptos = Cryptos(b)
    BY DEF Read
  <2> QED
    BY <1>3, <1>4, <1>5, <1>6, <2>1, <2>2 DEF Media
<1>10. InfoTaken(d, b, i)
  <2> HIDE DEF i
  <2> QED
    BY <1>6, <1>7, <1>8, <1>9 DEF InfoTaken
<1> QED
  BY <1>10 DEF b

-----------------------------------------------------------------------------
(***************************************************************************)
(* What the PBX hears in them.                                             *)
(***************************************************************************)

(* What is read is of the types of the lines it is read from.              *)
KeyOrNone == Crypto \cup {None}

(* No key is None. *)
LEMMA NoneApart == None \notin Crypto /\ None \notin Key
  BY SdpAssumption DEF Crypto, Key

(* What is read is of the types of the lines it is read from. *)
LEMMA ReadTyped ==
    ASSUME NEW A, NEW b \in Seq(Line(A)), Readable(b)
    PROVE  /\ Parse(b).dir \in Directions
           /\ Parse(b).fmts \in Seq(Nat)
           /\ Parse(b).dtmf \in Nat \cup {None}
<1> DEFINE X == Line(A)
<1>0. /\ b \in Seq(X) /\ NoLine \notin X /\ AudioLines(b) # {} /\ DOMAIN b = 1..Len(b)
  BY NoLineApart DEF Readable
<1>1. Media(b).fmts \in Seq(Nat)
  <2>1. Audio(b) \in AudioLines(b) /\ Audio(b) \in 1..Len(b)
    BY <1>0, StreamBounds
  <2> DEFINE l == b[Audio(b)]
  <2>2. l \in X /\ l.k = "m"
    BY <1>0, <2>1 DEF AudioLines, Lines
  <2> HIDE DEF l
  <2>3. l \in MLine
    BY <2>2, LineKinds
  <2>4. l.fmts \in Seq(Nat)
    BY <2>3 DEF MLine
  <2> QED
    BY <2>4 DEF Media, l
<1>2. ASSUME NEW K, NEW I, I \subseteq Lines(b, K), I # {}
      PROVE  LastOf(b, I) \in X /\ LastOf(b, I).k = K
  <2>1. I \subseteq 1..Len(b)
    BY <1>0, <1>2 DEF Lines
  <2>2. Max(I) \in I /\ LastOf(b, I) = b[Max(I)] /\ LastOf(b, I) \in X
    <3> HIDE DEF X
    <3> QED
      BY <1>0, <1>2, <2>1, LastLine
  <2> QED
    BY <1>2, <2>2 DEF Lines
<1>3. Dir(b) # NoLine => Dir(b).dir \in Directions
  <2> DEFINE I == Lines(b, "dir")
  <2>1. I \subseteq 1..Len(b)
    BY <1>0 DEF Lines
  <2>2. Chosen(b, I) \subseteq I /\ Dir(b) = LastOf(b, Chosen(b, I))
    <3> HIDE DEF X, I
    <3>1. Effective(b, InAudio(b), I) = LastOf(b, Chosen(b, I)) /\ Chosen(b, I) \subseteq I
      BY <1>0, <2>1, EffectiveLine
    <3> QED
      BY <3>1 DEF Dir, I
  <2>3. CASE Chosen(b, I) = {}
    BY <2>2, <2>3 DEF LastOf
  <2>4. CASE Chosen(b, I) # {}
    <3>1. Dir(b) \in X /\ Dir(b).k = "dir"
      BY <1>2, <2>2, <2>4
    <3>2. Dir(b) \in DirLine
      BY <3>1, LineKinds
    <3> QED
      BY <3>2 DEF DirLine
  <2> QED
    BY <2>3, <2>4
<1>4. Event(b) # NoLine => Event(b).pt \in Nat
  <2> DEFINE I == Lines(b, "event") \cap InAudio(b)
  <2>1. CASE I = {}
    BY <2>1 DEF Event, LastOf
  <2>2. CASE I # {}
    <3>1. Event(b) \in X /\ Event(b).k = "event"
      BY <1>2, <2>2 DEF Event
    <3>2. Event(b) \in EventLine
      BY <3>1, LineKinds
    <3> QED
      BY <3>2 DEF EventLine
  <2> QED
    BY <2>1, <2>2
<1>5. Parse(b) = Read(b)
  BY ParseReads
<1>6. /\ Read(b).dir = IF Dir(b) = NoLine THEN "sendrecv" ELSE Dir(b).dir
      /\ Read(b).fmts = Media(b).fmts
      /\ Read(b).dtmf = IF Event(b) = NoLine THEN None ELSE Event(b).pt
  BY DEF Read
<1> QED
  BY <1>1, <1>3, <1>4, <1>5, <1>6 DEF Directions

(* The codec is a payload type. *)
LEMMA G711Typed ==
    ASSUME NEW info, info.fmts \in Seq(Nat)
    PROVE  G711(info) \in Nat
<1> DEFINE g == Kept(info.fmts, {0, 8})
<1>1. g \in Seq(Nat \cap {0, 8})
  BY KeptBound
<1> HIDE DEF g
<1>2. g # <<>> => Head(g) \in Nat \cap {0, 8}
  BY <1>1, HeadTailProperties
<1> QED
  BY <1>2 DEF G711, g

-----------------------------------------------------------------------------
(* The offers of a phone: its keys have different tags.                    *)
Distinct(d) == \A i, j \in DOMAIN d.cryptos : d.cryptos[i].tag = d.cryptos[j].tag => i = j

(* What a phone offers is an offer, and its keys have different tags. *)
LEMMA OfferTyped ==
    ASSUME NEW s \in Sides, NEW d \in OffersOf[s]
    PROVE  d \in Offer /\ Distinct(d) /\ OfferInfo[d] = Parse(Body(d))
<1> DEFINE K(u, i) == [u.cryptos[i] EXCEPT !.key = IF @ = Bad \/ s = "caller" THEN @ ELSE @ + 100]
           C(u) == [i \in DOMAIN u.cryptos |-> K(u, i)]
<1>1. OffersOf[s] = {[u EXCEPT !.cryptos = C(u)] : u \in Offers}
  BY DEF OffersOf
<1>2. PICK u \in Offers : d = [u EXCEPT !.cryptos = C(u)]
  BY <1>1
<1>3. u \in Offer /\ \A i, j \in DOMAIN u.cryptos : u.cryptos[i].tag = u.cryptos[j].tag => i = j
  BY OffersAssumption
<1>4. u.cryptos \in Seq(Key) /\ Len(u.cryptos) \in Nat /\ DOMAIN u.cryptos = 1..Len(u.cryptos)
  <2>1. u.cryptos \in Seq(Key)
    BY <1>3 DEF Offer, Key
  <2> QED
    BY <2>1
<1>5. ASSUME NEW i \in DOMAIN u.cryptos PROVE K(u, i) \in Key /\ K(u, i).tag = u.cryptos[i].tag
  <2> DEFINE c == u.cryptos[i]
  <2>1. c \in Key
    BY <1>4
  <2> HIDE DEF c
  <2>2. LET k == [c EXCEPT !.key = IF @ = Bad \/ s = "caller" THEN @ ELSE @ + 100] IN
        k \in Key /\ k.tag = c.tag
    <3>1. (IF c.key = Bad \/ s = "caller" THEN c.key ELSE c.key + 100) \in Nat \cup {Bad}
      BY <2>1 DEF Key
    <3> QED
      BY <2>1, <3>1 DEF Key
  <2> QED
    BY <2>2 DEF c
<1> HIDE DEF K
<1>6. C(u) \in Seq(Key) /\ DOMAIN C(u) = DOMAIN u.cryptos
  BY <1>4, <1>5
<1>7. d \in Offer /\ d.cryptos = C(u)
  <2> DEFINE v == C(u)
  <2>1. v \in Seq(Key)
    BY <1>6
  <2> HIDE DEF C
  <2>2. d = [u EXCEPT !.cryptos = v]
    BY <1>2
  <2> HIDE DEF v
  <2>3. d \in Offer /\ d.cryptos = v
    BY <1>3, <2>1, <2>2 DEF Offer, Key
  <2> QED
    BY <2>3 DEF v
<1>8. Distinct(d)
  <2> SUFFICES ASSUME NEW i \in DOMAIN u.cryptos, NEW j \in DOMAIN u.cryptos,
                      C(u)[i].tag = C(u)[j].tag
               PROVE  i = j
    BY <1>6, <1>7 DEF Distinct
  <2>1. u.cryptos[i].tag = u.cryptos[j].tag
    BY <1>5
  <2> QED
    BY <1>3, <2>1
<1>9. OfferInfo[d] = Parse(Body(d))
  BY DEF OfferInfo
<1> QED
  BY <1>7, <1>8, <1>9

(* What the PBX hears in an offer or an answer.                            *)
Heard(d, info) ==
    /\ info.ok \in BOOLEAN /\ (info.ok => Readable(Body(d)))
    /\ d.port \in Nat \ {0} /\ d.zero \in BOOLEAN /\ d.srtp \in BOOLEAN
    /\ info.ok =>
        /\ Body(d) \in Seq(Line(PhoneAddrs))
        /\ info.addr = (IF d.zero THEN Zero ELSE PhoneAddr)
        /\ info.port = d.port /\ info.secure = d.srtp
        /\ info.cryptos = Kept(d.cryptos, Crypto) /\ info.cryptos \in Seq(Crypto)
        /\ info.dir \in Directions /\ info.fmts \in Seq(Nat) /\ info.dtmf \in Nat \cup {None}

(* The PBX hears every offer and answer as Heard says. *)
LEMMA OfferHeard ==
    ASSUME NEW d \in Offer
    PROVE  Heard(d, Parse(Body(d)))
<1> DEFINE b == Body(d)
           info == Parse(b)
<1>1. InfoTaken(d, b, info)
  BY BodyRead
<1>2. info.ok \in BOOLEAN
  <2>1. CASE Readable(b)
    <3>1. info = Read(b)
      BY <2>1, ParseReads
    <3> QED
      BY <3>1 DEF Read
  <2>2. CASE ~Readable(b)
    <3>1. info = NoInfo
      BY <2>2, ParseReads
    <3> QED
      BY <3>1 DEF NoInfo
  <2> QED
    BY <2>1, <2>2
<1>3. Readable(b) => /\ info.dir \in Directions /\ info.fmts \in Seq(Nat)
                     /\ info.dtmf \in Nat \cup {None}
  <2>1. b \in Seq(Line(PhoneAddrs))
    BY <1>1 DEF InfoTaken
  <2> HIDE DEF b
  <2> QED
    BY <2>1, ReadTyped
<1>4. Kept(d.cryptos, Crypto) \in Seq(Crypto)
  <2>1. d.cryptos \in Seq(Key)
    BY DEF Offer, Key
  <2>2. Kept(d.cryptos, Crypto) \in Seq(Key \cap Crypto)
    BY <2>1, KeptBound
  <2>3. Key \cap Crypto = Crypto
    BY DEF Key, Crypto
  <2> QED
    BY <2>2, <2>3
<1>5. d.port \in Nat \ {0} /\ d.zero \in BOOLEAN /\ d.srtp \in BOOLEAN
  BY DEF Offer
<1> HIDE DEF b, info
<1>6. info.ok <=> Readable(b)
  BY <1>1 DEF InfoTaken
<1>7. info.ok =>
        /\ b \in Seq(Line(PhoneAddrs))
        /\ info.addr = (IF d.zero THEN Zero ELSE PhoneAddr)
        /\ info.port = d.port /\ info.secure = d.srtp
        /\ info.cryptos = Kept(d.cryptos, Crypto)
  BY <1>1 DEF InfoTaken
<1>8. Heard(d, info)
  BY <1>2, <1>3, <1>4, <1>5, <1>6, <1>7, Zenon DEF Heard, b
<1> QED
  BY <1>8 DEF info, b

-----------------------------------------------------------------------------
(***************************************************************************)
(* The keys of an offer and of its answer.                                 *)
(***************************************************************************)

(* The key that a body carries, and the numbers of keys. *)
BodyKey(b) == First(Parse(b).cryptos)
KeyNum(key) == IF key = None THEN {} ELSE {key.key}

(* The relay took offer d of side s, with the phone's key in, and the PBX  *)
(* answers it with key.                                                    *)
Took(s, d, key, in) ==
    LET info == Parse(Body(d)) IN
    /\ d \in OffersOf[s] /\ info.ok
    /\ d.srtp => /\ key \in Crypto /\ in \in Crypto
                 /\ info.cryptos # <<>> /\ in = Head(info.cryptos)
                 /\ key.tag = in.tag /\ key.suite = in.suite
    /\ ~d.srtp => key = None /\ in = None

(* The key of the PBX fits the tag and the suite of the phone, and its     *)
(* number is the old one or new.                                           *)
LEMMA OurKeyIs ==
    ASSUME NEW cur \in KeyOrNone, NEW theirs \in Crypto, made \in Nat
    PROVE  LET ours == OurKey(cur, theirs) IN
           /\ ours \in Crypto /\ ours.tag = theirs.tag /\ ours.suite = theirs.suite
           /\ KeyNum(ours) \subseteq KeyNum(cur) \cup {made + 1}
<1> DEFINE ours == OurKey(cur, theirs)
           new == [tag |-> theirs.tag, suite |-> theirs.suite, key |-> made + 1]
           old == [cur EXCEPT !.tag = theirs.tag]
<1>1. theirs.tag \in Nat /\ theirs.suite \in Nat
  BY DEF Crypto
<1>2. CASE cur = None \/ cur.suite # theirs.suite
  <2>1. ours = new
    BY <1>2 DEF OurKey
  <2>2. new \in Crypto /\ new.tag = theirs.tag /\ new.suite = theirs.suite /\ new.key = made + 1
    BY <1>1 DEF Crypto
  <2> HIDE DEF new, ours
  <2> QED
    BY <2>1, <2>2, NoneApart DEF KeyNum, ours
<1>3. CASE ~(cur = None \/ cur.suite # theirs.suite)
  <2>1. ours = old
    BY <1>3 DEF OurKey
  <2>2. cur \in Crypto /\ cur # None /\ cur.suite = theirs.suite
    BY <1>3 DEF KeyOrNone
  <2>3. old \in Crypto /\ old.tag = theirs.tag /\ old.suite = theirs.suite /\ old.key = cur.key
    BY <1>1, <2>2 DEF Crypto
  <2> HIDE DEF old, ours
  <2> QED
    BY <2>1, <2>2, <2>3, NoneApart DEF KeyNum, ours
<1> QED
  BY <1>2, <1>3

OfferedKey(info) == IF info.secure THEN Head(info.cryptos) ELSE None

Answered(s, d, ours, in) ==
    /\ ours \in KeyOrNone /\ in \in KeyOrNone
    /\ Took(s, d, ours, in) /\ (in = None <=> ours = None)
    /\ KeyNum(ours) \subseteq KeyNum(keys[s]) \cup {made + 1}
    /\ (OfferInfo[d].secure <=> ours # None)

(* So does the key that an offer is answered with. *)
LEMMA AnswerKeyIs ==
    ASSUME NEW s \in Sides, NEW d \in OffersOf[s], OfferInfo[d].ok, OfferUsable(OfferInfo[d]),
           keys[s] \in KeyOrNone, made \in Nat
    PROVE  Answered(s, d, AnswerKey(s, OfferInfo[d]), OfferedKey(OfferInfo[d]))
<1> DEFINE info == OfferInfo[d]
           ours == AnswerKey(s, info)
           in == OfferedKey(info)
<1>1. d \in Offer /\ info = Parse(Body(d))
  BY OfferTyped
<1>2. Heard(d, info)
  BY <1>1, OfferHeard
<1>3. info.ok /\ OfferUsable(info)
  OBVIOUS
<1> HIDE DEF info
<1>4. info.secure = d.srtp /\ info.cryptos \in Seq(Crypto) /\ d.srtp \in BOOLEAN
  BY <1>2, <1>3 DEF Heard
<1>5. CASE d.srtp
  <2>1. info.cryptos # <<>> /\ in = Head(info.cryptos)
    BY <1>3, <1>4, <1>5 DEF OfferUsable, OfferedKey
  <2>2. in \in Crypto
    BY <1>4, <2>1, HeadTailProperties
  <2>3. ours = OurKey(keys[s], in)
    BY <1>4, <1>5, <2>1 DEF AnswerKey
  <2>4. /\ ours \in Crypto /\ ours.tag = in.tag /\ ours.suite = in.suite
        /\ KeyNum(ours) \subseteq KeyNum(keys[s]) \cup {made + 1}
    <3> HIDE DEF ours, in
    <3> QED
      BY <2>2, <2>3, OurKeyIs
  <2> HIDE DEF ours, in
  <2>5. Took(s, d, ours, in)
    BY <1>1, <1>3, <1>5, <2>1, <2>2, <2>4 DEF Took
  <2>6. ours # None /\ in # None
    BY <2>2, <2>4, NoneApart
  <2>7. Answered(s, d, ours, in)
    BY <1>4, <1>5, <2>2, <2>4, <2>5, <2>6 DEF Answered, KeyOrNone, info
  <2> QED
    BY <2>7 DEF ours, in, info
<1>6. CASE ~d.srtp
  <2>1. in = None /\ ours = None
    BY <1>4, <1>6 DEF OfferedKey, AnswerKey
  <2> HIDE DEF ours, in
  <2>2. Took(s, d, ours, in)
    BY <1>1, <1>3, <1>6, <2>1 DEF Took
  <2>3. KeyNum(ours) = {}
    BY <2>1 DEF KeyNum
  <2>4. Answered(s, d, ours, in)
    BY <1>4, <1>6, <2>1, <2>2, <2>3 DEF Answered, KeyOrNone, info
  <2> QED
    BY <2>4 DEF ours, in, info
<1> QED
  BY <1>5, <1>6

(* A phone whose offer is answered with the PBX's key uses what the relay  *)
(* took.                                                                   *)
LEMMA OfferedAgrees ==
    ASSUME NEW s \in Sides, NEW d, NEW key, NEW in, Took(s, d, key, in),
           NEW body, BodyKey(body) = key
    PROVE  PhoneOffered(s, d, body) =
               [send |-> in, recv |-> key, port |-> IF d.zero THEN phone[s].port ELSE d.port]
<1> DEFINE info == Parse(Body(d))
           k == IF d.srtp THEN First(Parse(body).cryptos) ELSE None
           T == {c \in ToSet(d.cryptos) : c.tag = k.tag /\ c.suite = k.suite}
           send == IF k = None THEN None ELSE First(Kept(d.cryptos, T))
<1>1. d \in OffersOf[s] /\ info.ok
  BY DEF Took
<1>2. d \in Offer /\ Distinct(d)
  BY <1>1, OfferTyped
<1>3. Heard(d, info)
  BY <1>2, OfferHeard
<1>4. PhoneOffered(s, d, body) =
          [send |-> send, recv |-> k, port |-> IF d.zero THEN phone[s].port ELSE d.port]
  BY DEF PhoneOffered
<1> HIDE DEF info
<1>5. d.srtp \in BOOLEAN
  BY <1>3 DEF Heard
<1>6. k = key
  <2>1. ~d.srtp => key = None
    BY DEF Took
  <2> QED
    BY <1>5, <2>1 DEF BodyKey
<1> HIDE DEF k
<1>7. send = in
  <2>1. CASE ~d.srtp
    <3>1. key = None /\ in = None
      BY <2>1 DEF Took
    <3> QED
      BY <1>6, <3>1
  <2>2. CASE d.srtp
    <3>1. /\ key \in Crypto /\ in \in Crypto /\ info.cryptos # <<>> /\ in = Head(info.cryptos)
          /\ key.tag = in.tag /\ key.suite = in.suite
      BY <2>2 DEF Took, info
    <3>2. info.cryptos = Kept(d.cryptos, Crypto)
      BY <1>1, <1>3 DEF Heard
    <3> DEFINE c == d.cryptos
               n == Len(c)
    <3>3. c \in Seq(Key) /\ n \in Nat /\ DOMAIN c = 1..n
      <4>1. c \in Seq(Key)
        BY <1>2 DEF Offer, Key
      <4> QED
        BY <4>1
    <3>4. \A i, j \in 1..n : c[i].tag = c[j].tag => i = j
      BY <1>2, <3>3 DEF Distinct
    <3> HIDE DEF c, n
    <3>5. PICK i \in 1..n : c[i] = in
      <4>1. \E i \in 1..Len(c) : c[i] \in Crypto /\ Head(Kept(c, Crypto)) = c[i]
        BY <3>1, <3>2, <3>3, KeptFirst DEF c
      <4> QED
        BY <3>1, <3>2, <4>1 DEF c, n
    <3>6. in \in T
      <4>1. in \in ToSet(c)
        BY <3>3, <3>5 DEF ToSet
      <4> QED
        BY <1>6, <3>1, <4>1 DEF c
    <3>7. T \subseteq {x \in ToSet(c) : x.tag = in.tag}
      BY <1>6, <3>1 DEF c
    <3> HIDE DEF T
    <3>8. /\ Kept(c, T) # <<>>
          /\ \E j \in 1..n : c[j] \in T /\ Head(Kept(c, T)) = c[j]
      <4>1. /\ \A j \in 1..Len(c) : c[j] \in T => Kept(c, T) # <<>>
            /\ Kept(c, T) # <<>> => \E j \in 1..Len(c) : c[j] \in T /\ Head(Kept(c, T)) = c[j]
        BY <3>3, KeptFirst
      <4> QED
        BY <3>5, <3>6, <4>1 DEF n
    <3>9. Head(Kept(c, T)) = in
      <4>1. PICK j \in 1..n : c[j] \in T /\ Head(Kept(c, T)) = c[j]
        BY <3>8
      <4>2. c[j].tag = c[i].tag
        BY <3>5, <3>7, <4>1
      <4> QED
        BY <3>4, <3>5, <4>1, <4>2
    <3>10. k # None
      BY <1>6, <3>1, NoneApart
    <3> QED
      BY <3>8, <3>9, <3>10 DEF First, c
  <2> QED
    BY <1>5, <2>1, <2>2
<1> HIDE DEF send
<1> QED
  BY <1>4, <1>6, <1>7

-----------------------------------------------------------------------------
(* An answer to an offer that carried key, and what the relay takes of it. *)
AnswerIs(key, d) ==
    /\ d \in Offer /\ d.zero = FALSE
    /\ d.srtp => key # None /\ \E c \in Crypto : d.cryptos = <<c>>
    /\ ~d.srtp => d.cryptos = <<>>

(* What a phone answers is an answer to the key it was offered. *)
LEMMA AnswerTyped ==
    ASSUME NEW s \in Sides, NEW key \in KeyOrNone, NEW d \in Answers(s, key)
    PROVE  AnswerIs(key, d)
<1>1. PICK how \in AnswerKinds : /\ how \in {"match", "other"} => key # None
                                 /\ d = AnswerTo(s, how, key)
  BY DEF Answers
<1> DEFINE port == IF how = "match" THEN 6 ELSE 7
           c == [tag |-> IF how = "match" THEN key.tag ELSE 9, suite |-> key.suite,
                 key |-> IF s = "caller" THEN 301 ELSE 401]
           srtp == how \in {"match", "other"}
           cryptos == IF srtp THEN <<c>> ELSE <<>>
           fmts == IF how = "broken" THEN <<>> ELSE <<0>>
           a == [port |-> port, srtp |-> srtp, cryptos |-> cryptos, dir |-> "sendrecv",
                 zero |-> FALSE, video |-> FALSE, fmts |-> fmts]
<1>2. d = a
  BY <1>1 DEF AnswerTo
<1>3. srtp => key # None /\ c \in Crypto
  <2>1. srtp => key \in Crypto /\ key # None
    BY <1>1 DEF KeyOrNone
  <2> QED
    BY <2>1 DEF Crypto
<1>4. port \in Nat \ {0} /\ srtp \in BOOLEAN /\ fmts \in Seq(Nat)
  OBVIOUS
<1>5. cryptos \in Seq(Key)
  <2>1. srtp => c \in Key
    BY <1>3 DEF Crypto, Key
  <2> HIDE DEF c, srtp
  <2> QED
    BY <2>1
<1> HIDE DEF port, srtp, c, fmts
<1>6. (srtp => cryptos = <<c>>) /\ (~srtp => cryptos = <<>>)
  OBVIOUS
<1> HIDE DEF cryptos
<1>7. a \in Offer
  BY <1>4, <1>5 DEF Offer, Key, Directions
<1>8. a.zero = FALSE /\ a.srtp = srtp /\ a.cryptos = cryptos
  OBVIOUS
<1> HIDE DEF a
<1> QED
  BY <1>2, <1>3, <1>4, <1>6, <1>7, <1>8 DEF AnswerIs

AnswerFits(key, d, info) ==
    /\ d \in Offer /\ d.zero = FALSE /\ d.srtp \in BOOLEAN
    /\ (d.srtp <=> First(d.cryptos) # None) /\ First(d.cryptos) \in KeyOrNone
    /\ d.srtp => key # None
    /\ Heard(d, info)
    /\ info.ok => /\ AnswerPlain(info, key) <=> ~d.srtp
                  /\ Matching(info, key) # <<>> /\ d.srtp =>
                         Head(Matching(info, key)) = First(d.cryptos)

(* The relay takes the key that a phone answers with, or none. *)
LEMMA AnswerTaken ==
    ASSUME NEW s \in Sides, NEW key \in KeyOrNone, NEW d \in Answers(s, key)
    PROVE  AnswerFits(key, d, Parse(Body(d)))
<1> DEFINE info == Parse(Body(d))
<1>1. AnswerIs(key, d)
  BY AnswerTyped
<1>2. d \in Offer /\ d.zero = FALSE /\ d.srtp \in BOOLEAN /\ (d.srtp => key # None)
  BY <1>1 DEF AnswerIs, Offer
<1>3. Heard(d, info)
  BY <1>2, OfferHeard
<1> HIDE DEF info
<1>4. d.srtp => \E c \in Crypto : d.cryptos = <<c>>
  BY <1>1 DEF AnswerIs
<1>5. (d.srtp <=> First(d.cryptos) # None) /\ First(d.cryptos) \in KeyOrNone
  <2>1. CASE d.srtp
    <3>1. PICK c \in Crypto : d.cryptos = <<c>>
      BY <1>4, <2>1
    <3>2. First(d.cryptos) = c
      BY <3>1 DEF First
    <3> QED
      BY <2>1, <3>2, NoneApart DEF KeyOrNone
  <2>2. CASE ~d.srtp
    <3>1. d.cryptos = <<>>
      BY <1>1, <2>2 DEF AnswerIs
    <3> QED
      BY <2>2, <3>1 DEF First, KeyOrNone
  <2> QED
    BY <1>2, <2>1, <2>2
<1>6. ASSUME info.ok PROVE AnswerPlain(info, key) <=> ~d.srtp
  <2>1. info.secure = d.srtp
    BY <1>3, <1>6 DEF Heard
  <2> QED
    BY <1>2, <2>1 DEF AnswerPlain
<1>7. ASSUME info.ok, d.srtp, Matching(info, key) # <<>>
      PROVE  Head(Matching(info, key)) = First(d.cryptos)
  <2>1. PICK c \in Crypto : d.cryptos = <<c>>
    BY <1>4, <1>7
  <2>2. First(d.cryptos) = c /\ d.cryptos \in Seq({c})
    BY <2>1 DEF First
  <2>3. info.cryptos = Kept(d.cryptos, Crypto)
    BY <1>3, <1>7 DEF Heard
  <2>4. info.cryptos \in Seq({c} \cap Crypto)
    BY <2>2, <2>3, KeptBound
  <2> DEFINE M == {x \in ToSet(info.cryptos) : x.tag = key.tag /\ x.suite = key.suite}
             m == Kept(info.cryptos, M)
  <2>5. m \in Seq(({c} \cap Crypto) \cap M)
    <3> HIDE DEF M
    <3> QED
      BY <2>4, KeptBound
  <2>6. Matching(info, key) = m
    BY DEF Matching
  <2> HIDE DEF m, M
  <2>7. Head(m) \in ({c} \cap Crypto) \cap M
    BY <1>7, <2>5, <2>6, HeadTailProperties
  <2> QED
    BY <2>2, <2>6, <2>7
<1>8. AnswerFits(key, d, info)
  BY <1>2, <1>3, <1>5, <1>6, <1>7 DEF AnswerFits
<1> QED
  BY <1>8 DEF info

-----------------------------------------------------------------------------
(***************************************************************************)
(* What the PBX sends.                                                     *)
(***************************************************************************)

(* What the PBX may send to side s: it names the relay, the key it carries *)
(* is the only one, and one audio stream is enabled.                       *)
Addrs == {PhoneAddr, Zero, Pbx}

Relayed(s, b) ==
    /\ b \in Seq(Line(Addrs)) /\ Readable(b) /\ OneStream(b)
    /\ Parse(b).addr \in {Pbx, Zero} /\ Parse(b).port \in {0, RelayPort(s)}
    /\ BodyKey(b) \in KeyOrNone
    /\ Parse(b).cryptos = IF BodyKey(b) = None THEN <<>> ELSE <<BodyKey(b)>>

(* The first of no keys and of one. *)
LEMMA FirstOne == First(<<>>) = None /\ \A c : First(<<c>>) = c
  BY DEF First

RedirectedFields(i, j, ip, port, crypto) ==
    /\ j.ok = TRUE /\ j.dir = i.dir /\ j.fmts = i.fmts /\ j.dtmf = i.dtmf
    /\ j.addr = (IF i.addr = Zero THEN Zero ELSE ip)
    /\ j.port = (IF i.port = 0 THEN 0 ELSE port)
    /\ j.cryptos = IF crypto = None THEN <<>> ELSE <<crypto>>

(* The fields of a redirected description. *)
LEMMA RedirectedIs ==
    ASSUME NEW b, Readable(b), NEW ip, NEW port, NEW crypto
    PROVE  RedirectedFields(Parse(b), Redirected(Parse(b), ip, port, crypto), ip, port, crypto)
<1> DEFINE i == Parse(b)
           j == Redirected(i, ip, port, crypto)
           A == IF i.addr = Zero THEN Zero ELSE ip
           P == IF i.port = 0 THEN 0 ELSE port
           R == IF i.rtcp = 0 THEN 0 ELSE port + 1
           S == crypto # None
           C == IF crypto = None THEN <<>> ELSE <<crypto>>
<1>1. i = InfoOf(i.addr, i.port, i.rtcp, i.dir, i.secure, i.cryptos, i.fmts, i.dtmf)
  <2>1. i = Read(b)
    BY ParseReads
  <2>2. \E a, p, q, d, s, c, f, t : i = InfoOf(a, p, q, d, s, c, f, t)
    <3>1. Read(b) = InfoOf(Conn(b).addr, Media(b).port, RtcpPort(b),
                           IF Dir(b) = NoLine THEN "sendrecv" ELSE Dir(b).dir,
                           Media(b).srtp, Cryptos(b), Media(b).fmts,
                           IF Event(b) = NoLine THEN None ELSE Event(b).pt)
      BY DEF Read, InfoOf
    <3> HIDE DEF i
    <3> QED
      BY <2>1, <3>1
  <2> HIDE DEF i
  <2>3. PICK a, p, q, d, s, c, f, t : i = InfoOf(a, p, q, d, s, c, f, t)
    BY <2>2
  <2>4. /\ i.addr = a /\ i.port = p /\ i.rtcp = q /\ i.dir = d
        /\ i.secure = s /\ i.cryptos = c /\ i.fmts = f /\ i.dtmf = t
    BY <2>3 DEF InfoOf
  <2> QED
    BY <2>3, <2>4
<1> HIDE DEF i
<1>2. j = InfoAs(i, A, P, R, S, C)
  BY DEF Redirected, InfoAs
<1> HIDE DEF j, A, P, R, S, C
<1>3. j = InfoOf(A, P, R, i.dir, S, C, i.fmts, i.dtmf)
  BY <1>1, <1>2, FieldsChanged
<1>4. /\ j.ok = TRUE /\ j.dir = i.dir /\ j.fmts = i.fmts /\ j.dtmf = i.dtmf
      /\ j.addr = A /\ j.port = P /\ j.cryptos = C
  BY <1>3 DEF InfoOf
<1>5. RedirectedFields(i, j, ip, port, crypto)
  BY <1>4 DEF RedirectedFields, A, P, C
<1> QED
  BY <1>5 DEF i, j

Sent(s, b, key) == Relayed(s, b) /\ BodyKey(b) = key

(* The bodies of phones are bodies with addresses of phones, holds and the *)
(* PBX.                                                                    *)
LEMMA LinesOfMore ==
    ASSUME NEW b \in Seq(Line(PhoneAddrs))
    PROVE  b \in Seq(Line(Addrs))
<1>1. PhoneAddrs \subseteq Addrs
  BY DEF PhoneAddrs, Addrs
<1>2. Line(PhoneAddrs) \subseteq Line(Addrs)
  <2> SUFFICES ASSUME NEW l \in Line(PhoneAddrs) PROVE l \in Line(Addrs)
    OBVIOUS
  <2>1. CASE l \in OLine(PhoneAddrs)
    <3>1. l \in OLine(Addrs)
      BY <1>1, <2>1 DEF OLine
    <3> QED
      BY <3>1 DEF Line
  <2>2. CASE l \in CLine(PhoneAddrs)
    <3>1. l \in CLine(Addrs)
      BY <1>1, <2>2 DEF CLine
    <3> QED
      BY <3>1 DEF Line
  <2> QED
    BY <2>1, <2>2, Zenon DEF Line
<1> DEFINE X == Line(PhoneAddrs)
           Y == Line(Addrs)
<1> HIDE DEF X, Y
<1>3. X \subseteq Y /\ b \in Seq(X)
  BY <1>2 DEF X, Y
<1>4. b \in Seq(Y)
  BY <1>3
<1> QED
  BY <1>4 DEF Y

(* A rewritten body names the relay and carries the key. *)
LEMMA RelayedRewrite ==
    ASSUME NEW s \in Sides, NEW b \in Seq(Line(Addrs)), Readable(b), NEW key \in KeyOrNone
    PROVE  Sent(s, Rewrite(b, Pbx, RelayPort(s), key), key)
<1> DEFINE port == RelayPort(s)
           r == Rewrite(b, Pbx, port, key)
           i == Parse(b)
           j == Parse(r)
<1>1. port \in Nat \ {0} /\ Pbx # Bad /\ key \in Crypto \cup {None}
  BY OffersAssumption DEF RelayPort, KeyOrNone
<1> HIDE DEF port
<1>2. r \in Seq(Line(Addrs))
  <2>1. PICK p : EditOf(Line(Addrs), b, Line(Addrs \cup {Pbx}), RewriteEdits(b, Pbx, port, key),
                        CryptoLine(key), r, p)
    BY <1>1, RewriteEdit DEF Readable
  <2>2. Addrs \cup {Pbx} = Addrs
    BY DEF Addrs
  <2> QED
    BY <2>1, <2>2 DEF EditOf
<1>3. /\ Readable(r) /\ j = Redirected(i, Pbx, port, key) /\ OneStream(r)
  <2>1. /\ Readable(r) /\ Parse(r) = Redirected(Parse(b), Pbx, port, key)
        /\ \A m \in Lines(r, "m") : r[m].port # 0 => m = Audio(r)
    BY <1>1, RewriteReads
  <2> HIDE DEF r
  <2> QED
    BY <2>1 DEF OneStream
<1>4. RedirectedFields(i, Redirected(i, Pbx, port, key), Pbx, port, key)
  BY RedirectedIs
<1> HIDE DEF r, i, j
<1>5. /\ j.addr \in {Pbx, Zero} /\ j.port \in {0, port}
      /\ j.cryptos = IF key = None THEN <<>> ELSE <<key>>
  BY <1>3, <1>4 DEF RedirectedFields
<1>6. BodyKey(r) = key
  BY <1>5, FirstOne DEF BodyKey, j
<1>7. Relayed(s, r)
  BY <1>1, <1>2, <1>3, <1>5, <1>6 DEF Relayed, j, port, KeyOrNone
<1>8. Sent(s, r, key)
  BY <1>6, <1>7 DEF Sent
<1> QED
  BY <1>8 DEF r, port

(* handleHold's answer: the description last sent, rewritten, turned and   *)
(* bumped.                                                                 *)
LEMMA RelayedAnswer ==
    ASSUME NEW s \in Sides, NEW b, Relayed(s, b), NEW key \in KeyOrNone,
           NEW dir \in Directions
    PROVE  Sent(s, BumpVersion(SetDirection(Rewrite(b, Pbx, RelayPort(s), key), dir)), key)
<1> DEFINE u == Rewrite(b, Pbx, RelayPort(s), key)
           v == SetDirection(u, dir)
           w == BumpVersion(v)
<1>1. b \in Seq(Line(Addrs)) /\ Readable(b)
  BY DEF Relayed
<1>2. Sent(s, u, key)
  BY <1>1, RelayedRewrite
<1> HIDE DEF u
<1>3. /\ u \in Seq(Line(Addrs)) /\ Readable(u) /\ OneStream(u)
      /\ Parse(u).addr \in {Pbx, Zero} /\ Parse(u).port \in {0, RelayPort(s)}
      /\ Parse(u).cryptos = (IF key = None THEN <<>> ELSE <<key>>)
  BY <1>2 DEF Sent, Relayed
<1>4. v \in Seq(Line(Addrs)) /\ Readable(v) /\ Parse(v) = [Parse(u) EXCEPT !.dir = dir]
      /\ OneStream(v)
  BY <1>3, DirectionReads
<1> HIDE DEF v
<1>5. w \in Seq(Line(Addrs)) /\ Readable(w) /\ Parse(w) = Parse(v) /\ OneStream(w)
  BY <1>4, BumpReads
<1> HIDE DEF w
<1>6. /\ Parse(w).addr = Parse(u).addr /\ Parse(w).port = Parse(u).port
      /\ Parse(w).cryptos = Parse(u).cryptos
  <2> DEFINE i == Parse(u)
  <2>1. i = Read(u)
    BY <1>3, ParseReads
  <2>2. "addr" \in DOMAIN i /\ "port" \in DOMAIN i /\ "cryptos" \in DOMAIN i
    BY <2>1 DEF Read
  <2> HIDE DEF i
  <2>3. [i EXCEPT !.dir = dir].addr = i.addr /\ [i EXCEPT !.dir = dir].port = i.port
        /\ [i EXCEPT !.dir = dir].cryptos = i.cryptos
    BY <2>2
  <2> QED
    BY <1>4, <1>5, <2>3 DEF i
<1>7. BodyKey(w) = key
  BY <1>3, <1>6, FirstOne DEF BodyKey
<1>8. Relayed(s, w)
  BY <1>3, <1>5, <1>6, <1>7 DEF Relayed
<1>9. Sent(s, w, key)
  BY <1>7, <1>8 DEF Sent
<1> QED
  BY <1>9 DEF u, v, w

-----------------------------------------------------------------------------
(***************************************************************************)
(* What it sends to a conference leg.                                      *)
(***************************************************************************)

(* What a conference leg's description says. *)
LocalDesc ==
    [ip : {Pbx}, port : {RelayPort("caller")}, ver : Nat, pt : Nat, dtmf : Nat \cup {None},
     dir : Directions, crypto : KeyOrNone]

BuildLines(l) ==
    [o |-> [k |-> "o", ver |-> l.ver, addr |-> l.ip], c |-> [k |-> "c", addr |-> l.ip],
     m |-> [k |-> "m", media |-> "audio", port |-> l.port, srtp |-> l.crypto # None,
            feedback |-> FALSE, fmts |-> IF l.dtmf = None THEN <<l.pt>> ELSE <<l.pt, l.dtmf>>],
     event |-> IF l.dtmf = None THEN <<>> ELSE <<[k |-> "event", pt |-> l.dtmf]>>,
     dir |-> [k |-> "dir", dir |-> l.dir]]

(* The description but for its key. *)
Built(l, b) ==
    /\ b \in Seq(Line(Addrs)) /\ Len(b) \in Nat /\ 3 <= Len(b)
    /\ b[1].k = "o" /\ b[2] = [k |-> "c", addr |-> Pbx]
    /\ b[3].k = "m" /\ b[3].media = "audio" /\ b[3].port = RelayPort("caller")
    /\ b[3].fmts # <<>>
    /\ \A i \in 4..Len(b) : b[i].k \in {"event", "dir"}

(* A list of three lines. *)
LEMMA ThreeLines ==
    ASSUME NEW X, NEW a \in X, NEW b \in X, NEW c \in X
    PROVE  LET s == <<a, b, c>> IN
           s \in Seq(X) /\ Len(s) = 3 /\ s[1] = a /\ s[2] = b /\ s[3] = c
  OBVIOUS

(* Build's description but for its key is what Built describes. *)
LEMMA BuildStart ==
    ASSUME NEW l \in LocalDesc
    PROVE  \E b : Built(l, b) /\ Build(l) = b \o CryptoLine(l.crypto)
<1> DEFINE X == Line(Addrs)
           L == BuildLines(l)
           s == <<L.o, L.c, L.m>>
           w == s \o L.event
           b == w \o <<L.dir>>
<1>0. /\ l.ip = Pbx /\ l.port = RelayPort("caller") /\ l.ver \in Nat /\ l.pt \in Nat
      /\ l.dtmf \in Nat \cup {None} /\ l.dir \in Directions /\ RelayPort("caller") \in Nat
      /\ Pbx \in Addrs
  BY DEF LocalDesc, RelayPort, Addrs
<1>1. Build(l) = b \o CryptoLine(l.crypto)
  BY DEF Build, BuildLines
<1>2. L.o \in X /\ L.o.k = "o"
  <2>1. L.o \in OLine(Addrs) /\ L.o.k = "o"
    BY <1>0 DEF OLine, BuildLines
  <2> HIDE DEF L
  <2> QED
    BY <2>1 DEF Line
<1>3. L.c \in X /\ L.c = [k |-> "c", addr |-> Pbx]
  <2>1. L.c \in CLine(Addrs) /\ L.c = [k |-> "c", addr |-> Pbx]
    BY <1>0 DEF CLine, BuildLines
  <2> HIDE DEF L
  <2> QED
    BY <2>1 DEF Line
<1>4. L.m \in X /\ L.m.k = "m" /\ L.m.media = "audio" /\ L.m.port = RelayPort("caller")
      /\ L.m.fmts # <<>>
  <2> DEFINE fmts == IF l.dtmf = None THEN <<l.pt>> ELSE <<l.pt, l.dtmf>>
             srtp == l.crypto # None
  <2>1. fmts \in Seq(Nat) /\ fmts # <<>>
    BY <1>0
  <2>2. srtp \in BOOLEAN
    OBVIOUS
  <2>3. L.m = [k |-> "m", media |-> "audio", port |-> l.port, srtp |-> srtp,
               feedback |-> FALSE, fmts |-> fmts]
    BY DEF BuildLines
  <2> HIDE DEF L, fmts, srtp
  <2>4. /\ L.m \in MLine /\ L.m.k = "m" /\ L.m.media = "audio"
        /\ L.m.port = RelayPort("caller") /\ L.m.fmts # <<>>
    BY <1>0, <2>1, <2>2, <2>3 DEF MLine
  <2> QED
    BY <2>4 DEF Line
<1>5. /\ L.event \in Seq(X) /\ Len(L.event) \in Nat
      /\ \A i \in 1..Len(L.event) : L.event[i].k = "event"
  <2>1. CASE l.dtmf = None
    <3>1. L.event = <<>>
      BY <2>1 DEF BuildLines
    <3> HIDE DEF L, X
    <3> QED
      BY <3>1
  <2>2. CASE l.dtmf # None
    <3> DEFINE e == [k |-> "event", pt |-> l.dtmf]
    <3>1. L.event = <<e>>
      BY <2>2 DEF BuildLines
    <3>2. e \in EventLine /\ e.k = "event"
      BY <1>0, <2>2 DEF EventLine
    <3> HIDE DEF L, e
    <3>3. e \in X
      BY <3>2 DEF Line
    <3> HIDE DEF X
    <3> QED
      BY <3>1, <3>2, <3>3
  <2> QED
    BY <2>1, <2>2
<1>6. L.dir \in X /\ L.dir.k = "dir"
  <2>1. L.dir \in DirLine /\ L.dir.k = "dir"
    BY <1>0 DEF DirLine, BuildLines
  <2> HIDE DEF L
  <2> QED
    BY <2>1 DEF Line
<1> DEFINE o == L.o  c == L.c  m == L.m  ev == L.event  dir == L.dir  n == Len(ev)
<1>7. /\ o \in X /\ c \in X /\ m \in X /\ ev \in Seq(X) /\ dir \in X /\ n \in Nat
      /\ \A i \in 1..n : ev[i].k = "event"
  BY <1>2, <1>3, <1>4, <1>5, <1>6
<1>8. /\ o.k = "o" /\ c = [k |-> "c", addr |-> Pbx] /\ dir.k = "dir"
      /\ m.k = "m" /\ m.media = "audio" /\ m.port = RelayPort("caller") /\ m.fmts # <<>>
  BY <1>2, <1>3, <1>4, <1>6
<1>9. s = <<o, c, m>> /\ w = s \o ev /\ b = w \o <<dir>>
  OBVIOUS
<1> HIDE DEF L, X, o, c, m, ev, dir, n, s, w, b
<1>10. s \in Seq(X) /\ Len(s) = 3 /\ s[1] = o /\ s[2] = c /\ s[3] = m
  BY <1>7, <1>9, ThreeLines
<1>11. /\ w \in Seq(X) /\ Len(w) = 3 + n
       /\ \A i \in 1..3 : w[i] = s[i]
       /\ \A i \in 1..n : w[3 + i] = ev[i]
  <2>1. Joined(X, s, ev, w)
    BY <1>7, <1>9, <1>10, ConcatLines
  <2> QED
    BY <1>10, <2>1 DEF Joined, n
<1>12. /\ b \in Seq(X) /\ Len(b) = 3 + n + 1
       /\ \A i \in 1 .. 3 + n : b[i] = w[i]
       /\ b[3 + n + 1] = dir
  <2>1. <<dir>> \in Seq(X) /\ Len(<<dir>>) = 1 /\ <<dir>>[1] = dir
    BY <1>7
  <2> DEFINE t == <<dir>>
  <2>2. t \in Seq(X) /\ Len(t) = 1 /\ t[1] = dir /\ b = w \o t
    BY <1>9, <2>1
  <2> HIDE DEF t
  <2>3. Joined(X, w, t, b)
    BY <1>11, <2>2, ConcatLines
  <2>4. 1 \in 1..1
    OBVIOUS
  <2> QED
    BY <1>11, <2>2, <2>3, <2>4 DEF Joined
<1>13. b[1] = o /\ b[2] = c /\ b[3] = m
  <2>1. \A i \in 1..3 : i \in 1 .. 3 + n
    BY <1>7
  <2> QED
    BY <1>10, <1>11, <1>12, <2>1
<1>14. \A i \in 4..Len(b) : b[i].k \in {"event", "dir"}
  <2> SUFFICES ASSUME NEW i \in 4 .. 3 + n + 1 PROVE b[i].k \in {"event", "dir"}
    BY <1>12
  <2>1. CASE i = 3 + n + 1
    BY <1>8, <1>12, <2>1
  <2>2. CASE i # 3 + n + 1
    <3> DEFINE j == i - 3
    <3>1. j \in 1..n /\ 3 + j = i /\ i \in 1 .. 3 + n
      BY <1>7, <2>2
    <3> HIDE DEF j
    <3>2. b[i] = ev[j]
      BY <1>11, <1>12, <3>1
    <3> QED
      BY <1>7, <3>1, <3>2
  <2> QED
    BY <2>1, <2>2
<1>15. Built(l, b)
  BY <1>7, <1>8, <1>12, <1>13, <1>14 DEF Built, X
<1> QED
  BY <1>1, <1>15

(* With its key it names the relay. *)
LEMMA BuiltKey ==
    ASSUME NEW l \in LocalDesc, NEW b, Built(l, b)
    PROVE  Sent("caller", b \o CryptoLine(l.crypto), l.crypto)
<1> DEFINE X == Line(Addrs)
           key == l.crypto
           x == CryptoLine(key)
           r == b \o x
           m == Len(b)
           n == Len(r)
<1>0. /\ key \in Crypto \cup {None}
      /\ b \in Seq(X) /\ m \in Nat /\ 3 <= m
      /\ b[1].k = "o" /\ b[2] = [k |-> "c", addr |-> Pbx]
      /\ b[3].k = "m" /\ b[3].media = "audio" /\ b[3].port = RelayPort("caller")
      /\ b[3].fmts # <<>>
      /\ \A i \in 4..m : b[i].k \in {"event", "dir"}
  BY DEF Built, LocalDesc, KeyOrNone
<1>1. /\ x \in Seq(X) /\ Len(x) <= 1 /\ Len(x) \in Nat /\ (x = <<>> <=> key = None)
      /\ key # None => x = <<KeyAttr(key)>> /\ x[1] = KeyAttr(key)
  <2>1. LET y == CryptoLine(key) IN
           /\ y \in Seq(Line(Addrs)) /\ Len(y) <= 1
           /\ y = <<>> <=> key = None
           /\ key # None => /\ y = <<KeyAttr(key)>> /\ y[1] = KeyAttr(key)
                            /\ KeyAttr(key) \in KeyLine
    <3> HIDE DEF key
    <3> QED
      BY <1>0, CryptoLineIs
  <2> HIDE DEF key, x
  <2> QED
    BY <2>1 DEF x
<1> HIDE DEF X, key, x, m
<1>2. /\ r \in Seq(X) /\ n = m + Len(x) /\ \A i \in 1..m : r[i] = b[i]
      /\ \A i \in 1..Len(x) : r[m + i] = x[i]
  <2>1. Joined(X, b, x, r)
    BY <1>0, <1>1, ConcatLines
  <2> HIDE DEF r
  <2> QED
    BY <1>0, <2>1 DEF Joined, m, n
<1> HIDE DEF r, n
<1>3. /\ n \in Nat /\ m <= n /\ DOMAIN r = 1..n /\ NoLine \notin X
      /\ r[1].k = "o" /\ r[2] = [k |-> "c", addr |-> Pbx] /\ r[3] = b[3]
  <2>1. DOMAIN r = 1..n
    BY <1>2 DEF n
  <2>2. 1 \in 1..m /\ 2 \in 1..m /\ 3 \in 1..m
    BY <1>0
  <2>3. n \in Nat /\ m <= n
    BY <1>0, <1>1, <1>2
  <2>4. NoLine \notin X
    BY NoLineApart DEF X
  <2> QED
    BY <1>0, <1>2, <2>1, <2>2, <2>3, <2>4
<1>4. ASSUME NEW i \in 4..n
      PROVE  /\ r[i].k \in {"event", "dir", "crypto"}
             /\ r[i].k = "crypto" => i = n /\ key # None /\ r[i] = KeyAttr(key)
  <2>1. CASE i <= m
    <3>1. i \in 1..m /\ i \in 4..m
      BY <1>0, <2>1
    <3>2. r[i] = b[i]
      BY <1>2, <3>1
    <3>3. b[i].k \in {"event", "dir"}
      BY <1>0, <3>1
    <3> QED
      BY <3>2, <3>3
  <2>2. CASE ~(i <= m)
    <3>1. Len(x) = 1 /\ i = m + 1 /\ 1 \in 1..Len(x) /\ n = m + 1
      BY <1>0, <1>1, <1>2, <1>3, <2>2
    <3>2. x # <<>>
      <4>1. \/ x = <<>> /\ Len(x) = 0
            \/ x # <<>> /\ Len(x) = 1 /\ x[1] \in X
        BY <1>1, Short
      <4> QED
        BY <3>1, <4>1
    <3>3. r[i] = x[1]
      BY <1>2, <3>1
    <3> QED
      BY <1>1, <3>1, <3>2, <3>3 DEF KeyAttr
  <2> QED
    BY <2>1, <2>2
<1>5. Lines(r, "m") = {3} /\ AudioLines(r) = {3}
  <2>1. 3 \in 1..n /\ r[3].k = "m" /\ r[3].media = "audio"
    BY <1>0, <1>3
  <2>2. \A i \in 1..n : i = 1 \/ i = 2 \/ i = 3 \/ i \in 4..n
    BY <1>3
  <2>3. \A i \in 1..n : r[i].k = "m" => i = 3
    BY <1>3, <1>4, <2>2
  <2>4. Lines(r, "m") = {3}
    BY <1>3, <2>1, <2>3 DEF Lines
  <2> QED
    BY <2>1, <2>4 DEF AudioLines
<1>6. Audio(r) = 3 /\ AudioEnd(r) = n
  <2>1. 3 \in AudioLines(r) /\ \A i \in AudioLines(r) : 3 <= i
    BY <1>5
  <2>2. n \in 3..Len(r) /\ n = Len(r) /\ 3 + 1 = 4
    BY <1>0, <1>3 DEF n
  <2>3. \A i \in 4..n : r[i].k # "m"
    BY <1>4
  <2> QED
    BY <1>2, <2>1, <2>2, <2>3, StreamIs
<1>7. InAudio(r) = 4..n /\ InSession(r) = 1..2
  <2>1. InAudio(r) = 4..n
    BY <1>5, <1>6 DEF InAudio
  <2>2. InSession(r) = {i \in 1..Len(r) : \A j \in Lines(r, "m") : i < j}
    BY <1>2, SessionLines
  <2>3. InSession(r) = {i \in 1..n : i < 3}
    BY <1>5, <2>2 DEF n
  <2>4. {i \in 1..n : i < 3} = 1..2
    BY <1>0, <1>3
  <2> QED
    BY <2>1, <2>3, <2>4
<1>8. Addresses(r) = {2}
  <2>1. 2 \in 1..n /\ Pbx # Bad
    BY <1>0, <1>3, OffersAssumption
  <2>2. \A i \in 1..n : i = 1 \/ i = 2 \/ i = 3 \/ i \in 4..n
    BY <1>3
  <2>3. \A i \in 1..n : r[i].k = "c" => i = 2
    BY <1>0, <1>3, <1>4, <2>2
  <2> QED
    BY <1>3, <2>1, <2>3 DEF Addresses, Lines
<1>9. Conn(r) = r[2] /\ Conn(r) # NoLine
  <2>1. {2} \subseteq 1..Len(r)
    BY <1>0, <1>3 DEF n
  <2>2. Chosen(r, {2}) = {2}
    BY <1>7 DEF Chosen
  <2>3. Effective(r, InAudio(r), {2}) = LastOf(r, Chosen(r, {2}))
    BY <1>2, <1>3, <2>1, EffectiveLine
  <2>4. Max({2}) \in {2} /\ LastOf(r, {2}) = r[Max({2})] /\ LastOf(r, {2}) \in X
    BY <1>2, <2>1, LastLine
  <2> QED
    BY <1>3, <1>8, <2>2, <2>3, <2>4 DEF Conn
<1>10. Cryptos(r) = IF key = None THEN <<>> ELSE <<key>>
  <2> DEFINE T == {l1 \in ToSet(r) : l1.k = "crypto" /\ l1.key # Bad}
             t == SubSeq(r, 3, n)
             u == SubSeq(r, 3, n - 1)
  <2>1. t \in Seq(X) /\ u \in Seq(X) /\ t = Append(u, r[n])
    <3>1. 3 \in 1..Len(r) /\ n \in 3..Len(r)
      BY <1>0, <1>3 DEF n
    <3> QED
      BY <1>2, <3>1, NextLine
  <2>2. ASSUME NEW i \in 3..n, i # n \/ key = None PROVE r[i] \notin T
    <3>1. i = 3 \/ i \in 4..n
      OBVIOUS
    <3>2. r[3].k = "m"
      BY <1>0, <1>3
    <3> QED
      BY <1>4, <2>2, <3>1, <3>2
  <2>3. Cryptos(r) = KeysOf(Kept(t, T))
    BY <1>6 DEF Cryptos, KeysOf, KeyOf
  <2>4. CASE key = None
    <3>1. \A i \in 1..Len(t) : t[i] \notin T
      <4>1. Len(t) = n - 3 + 1 /\ \A i \in 1 .. n - 3 + 1 : t[i] = r[3 + i - 1]
        <5> HIDE DEF T
        <5>1. 3 \in Nat /\ n \in Nat /\ 3 <= n + 1 /\ n <= Len(r)
          BY <1>0, <1>3 DEF n
        <5>2. 3 \in 1..Len(r) /\ n \in 3..Len(r)
          BY <1>0, <1>3 DEF n
        <5> QED
          BY <1>2, <5>1, <5>2, SubSeqProperties
      <4> SUFFICES ASSUME NEW i \in 1 .. n - 3 + 1 PROVE t[i] \notin T
        BY <4>1
      <4>2. 3 + i - 1 \in 3..n
        BY <1>3
      <4>3. r[3 + i - 1] \notin T
        <5> DEFINE j == 3 + i - 1
        <5>1. j \in 3..n
          BY <4>2
        <5> HIDE DEF j, T
        <5>2. r[j] \notin T
          BY <2>2, <2>4, <5>1
        <5> QED
          BY <5>2 DEF j
      <4> HIDE DEF t, T
      <4> QED
        BY <4>1, <4>3
    <3> HIDE DEF t, T
    <3>2. Kept(t, T) = <<>>
      BY <2>1, <3>1, KeptNone
    <3>3. KeysOf(<<>>) = <<>>
      BY DEF KeysOf
    <3> QED
      BY <2>3, <2>4, <3>2, <3>3
  <2>5. CASE key # None
    <3>1. \A i \in 1..Len(u) : u[i] \notin T
      <4>1. Len(u) = n - 3 /\ \A i \in 1 .. n - 3 : u[i] = r[i + 2]
        <5> HIDE DEF T
        <5>1. /\ Len(u) = (n - 1) - 3 + 1
              /\ \A i \in 1 .. (n - 1) - 3 + 1 : u[i] = r[3 + i - 1]
          <6>1. 3 \in Nat /\ n - 1 \in Nat /\ 3 \in 1..Len(r) /\ 3 \in 1 .. Len(r) + 1
                /\ n - 1 \in 2..Len(r) /\ n - 1 \in 0..Len(r) /\ n - 1 \in 3 - 1 .. Len(r)
            BY <1>0, <1>3 DEF n
          <6> QED
            BY <1>2, <6>1, SubSeqProperties
        <5>2. (n - 1) - 3 + 1 = n - 3
          BY <1>3
        <5>3. \A i \in 1 .. n - 3 : 3 + i - 1 = i + 2
          BY <1>3
        <5> HIDE DEF u
        <5> QED
          BY <5>1, <5>2, <5>3
      <4> SUFFICES ASSUME NEW i \in 1 .. n - 3 PROVE u[i] \notin T
        BY <4>1
      <4> DEFINE j == i + 2
      <4>2. j \in 3..n /\ j # n
        BY <1>3
      <4>3. u[i] = r[j]
        BY <4>1
      <4> HIDE DEF u, T, j
      <4> QED
        BY <2>2, <4>2, <4>3
    <3>2. r[n] = KeyAttr(key) /\ n \in 4..n
      <4>1. Len(x) = 1 /\ n = m + 1 /\ 1 \in 1..Len(x)
        <5>1. x = <<KeyAttr(key)>>
          BY <1>1, <2>5
        <5>2. Len(x) = 1
          BY <5>1
        <5> QED
          BY <1>2, <5>2
      <4>2. r[n] = x[1]
        BY <1>2, <4>1
      <4> QED
        BY <1>0, <1>1, <2>5, <4>1, <4>2
    <3>3. r[n] \in T /\ r[n] \in X
      <4>1. n \in 1..n
        BY <3>2
      <4>2. r[n] \in ToSet(r)
        BY <1>3, <4>1 DEF ToSet
      <4>3. r[n].k = "crypto" /\ r[n].key = key.key
        BY <3>2 DEF KeyAttr
      <4>4. key \in Crypto
        BY <1>0, <2>5
      <4>5. key.key # Bad
        BY <4>4, SdpAssumption DEF Crypto
      <4>6. r[n] \in X
        BY <1>2, <1>3, <4>1
      <4> QED
        BY <4>2, <4>3, <4>5, <4>6
    <3> HIDE DEF t, T, u
    <3>4. Kept(u, T) = <<>>
      BY <2>1, <3>1, KeptNone
    <3>5. Kept(t, T) = Append(<<>>, r[n])
      <4> DEFINE v == r[n]
      <4>1. v \in X /\ v \in T /\ u \in Seq(X) /\ t = Append(u, v)
        BY <2>1, <3>3
      <4> HIDE DEF v
      <4>2. Kept(Append(u, v), T) = IF v \in T THEN Append(Kept(u, T), v) ELSE Kept(u, T)
        BY <4>1, KeptAppend
      <4>3. Kept(t, T) = Append(<<>>, v)
        BY <3>4, <4>1, <4>2
      <4> QED
        BY <4>3 DEF v
    <3>6. KeysOf(Kept(t, T)) = <<key>>
      <4>1. KeysOf(Append(<<>>, r[n])) = Append(KeysOf(<<>>), KeyOf(r[n]))
        <5>1. <<>> \in Seq(X)
          OBVIOUS
        <5> QED
          BY <3>3, <5>1, KeysOfAppend
      <4>2. KeysOf(<<>>) = <<>>
        BY DEF KeysOf
      <4>3. KeyOf(r[n]) = key
        <5>1. key \in Crypto
          BY <1>0, <2>5
        <5> QED
          BY <3>2, <5>1 DEF KeyOf, KeyAttr, Crypto
      <4> QED
        BY <3>5, <4>1, <4>2, <4>3
    <3> QED
      BY <2>3, <2>5, <3>6
  <2> QED
    BY <2>4, <2>5
<1>11. Readable(r) /\ OneStream(r)
  BY <1>0, <1>3, <1>5, <1>6, <1>9 DEF Readable, Media, OneStream
<1>12. /\ Parse(r).addr = Pbx /\ Parse(r).port = RelayPort("caller")
       /\ Parse(r).cryptos = IF key = None THEN <<>> ELSE <<key>>
  <2>1. Parse(r) = Read(r)
    BY <1>11, ParseReads
  <2>2. /\ Read(r).addr = Conn(r).addr /\ Read(r).port = Media(r).port
        /\ Read(r).cryptos = Cryptos(r)
    BY DEF Read
  <2> QED
    BY <1>0, <1>3, <1>6, <1>9, <1>10, <2>1, <2>2 DEF Media
<1>13. BodyKey(r) = key
  BY <1>12, FirstOne DEF BodyKey
<1>14. Relayed("caller", r)
  BY <1>0, <1>2, <1>11, <1>12, <1>13 DEF Relayed, KeyOrNone, X
<1>15. Sent("caller", r, key)
  BY <1>13, <1>14 DEF Sent
<1> QED
  BY <1>15 DEF r, x, key

(* What Build makes of the description of a conference leg names the relay *)
(* and carries its key.                                                    *)
LEMMA RelayedBuild ==
    ASSUME NEW l \in LocalDesc
    PROVE  Sent("caller", Build(l), l.crypto)
<1>1. PICK b : Built(l, b) /\ Build(l) = b \o CryptoLine(l.crypto)
  BY BuildStart
<1>2. Sent("caller", b \o CryptoLine(l.crypto), l.crypto)
  BY <1>1, BuiltKey
<1> QED
  BY <1>1, <1>2

-----------------------------------------------------------------------------
(***************************************************************************)
(* The inductive invariant. TypeInv: the types. CallInv: the relay         *)
(* encrypts for a phone with the key that the PBX would offer it, and      *)
(* decrypts only if it encrypts. RingInv and FwdInv: what the relay has    *)
(* taken of the offer that is with the other phone. UpInv: KeysAgree, and  *)
(* what sdpTo says for a refresh. RoomInv: the description of a conference *)
(* leg carries the key of its endpoint. NameInv: every body sent, or kept  *)
(* for a hold or a refresh, names the relay. OwnInv: the key numbers of    *)
(* the two sides are apart.                                                *)
(***************************************************************************)

LegState == [in : KeyOrNone, out : KeyOrNone, port : Nat]
PhoneState == [send : KeyOrNone, recv : KeyOrNone, port : Nat]
Bodies == Seq(Line(Addrs))

TypeInv ==
    /\ kind \in {"call", "room"} /\ stage \in {"idle", "ringing", "up", "fwd", "over"}
    /\ made \in Nat
    /\ keys \in [Sides -> KeyOrNone] /\ secure \in [Sides -> BOOLEAN]
    /\ spoiled \in [Sides -> BOOLEAN] /\ stale \in [Sides -> BOOLEAN]
    /\ phone \in [Sides -> PhoneState] /\ leg \in [Sides -> LegState]
    /\ sent \in [Sides -> Bodies] /\ sdpTo \in [Sides -> Bodies]

Silent == [in |-> None, out |-> None, port |-> 0]
Unused == [send |-> None, recv |-> None, port |-> 0]

IdleInv ==
    stage = "idle" =>
        /\ keys = Each(None) /\ secure = Each(FALSE)
        /\ leg = Each(Silent) /\ phone = Each(Unused)
        /\ sent = Each(<<>>) /\ sdpTo = Each(<<>>)

Agrees(s) ==
    /\ SameKey(leg[s].in, phone[s].send)
    /\ SameKey(leg[s].out, phone[s].recv)
    /\ leg[s].port = phone[s].port

CallSide(s) ==
    /\ leg[s].out = OfferKey(s)
    /\ leg[s].in = None <=> leg[s].out = None
    /\ secure[s] => keys[s] # None
CallInv == kind = "call" /\ stage # "over" => \A s \in Sides : CallSide(s)

(* Where the relay sends to once offer d of side s was taken. *)
PortTaken(s, d) == leg[s].port = IF d.zero THEN phone[s].port ELSE d.port

RingInv ==
    stage = "ringing" =>
        /\ kind = "call" /\ keys["callee"] # None
        /\ Took("caller", ex.offer, OfferKey("caller"), leg["caller"].in)
        /\ PortTaken("caller", ex.offer)

FwdInv ==
    stage = "fwd" =>
        /\ kind = "call" /\ ex.from \in Sides /\ ex.mends \in BOOLEAN
        /\ ex.offered = OfferKey(Other(ex.from)) /\ ex.answerKey = OfferKey(ex.from)
        /\ spoiled[ex.from] /\ stale[ex.from]
        /\ Took(ex.from, ex.offer, ex.answerKey, leg[ex.from].in)
        /\ ex.mends => PortTaken(ex.from, ex.offer)

UpSide(s) ==
    /\ ~spoiled[s] => Agrees(s)
    /\ kind = "call" => sdpTo[s] # <<>>
    /\ kind = "call" /\ ~stale[s] => SameKey(BodyKey(sdpTo[s]), OfferKey(s))
UpInv == stage \in {"up", "fwd"} => \A s \in Sides : UpSide(s)

RoomInv ==
    kind = "room" =>
        /\ stage \in {"idle", "up", "over"}
        /\ leg["callee"] = Silent /\ phone["callee"] = Unused
        /\ stage = "up" =>
               /\ local \in LocalDesc /\ local.crypto = leg["caller"].out
               /\ leg["caller"].in = None <=> leg["caller"].out = None
               /\ local.crypto # None => local.crypto = keys["caller"]

NameSide(s) ==
    /\ sent[s] # <<>> => Relayed(s, sent[s])
    /\ sdpTo[s] # <<>> => Relayed(s, sdpTo[s])
NameInv == \A s \in Sides : NameSide(s)

(* The numbers of the keys made for a side's phone.                        *)
BodyNum(b) == IF b = <<>> THEN {} ELSE KeyNum(BodyKey(b))
Owned(s) == KeyNum(keys[s]) \cup BodyNum(sent[s]) \cup BodyNum(sdpTo[s])
OwnInv ==
    /\ \A s \in Sides : Owned(s) \subseteq 1..made
    /\ Owned("caller") \cap Owned("callee") = {}

SideInv == CallInv /\ UpInv
TalkInv == RingInv /\ FwdInv /\ RoomInv /\ IdleInv
NegInv == TypeInv /\ SideInv /\ TalkInv /\ NameInv /\ OwnInv

-----------------------------------------------------------------------------
(* The two sides of a call. *)
LEMMA OtherSide ==
    ASSUME NEW s \in Sides
    PROVE  Other(s) \in Sides /\ Other(s) # s /\ Sides = {s, Other(s)} /\ Other(Other(s)) = s
  BY DEF Sides, Other

(* A key is the same as itself. *)
LEMMA SameKeyEqual ==
    ASSUME NEW a, NEW b, a = b
    PROVE  SameKey(a, b)
  BY DEF SameKey

(* What a body that the PBX sends says. *)
LEMMA SentFacts ==
    ASSUME NEW s, NEW b, NEW key, Sent(s, b, key)
    PROVE  /\ b \in Bodies /\ b # <<>> /\ BodyKey(b) = key /\ Relayed(s, b)
           /\ BodyNum(b) \subseteq KeyNum(key)
<1>1. b \in Bodies /\ BodyKey(b) = key /\ Relayed(s, b) /\ AudioLines(b) # {}
  BY DEF Sent, Relayed, Bodies, Readable
<1>2. b # <<>>
  <2>1. AudioLines(<<>>) = {}
    BY DEF AudioLines, Lines
  <2> QED
    BY <1>1, <2>1
<1>3. BodyNum(b) \subseteq KeyNum(key)
  BY <1>1 DEF BodyNum
<1> QED
  BY <1>1, <1>2, <1>3

(* The key that an offer to a side carries is of that side. *)
LEMMA OfferKeyTyped ==
    ASSUME TypeInv, NEW s \in Sides
    PROVE  /\ OfferKey(s) \in KeyOrNone /\ keys[s] \in KeyOrNone
           /\ KeyNum(OfferKey(s)) \subseteq KeyNum(keys[s])
           /\ KeyNum(keys[s]) \subseteq Owned(s)
<1>1. keys[s] \in KeyOrNone
  BY DEF TypeInv
<1>2. OfferKey(s) \in {keys[s], None}
  BY DEF OfferKey
<1> QED
  BY <1>1, <1>2 DEF KeyOrNone, KeyNum, Owned

(* The invariant holds at the start. *)
LEMMA InitInv == Init => NegInv
<1> SUFFICES ASSUME Init PROVE NegInv
  OBVIOUS
<1> USE DEF Init
<1>1. None \in KeyOrNone /\ <<>> \in Bodies
  BY DEF KeyOrNone, Bodies
<1>2. Silent \in LegState /\ Unused \in PhoneState
  BY <1>1 DEF Silent, Unused, LegState, PhoneState
<1>3. leg = Each(Silent) /\ phone = Each(Unused)
  BY DEF Silent, Unused
<1>4. TypeInv
  <2> HIDE DEF Init
  <2>1. /\ kind \in {"call", "room"} /\ stage = "idle" /\ made = 0
        /\ keys = Each(None) /\ secure = Each(FALSE) /\ spoiled = Each(FALSE)
        /\ stale = Each(FALSE) /\ sent = Each(<<>>) /\ sdpTo = Each(<<>>)
    BY DEF Init
  <2>2. \A S : \A x \in S : Each(x) \in [Sides -> S]
    BY DEF Each
  <2> HIDE DEF Silent, Unused, LegState, PhoneState, Bodies, Each
  <2>3. keys \in [Sides -> KeyOrNone] /\ sent \in [Sides -> Bodies] /\ sdpTo \in [Sides -> Bodies]
    BY <1>1, <2>1, <2>2
  <2>4. leg \in [Sides -> LegState] /\ phone \in [Sides -> PhoneState]
    BY <1>2, <1>3, <2>2
  <2>5. /\ secure \in [Sides -> BOOLEAN] /\ spoiled \in [Sides -> BOOLEAN]
        /\ stale \in [Sides -> BOOLEAN]
    BY <2>1, <2>2
  <2> QED
    BY <2>1, <2>3, <2>4, <2>5 DEF TypeInv
<1>5. CallInv
  <2> SUFFICES ASSUME NEW s \in Sides PROVE CallSide(s)
    BY DEF CallInv
  <2>1. leg[s] = Silent /\ secure[s] = FALSE
    BY <1>3 DEF Each
  <2> HIDE DEF Init
  <2>2. OfferKey(s) = None /\ ~secure[s]
    BY <2>1 DEF OfferKey
  <2>3. leg[s].in = None /\ leg[s].out = None
    BY <2>1 DEF Silent
  <2> QED
    BY <2>2, <2>3 DEF CallSide
<1>6. UpInv /\ RingInv /\ FwdInv
  BY DEF UpInv, RingInv, FwdInv
<1>7. IdleInv
  BY <1>3 DEF IdleInv
<1>8. RoomInv
  <2>1. leg["callee"] = Silent /\ phone["callee"] = Unused
    BY <1>3 DEF Each, Sides
  <2> QED
    BY <2>1 DEF RoomInv
<1>9. \A s \in Sides : sent[s] = <<>> /\ sdpTo[s] = <<>> /\ keys[s] = None
  BY DEF Each
<1>10. NameInv
  BY <1>9 DEF NameInv, NameSide
<1>11. OwnInv
  <2>1. \A s \in Sides : Owned(s) = {}
    BY <1>9 DEF Owned, BodyNum, KeyNum
  <2> QED
    BY <2>1 DEF OwnInv, Sides
<1> QED
  BY <1>4, <1>5, <1>6, <1>7, <1>8, <1>10, <1>11 DEF NegInv, SideInv, TalkInv

(* A step that gives one side new numbers and the other none.              *)
LEMMA OwnGrows ==
    ASSUME OwnInv, made \in Nat, made' \in Nat, made <= made', NEW s \in Sides,
           NEW N, N \subseteq made + 1 .. made',
           Owned(s)' \subseteq Owned(s) \cup N,
           Owned(Other(s))' \subseteq Owned(Other(s))
    PROVE  OwnInv'
<1>1. \A t \in Sides : Owned(t) \subseteq 1..made
  BY DEF OwnInv
<1>2. \A t \in Sides : Owned(t)' \subseteq Owned(t) \cup N
  BY OtherSide
<1>3. \A t \in Sides : Owned(t)' \subseteq 1..made'
  <2>1. 1..made \subseteq 1..made' /\ N \subseteq 1..made'
    OBVIOUS
  <2> QED
    BY <1>1, <1>2, <2>1, Zenon
<1>4. Owned("caller")' \cap Owned("callee")' = {}
  <2>1. Owned("caller") \cap Owned("callee") = {}
    BY DEF OwnInv
  <2>2. N \cap (1..made) = {}
    OBVIOUS
  <2>3. \/ s = "caller" /\ Other(s) = "callee"
        \/ s = "callee" /\ Other(s) = "caller"
    BY DEF Sides, Other
  <2>4. CASE s = "caller" /\ Other(s) = "callee"
    <3>1. Owned("callee") \subseteq 1..made
      BY <1>1 DEF Sides
    <3>2. Owned("caller")' \subseteq Owned("caller") \cup N
          /\ Owned("callee")' \subseteq Owned("callee")
      BY <2>4
    <3> QED
      BY <2>1, <2>2, <3>1, <3>2
  <2>5. CASE s = "callee" /\ Other(s) = "caller"
    <3>1. Owned("caller") \subseteq 1..made
      BY <1>1 DEF Sides
    <3>2. Owned("callee")' \subseteq Owned("callee") \cup N
          /\ Owned("caller")' \subseteq Owned("caller")
      BY <2>5
    <3> QED
      BY <2>1, <2>2, <3>1, <3>2
  <2> QED
    BY <2>3, <2>4, <2>5
<1> QED
  BY <1>3, <1>4 DEF OwnInv

(* A step that gives no side new numbers. *)
LEMMA OwnKept ==
    ASSUME OwnInv, UNCHANGED made, \A s \in Sides : Owned(s)' \subseteq Owned(s)
    PROVE  OwnInv'
<1>1. "caller" \in Sides /\ "callee" \in Sides
  BY DEF Sides
<1> QED
  BY <1>1 DEF OwnInv

-----------------------------------------------------------------------------
(***************************************************************************)
(* What the relay and the call take of an offer and of an answer.          *)
(***************************************************************************)

(* What the relay takes of an offer, side by side. *)
RemoteIs(l, info, d, r) ==
    r \in LegState /\ r.in = l.in /\ r.out = l.out /\ r.port = IF d.zero THEN l.port ELSE d.port

(* SetRemote takes the address of an offer unless it is a hold. *)
LEMMA RemoteTakes ==
    ASSUME NEW l \in LegState, NEW d, NEW info, Heard(d, info), info.ok
    PROVE  RemoteIs(l, info, d, Remote(l, info))
<1>1. /\ info.addr = (IF d.zero THEN Zero ELSE PhoneAddr) /\ info.port = d.port
      /\ d.port \in Nat /\ d.port # 0 /\ d.zero \in BOOLEAN /\ PhoneAddr # Zero
  BY OffersAssumption DEF Heard
<1>2. CASE d.zero
  <2>1. Remote(l, info) = l
    BY <1>1, <1>2 DEF Remote
  <2> QED
    BY <1>2, <2>1 DEF RemoteIs
<1>3. CASE ~d.zero
  <2> DEFINE r == [l EXCEPT !.port = d.port]
  <2>1. Remote(l, info) = r
    BY <1>1, <1>3 DEF Remote
  <2>2. r \in LegState /\ r.in = l.in /\ r.out = l.out /\ r.port = d.port
    BY <1>1 DEF LegState
  <2> HIDE DEF r
  <2> QED
    BY <1>3, <2>1, <2>2 DEF RemoteIs
<1> QED
  BY <1>1, <1>2, <1>3

OfferTaken(s, d, L) ==
    LET info == OfferInfo[d] IN
    /\ L \in [Sides -> LegState]
    /\ L[s].in = OfferedKey(info) /\ L[s].out = AnswerKey(s, info)
    /\ L[s].port = (IF d.zero THEN leg[s].port ELSE d.port)
    /\ L[Other(s)] = leg[Other(s)]

(* acceptOffer takes an offer: its key, its address and the key it is      *)
(* answered with.                                                          *)
LEMMA TakeOfferIs ==
    ASSUME TypeInv, NEW s \in Sides, NEW d \in OffersOf[s], OfferInfo[d].ok,
           OfferUsable(OfferInfo[d])
    PROVE  /\ Answered(s, d, AnswerKey(s, OfferInfo[d]), OfferedKey(OfferInfo[d]))
           /\ OfferTaken(s, d, TakeOffer(s, OfferInfo[d]))
<1> DEFINE info == OfferInfo[d]
           ours == AnswerKey(s, info)
           in == OfferedKey(info)
           l == leg[s]
           r == Remote(l, info)
           u == [r EXCEPT !.in = in, !.out = ours]
           L == [leg EXCEPT ![s] = u]
<1>1. leg \in [Sides -> LegState] /\ keys[s] \in KeyOrNone /\ made \in Nat
  BY DEF TypeInv
<1>2. Answered(s, d, ours, in)
  BY <1>1, AnswerKeyIs
<1>3. Heard(d, info) /\ info.ok
  <2>1. d \in Offer /\ info = Parse(Body(d))
    BY OfferTyped
  <2> QED
    BY <2>1, OfferHeard
<1>4. TakeOffer(s, info) = L
  BY DEF TakeOffer, OfferedKey
<1>5. in \in KeyOrNone /\ ours \in KeyOrNone
  BY <1>2 DEF Answered
<1>6. l \in LegState
  BY <1>1
<1> HIDE DEF info, ours, in, l
<1>7. RemoteIs(l, info, d, r)
  BY <1>3, <1>6, RemoteTakes
<1> HIDE DEF r
<1>8. u \in LegState /\ u.in = in /\ u.out = ours /\ u.port = IF d.zero THEN l.port ELSE d.port
  <2>1. r \in LegState /\ r.port = IF d.zero THEN l.port ELSE d.port
    BY <1>7 DEF RemoteIs
  <2>2. u \in LegState /\ u.in = in /\ u.out = ours /\ u.port = r.port
    BY <1>5, <2>1 DEF LegState
  <2> QED
    BY <2>1, <2>2
<1> HIDE DEF u
<1>9. L \in [Sides -> LegState] /\ L[s] = u /\ L[Other(s)] = leg[Other(s)]
  BY <1>1, <1>8, OtherSide
<1> HIDE DEF L
<1>10. OfferTaken(s, d, L)
  BY <1>8, <1>9 DEF OfferTaken, info, ours, in, l
<1> QED
  BY <1>2, <1>4, <1>10 DEF info, ours, in

(* The number of the key in the answer is the PBX's old one or new.        *)
LEMMA MadeForIs ==
    ASSUME made \in Nat, NEW key \in KeyOrNone, NEW K, K \subseteq 1..made,
           KeyNum(key) \subseteq K \cup {made + 1}
    PROVE  /\ MadeFor(key) \in Nat /\ made <= MadeFor(key)
           /\ KeyNum(key) \subseteq K \cup (made + 1 .. MadeFor(key))
<1>1. CASE key = None
  BY <1>1 DEF MadeFor, KeyNum
<1>2. CASE key # None
  <2> DEFINE k == key.key
  <2>1. KeyNum(key) = {k} /\ k \in K \cup {made + 1}
    BY <1>2 DEF KeyNum
  <2>2. MadeFor(key) = IF k > made THEN k ELSE made
    BY <1>2 DEF MadeFor
  <2> HIDE DEF k
  <2>3. CASE k \in K
    BY <2>1, <2>2, <2>3
  <2>4. CASE k = made + 1
    BY <2>1, <2>2, <2>4
  <2> QED
    BY <2>1, <2>3, <2>4
<1> QED
  BY <1>1, <1>2

-----------------------------------------------------------------------------
(* What the relay and the call take of an answer. *)
AnswerEffect(s, d, info, offered) ==
    /\ leg' \in [Sides -> LegState] /\ keys' \in [Sides -> KeyOrNone]
    /\ secure' \in [Sides -> BOOLEAN]
    /\ leg'[Other(s)] = leg[Other(s)] /\ keys'[Other(s)] = keys[Other(s)]
    /\ secure'[Other(s)] = secure[Other(s)]
    /\ leg'[s].port = d.port /\ keys'[s] \in {keys[s], offered}
    /\ AnswerUsable(info, offered) =>
           /\ leg'[s].in = First(d.cryptos)
           /\ leg'[s].out = (IF d.srtp THEN offered ELSE None)
           /\ d.srtp => secure'[s] /\ keys'[s] = offered /\ offered # None
           /\ ~d.srtp => ~secure'[s] /\ keys'[s] = keys[s]
    /\ ~AnswerUsable(info, offered) =>
           /\ leg'[s].in = leg[s].in /\ leg'[s].out = leg[s].out
           /\ keys' = keys /\ secure' = secure

(* acceptAnswer has the effect that AnswerEffect describes. *)
LEMMA TakeAnswerIs ==
    ASSUME TypeInv, NEW s \in Sides, NEW offered \in KeyOrNone, NEW d,
           NEW info, AnswerFits(offered, d, info), info.ok, TakeAnswer(s, info, offered)
    PROVE  AnswerEffect(s, d, info, offered)
<1> DEFINE l == leg[s]
           r == Remote(l, info)
           plain == AnswerPlain(info, offered)
           in == IF plain THEN None ELSE Head(Matching(info, offered))
           out == IF plain THEN None ELSE offered
<1>1. /\ leg \in [Sides -> LegState] /\ keys \in [Sides -> KeyOrNone]
      /\ secure \in [Sides -> BOOLEAN] /\ l \in LegState
  BY DEF TypeInv
<1>2. /\ Heard(d, info) /\ d.zero = FALSE /\ d.srtp \in BOOLEAN
      /\ (d.srtp <=> First(d.cryptos) # None) /\ First(d.cryptos) \in KeyOrNone
      /\ d.srtp => offered # None
      /\ plain <=> ~d.srtp
      /\ Matching(info, offered) # <<>> /\ d.srtp =>
             Head(Matching(info, offered)) = First(d.cryptos)
  BY DEF AnswerFits
<1>3. Other(s) \in Sides /\ Other(s) # s
  BY OtherSide
<1>4. RemoteIs(l, info, d, r)
  <2> HIDE DEF l
  <2> QED
    BY <1>1, <1>2, RemoteTakes
<1>5. r \in LegState /\ r.in = l.in /\ r.out = l.out /\ r.port = d.port
  BY <1>2, <1>4 DEF RemoteIs
<1>6. CASE AnswerUsable(info, offered)
  <2>1. leg' = [leg EXCEPT ![s] = [r EXCEPT !.in = in, !.out = out]] /\ SetKeys(s, out)
    BY <1>6 DEF TakeAnswer
  <2>2. in = First(d.cryptos) /\ out = IF d.srtp THEN offered ELSE None
    <3>1. CASE d.srtp
      <4>1. Matching(info, offered) # <<>> /\ ~plain
        BY <1>2, <1>6, <3>1 DEF AnswerUsable
      <4> QED
        BY <1>2, <3>1, <4>1
    <3>2. CASE ~d.srtp
      BY <1>2, <3>2
    <3> QED
      BY <1>2, <3>1, <3>2
  <2> HIDE DEF l, r, plain, in, out
  <2>3. in \in KeyOrNone /\ out \in KeyOrNone
    BY <1>2, <2>2 DEF KeyOrNone
  <2> DEFINE u == [r EXCEPT !.in = in, !.out = out]
  <2>4. u \in LegState /\ u.in = in /\ u.out = out /\ u.port = d.port
    BY <1>5, <2>3 DEF LegState
  <2>5. leg' = [leg EXCEPT ![s] = u]
    BY <2>1
  <2> HIDE DEF u
  <2>6. leg' \in [Sides -> LegState] /\ leg'[s] = u /\ leg'[Other(s)] = leg[Other(s)]
    BY <1>1, <1>3, <2>4, <2>5
  <2> DEFINE k == IF out = None THEN keys[s] ELSE out
             c == out # None
  <2>7. keys' = [keys EXCEPT ![s] = k] /\ secure' = [secure EXCEPT ![s] = c]
    BY <2>1 DEF SetKeys
  <2>8. k \in KeyOrNone /\ c \in BOOLEAN
    BY <1>1, <2>3
  <2>9. /\ d.srtp => k = offered /\ c /\ offered # None
        /\ ~d.srtp => k = keys[s] /\ ~c
    BY <1>2, <2>2
  <2> HIDE DEF k, c
  <2>10. /\ keys' \in [Sides -> KeyOrNone] /\ keys'[s] = k /\ keys'[Other(s)] = keys[Other(s)]
    BY <1>1, <1>3, <2>7, <2>8
  <2>11. /\ secure' \in [Sides -> BOOLEAN] /\ secure'[s] = c
         /\ secure'[Other(s)] = secure[Other(s)]
    BY <1>1, <1>3, <2>7, <2>8
  <2>12. keys'[s] \in {keys[s], offered}
    BY <1>2, <2>9, <2>10
  <2>13. /\ leg'[s].in = First(d.cryptos) /\ leg'[s].out = (IF d.srtp THEN offered ELSE None)
         /\ leg'[s].port = d.port
    BY <2>2, <2>4, <2>6
  <2> QED
    BY <1>6, <2>6, <2>9, <2>10, <2>11, <2>12, <2>13, Zenon DEF AnswerEffect
<1>7. CASE ~AnswerUsable(info, offered)
  <2>1. leg' = [leg EXCEPT ![s] = r] /\ keys' = keys /\ secure' = secure
    BY <1>7 DEF TakeAnswer
  <2> HIDE DEF r
  <2>2. leg' \in [Sides -> LegState] /\ leg'[s] = r /\ leg'[Other(s)] = leg[Other(s)]
    BY <1>1, <1>3, <1>5, <2>1
  <2>3. leg'[s].in = leg[s].in /\ leg'[s].out = leg[s].out /\ leg'[s].port = d.port
    BY <1>5, <2>2
  <2>4. keys'[s] \in {keys[s], offered}
    BY <2>1
  <2> QED
    BY <1>1, <1>7, <2>1, <2>2, <2>3, <2>4, Zenon DEF AnswerEffect
<1> QED
  BY <1>6, <1>7

(* A phone that answered uses what the relay took. *)
LEMMA AnsweredAgrees ==
    ASSUME NEW s, NEW d, NEW info, NEW offered, AnswerEffect(s, d, info, offered),
           AnswerUsable(info, offered), phone'[s] = PhoneAnswered(d, offered)
    PROVE  Agrees(s)'
<1>1. /\ phone'[s].send = First(d.cryptos) /\ phone'[s].port = d.port
      /\ phone'[s].recv = IF d.srtp THEN offered ELSE None
  BY DEF PhoneAnswered
<1>2. /\ leg'[s].in = First(d.cryptos) /\ leg'[s].port = d.port
      /\ leg'[s].out = IF d.srtp THEN offered ELSE None
  BY DEF AnswerEffect
<1>3. leg'[s].in = phone'[s].send /\ leg'[s].out = phone'[s].recv
  BY <1>1, <1>2
<1> QED
  BY <1>1, <1>2, <1>3, SameKeyEqual DEF Agrees

(* A step that leaves a side alone keeps the side's part of the invariant. *)
LEMMA CallSideKept ==
    ASSUME NEW s, CallSide(s), leg'[s] = leg[s], keys'[s] = keys[s], secure'[s] = secure[s]
    PROVE  CallSide(s)'
  BY DEF CallSide, OfferKey

(* So it does with the part about calls that are up. *)
LEMMA UpSideKept ==
    ASSUME NEW s, UpSide(s), leg'[s] = leg[s], keys'[s] = keys[s], secure'[s] = secure[s],
           phone'[s] = phone[s], spoiled'[s] = spoiled[s], stale'[s] = stale[s],
           sdpTo'[s] = sdpTo[s], kind' = kind
    PROVE  UpSide(s)'
<1>1. (Agrees(s) => Agrees(s)') /\ OfferKey(s)' = OfferKey(s)
  BY DEF Agrees, OfferKey
<1> QED
  BY <1>1 DEF UpSide

(* A phone whose offer was answered uses what the relay took.              *)
LEMMA OfferAgrees ==
    ASSUME NEW s \in Sides, NEW d, NEW key, NEW body, Took(s, d, key, leg'[s].in),
           BodyKey(body) = key, phone'[s] = PhoneOffered(s, d, body), leg'[s].out = key,
           leg'[s].port = IF d.zero THEN phone[s].port ELSE d.port
    PROVE  Agrees(s)'
<1> DEFINE in == leg'[s].in
<1>1. Took(s, d, key, in)
  OBVIOUS
<1> HIDE DEF in
<1>2. PhoneOffered(s, d, body) =
          [send |-> in, recv |-> key, port |-> IF d.zero THEN phone[s].port ELSE d.port]
  BY <1>1, OfferedAgrees
<1>3. /\ phone'[s].send = in /\ phone'[s].recv = key
      /\ phone'[s].port = IF d.zero THEN phone[s].port ELSE d.port
  BY <1>2
<1>4. leg'[s].in = phone'[s].send /\ leg'[s].out = phone'[s].recv
      /\ leg'[s].port = phone'[s].port
  BY <1>3 DEF in
<1> QED
  BY <1>4, SameKeyEqual DEF Agrees

(* What a phone uses after its offer was answered is of its type. *)
LEMMA PhoneOfferedTyped ==
    ASSUME TypeInv, NEW s \in Sides, NEW d, NEW key, NEW in, Took(s, d, key, in),
           key \in KeyOrNone, in \in KeyOrNone, NEW body, BodyKey(body) = key
    PROVE  /\ PhoneOffered(s, d, body) \in PhoneState
           /\ PhoneOffered(s, d, body).port = IF d.zero THEN phone[s].port ELSE d.port
<1>1. PhoneOffered(s, d, body) =
          [send |-> in, recv |-> key, port |-> IF d.zero THEN phone[s].port ELSE d.port]
  BY OfferedAgrees
<1>2. phone[s].port \in Nat /\ d.port \in Nat
  <2>1. phone[s] \in PhoneState
    BY DEF TypeInv
  <2>2. d \in Offer
    BY OfferTyped DEF Took
  <2> QED
    BY <2>1, <2>2 DEF PhoneState, Offer
<1> QED
  BY <1>1, <1>2 DEF PhoneState

(* What accepting an offer does to the side it came from, and leaves of    *)
(* the other.                                                              *)
AcceptEffect(s, d, ours) ==
    /\ leg' \in [Sides -> LegState] /\ keys' \in [Sides -> KeyOrNone]
    /\ secure' \in [Sides -> BOOLEAN] /\ made' \in Nat /\ made <= made'
    /\ leg'[Other(s)] = leg[Other(s)] /\ keys'[Other(s)] = keys[Other(s)]
    /\ secure'[Other(s)] = secure[Other(s)]
    /\ ours \in KeyOrNone /\ Took(s, d, ours, leg'[s].in) /\ leg'[s].in \in KeyOrNone
    /\ leg'[s].out = ours /\ OfferKey(s)' = ours /\ CallSide(s)'
    /\ leg'[s].port = (IF d.zero THEN leg[s].port ELSE d.port)
    /\ KeyNum(ours) \subseteq KeyNum(keys[s]) \cup (made + 1 .. made')
    /\ KeyNum(keys'[s]) \subseteq KeyNum(keys[s]) \cup (made + 1 .. made')

(* Accepting an offer has the effect that AcceptEffect describes. *)
LEMMA AcceptIs ==
    ASSUME NegInv, NEW s \in Sides, NEW d \in OffersOf[s], AcceptOffer(s, d)
    PROVE  AcceptEffect(s, d, AnswerKey(s, OfferInfo[d]))
<1> DEFINE info == OfferInfo[d]
           ours == AnswerKey(s, info)
           in == OfferedKey(info)
<1>1. /\ info.ok /\ OfferUsable(info) /\ leg' = TakeOffer(s, info)
      /\ SetKeys(s, ours) /\ made' = MadeFor(ours)
  BY DEF AcceptOffer
<1>2. /\ TypeInv /\ keys \in [Sides -> KeyOrNone] /\ secure \in [Sides -> BOOLEAN] /\ made \in Nat
      /\ keys[s] \in KeyOrNone /\ Other(s) \in Sides /\ Other(s) # s
  BY OtherSide DEF NegInv, TypeInv
<1>3. Answered(s, d, ours, in) /\ OfferTaken(s, d, TakeOffer(s, info))
  BY <1>1, <1>2, TakeOfferIs
<1>4. /\ ours \in KeyOrNone /\ in \in KeyOrNone /\ Took(s, d, ours, in)
      /\ (in = None <=> ours = None) /\ KeyNum(ours) \subseteq KeyNum(keys[s]) \cup {made + 1}
  BY <1>3 DEF Answered
<1>5. /\ leg' \in [Sides -> LegState] /\ leg'[s].in = in /\ leg'[s].out = ours
      /\ leg'[s].port = (IF d.zero THEN leg[s].port ELSE d.port)
      /\ leg'[Other(s)] = leg[Other(s)]
  BY <1>1, <1>3 DEF OfferTaken
<1> HIDE DEF info, ours, in
<1>6. KeyNum(keys[s]) \subseteq 1..made
  BY <1>2, OfferKeyTyped DEF NegInv, OwnInv
<1>7. /\ made' \in Nat /\ made <= made'
      /\ KeyNum(ours) \subseteq KeyNum(keys[s]) \cup (made + 1 .. made')
  <2> DEFINE K == KeyNum(keys[s])
  <2>1. K \subseteq 1..made /\ KeyNum(ours) \subseteq K \cup {made + 1}
    BY <1>4, <1>6
  <2> HIDE DEF K
  <2>2. /\ MadeFor(ours) \in Nat /\ made <= MadeFor(ours)
        /\ KeyNum(ours) \subseteq K \cup (made + 1 .. MadeFor(ours))
    BY <1>2, <1>4, <2>1, MadeForIs
  <2> QED
    BY <1>1, <2>2 DEF K
<1> DEFINE k == IF ours = None THEN keys[s] ELSE ours
           c == ours # None
<1>8. keys' = [keys EXCEPT ![s] = k] /\ secure' = [secure EXCEPT ![s] = c]
  BY <1>1 DEF SetKeys
<1>9. k \in KeyOrNone /\ c \in BOOLEAN /\ (c => k = ours) /\ (~c => ours = None)
      /\ k \in {keys[s], ours} /\ (c => k # None)
  BY <1>2, <1>4
<1> HIDE DEF k, c
<1>10. /\ keys' \in [Sides -> KeyOrNone] /\ keys'[s] = k /\ keys'[Other(s)] = keys[Other(s)]
  BY <1>2, <1>8, <1>9
<1>11. /\ secure' \in [Sides -> BOOLEAN] /\ secure'[s] = c
       /\ secure'[Other(s)] = secure[Other(s)]
  BY <1>2, <1>8, <1>9
<1>12. OfferKey(s)' = ours
  <2>1. OfferKey(s)' = IF secure'[s] THEN keys'[s] ELSE None
    BY DEF OfferKey
  <2>2. OfferKey(s)' = IF c THEN k ELSE None
    BY <1>10, <1>11, <2>1
  <2> QED
    BY <1>9, <2>2
<1>13. CallSide(s)'
  <2>1. secure'[s] => keys'[s] # None
    BY <1>9, <1>10, <1>11
  <2> QED
    BY <1>4, <1>5, <1>12, <2>1 DEF CallSide
<1>14. KeyNum(keys'[s]) \subseteq KeyNum(keys[s]) \cup (made + 1 .. made')
  BY <1>7, <1>9, <1>10
<1>15. AcceptEffect(s, d, ours)
  <2>1. Took(s, d, ours, leg'[s].in) /\ leg'[s].in \in KeyOrNone
    BY <1>4, <1>5
  <2> QED
    BY <1>4, <1>5, <1>7, <1>10, <1>11, <1>12, <1>13, <1>14, <2>1, Zenon DEF AcceptEffect
<1> QED
  BY <1>15 DEF ours, info

-----------------------------------------------------------------------------
(* handleHold preserves the invariant: the answer is what the phone was    *)
(* last sent, with the key its offer asks for.                             *)
LEMMA HoldPreserves ==
    ASSUME NegInv, NEW s \in Sides, NEW d \in OffersOf[s], HoldReinvite(s, d)
    PROVE  NegInv'
<1> DEFINE info == OfferInfo[d]
           ours == AnswerKey(s, info)
           dir == IF info.addr = Zero THEN "inactive" ELSE AnswerDirection(info.dir)
           answer == BumpVersion(SetDirection(Rewrite(sdpTo[s], Pbx, RelayPort(s), ours), dir))
           t == Other(s)
<1>1. /\ kind = "call" /\ AcceptOffer(s, d) /\ stage = "up"
      /\ sdpTo' = [sdpTo EXCEPT ![s] = answer] /\ sent' = [sent EXCEPT ![s] = answer]
      /\ phone' = [phone EXCEPT ![s] = PhoneOffered(s, d, answer)]
      /\ spoiled' = [spoiled EXCEPT ![s] = @ /\ d.zero]
      /\ stale' = [stale EXCEPT ![s] = FALSE]
      /\ kind' = kind /\ stage' = stage /\ ex' = ex /\ local' = local
  BY DEF HoldReinvite, AcceptOffer, UseOffer, MayOffer
<1>2. AcceptEffect(s, d, ours)
  BY <1>1, AcceptIs
<1>3. /\ t \in Sides /\ t # s /\ Sides = {s, t}
      /\ TypeInv /\ CallInv /\ UpInv /\ NameInv /\ OwnInv
      /\ \A x \in Sides : UpSide(x) /\ CallSide(x)
  BY <1>1, OtherSide DEF NegInv, SideInv, UpInv, CallInv
<1>4. dir \in Directions
  <2>1. Heard(d, info) /\ info.ok
    <3>1. d \in Offer /\ info = Parse(Body(d))
      BY OfferTyped
    <3> QED
      BY <1>1, <3>1, OfferHeard DEF AcceptOffer
  <2>2. info.dir \in Directions
    BY <2>1 DEF Heard
  <2> HIDE DEF info
  <2> QED
    BY <2>2 DEF Directions, AnswerDirection
<1> HIDE DEF info, ours, dir, t
<1>5. ours \in KeyOrNone
  BY <1>2 DEF AcceptEffect
<1>6. Sent(s, answer, ours)
  <2>1. Relayed(s, sdpTo[s])
    BY <1>1, <1>3 DEF UpSide, NameInv, NameSide
  <2> QED
    BY <1>4, <1>5, <2>1, RelayedAnswer
<1> HIDE DEF answer
<1>7. /\ answer \in Bodies /\ answer # <<>> /\ BodyKey(answer) = ours /\ Relayed(s, answer)
      /\ BodyNum(answer) \subseteq KeyNum(ours)
  BY <1>6, SentFacts
<1>8. /\ sent' \in [Sides -> Bodies] /\ sent'[s] = answer /\ sent'[t] = sent[t]
      /\ sdpTo' \in [Sides -> Bodies] /\ sdpTo'[s] = answer /\ sdpTo'[t] = sdpTo[t]
  BY <1>1, <1>3, <1>7 DEF TypeInv
<1>9. /\ PhoneOffered(s, d, answer) \in PhoneState
      /\ phone' \in [Sides -> PhoneState] /\ phone'[s] = PhoneOffered(s, d, answer)
      /\ phone'[t] = phone[t]
  <2>1. PhoneOffered(s, d, answer) \in PhoneState
    <3> DEFINE in == leg'[s].in
    <3>1. Took(s, d, ours, in) /\ in \in KeyOrNone
      BY <1>2 DEF AcceptEffect
    <3> HIDE DEF in
    <3> QED
      BY <1>3, <1>5, <1>7, <3>1, PhoneOfferedTyped
  <2> QED
    BY <1>1, <1>3, <2>1 DEF TypeInv
<1>10. /\ d.zero \in BOOLEAN
       /\ spoiled' \in [Sides -> BOOLEAN] /\ spoiled'[t] = spoiled[t]
       /\ (~spoiled'[s] => ~spoiled[s] \/ ~d.zero)
       /\ stale' \in [Sides -> BOOLEAN] /\ stale'[s] = FALSE /\ stale'[t] = stale[t]
  <2>1. d.zero \in BOOLEAN
    BY OfferTyped DEF Offer
  <2> QED
    BY <1>1, <1>3, <2>1 DEF TypeInv
<1>11. TypeInv'
  <2>1. /\ leg' \in [Sides -> LegState] /\ keys' \in [Sides -> KeyOrNone]
        /\ secure' \in [Sides -> BOOLEAN] /\ made' \in Nat
    BY <1>2 DEF AcceptEffect
  <2> QED
    BY <1>1, <1>3, <1>8, <1>9, <1>10, <2>1 DEF TypeInv
<1>12. leg'[t] = leg[t] /\ keys'[t] = keys[t] /\ secure'[t] = secure[t]
  BY <1>2 DEF AcceptEffect, t
<1>13. CallInv'
  <2>1. CallSide(s)'
    BY <1>2 DEF AcceptEffect
  <2>2. CallSide(t)'
    BY <1>3, <1>12, CallSideKept
  <2> QED
    BY <1>3, <2>1, <2>2 DEF CallInv
<1>14. UpInv'
  <2>1. UpSide(t)'
    BY <1>1, <1>3, <1>8, <1>9, <1>10, <1>12, UpSideKept
  <2>2. ~spoiled'[s] => Agrees(s)'
    <3> SUFFICES ASSUME ~spoiled'[s] PROVE Agrees(s)'
      OBVIOUS
    <3>1. ~d.zero \/ leg[s].port = phone[s].port
      BY <1>3, <1>10 DEF UpSide, Agrees
    <3>2. leg'[s].port = IF d.zero THEN phone[s].port ELSE d.port
      BY <1>2, <1>10, <3>1 DEF AcceptEffect
    <3>3. Took(s, d, ours, leg'[s].in) /\ leg'[s].out = ours
      BY <1>2 DEF AcceptEffect
    <3> QED
      BY <1>7, <1>9, <3>2, <3>3, OfferAgrees
  <2>3. SameKey(BodyKey(sdpTo'[s]), OfferKey(s)')
    <3>1. OfferKey(s)' = ours
      BY <1>2 DEF AcceptEffect
    <3> QED
      BY <1>7, <1>8, <3>1, SameKeyEqual
  <2>4. UpSide(s)'
    BY <1>7, <1>8, <2>2, <2>3 DEF UpSide
  <2> QED
    BY <1>3, <2>1, <2>4 DEF UpInv
<1>15. TalkInv'
  BY <1>1 DEF TalkInv, RingInv, FwdInv, RoomInv, IdleInv
<1>16. NameInv'
  <2>1. NameSide(s)' /\ NameSide(t)'
    BY <1>3, <1>7, <1>8 DEF NameInv, NameSide
  <2> QED
    BY <1>3, <2>1 DEF NameInv
<1>17. OwnInv'
  <2> DEFINE N == made + 1 .. made'
  <2>1. Owned(t)' \subseteq Owned(t)
    BY <1>8, <1>12 DEF Owned
  <2>2. KeyNum(ours) \subseteq KeyNum(keys[s]) \cup N
        /\ KeyNum(keys'[s]) \subseteq KeyNum(keys[s]) \cup N
        /\ made' \in Nat /\ made <= made' /\ made \in Nat
    BY <1>2, <1>3 DEF AcceptEffect, TypeInv
  <2> HIDE DEF N
  <2>3. Owned(s)' \subseteq Owned(s) \cup N
    <3>1. KeyNum(keys[s]) \subseteq Owned(s)
      BY DEF Owned
    <3>2. Owned(s)' = KeyNum(keys'[s]) \cup BodyNum(answer) \cup BodyNum(answer)
      BY <1>8 DEF Owned
    <3> QED
      BY <1>7, <2>2, <3>1, <3>2
  <2>4. N \subseteq made + 1 .. made'
    BY DEF N
  <2> QED
    BY <1>3, <2>1, <2>2, <2>3, <2>4, OwnGrows DEF t
<1> QED
  BY <1>11, <1>13, <1>14, <1>15, <1>16, <1>17 DEF NegInv, SideInv

(* The offers of a side are heard. *)
LEMMA HeardOffer ==
    ASSUME NEW s \in Sides, NEW d \in OffersOf[s]
    PROVE  Heard(d, OfferInfo[d])
<1>1. d \in Offer /\ OfferInfo[d] = Parse(Body(d))
  BY OfferTyped
<1> QED
  BY <1>1, OfferHeard

(* The body of a phone, rewritten for a side, may be sent to it. *)
LEMMA SentOn ==
    ASSUME NEW s \in Sides, NEW d, NEW info, Heard(d, info), info.ok, NEW key \in KeyOrNone
    PROVE  Sent(s, Rewrite(Body(d), Pbx, RelayPort(s), key), key)
<1>1. Body(d) \in Seq(Line(PhoneAddrs)) /\ Readable(Body(d))
  BY DEF Heard
<1>2. Body(d) \in Seq(Line(Addrs))
  BY <1>1, LinesOfMore
<1> QED
  BY <1>1, <1>2, RelayedRewrite

(* forward preserves the invariant while the offer is with the other       *)
(* phone.                                                                  *)
LEMMA ForwardPreserves ==
    ASSUME NegInv, NEW s \in Sides, NEW d \in OffersOf[s], NEW invite \in BOOLEAN,
           Forward(s, d, invite)
    PROVE  NegInv'
<1> DEFINE info == OfferInfo[d]
           ours == AnswerKey(s, info)
           t == Other(s)
           key == OfferKey(t)
           body == Rewrite(Body(d), Pbx, RelayPort(t), key)
<1>1. /\ kind = "call" /\ AcceptOffer(s, d) /\ stage = "up"
      /\ ex' = [from |-> s, offer |-> d, invite |-> invite, offered |-> key,
                answerKey |-> ours, mends |-> ~(spoiled[s] /\ d.zero)]
      /\ sent' = [sent EXCEPT ![t] = body]
      /\ sdpTo' = [sdpTo EXCEPT ![t] = IF invite THEN body ELSE @]
      /\ stale' = [stale EXCEPT ![t] = @ /\ ~invite, ![s] = TRUE]
      /\ spoiled' = [spoiled EXCEPT ![s] = TRUE]
      /\ kind' = kind /\ stage' = "fwd" /\ phone' = phone /\ local' = local
  BY DEF Forward, ForwardBody, AcceptOffer, UseOffer, MayOffer
<1>2. AcceptEffect(s, d, ours)
  BY <1>1, AcceptIs
<1>3. /\ t \in Sides /\ t # s /\ Sides = {s, t} /\ Other(t) = s
      /\ TypeInv /\ CallInv /\ UpInv /\ NameInv /\ OwnInv
      /\ \A x \in Sides : UpSide(x) /\ CallSide(x)
  BY <1>1, OtherSide DEF NegInv, SideInv, UpInv, CallInv
<1>4. key \in KeyOrNone /\ KeyNum(key) \subseteq KeyNum(keys[t])
  BY <1>3, OfferKeyTyped
<1>5. Sent(t, body, key)
  <2>1. Heard(d, info) /\ info.ok
    BY <1>1, HeardOffer DEF AcceptOffer
  <2> HIDE DEF info, t, key
  <2> QED
    BY <1>3, <1>4, <2>1, SentOn
<1>6. d.zero \in BOOLEAN
  BY OfferTyped DEF Offer
<1> HIDE DEF info, ours, t, key, body
<1>7. /\ body \in Bodies /\ body # <<>> /\ BodyKey(body) = key /\ Relayed(t, body)
      /\ BodyNum(body) \subseteq KeyNum(key)
  BY <1>5, SentFacts
<1>8. /\ sent' \in [Sides -> Bodies] /\ sent'[t] = body /\ sent'[s] = sent[s]
      /\ sdpTo' \in [Sides -> Bodies] /\ sdpTo'[s] = sdpTo[s]
      /\ invite => sdpTo'[t] = body
      /\ ~invite => sdpTo'[t] = sdpTo[t]
  <2> DEFINE u == IF invite THEN body ELSE sdpTo[t]
  <2>1. u \in Bodies /\ sdpTo' = [sdpTo EXCEPT ![t] = u]
    BY <1>1, <1>3, <1>7 DEF TypeInv
  <2>2. (invite => u = body) /\ (~invite => u = sdpTo[t])
    OBVIOUS
  <2> HIDE DEF u
  <2>3. sdpTo' \in [Sides -> Bodies] /\ sdpTo'[s] = sdpTo[s] /\ sdpTo'[t] = u
    BY <1>3, <2>1 DEF TypeInv
  <2>4. sent' \in [Sides -> Bodies] /\ sent'[t] = body /\ sent'[s] = sent[s]
    BY <1>1, <1>3, <1>7 DEF TypeInv
  <2> QED
    BY <2>2, <2>3, <2>4
<1>9. /\ spoiled' \in [Sides -> BOOLEAN] /\ spoiled'[t] = spoiled[t] /\ spoiled'[s] = TRUE
      /\ stale' \in [Sides -> BOOLEAN] /\ stale'[s] = TRUE
      /\ ~invite => (stale'[t] <=> stale[t])
  BY <1>1, <1>3 DEF TypeInv
<1>10. leg'[t] = leg[t] /\ keys'[t] = keys[t] /\ secure'[t] = secure[t]
  BY <1>2 DEF AcceptEffect, t
<1>11. TypeInv'
  <2>1. /\ leg' \in [Sides -> LegState] /\ keys' \in [Sides -> KeyOrNone]
        /\ secure' \in [Sides -> BOOLEAN] /\ made' \in Nat
    BY <1>2 DEF AcceptEffect
  <2> QED
    BY <1>1, <1>3, <1>8, <1>9, <2>1 DEF TypeInv
<1>12. CallInv'
  <2>1. CallSide(s)'
    BY <1>2 DEF AcceptEffect
  <2>2. CallSide(t)'
    BY <1>3, <1>10, CallSideKept
  <2> QED
    BY <1>3, <2>1, <2>2 DEF CallInv
<1>13. OfferKey(t)' = key
  BY <1>10 DEF OfferKey, key
<1>14. UpInv'
  <2>1. UpSide(s)'
    BY <1>1, <1>3, <1>8, <1>9 DEF UpSide
  <2>2. UpSide(t)'
    <3>1. ~spoiled'[t] => Agrees(t)'
      BY <1>1, <1>3, <1>9, <1>10 DEF UpSide, Agrees
    <3>2. CASE invite
      <4>1. SameKey(BodyKey(sdpTo'[t]), OfferKey(t)')
        BY <1>7, <1>8, <1>13, <3>2, SameKeyEqual
      <4> QED
        BY <1>7, <1>8, <3>1, <3>2, <4>1 DEF UpSide
    <3>3. CASE ~invite
      <4>1. UpSide(t) /\ sdpTo'[t] = sdpTo[t] /\ (stale'[t] <=> stale[t])
        BY <1>3, <1>8, <1>9, <3>3
      <4>2. OfferKey(t)' = OfferKey(t)
        BY <1>13 DEF key
      <4> QED
        BY <1>1, <3>1, <4>1, <4>2 DEF UpSide
    <3> QED
      BY <3>2, <3>3
  <2> QED
    BY <1>3, <2>1, <2>2 DEF UpInv
<1>15. FwdInv'
  <2>1. /\ ex'.from = s /\ ex'.offer = d /\ ex'.offered = key /\ ex'.answerKey = ours
        /\ ex'.mends = ~(spoiled[s] /\ d.zero)
    BY <1>1
  <2>2. /\ Took(s, d, ours, leg'[s].in) /\ OfferKey(s)' = ours
        /\ leg'[s].port = (IF d.zero THEN leg[s].port ELSE d.port)
    BY <1>2 DEF AcceptEffect
  <2>3. ex'.mends => PortTaken(s, d)'
    <3> SUFFICES ASSUME ~(spoiled[s] /\ d.zero) PROVE PortTaken(s, d)'
      BY <2>1
    <3>1. ~d.zero \/ leg[s].port = phone[s].port
      BY <1>3 DEF UpSide, Agrees
    <3> QED
      BY <1>1, <1>6, <2>2, <3>1 DEF PortTaken
  <2>4. Other(s) = t
    BY DEF t
  <2>5. ex'.mends \in BOOLEAN
    BY <2>1
  <2> QED
    BY <1>1, <1>9, <1>13, <2>1, <2>2, <2>3, <2>4, <2>5 DEF FwdInv
<1>16. TalkInv'
  BY <1>1, <1>15 DEF TalkInv, RingInv, RoomInv, IdleInv
<1>17. NameInv'
  <2>1. NameSide(s)'
    BY <1>3, <1>8 DEF NameInv, NameSide
  <2>2. NameSide(t)'
    BY <1>3, <1>7, <1>8 DEF NameInv, NameSide
  <2> QED
    BY <1>3, <2>1, <2>2 DEF NameInv
<1>18. OwnInv'
  <2> DEFINE N == made + 1 .. made'
  <2>1. KeyNum(keys'[s]) \subseteq KeyNum(keys[s]) \cup N
        /\ made' \in Nat /\ made <= made' /\ made \in Nat
    BY <1>2, <1>3 DEF AcceptEffect, TypeInv
  <2> HIDE DEF N
  <2>2. Owned(s)' \subseteq Owned(s) \cup N
    BY <1>8, <2>1 DEF Owned
  <2>3. Owned(t)' \subseteq Owned(t)
    <3>1. BodyNum(body) \subseteq KeyNum(keys[t])
      BY <1>4, <1>7
    <3>2. sdpTo'[t] = body \/ sdpTo'[t] = sdpTo[t]
      BY <1>8
    <3>3. Owned(t)' = KeyNum(keys[t]) \cup BodyNum(body) \cup BodyNum(sdpTo'[t])
      BY <1>8, <1>10 DEF Owned
    <3> QED
      BY <3>1, <3>2, <3>3 DEF Owned
  <2>4. N \subseteq made + 1 .. made'
    BY DEF N
  <2> QED
    BY <1>3, <2>1, <2>2, <2>3, <2>4, OwnGrows DEF t
<1> QED
  BY <1>11, <1>12, <1>14, <1>16, <1>17, <1>18 DEF NegInv, SideInv

(* The other phone refuses: the side that offered stays marked as spoiled  *)
(* and stale.                                                              *)
LEMMA ForwardRefusedPreserves ==
    ASSUME NegInv, ForwardRefused
    PROVE  NegInv'
<1>1. /\ stage = "fwd" /\ stage' = "up" /\ kind' = kind /\ phone' = phone /\ leg' = leg
      /\ keys' = keys /\ secure' = secure /\ sdpTo' = sdpTo /\ sent' = sent
      /\ made' = made /\ spoiled' = spoiled /\ stale' = stale /\ local' = local
  BY DEF ForwardRefused, callVars, histVars
<1>2. TypeInv /\ CallInv /\ UpInv /\ FwdInv /\ NameInv /\ OwnInv
  BY DEF NegInv, SideInv, TalkInv
<1>3. kind = "call"
  BY <1>1, <1>2 DEF FwdInv
<1>4. TypeInv'
  BY <1>1, <1>2 DEF TypeInv
<1>5. CallInv'
  BY <1>1, <1>2, <1>3, CallSideKept DEF CallInv
<1>6. UpInv'
  BY <1>1, <1>2, UpSideKept DEF UpInv
<1>7. TalkInv'
  BY <1>1, <1>3 DEF TalkInv, RingInv, FwdInv, RoomInv, IdleInv
<1>8. NameInv'
  BY <1>1, <1>2 DEF NameInv, NameSide
<1>9. OwnInv'
  <2>1. \A s \in Sides : Owned(s)' \subseteq Owned(s)
    BY <1>1 DEF Owned
  <2> QED
    BY <1>1, <1>2, <2>1, OwnKept
<1> QED
  BY <1>4, <1>5, <1>6, <1>7, <1>8, <1>9 DEF NegInv, SideInv

(* A refresh preserves it: what the phone was last sent is what it uses,   *)
(* unless that is stale.                                                   *)
LEMMA RefreshPreserves ==
    ASSUME NegInv, NEW s \in Sides, Refresh(s)
    PROVE  NegInv'
<1> DEFINE key == BodyKey(sdpTo[s])
           p == phone[s]
           q == [p EXCEPT !.recv = key, !.send = IF key = None THEN None ELSE @]
           t == Other(s)
<1>1. /\ kind = "call" /\ stage = "up" /\ sent' = [sent EXCEPT ![s] = sdpTo[s]]
      /\ spoiled' = [spoiled EXCEPT ![s] = @ \/ stale[s]]
      /\ kind' = kind /\ stage' = stage /\ leg' = leg /\ keys' = keys /\ secure' = secure
      /\ sdpTo' = sdpTo /\ made' = made /\ stale' = stale /\ local' = local
  BY DEF Refresh, UseOffer, MayOffer, callVars
<1>2. /\ t \in Sides /\ t # s /\ Sides = {s, t}
      /\ TypeInv /\ CallInv /\ UpInv /\ NameInv /\ OwnInv
      /\ \A x \in Sides : UpSide(x) /\ CallSide(x)
  BY <1>1, OtherSide DEF NegInv, SideInv, UpInv, CallInv
<1>3. Relayed(s, sdpTo[s]) /\ sdpTo[s] # <<>>
  BY <1>1, <1>2 DEF UpSide, NameInv, NameSide
<1>4. key \in KeyOrNone /\ sdpTo[s] \in Bodies
  BY <1>3 DEF Relayed, Bodies
<1>5. phone' = [phone EXCEPT ![s] = q]
  BY DEF Refresh, BodyKey
<1>6. /\ q \in PhoneState /\ q.recv = key /\ q.port = p.port
      /\ q.send = IF key = None THEN None ELSE p.send
  <2>1. p \in PhoneState
    BY <1>2 DEF TypeInv
  <2> HIDE DEF p, key
  <2> DEFINE send == IF key = None THEN None ELSE p.send
             u == [[p EXCEPT !.recv = key] EXCEPT !.send = send]
  <2>2. send \in KeyOrNone
    BY <2>1 DEF PhoneState, KeyOrNone
  <2>3. q = u
    BY <2>1 DEF PhoneState
  <2>4. u \in PhoneState /\ u.recv = key /\ u.port = p.port /\ u.send = send
    <3> HIDE DEF send
    <3> QED
      BY <1>4, <2>1, <2>2 DEF PhoneState
  <2> HIDE DEF q, u
  <2> QED
    BY <2>3, <2>4
<1> HIDE DEF key, p, q, t
<1>7. phone' \in [Sides -> PhoneState] /\ phone'[s] = q /\ phone'[t] = phone[t]
  BY <1>2, <1>5, <1>6 DEF TypeInv
<1>8. /\ spoiled' \in [Sides -> BOOLEAN] /\ spoiled'[t] = spoiled[t]
      /\ ~spoiled'[s] => ~spoiled[s] /\ ~stale[s]
  BY <1>1, <1>2 DEF TypeInv
<1>9. /\ sent' \in [Sides -> Bodies] /\ sent'[s] = sdpTo[s] /\ sent'[t] = sent[t]
  BY <1>1, <1>2, <1>4 DEF TypeInv
<1>10. TypeInv'
  BY <1>1, <1>2, <1>7, <1>8, <1>9 DEF TypeInv
<1>11. CallInv'
  BY <1>1, <1>2, CallSideKept DEF CallInv
<1>12. UpInv'
  <2>1. UpSide(t)'
    BY <1>1, <1>2, <1>7, <1>8, UpSideKept
  <2>2. ~spoiled'[s] => Agrees(s)'
    <3> SUFFICES ASSUME ~spoiled'[s] PROVE Agrees(s)'
      OBVIOUS
    <3>1. /\ SameKey(leg[s].in, p.send) /\ leg[s].port = p.port
          /\ SameKey(key, leg[s].out) /\ (leg[s].in = None <=> leg[s].out = None)
      BY <1>1, <1>2, <1>8 DEF UpSide, Agrees, CallSide, key, p
    <3>2. SameKey(leg[s].out, key)
      BY <3>1 DEF SameKey
    <3>3. SameKey(leg[s].in, q.send)
      <4>1. CASE key = None
        <5>1. leg[s].out = None
          BY <3>1, <4>1 DEF SameKey
        <5> QED
          BY <1>6, <3>1, <4>1, <5>1, SameKeyEqual
      <4>2. CASE key # None
        BY <1>6, <3>1, <4>2
      <4> QED
        BY <4>1, <4>2
    <3> QED
      BY <1>1, <1>6, <1>7, <3>1, <3>2, <3>3 DEF Agrees
  <2>3. OfferKey(s)' = OfferKey(s)
    BY <1>1 DEF OfferKey
  <2>4. UpSide(s)'
    <3>1. UpSide(s)
      BY <1>2
    <3> QED
      BY <1>1, <2>2, <2>3, <3>1 DEF UpSide
  <2> QED
    BY <1>2, <2>1, <2>4 DEF UpInv
<1>13. TalkInv'
  BY <1>1 DEF TalkInv, RingInv, FwdInv, RoomInv, IdleInv
<1>14. NameInv'
  <2>1. NameSide(s)' /\ NameSide(t)'
    BY <1>1, <1>2, <1>3, <1>9 DEF NameInv, NameSide
  <2> QED
    BY <1>2, <2>1 DEF NameInv
<1>15. OwnInv'
  <2>1. Owned(s)' \subseteq Owned(s) /\ Owned(t)' \subseteq Owned(t)
    BY <1>1, <1>9 DEF Owned
  <2> QED
    BY <1>1, <1>2, <2>1, OwnKept
<1> QED
  BY <1>10, <1>11, <1>12, <1>13, <1>14, <1>15 DEF NegInv, SideInv

(* An offer refused with 488 preserves it. *)
LEMMA RefusedPreserves ==
    ASSUME NegInv, NEW s \in Sides, NEW d \in OffersOf[s], OfferRefused(s, d),
           kind = "room" => s = "caller"
    PROVE  NegInv'
<1> DEFINE info == OfferInfo[d]
           l == leg[s]
           r == IF info.ok THEN Remote(l, info) ELSE l
           t == Other(s)
<1>1. /\ stage = "up" /\ stage' = stage /\ kind' = kind /\ phone' = phone
      /\ spoiled' = [spoiled EXCEPT ![s] = @ \/ info.ok]
      /\ keys' = keys /\ secure' = secure /\ sent' = sent /\ ex' = ex
      /\ sdpTo' = sdpTo /\ made' = made /\ stale' = stale /\ local' = local
  BY DEF OfferRefused, UseOffer, MayOffer, callVars
<1>2. leg' = [leg EXCEPT ![s] = r]
  BY DEF OfferRefused
<1>3. /\ t \in Sides /\ t # s /\ Sides = {s, t}
      /\ TypeInv /\ CallInv /\ UpInv /\ NameInv /\ OwnInv /\ RoomInv
      /\ \A x \in Sides : UpSide(x)
  BY <1>1, OtherSide DEF NegInv, SideInv, TalkInv, UpInv
<1>4. Heard(d, info) /\ info.ok \in BOOLEAN
  <2>1. Heard(d, info)
    BY HeardOffer
  <2> QED
    BY <2>1 DEF Heard
<1>5. l \in LegState
  BY <1>3 DEF TypeInv
<1> HIDE DEF info, l
<1>6. r \in LegState /\ r.in = l.in /\ r.out = l.out /\ (~info.ok => r = l)
  <2>1. CASE info.ok
    <3>1. RemoteIs(l, info, d, Remote(l, info))
      BY <1>4, <1>5, <2>1, RemoteTakes
    <3>2. r = Remote(l, info)
      BY <2>1
    <3> HIDE DEF r
    <3> QED
      BY <2>1, <3>1, <3>2 DEF RemoteIs
  <2>2. CASE ~info.ok
    BY <1>5, <2>2
  <2> QED
    BY <2>1, <2>2
<1> HIDE DEF r, t
<1>7. leg' \in [Sides -> LegState] /\ leg'[s] = r /\ leg'[t] = leg[t]
  BY <1>2, <1>3, <1>6 DEF TypeInv
<1>8. /\ spoiled' \in [Sides -> BOOLEAN] /\ spoiled'[t] = spoiled[t]
      /\ ~spoiled'[s] => ~spoiled[s] /\ ~info.ok
  BY <1>1, <1>3, <1>4 DEF TypeInv
<1>9. leg'[s].in = leg[s].in /\ leg'[s].out = leg[s].out
  BY <1>6, <1>7 DEF l
<1>10. TypeInv'
  BY <1>1, <1>3, <1>7, <1>8 DEF TypeInv
<1>11. CallInv'
  <2> SUFFICES ASSUME kind = "call" PROVE CallInv'
    BY <1>1 DEF CallInv
  <2>1. CallSide(s) /\ CallSide(t)
    BY <1>1, <1>3 DEF CallInv
  <2>2. CallSide(t)'
    BY <1>1, <1>7, <2>1, CallSideKept
  <2>3. CallSide(s)'
    BY <1>1, <1>9, <2>1 DEF CallSide, OfferKey
  <2> QED
    BY <1>3, <2>2, <2>3 DEF CallInv
<1>12. UpInv'
  <2>1. UpSide(t)'
    BY <1>1, <1>3, <1>7, <1>8, UpSideKept
  <2>2. ~spoiled'[s] => Agrees(s)'
    <3> SUFFICES ASSUME ~spoiled'[s] PROVE Agrees(s)'
      OBVIOUS
    <3>1. leg'[s] = leg[s] /\ Agrees(s)
      BY <1>3, <1>6, <1>7, <1>8 DEF UpSide, l
    <3> QED
      BY <1>1, <3>1 DEF Agrees
  <2>3. OfferKey(s)' = OfferKey(s)
    BY <1>1 DEF OfferKey
  <2>4. UpSide(s)'
    <3>1. UpSide(s)
      BY <1>3
    <3> QED
      BY <1>1, <2>2, <2>3, <3>1 DEF UpSide
  <2> QED
    BY <1>3, <2>1, <2>4 DEF UpInv
<1>13. RoomInv'
  <2> SUFFICES ASSUME kind = "room" PROVE RoomInv'
    BY <1>1 DEF RoomInv
  <2>1. s = "caller" /\ t = "callee"
    BY DEF t, Other
  <2> QED
    BY <1>1, <1>3, <1>7, <1>9, <2>1 DEF RoomInv
<1>14. TalkInv'
  BY <1>1, <1>13 DEF TalkInv, RingInv, FwdInv, IdleInv
<1>15. NameInv'
  BY <1>1, <1>3 DEF NameInv, NameSide
<1>16. OwnInv'
  <2>1. \A x \in Sides : Owned(x)' \subseteq Owned(x)
    BY <1>1 DEF Owned
  <2> QED
    BY <1>1, <1>3, <2>1, OwnKept
<1> QED
  BY <1>10, <1>11, <1>12, <1>14, <1>15, <1>16 DEF NegInv, SideInv

(* What an answer leaves of the call's side.                               *)
AnswerKept(s, d, info, offered) ==
    /\ CallSide(s)'
    /\ AnswerUsable(info, offered) => OfferKey(s)' = IF d.srtp THEN offered ELSE None
    /\ ~AnswerUsable(info, offered) => OfferKey(s)' = OfferKey(s)

(* After an answer, taken or not, what the side is offered next is what    *)
(* the relay uses.                                                         *)
LEMMA AnswerKeeps ==
    ASSUME NEW s, NEW d, NEW info, NEW offered, CallSide(s), AnswerFits(offered, d, info),
           AnswerEffect(s, d, info, offered)
    PROVE  AnswerKept(s, d, info, offered)
<1>1. /\ d.srtp \in BOOLEAN /\ (d.srtp <=> First(d.cryptos) # None)
      /\ d.srtp => offered # None
  BY DEF AnswerFits
<1>2. OfferKey(s)' = IF secure'[s] THEN keys'[s] ELSE None
  BY DEF OfferKey
<1>3. CASE AnswerUsable(info, offered)
  <2>1. /\ leg'[s].in = First(d.cryptos)
        /\ leg'[s].out = (IF d.srtp THEN offered ELSE None)
        /\ d.srtp => secure'[s] /\ keys'[s] = offered /\ offered # None
        /\ ~d.srtp => ~secure'[s]
    BY <1>3 DEF AnswerEffect
  <2>2. OfferKey(s)' = IF d.srtp THEN offered ELSE None
    BY <1>1, <1>2, <2>1
  <2>3. leg'[s].in = None <=> leg'[s].out = None
    BY <1>1, <2>1
  <2>4. secure'[s] => keys'[s] # None
    BY <1>1, <2>1
  <2> QED
    BY <1>3, <2>1, <2>2, <2>3, <2>4 DEF AnswerKept, CallSide
<1>4. CASE ~AnswerUsable(info, offered)
  <2>1. /\ leg'[s].in = leg[s].in /\ leg'[s].out = leg[s].out
        /\ keys' = keys /\ secure' = secure
    BY <1>4 DEF AnswerEffect
  <2>2. OfferKey(s)' = OfferKey(s)
    BY <2>1 DEF OfferKey
  <2> QED
    BY <1>4, <2>1, <2>2 DEF AnswerKept, CallSide
<1> QED
  BY <1>3, <1>4

(* What a phone uses after it answered is of its type. *)
LEMMA PhoneAnsweredTyped ==
    ASSUME NEW d, NEW info, NEW offered \in KeyOrNone, AnswerFits(offered, d, info)
    PROVE  PhoneAnswered(d, offered) \in PhoneState
<1>1. First(d.cryptos) \in KeyOrNone /\ d.port \in Nat
  BY DEF AnswerFits, Offer
<1>2. (IF d.srtp THEN offered ELSE None) \in KeyOrNone
  BY DEF KeyOrNone
<1> QED
  BY <1>1, <1>2 DEF PhoneAnswered, PhoneState

(* The other phone's answer preserves it: both phones use what the relay   *)
(* has taken from them, or are marked as spoiled.                          *)
LEMMA ForwardAnsweredPreserves ==
    ASSUME NegInv, stage = "fwd", NEW s, NEW offer, NEW offered, NEW key, NEW mends, NEW invite,
           s = ex.from, offer = ex.offer, offered = ex.offered, key = ex.answerKey,
           mends = ex.mends, invite = ex.invite,
           NEW d \in Answers(Other(s), offered), ForwardAnswered(d)
    PROVE  NegInv'
<1> DEFINE t == Other(s)
           info == Parse(Body(d))
           body == Rewrite(Body(d), Pbx, RelayPort(s), key)
           taken == info.ok /\ AnswerUsable(info, offered)
           mended == info.ok /\ mends
           plain == offered # None /\ ~d.srtp
           kept == info.ok /\ invite
           p == IF info.ok THEN PhoneOffered(s, offer, body) ELSE phone[s]
           q == PhoneAnswered(d, offered)
<1>1. /\ stage' = "up" /\ kind' = kind /\ made' = made /\ local' = local
      /\ info.ok => TakeAnswer(t, info, offered)
      /\ ~info.ok => leg' = leg /\ keys' = keys /\ secure' = secure /\ sent' = sent
      /\ info.ok => sent' = [sent EXCEPT ![s] = body]
      /\ kept => sdpTo' = [sdpTo EXCEPT ![s] = body]
      /\ ~kept => sdpTo' = sdpTo
      /\ phone' = [phone EXCEPT ![s] = p, ![t] = q]
      /\ spoiled' = [spoiled EXCEPT ![t] = ~taken, ![s] = ~mended]
      /\ stale' = [stale EXCEPT ![t] = @ \/ plain, ![s] = ~kept]
  BY Zenon DEF ForwardAnswered
<1>2. TypeInv /\ CallInv /\ UpInv /\ FwdInv /\ NameInv /\ OwnInv
  BY DEF NegInv, SideInv, TalkInv
<1>3. /\ kind = "call" /\ s \in Sides /\ mends \in BOOLEAN
      /\ offered = OfferKey(t) /\ key = OfferKey(s)
      /\ Took(s, offer, key, leg[s].in)
      /\ mends => PortTaken(s, offer)
  BY <1>2 DEF FwdInv
<1>4. /\ t \in Sides /\ t # s /\ Sides = {s, t} /\ Other(t) = s
      /\ \A x \in Sides : UpSide(x) /\ CallSide(x)
  BY <1>2, <1>3, OtherSide DEF UpInv, CallInv
<1>5. /\ offered \in KeyOrNone /\ key \in KeyOrNone
      /\ KeyNum(offered) \subseteq KeyNum(keys[t]) /\ KeyNum(key) \subseteq KeyNum(keys[s])
  BY <1>2, <1>3, <1>4, OfferKeyTyped
<1>6. AnswerFits(offered, d, info)
  BY <1>4, <1>5, AnswerTaken
<1>7. Heard(d, info) /\ info.ok \in BOOLEAN /\ d.srtp \in BOOLEAN
  <2>1. Heard(d, info) /\ d.srtp \in BOOLEAN
    BY <1>6 DEF AnswerFits
  <2> QED
    BY <2>1 DEF Heard
<1> HIDE DEF t, info
<1>8. info.ok => Sent(s, body, key)
  BY <1>3, <1>5, <1>7, SentOn
<1> HIDE DEF body
<1>9. info.ok => /\ body \in Bodies /\ body # <<>> /\ BodyKey(body) = key /\ Relayed(s, body)
                 /\ BodyNum(body) \subseteq KeyNum(key)
  BY <1>8, SentFacts
<1>10. info.ok => AnswerEffect(t, d, info, offered) /\ AnswerKept(t, d, info, offered)
  <2> SUFFICES ASSUME info.ok
               PROVE  AnswerEffect(t, d, info, offered) /\ AnswerKept(t, d, info, offered)
    OBVIOUS
  <2>1. AnswerEffect(t, d, info, offered)
    BY <1>1, <1>2, <1>4, <1>5, <1>6, TakeAnswerIs
  <2> QED
    BY <1>4, <1>6, <2>1, AnswerKeeps
<1>11. /\ leg' \in [Sides -> LegState] /\ keys' \in [Sides -> KeyOrNone]
       /\ secure' \in [Sides -> BOOLEAN]
       /\ leg'[s] = leg[s] /\ keys'[s] = keys[s] /\ secure'[s] = secure[s]
       /\ keys'[t] \in {keys[t], offered}
  <2>1. CASE info.ok
    BY <1>4, <1>10, <2>1 DEF AnswerEffect
  <2>2. CASE ~info.ok
    BY <1>1, <1>2, <2>2 DEF TypeInv
  <2> QED
    BY <2>1, <2>2
<1>12. /\ p \in PhoneState /\ q \in PhoneState
       /\ phone' \in [Sides -> PhoneState] /\ phone'[s] = p /\ phone'[t] = q
  <2>1. q \in PhoneState
    BY <1>5, <1>6, PhoneAnsweredTyped
  <2>2. phone[s] \in PhoneState
    BY <1>2, <1>3 DEF TypeInv
  <2>3. leg[s].in \in KeyOrNone
    <3>1. leg[s] \in LegState
      BY <1>2, <1>3 DEF TypeInv
    <3> QED
      BY <3>1 DEF LegState
  <2>4. info.ok => PhoneOffered(s, offer, body) \in PhoneState
    <3> DEFINE in == leg[s].in
    <3>1. Took(s, offer, key, in) /\ in \in KeyOrNone
      BY <1>3, <2>3
    <3> HIDE DEF in
    <3> QED
      BY <1>2, <1>3, <1>5, <1>9, <3>1, PhoneOfferedTyped
  <2>5. p \in PhoneState
    BY <1>7, <2>2, <2>4
  <2> HIDE DEF p, q
  <2> QED
    BY <1>1, <1>2, <1>3, <1>4, <2>1, <2>5 DEF TypeInv
<1>13. /\ spoiled' \in [Sides -> BOOLEAN]
       /\ ~spoiled'[t] => taken
       /\ ~spoiled'[s] => mended
  <2>1. taken \in BOOLEAN /\ mended \in BOOLEAN /\ (~taken) \in BOOLEAN /\ (~mended) \in BOOLEAN
    OBVIOUS
  <2> HIDE DEF taken, mended
  <2> QED
    BY <1>1, <1>2, <1>3, <1>4, <2>1 DEF TypeInv
<1>14. /\ stale' \in [Sides -> BOOLEAN]
       /\ ~stale'[t] => ~stale[t] /\ ~plain
       /\ ~stale'[s] => kept
  <2>1. plain \in BOOLEAN /\ kept \in BOOLEAN /\ (~kept) \in BOOLEAN
    OBVIOUS
  <2> HIDE DEF plain, kept
  <2> QED
    BY <1>1, <1>2, <1>3, <1>4, <2>1 DEF TypeInv
<1>15. /\ sent' \in [Sides -> Bodies] /\ sent'[t] = sent[t]
       /\ sent'[s] = sent[s] \/ (info.ok /\ sent'[s] = body)
       /\ sdpTo' \in [Sides -> Bodies] /\ sdpTo'[t] = sdpTo[t]
       /\ sdpTo'[s] = sdpTo[s] \/ (info.ok /\ sdpTo'[s] = body)
       /\ kept => sdpTo'[s] = body
  <2>1. /\ sent' \in [Sides -> Bodies] /\ sent'[t] = sent[t]
        /\ sent'[s] = sent[s] \/ (info.ok /\ sent'[s] = body)
    <3>1. CASE info.ok
      BY <1>1, <1>2, <1>3, <1>4, <1>9, <3>1 DEF TypeInv
    <3>2. CASE ~info.ok
      <4>1. sent' = sent
        BY <1>1, <3>2
      <4>2. sent \in [Sides -> Bodies]
        BY <1>2 DEF TypeInv
      <4> QED
        BY <4>1, <4>2
    <3> QED
      BY <3>1, <3>2
  <2>2. CASE kept
    BY <1>1, <1>2, <1>3, <1>4, <1>9, <2>1, <2>2 DEF TypeInv
  <2>3. CASE ~kept
    <3>1. sdpTo' = sdpTo
      BY <1>1, <2>3
    <3>2. sdpTo \in [Sides -> Bodies]
      BY <1>2 DEF TypeInv
    <3> QED
      BY <2>1, <2>3, <3>1, <3>2
  <2> QED
    BY <2>2, <2>3
<1> HIDE DEF taken, mended, plain, kept, p, q
<1>16. TypeInv'
  BY <1>1, <1>2, <1>11, <1>12, <1>13, <1>14, <1>15 DEF TypeInv
<1>17. CallInv'
  <2>1. CallSide(s)'
    BY <1>4, <1>11, CallSideKept
  <2>2. CallSide(t)'
    <3>1. CASE info.ok
      BY <1>10, <3>1 DEF AnswerKept
    <3>2. CASE ~info.ok
      BY <1>1, <1>4, <3>2, CallSideKept
    <3> QED
      BY <3>1, <3>2
  <2> QED
    BY <1>4, <2>1, <2>2 DEF CallInv
<1>18. OfferKey(s)' = key
  BY <1>3, <1>11 DEF OfferKey
<1>19. UpSide(s)'
  <2>1. ~spoiled'[s] => Agrees(s)'
    <3> SUFFICES ASSUME mended PROVE Agrees(s)'
      BY <1>13
    <3>1. info.ok /\ mends
      BY DEF mended
    <3>2. Took(s, offer, key, leg'[s].in)
      BY <1>3, <1>11
    <3>3. BodyKey(body) = key /\ phone'[s] = PhoneOffered(s, offer, body)
      BY <1>9, <1>12, <3>1 DEF p
    <3>4. leg'[s].out = key
      BY <1>3, <1>4, <1>11 DEF CallSide
    <3>5. leg'[s].port = IF offer.zero THEN phone[s].port ELSE offer.port
      BY <1>3, <1>11, <3>1 DEF PortTaken
    <3> QED
      BY <1>3, <3>2, <3>3, <3>4, <3>5, OfferAgrees
  <2>2. ~stale'[s] => SameKey(BodyKey(sdpTo'[s]), OfferKey(s)')
    <3> SUFFICES ASSUME kept PROVE SameKey(BodyKey(sdpTo'[s]), OfferKey(s)')
      BY <1>14
    <3>1. info.ok /\ sdpTo'[s] = body
      BY <1>15 DEF kept
    <3> QED
      BY <1>9, <1>18, <3>1, SameKeyEqual
  <2>3. sdpTo'[s] # <<>>
    <3>1. sdpTo[s] # <<>>
      BY <1>3, <1>4 DEF UpSide
    <3> QED
      BY <1>9, <1>15, <3>1
  <2> QED
    BY <2>1, <2>2, <2>3 DEF UpSide
<1>20. UpSide(t)'
  <2>1. ~spoiled'[t] => Agrees(t)'
    <3> SUFFICES ASSUME taken PROVE Agrees(t)'
      BY <1>13
    <3>1. info.ok /\ AnswerUsable(info, offered)
      BY DEF taken
    <3>2. phone'[t] = PhoneAnswered(d, offered)
      BY <1>12 DEF q
    <3> QED
      BY <1>10, <3>1, <3>2, AnsweredAgrees
  <2>2. ~stale'[t] => SameKey(BodyKey(sdpTo'[t]), OfferKey(t)')
    <3> SUFFICES ASSUME ~stale[t], ~plain PROVE SameKey(BodyKey(sdpTo'[t]), OfferKey(t)')
      BY <1>14
    <3>1. SameKey(BodyKey(sdpTo[t]), OfferKey(t))
      BY <1>3, <1>4 DEF UpSide
    <3>2. OfferKey(t)' = OfferKey(t)
      <4>1. CASE ~info.ok
        BY <1>1, <4>1 DEF OfferKey
      <4>2. CASE info.ok /\ ~AnswerUsable(info, offered)
        BY <1>10, <4>2 DEF AnswerKept
      <4>3. CASE info.ok /\ AnswerUsable(info, offered)
        <5>1. OfferKey(t)' = IF d.srtp THEN offered ELSE None
          BY <1>10, <4>3 DEF AnswerKept
        <5>2. ~d.srtp => offered = None
          BY DEF plain
        <5> QED
          BY <1>3, <1>7, <5>1, <5>2
      <4> QED
        BY <4>1, <4>2, <4>3
    <3> QED
      BY <1>15, <3>1, <3>2
  <2>3. sdpTo'[t] # <<>>
    BY <1>3, <1>4, <1>15 DEF UpSide
  <2> QED
    BY <2>1, <2>2, <2>3 DEF UpSide
<1>21. UpInv'
  BY <1>4, <1>19, <1>20 DEF UpInv
<1>22. TalkInv'
  BY <1>1, <1>3 DEF TalkInv, RingInv, FwdInv, RoomInv, IdleInv
<1>23. NameInv'
  <2>1. NameSide(s) /\ NameSide(t)
    BY <1>2, <1>3, <1>4 DEF NameInv
  <2>2. NameSide(t)'
    BY <1>15, <2>1 DEF NameSide
  <2>3. NameSide(s)'
    BY <1>9, <1>15, <2>1 DEF NameSide
  <2> QED
    BY <1>4, <2>2, <2>3 DEF NameInv
<1>24. OwnInv'
  <2>1. Owned(s)' \subseteq Owned(s)
    <3>1. BodyNum(sent'[s]) \subseteq BodyNum(sent[s]) \cup KeyNum(keys[s])
      BY <1>5, <1>9, <1>15
    <3>2. BodyNum(sdpTo'[s]) \subseteq BodyNum(sdpTo[s]) \cup KeyNum(keys[s])
      BY <1>5, <1>9, <1>15
    <3>3. Owned(s)' = KeyNum(keys[s]) \cup BodyNum(sent'[s]) \cup BodyNum(sdpTo'[s])
      BY <1>11 DEF Owned
    <3> QED
      BY <3>1, <3>2, <3>3 DEF Owned
  <2>2. Owned(t)' \subseteq Owned(t)
    <3>1. KeyNum(keys'[t]) \subseteq KeyNum(keys[t])
      BY <1>5, <1>11
    <3>2. Owned(t)' = KeyNum(keys'[t]) \cup BodyNum(sent[t]) \cup BodyNum(sdpTo[t])
      BY <1>15 DEF Owned
    <3> QED
      BY <3>1, <3>2 DEF Owned
  <2> QED
    BY <1>1, <1>2, <1>4, <2>1, <2>2, OwnKept
<1> QED
  BY <1>16, <1>17, <1>21, <1>22, <1>23, <1>24 DEF NegInv, SideInv

(* A refusal with a description preserves it: the side that refused is     *)
(* marked, its keys are made for it, and the side that offered was marked. *)
LEMMA ForwardRefusedWithPreserves ==
    ASSUME NegInv, stage = "fwd", NEW s, NEW offered, NEW key, NEW invite,
           s = ex.from, offered = ex.offered, key = ex.answerKey, invite = ex.invite,
           NEW d \in Answers(Other(s), offered), ForwardRefusedWith(d)
    PROVE  NegInv'
<1> DEFINE t == Other(s)
           info == Parse(Body(d))
           body == Rewrite(Body(d), Pbx, RelayPort(s), key)
           plain == offered # None /\ ~d.srtp
           kept == IF invite THEN body ELSE sdpTo[s]
<1>1. /\ stage' = "up" /\ kind' = kind /\ made' = made /\ local' = local /\ info.ok
      /\ TakeAnswer(t, info, offered) /\ phone' = phone
      /\ sent' = [sent EXCEPT ![s] = body]
      /\ sdpTo' = [sdpTo EXCEPT ![s] = IF invite THEN body ELSE @]
      /\ spoiled' = [spoiled EXCEPT ![t] = TRUE]
      /\ stale' = [stale EXCEPT ![t] = @ \/ plain]
  BY Zenon DEF ForwardRefusedWith
<1>2. TypeInv /\ CallInv /\ UpInv /\ FwdInv /\ NameInv /\ OwnInv
  BY DEF NegInv, SideInv, TalkInv
<1>3. /\ kind = "call" /\ s \in Sides /\ spoiled[s] /\ stale[s]
      /\ offered = OfferKey(t) /\ key = OfferKey(s)
  BY <1>2 DEF FwdInv
<1>4. /\ t \in Sides /\ t # s /\ Sides = {s, t} /\ Other(t) = s
      /\ \A x \in Sides : UpSide(x) /\ CallSide(x)
  BY <1>2, <1>3, OtherSide DEF UpInv, CallInv
<1>5. /\ offered \in KeyOrNone /\ key \in KeyOrNone
      /\ KeyNum(offered) \subseteq KeyNum(keys[t]) /\ KeyNum(key) \subseteq KeyNum(keys[s])
  BY <1>2, <1>3, <1>4, OfferKeyTyped
<1>6. AnswerFits(offered, d, info)
  BY <1>4, <1>5, AnswerTaken
<1>7. Heard(d, info) /\ d.srtp \in BOOLEAN
  BY <1>6 DEF AnswerFits
<1> HIDE DEF t, info
<1>8. Sent(s, body, key)
  BY <1>1, <1>3, <1>5, <1>7, SentOn
<1> HIDE DEF body
<1>9. /\ body \in Bodies /\ body # <<>> /\ BodyKey(body) = key /\ Relayed(s, body)
      /\ BodyNum(body) \subseteq KeyNum(key)
  BY <1>8, SentFacts
<1>10. AnswerEffect(t, d, info, offered) /\ AnswerKept(t, d, info, offered)
  <2>1. AnswerEffect(t, d, info, offered)
    BY <1>1, <1>2, <1>4, <1>5, <1>6, TakeAnswerIs
  <2> QED
    BY <1>4, <1>6, <2>1, AnswerKeeps
<1>11. /\ leg' \in [Sides -> LegState] /\ keys' \in [Sides -> KeyOrNone]
       /\ secure' \in [Sides -> BOOLEAN]
       /\ leg'[s] = leg[s] /\ keys'[s] = keys[s] /\ secure'[s] = secure[s]
       /\ keys'[t] \in {keys[t], offered}
  BY <1>4, <1>10 DEF AnswerEffect
<1>12. spoiled' \in [Sides -> BOOLEAN] /\ spoiled'[t] /\ spoiled'[s]
  BY <1>1, <1>2, <1>3, <1>4 DEF TypeInv
<1>13. stale' \in [Sides -> BOOLEAN] /\ stale'[s] /\ (~stale'[t] => ~stale[t] /\ ~plain)
  <2>1. plain \in BOOLEAN
    OBVIOUS
  <2> HIDE DEF plain
  <2> QED
    BY <1>1, <1>2, <1>3, <1>4, <2>1 DEF TypeInv
<1>14. /\ kept \in Bodies /\ kept # <<>>
       /\ Relayed(s, kept) /\ BodyNum(kept) \subseteq BodyNum(sdpTo[s]) \cup KeyNum(key)
  <2>1. CASE invite
    BY <1>9, <2>1
  <2>2. CASE ~invite
    <3>1. sdpTo[s] \in Bodies /\ sdpTo[s] # <<>> /\ NameSide(s)
      BY <1>2, <1>3, <1>4 DEF TypeInv, UpSide, NameInv
    <3> QED
      BY <2>2, <3>1 DEF NameSide
  <2> QED
    BY <2>1, <2>2
<1>15. /\ sent' \in [Sides -> Bodies] /\ sent'[t] = sent[t] /\ sent'[s] = body
       /\ sdpTo' \in [Sides -> Bodies] /\ sdpTo'[t] = sdpTo[t] /\ sdpTo'[s] = kept
  <2>1. sdpTo' = [sdpTo EXCEPT ![s] = kept]
    BY <1>1
  <2> HIDE DEF kept
  <2> QED
    BY <1>1, <1>2, <1>3, <1>4, <1>9, <1>14, <2>1 DEF TypeInv
<1> HIDE DEF plain, kept
<1>16. TypeInv'
  BY <1>1, <1>2, <1>11, <1>12, <1>13, <1>15 DEF TypeInv
<1>17. CallInv'
  <2>1. CallSide(s)'
    BY <1>4, <1>11, CallSideKept
  <2>2. CallSide(t)'
    BY <1>10 DEF AnswerKept
  <2> QED
    BY <1>4, <2>1, <2>2 DEF CallInv
<1>18. UpSide(s)'
  BY <1>12, <1>13, <1>14, <1>15 DEF UpSide
<1>19. UpSide(t)'
  <2>1. ~stale'[t] => SameKey(BodyKey(sdpTo'[t]), OfferKey(t)')
    <3> SUFFICES ASSUME ~stale[t], ~plain PROVE SameKey(BodyKey(sdpTo'[t]), OfferKey(t)')
      BY <1>13
    <3>1. SameKey(BodyKey(sdpTo[t]), OfferKey(t))
      BY <1>3, <1>4 DEF UpSide
    <3>2. OfferKey(t)' = OfferKey(t)
      <4>1. CASE ~AnswerUsable(info, offered)
        BY <1>10, <4>1 DEF AnswerKept
      <4>2. CASE AnswerUsable(info, offered)
        <5>1. OfferKey(t)' = IF d.srtp THEN offered ELSE None
          BY <1>10, <4>2 DEF AnswerKept
        <5>2. ~d.srtp => offered = None
          BY DEF plain
        <5> QED
          BY <1>3, <1>7, <5>1, <5>2
      <4> QED
        BY <4>1, <4>2
    <3> QED
      BY <1>15, <3>1, <3>2
  <2>2. sdpTo'[t] # <<>>
    BY <1>3, <1>4, <1>15 DEF UpSide
  <2> QED
    BY <1>12, <2>1, <2>2 DEF UpSide
<1>20. UpInv'
  BY <1>4, <1>18, <1>19 DEF UpInv
<1>21. TalkInv'
  BY <1>1, <1>3 DEF TalkInv, RingInv, FwdInv, RoomInv, IdleInv
<1>22. NameInv'
  <2>1. NameSide(t)
    BY <1>2, <1>4 DEF NameInv
  <2>2. NameSide(t)' /\ NameSide(s)'
    BY <1>9, <1>14, <1>15, <2>1 DEF NameSide
  <2> QED
    BY <1>4, <2>2 DEF NameInv
<1>23. OwnInv'
  <2>1. Owned(s)' \subseteq Owned(s)
    <3>1. Owned(s)' = KeyNum(keys[s]) \cup BodyNum(body) \cup BodyNum(kept)
      BY <1>11, <1>15 DEF Owned
    <3> QED
      BY <1>5, <1>9, <1>14, <3>1 DEF Owned
  <2>2. Owned(t)' \subseteq Owned(t)
    <3>1. KeyNum(keys'[t]) \subseteq KeyNum(keys[t])
      BY <1>5, <1>11
    <3>2. Owned(t)' = KeyNum(keys'[t]) \cup BodyNum(sent[t]) \cup BodyNum(sdpTo[t])
      BY <1>15 DEF Owned
    <3> QED
      BY <3>1, <3>2 DEF Owned
  <2> QED
    BY <1>1, <1>2, <1>4, <2>1, <2>2, OwnKept
<1> QED
  BY <1>16, <1>17, <1>20, <1>21, <1>22, <1>23 DEF NegInv, SideInv

-----------------------------------------------------------------------------
(***************************************************************************)
(* The setup of a call.                                                    *)
(***************************************************************************)

(* A call that ends. *)
LEMMA EndPreserves ==
    ASSUME NegInv, End
    PROVE  NegInv'
<1>1. /\ stage' = "over" /\ kind' = kind /\ phone' = phone /\ leg' = leg
      /\ keys' = keys /\ secure' = secure /\ sdpTo' = sdpTo /\ sent' = sent
      /\ made' = made /\ spoiled' = spoiled /\ stale' = stale /\ local' = local
  BY DEF End, callVars, histVars
<1>2. TypeInv /\ RoomInv /\ NameInv /\ OwnInv
  BY DEF NegInv, TalkInv
<1>3. TypeInv'
  BY <1>1, <1>2 DEF TypeInv
<1>4. SideInv'
  BY <1>1 DEF SideInv, CallInv, UpInv
<1>5. TalkInv'
  BY <1>1, <1>2 DEF TalkInv, RingInv, FwdInv, RoomInv, IdleInv
<1>6. NameInv'
  BY <1>1, <1>2 DEF NameInv, NameSide
<1>7. OwnInv'
  <2>1. \A s \in Sides : Owned(s)' \subseteq Owned(s)
    BY <1>1 DEF Owned
  <2> QED
    BY <1>1, <1>2, <2>1, OwnKept
<1> QED
  BY <1>3, <1>4, <1>5, <1>6, <1>7 DEF NegInv

(* A step that changes nothing. *)
LEMMA StutterPreserves ==
    ASSUME NegInv, UNCHANGED vars
    PROVE  NegInv'
<1>1. /\ stage' = stage /\ kind' = kind /\ phone' = phone /\ leg' = leg /\ ex' = ex
      /\ keys' = keys /\ secure' = secure /\ sdpTo' = sdpTo /\ sent' = sent
      /\ made' = made /\ spoiled' = spoiled /\ stale' = stale /\ local' = local
  BY DEF vars, callVars, histVars
<1>2. TypeInv /\ CallInv /\ UpInv /\ TalkInv /\ NameInv /\ OwnInv
  BY DEF NegInv, SideInv
<1>3. TypeInv'
  BY <1>1, <1>2 DEF TypeInv
<1>4. CallInv'
  BY <1>1, <1>2, CallSideKept DEF CallInv
<1>5. UpInv'
  BY <1>1, <1>2, UpSideKept DEF UpInv
<1>6. TalkInv'
  <2>1. RingInv'
    BY <1>1, <1>2 DEF TalkInv, RingInv, PortTaken, OfferKey
  <2>2. FwdInv'
    BY <1>1, <1>2 DEF TalkInv, FwdInv, PortTaken, OfferKey
  <2>3. RoomInv' /\ IdleInv'
    BY <1>1, <1>2 DEF TalkInv, RoomInv, IdleInv
  <2> QED
    BY <2>1, <2>2, <2>3 DEF TalkInv
<1>7. NameInv'
  BY <1>1, <1>2 DEF NameInv, NameSide
<1>8. OwnInv'
  <2>1. \A s \in Sides : Owned(s)' \subseteq Owned(s)
    BY <1>1 DEF Owned
  <2> QED
    BY <1>1, <1>2, <2>1, OwnKept
<1> QED
  BY <1>3, <1>4, <1>5, <1>6, <1>7, <1>8 DEF NegInv, SideInv

-----------------------------------------------------------------------------
(* What the two phones get when one of the callee's rings or answers.      *)
LEMMA ForkIs ==
    ASSUME TypeInv, NEW tls
    PROVE  /\ ForkKey(tls) \in KeyOrNone /\ ForkKey(tls) \in {keys["callee"], None}
           /\ KeyNum(ForkKey(tls)) \subseteq KeyNum(keys["callee"])
<1>1. ForkKey(tls) \in {keys["callee"], None} /\ keys["callee"] \in KeyOrNone
  BY DEF ForkKey, TypeInv, Sides
<1> QED
  BY <1>1 DEF KeyOrNone, KeyNum

Rung(offer, key, tls, d) ==
    /\ Sent("caller", ToCaller(d), OfferKey("caller"))
    /\ Sent("callee", ToCallee(tls), key)
    /\ PhoneOffered("caller", offer, ToCaller(d)) \in PhoneState
    /\ PhoneOffered("caller", offer, ToCaller(d)).port =
           IF offer.zero THEN phone["caller"].port ELSE offer.port

(* Both bodies of early media or of the answer may be sent, and the caller *)
(* uses what the relay took of its offer.                                  *)
LEMMA RungIs ==
    ASSUME NegInv, stage = "ringing", NEW tls, NEW key, key = ForkKey(tls), NEW offer,
           offer = ex.offer, NEW d, NEW info, info = Parse(Body(d)), Heard(d, info), info.ok
    PROVE  Rung(offer, key, tls, d)
<1> DEFINE ours == OfferKey("caller")
           in == leg["caller"].in
           body == ToCaller(d)
<1>1. TypeInv /\ RingInv /\ "caller" \in Sides /\ "callee" \in Sides
  BY DEF NegInv, TalkInv, Sides
<1>2. Took("caller", offer, ours, in)
  BY <1>1 DEF RingInv
<1>3. ours \in KeyOrNone /\ key \in KeyOrNone
  BY <1>1, OfferKeyTyped, ForkIs
<1>4. in \in KeyOrNone
  <2>1. leg["caller"] \in LegState
    BY <1>1 DEF TypeInv
  <2> QED
    BY <2>1 DEF LegState
<1>5. Heard(offer, Parse(Body(offer))) /\ Parse(Body(offer)).ok
  <2>1. offer \in OffersOf["caller"] /\ Parse(Body(offer)).ok
    BY <1>2 DEF Took
  <2>2. offer \in Offer
    BY <1>1, <2>1, OfferTyped
  <2> QED
    BY <2>1, <2>2, OfferHeard
<1> HIDE DEF ours, in
<1>6. Sent("caller", body, ours)
  <2>1. body = Rewrite(Body(d), Pbx, RelayPort("caller"), ours)
    BY DEF ToCaller, ours
  <2> HIDE DEF body
  <2> QED
    BY <1>1, <1>3, <2>1, SentOn
<1>7. Sent("callee", ToCallee(tls), key)
  <2> DEFINE other == Parse(Body(offer))
  <2>1. ToCallee(tls) = Rewrite(Body(offer), Pbx, RelayPort("callee"), key)
    BY DEF ToCallee
  <2>2. Heard(offer, other) /\ other.ok
    BY <1>5
  <2> HIDE DEF other
  <2> QED
    BY <1>1, <1>3, <2>1, <2>2, SentOn
<1> HIDE DEF body
<1>8. BodyKey(body) = ours
  BY <1>6 DEF Sent
<1>9. /\ PhoneOffered("caller", offer, body) \in PhoneState
      /\ PhoneOffered("caller", offer, body).port =
             IF offer.zero THEN phone["caller"].port ELSE offer.port
  BY <1>1, <1>2, <1>3, <1>4, <1>8, PhoneOfferedTyped
<1> QED
  BY <1>6, <1>7, <1>9 DEF Rung, ours, body

(* What a phone of the callee leaves: of the caller's side nothing. *)
CalleeEffect(d, info, key) ==
    /\ leg' \in [Sides -> LegState] /\ keys' \in [Sides -> KeyOrNone]
    /\ secure' \in [Sides -> BOOLEAN]
    /\ leg'["caller"] = leg["caller"] /\ keys'["caller"] = keys["caller"]
    /\ secure'["caller"] = secure["caller"]
    /\ CallSide("caller")' /\ CallSide("callee")'
    /\ keys'["callee"] \in {keys["callee"], key}
    /\ keys["callee"] # None => keys'["callee"] # None
    /\ OfferKey("caller")' = OfferKey("caller")
    /\ KeyNum(keys'["callee"]) \subseteq KeyNum(keys["callee"])

(* What a phone of the callee leaves after early media or an answer. *)
LEMMA CalleeIs ==
    ASSUME NegInv, kind = "call", stage # "over", NEW tls, NEW key, key = ForkKey(tls),
           NEW d, NEW info, AnswerFits(key, d, info),
           info.ok => TakeAnswer("callee", info, key),
           ~info.ok => leg' = leg /\ keys' = keys /\ secure' = secure
    PROVE  /\ CalleeEffect(d, info, key)
           /\ info.ok => /\ AnswerEffect("callee", d, info, key)
                         /\ AnswerKept("callee", d, info, key)
<1>1. /\ TypeInv /\ CallInv /\ CallSide("caller") /\ CallSide("callee")
      /\ "caller" \in Sides /\ "callee" \in Sides /\ Other("callee") = "caller"
  BY DEF NegInv, SideInv, CallInv, Sides, Other
<1>2. key \in KeyOrNone /\ key \in {keys["callee"], None}
      /\ KeyNum(key) \subseteq KeyNum(keys["callee"])
  BY <1>1, ForkIs
<1>3. info.ok \in BOOLEAN /\ d.srtp \in BOOLEAN
  <2>1. Heard(d, info) /\ d.srtp \in BOOLEAN
    BY DEF AnswerFits
  <2> QED
    BY <2>1 DEF Heard
<1>4. ASSUME info.ok
      PROVE  AnswerEffect("callee", d, info, key) /\ AnswerKept("callee", d, info, key)
  <2>1. AnswerEffect("callee", d, info, key)
    BY <1>1, <1>2, <1>4, TakeAnswerIs
  <2> QED
    BY <1>1, <2>1, AnswerKeeps
<1>5. /\ leg' \in [Sides -> LegState] /\ keys' \in [Sides -> KeyOrNone]
      /\ secure' \in [Sides -> BOOLEAN]
      /\ leg'["caller"] = leg["caller"] /\ keys'["caller"] = keys["caller"]
      /\ secure'["caller"] = secure["caller"]
      /\ keys'["callee"] \in {keys["callee"], key}
  <2>1. CASE info.ok
    <3>1. AnswerEffect("callee", d, info, key)
      BY <1>4, <2>1
    <3> QED
      BY <1>1, <3>1 DEF AnswerEffect
  <2>2. CASE ~info.ok
    <3>1. leg' = leg /\ keys' = keys /\ secure' = secure
      BY <2>2
    <3> QED
      BY <1>1, <3>1 DEF TypeInv
  <2> QED
    BY <1>3, <2>1, <2>2
<1>6. CallSide("callee")'
  <2>1. CASE info.ok
    BY <1>4, <2>1 DEF AnswerKept
  <2>2. CASE ~info.ok
    BY <1>1, <2>2, CallSideKept
  <2> QED
    BY <1>3, <2>1, <2>2
<1>7. CallSide("caller")' /\ OfferKey("caller")' = OfferKey("caller")
  BY <1>1, <1>5, CallSideKept DEF OfferKey
<1>8. keys["callee"] # None => keys'["callee"] # None
  <2>1. CASE ~info.ok
    BY <2>1
  <2>2. CASE info.ok /\ AnswerUsable(info, key)
    <3>1. d.srtp => keys'["callee"] = key /\ key # None
      BY <1>4, <2>2 DEF AnswerEffect
    <3>2. ~d.srtp => keys'["callee"] = keys["callee"]
      BY <1>4, <2>2 DEF AnswerEffect
    <3> QED
      BY <1>3, <3>1, <3>2
  <2>3. CASE info.ok /\ ~AnswerUsable(info, key)
    <3>1. keys' = keys
      BY <1>4, <2>3 DEF AnswerEffect
    <3> QED
      BY <3>1
  <2> QED
    BY <2>1, <2>2, <2>3
<1>9. KeyNum(keys'["callee"]) \subseteq KeyNum(keys["callee"])
  BY <1>2, <1>5
<1>10. CalleeEffect(d, info, key)
  BY <1>5, <1>6, <1>7, <1>8, <1>9 DEF CalleeEffect
<1> QED
  BY <1>4, <1>10

(* Early media, of a phone that rings or of one that lost, preserves the   *)
(* invariant.                                                              *)
LEMMA EarlyMediaPreserves ==
    ASSUME NegInv, NEW tls, NEW key, key = ForkKey(tls), NEW offer, offer = ex.offer,
           NEW d \in Answers("callee", key), EarlyMedia(tls, d)
    PROVE  NegInv'
<1> DEFINE s == "caller"
           t == "callee"
           info == Parse(Body(d))
           heard == stage = "ringing" /\ info.ok /\ AnswerUsable(info, key)
           bodies == [caller |-> ToCaller(d), callee |-> ToCallee(tls)]
           p == PhoneOffered("caller", offer, ToCaller(d))
           up == stage = "up"
<1>1. /\ kind = "call" /\ stage \in {"ringing", "up"} /\ kind' = kind /\ stage' = stage
      /\ ex' = ex /\ sdpTo' = sdpTo /\ local' = local /\ made' = made
      /\ info.ok => TakeAnswer("callee", info, key)
      /\ ~info.ok => leg' = leg /\ keys' = keys /\ secure' = secure
      /\ heard => sent' = bodies /\ phone' = [phone EXCEPT !["caller"] = p]
      /\ ~heard => sent' = sent /\ phone' = phone
      /\ spoiled' = [spoiled EXCEPT !["callee"] = @ \/ up]
      /\ stale' = [stale EXCEPT !["callee"] = @ \/ up]
  BY Zenon DEF EarlyMedia
<1>2. /\ TypeInv /\ CallInv /\ UpInv /\ RingInv /\ NameInv /\ OwnInv
      /\ "caller" \in Sides /\ "callee" \in Sides /\ Sides = {"caller", "callee"}
  BY DEF NegInv, SideInv, TalkInv, Sides
<1>3. /\ key \in KeyOrNone /\ KeyNum(key) \subseteq KeyNum(keys["callee"])
  BY <1>2, ForkIs
<1>4. AnswerFits(key, d, info)
  BY <1>2, <1>3, AnswerTaken
<1>5. Heard(d, info)
  BY <1>4 DEF AnswerFits
<1> HIDE DEF info
<1>6. CalleeEffect(d, info, key)
  BY <1>1, <1>4, CalleeIs
<1>7. heard => Rung(offer, key, tls, d)
  BY <1>5, RungIs DEF info
<1>8. heard => /\ p \in PhoneState
               /\ p.port = IF offer.zero THEN phone["caller"].port ELSE offer.port
               /\ bodies \in [Sides -> Bodies]
               /\ Relayed("caller", bodies["caller"]) /\ Relayed("callee", bodies["callee"])
               /\ BodyNum(bodies["caller"]) \subseteq KeyNum(keys["caller"])
               /\ BodyNum(bodies["callee"]) \subseteq KeyNum(keys["callee"])
  <2> SUFFICES ASSUME heard
               PROVE  /\ p \in PhoneState
                      /\ p.port = IF offer.zero THEN phone["caller"].port ELSE offer.port
                      /\ bodies \in [Sides -> Bodies]
                      /\ Relayed("caller", bodies["caller"]) /\ Relayed("callee", bodies["callee"])
                      /\ BodyNum(bodies["caller"]) \subseteq KeyNum(keys["caller"])
                      /\ BodyNum(bodies["callee"]) \subseteq KeyNum(keys["callee"])
    OBVIOUS
  <2> DEFINE a == ToCaller(d)
             b == ToCallee(tls)
             k == OfferKey("caller")
  <2>1. /\ Sent("caller", a, k) /\ Sent("callee", b, key) /\ p \in PhoneState
        /\ p.port = IF offer.zero THEN phone["caller"].port ELSE offer.port
    BY <1>7 DEF Rung
  <2>2. KeyNum(k) \subseteq KeyNum(keys["caller"])
    BY <1>2, OfferKeyTyped
  <2>3. bodies = [caller |-> a, callee |-> b]
    OBVIOUS
  <2> HIDE DEF a, b, k, p, heard, bodies
  <2>4. /\ a \in Bodies /\ Relayed("caller", a) /\ BodyNum(a) \subseteq KeyNum(k)
    BY <2>1, SentFacts
  <2>5. /\ b \in Bodies /\ Relayed("callee", b) /\ BodyNum(b) \subseteq KeyNum(key)
    BY <2>1, SentFacts
  <2>6. bodies["caller"] = a /\ bodies["callee"] = b /\ bodies \in [Sides -> Bodies]
    BY <1>2, <2>3, <2>4, <2>5
  <2>7. /\ BodyNum(bodies["caller"]) \subseteq KeyNum(keys["caller"])
        /\ BodyNum(bodies["callee"]) \subseteq KeyNum(keys["callee"])
    BY <1>3, <2>2, <2>4, <2>5, <2>6
  <2> QED
    BY <2>1, <2>4, <2>5, <2>6, <2>7
<1>9. heard \in BOOLEAN /\ up \in BOOLEAN /\ (heard => stage = "ringing") /\ (up <=> stage = "up")
  OBVIOUS
<1> HIDE DEF heard, p, bodies, up
<1>10. /\ phone' \in [Sides -> PhoneState] /\ phone'["callee"] = phone["callee"]
       /\ heard => phone'["caller"] = p
       /\ ~heard => phone'["caller"] = phone["caller"]
  <2>1. CASE heard
    <3>1. phone' = [phone EXCEPT !["caller"] = p] /\ p \in PhoneState
      BY <1>1, <1>8, <2>1
    <3> QED
      BY <1>2, <2>1, <3>1 DEF TypeInv
  <2>2. CASE ~heard
    <3>1. phone' = phone
      BY <1>1, <2>2
    <3> QED
      BY <1>2, <2>2, <3>1 DEF TypeInv
  <2> QED
    BY <1>9, <2>1, <2>2
<1>11. /\ sent' \in [Sides -> Bodies]
       /\ \A x \in Sides : sent'[x] = sent[x] \/ (heard /\ sent'[x] = bodies[x])
  <2>1. CASE heard
    <3>1. sent' = bodies /\ bodies \in [Sides -> Bodies]
      BY <1>1, <1>8, <2>1
    <3> QED
      BY <2>1, <3>1
  <2>2. CASE ~heard
    <3>1. sent' = sent
      BY <1>1, <2>2
    <3> QED
      BY <1>2, <3>1 DEF TypeInv
  <2> QED
    BY <1>9, <2>1, <2>2
<1>12. /\ spoiled' \in [Sides -> BOOLEAN] /\ spoiled'["caller"] = spoiled["caller"]
       /\ up => spoiled'["callee"] = TRUE
       /\ stale' \in [Sides -> BOOLEAN] /\ stale'["caller"] = stale["caller"]
       /\ up => stale'["callee"] = TRUE
  BY <1>1, <1>2, <1>9 DEF TypeInv
<1>13. TypeInv'
  <2>1. /\ leg' \in [Sides -> LegState] /\ keys' \in [Sides -> KeyOrNone]
        /\ secure' \in [Sides -> BOOLEAN]
    BY <1>6 DEF CalleeEffect
  <2> QED
    BY <1>1, <1>2, <1>10, <1>11, <1>12, <2>1 DEF TypeInv
<1>14. CallInv'
  BY <1>2, <1>6 DEF CalleeEffect, CallInv
<1>15. UpInv'
  <2> SUFFICES ASSUME up PROVE UpInv'
    BY <1>1, <1>9 DEF UpInv
  <2>1. UpSide("caller") /\ UpSide("callee")
    BY <1>2, <1>9 DEF UpInv
  <2>2. phone'["caller"] = phone["caller"]
    BY <1>9, <1>10
  <2>3. leg'["caller"] = leg["caller"] /\ keys'["caller"] = keys["caller"]
        /\ secure'["caller"] = secure["caller"]
    BY <1>6 DEF CalleeEffect
  <2>4. UpSide("caller")'
    BY <1>1, <1>12, <2>1, <2>2, <2>3, UpSideKept
  <2>5. UpSide("callee")'
    BY <1>1, <1>12, <2>1 DEF UpSide
  <2> QED
    BY <1>2, <2>4, <2>5 DEF UpInv
<1>16. RingInv'
  <2> SUFFICES ASSUME stage = "ringing" PROVE RingInv'
    BY <1>1 DEF RingInv
  <2>1. /\ keys["callee"] # None /\ Took("caller", offer, OfferKey("caller"), leg["caller"].in)
        /\ PortTaken("caller", offer)
    BY <1>2 DEF RingInv
  <2>2. /\ keys'["callee"] # None /\ OfferKey("caller")' = OfferKey("caller")
        /\ leg'["caller"] = leg["caller"]
    BY <1>6, <2>1 DEF CalleeEffect
  <2>3. leg["caller"].port = IF offer.zero THEN phone'["caller"].port ELSE offer.port
    <3>1. leg["caller"].port = IF offer.zero THEN phone["caller"].port ELSE offer.port
      BY <2>1 DEF PortTaken
    <3>2. CASE heard
      BY <1>8, <1>10, <3>1, <3>2
    <3>3. CASE ~heard
      BY <1>10, <3>1, <3>3
    <3> QED
      BY <3>2, <3>3
  <2>4. ex'.offer = offer
    BY <1>1
  <2>5. Took("caller", offer, OfferKey("caller")', leg'["caller"].in)
    BY <2>1, <2>2
  <2> QED
    BY <1>1, <2>2, <2>3, <2>4, <2>5 DEF RingInv, PortTaken
<1>17. TalkInv'
  BY <1>1, <1>16 DEF TalkInv, FwdInv, RoomInv, IdleInv
<1>18. NameInv'
  <2> SUFFICES ASSUME NEW x \in Sides PROVE NameSide(x)'
    BY DEF NameInv
  <2>1. NameSide(x)
    BY <1>2 DEF NameInv
  <2>2. heard => Relayed(x, bodies[x])
    BY <1>2, <1>8
  <2> QED
    BY <1>1, <1>11, <2>1, <2>2 DEF NameSide
<1>19. OwnInv'
  <2> SUFFICES ASSUME NEW x \in Sides PROVE Owned(x)' \subseteq Owned(x)
    BY <1>1, <1>2, OwnKept
  <2>1. BodyNum(sent'[x]) \subseteq BodyNum(sent[x]) \cup KeyNum(keys[x])
    <3>1. heard => BodyNum(bodies[x]) \subseteq KeyNum(keys[x])
      BY <1>2, <1>8
    <3> QED
      BY <1>11, <3>1
  <2>2. KeyNum(keys'[x]) \subseteq KeyNum(keys[x])
    BY <1>2, <1>6 DEF CalleeEffect
  <2>3. Owned(x)' = KeyNum(keys'[x]) \cup BodyNum(sent'[x]) \cup BodyNum(sdpTo[x])
    BY <1>1 DEF Owned
  <2> QED
    BY <2>1, <2>2, <2>3 DEF Owned
<1> QED
  BY <1>13, <1>14, <1>15, <1>17, <1>18, <1>19 DEF NegInv, SideInv

(* connect preserves it: after the answer both sides agree. *)
LEMMA ConnectPreserves ==
    ASSUME NegInv, NEW tls \in BOOLEAN, NEW key, key = ForkKey(tls), NEW offer, offer = ex.offer,
           NEW d \in Answers("callee", key), Connect(tls, d)
    PROVE  NegInv'
<1> DEFINE info == Parse(Body(d))
           a == ToCaller(d)
           b == ToCallee(tls)
           bodies == [caller |-> a, callee |-> b]
           p == PhoneOffered("caller", offer, a)
           q == PhoneAnswered(d, key)
           phones == [caller |-> p, callee |-> q]
           plain == tls /\ ~d.srtp
<1> USE DEF Connect
<1>1. CASE ~info.ok \/ ~AnswerUsable(info, key)
  BY <1>1, EndPreserves
<1>2. CASE ~(~info.ok \/ ~AnswerUsable(info, key))
  <2>1. /\ kind = "call" /\ stage = "ringing" /\ kind' = kind /\ stage' = "up"
        /\ local' = local /\ made' = made /\ spoiled' = spoiled
        /\ info.ok /\ AnswerUsable(info, key) /\ TakeAnswer("callee", info, key)
        /\ sent' = bodies /\ sdpTo' = bodies /\ phone' = phones
        /\ stale' = [stale EXCEPT !["callee"] = plain]
    BY <1>2
  <2> HIDE DEF Connect
  <2>2. /\ TypeInv /\ CallInv /\ RingInv /\ NameInv /\ OwnInv
        /\ "caller" \in Sides /\ "callee" \in Sides /\ Sides = {"caller", "callee"}
    BY DEF NegInv, SideInv, TalkInv, Sides
  <2>3. /\ key \in KeyOrNone /\ KeyNum(key) \subseteq KeyNum(keys["callee"])
    BY <2>2, ForkIs
  <2>4. AnswerFits(key, d, info)
    BY <2>2, <2>3, AnswerTaken
  <2>5. /\ Heard(d, info) /\ d.srtp \in BOOLEAN /\ (d.srtp => key # None)
    BY <2>4 DEF AnswerFits
  <2> HIDE DEF info
  <2>6. /\ CalleeEffect(d, info, key) /\ AnswerEffect("callee", d, info, key)
        /\ AnswerKept("callee", d, info, key)
    BY <2>1, <2>4, CalleeIs
  <2>7. Rung(offer, key, tls, d)
    BY <2>1, <2>5, RungIs DEF info
  <2> DEFINE k == OfferKey("caller")
  <2>8. /\ Sent("caller", a, k) /\ Sent("callee", b, key) /\ p \in PhoneState
    BY <2>7 DEF Rung
  <2>9. KeyNum(k) \subseteq KeyNum(keys["caller"])
    BY <2>2, OfferKeyTyped
  <2>10. q \in PhoneState
    BY <2>3, <2>4, PhoneAnsweredTyped
  <2>11. plain \in BOOLEAN
    BY <2>5
  <2> HIDE DEF a, b, p, q, plain, k
  <2>12. /\ a \in Bodies /\ a # <<>> /\ BodyKey(a) = k /\ Relayed("caller", a)
         /\ BodyNum(a) \subseteq KeyNum(k)
    BY <2>8, SentFacts
  <2>13. /\ b \in Bodies /\ b # <<>> /\ BodyKey(b) = key /\ Relayed("callee", b)
         /\ BodyNum(b) \subseteq KeyNum(key)
    BY <2>8, SentFacts
  <2>14. /\ bodies \in [Sides -> Bodies] /\ bodies["caller"] = a /\ bodies["callee"] = b
         /\ phones \in [Sides -> PhoneState] /\ phones["caller"] = p /\ phones["callee"] = q
    BY <2>2, <2>8, <2>10, <2>12, <2>13
  <2> HIDE DEF bodies, phones
  <2>15. /\ stale' \in [Sides -> BOOLEAN] /\ (stale'["callee"] <=> plain)
    BY <2>1, <2>2, <2>11 DEF TypeInv
  <2>16. TypeInv'
    <3>1. /\ leg' \in [Sides -> LegState] /\ keys' \in [Sides -> KeyOrNone]
          /\ secure' \in [Sides -> BOOLEAN]
      BY <2>6 DEF CalleeEffect
    <3>2. /\ sent' \in [Sides -> Bodies] /\ sdpTo' \in [Sides -> Bodies]
          /\ phone' \in [Sides -> PhoneState]
      BY <2>1, <2>14
    <3> QED
      BY <2>1, <2>2, <2>15, <3>1, <3>2 DEF TypeInv
  <2>17. CallInv'
    BY <2>2, <2>6 DEF CalleeEffect, CallInv
  <2>18. UpSide("caller")'
    <3>1. /\ Took("caller", offer, k, leg["caller"].in) /\ PortTaken("caller", offer)
      BY <2>1, <2>2 DEF RingInv, k
    <3>2. /\ leg'["caller"] = leg["caller"] /\ OfferKey("caller")' = k
      BY <2>6 DEF CalleeEffect, k
    <3>3. leg["caller"].out = k
      BY <2>1, <2>2 DEF CallInv, CallSide, k
    <3>4. phone'["caller"] = PhoneOffered("caller", offer, a)
      BY <2>1, <2>14 DEF p
    <3>5. leg'["caller"].port = IF offer.zero THEN phone["caller"].port ELSE offer.port
      BY <3>1, <3>2 DEF PortTaken
    <3>6. Took("caller", offer, k, leg'["caller"].in) /\ leg'["caller"].out = k
      BY <3>1, <3>2, <3>3
    <3>7. Agrees("caller")'
      BY <2>2, <2>12, <3>4, <3>5, <3>6, OfferAgrees
    <3>8. SameKey(BodyKey(sdpTo'["caller"]), OfferKey("caller")')
      BY <2>1, <2>12, <2>14, <3>2, SameKeyEqual
    <3> QED
      BY <2>1, <2>12, <2>14, <3>7, <3>8 DEF UpSide
  <2>19. UpSide("callee")'
    <3>1. phone'["callee"] = PhoneAnswered(d, key)
      BY <2>1, <2>14 DEF q
    <3>2. Agrees("callee")'
      BY <2>1, <2>6, <3>1, AnsweredAgrees
    <3>3. ASSUME ~stale'["callee"] PROVE SameKey(BodyKey(sdpTo'["callee"]), OfferKey("callee")')
      <4>1. OfferKey("callee")' = IF d.srtp THEN key ELSE None
        BY <2>1, <2>6 DEF AnswerKept
      <4>2. ~tls \/ d.srtp
        BY <2>15, <3>3 DEF plain
      <4>3. ~tls => key = None
        BY DEF ForkKey
      <4>4. OfferKey("callee")' = key
        BY <2>5, <4>1, <4>2, <4>3
      <4> QED
        BY <2>1, <2>13, <2>14, <4>4, SameKeyEqual
    <3> QED
      BY <2>1, <2>13, <2>14, <3>2, <3>3 DEF UpSide
  <2>20. UpInv'
    BY <2>2, <2>18, <2>19 DEF UpInv
  <2>21. TalkInv'
    BY <2>1 DEF TalkInv, RingInv, FwdInv, RoomInv, IdleInv
  <2>22. NameInv'
    <3>1. NameSide("caller")' /\ NameSide("callee")'
      BY <2>1, <2>12, <2>13, <2>14 DEF NameSide
    <3> QED
      BY <2>2, <3>1 DEF NameInv
  <2>23. OwnInv'
    <3>1. Owned("caller")' \subseteq Owned("caller")
      <4>1. Owned("caller")' = KeyNum(keys["caller"]) \cup BodyNum(a) \cup BodyNum(a)
        BY <2>1, <2>6, <2>14 DEF Owned, CalleeEffect
      <4> QED
        BY <2>9, <2>12, <4>1 DEF Owned
    <3>2. Owned("callee")' \subseteq Owned("callee")
      <4>1. Owned("callee")' = KeyNum(keys'["callee"]) \cup BodyNum(b) \cup BodyNum(b)
        BY <2>1, <2>14 DEF Owned
      <4>2. KeyNum(keys'["callee"]) \subseteq KeyNum(keys["callee"])
        BY <2>6 DEF CalleeEffect
      <4> QED
        BY <2>3, <2>13, <4>1, <4>2 DEF Owned
    <3> QED
      BY <2>1, <2>2, <3>1, <3>2, OwnKept
  <2> QED
    BY <2>16, <2>17, <2>20, <2>21, <2>22, <2>23 DEF NegInv, SideInv
<1> HIDE DEF Connect
<1> QED
  BY <1>1, <1>2

(* So does the caller's INVITE, refused or taken. *)
LEMMA InvitePreserves ==
    ASSUME NegInv, stage = "idle", NEW d \in OffersOf["caller"], Invite(d)
    PROVE  NegInv'
<1> DEFINE s == "caller"
           info == OfferInfo[d]
           ours == AnswerKey("caller", info)
           in == OfferedKey(info)
           calleeKey == [tag |-> 1, suite |-> 80, key |-> MadeFor(ours) + 1]
           refused == ~info.ok \/ ~OfferUsable(info) \/ ("caller" \in tlsOnly /\ ~info.secure)
<1>1. CASE refused
  <2>1. End
    BY <1>1, Zenon DEF Invite
  <2> QED
    BY <2>1, EndPreserves
<1>2. CASE ~refused
  <2>1. /\ kind = "call" /\ stage = "idle" /\ kind' = kind /\ stage' = "ringing"
        /\ local' = local /\ phone' = phone /\ sent' = sent /\ sdpTo' = sdpTo
        /\ spoiled' = spoiled /\ stale' = stale
        /\ info.ok /\ OfferUsable(info) /\ leg' = TakeOffer("caller", info)
        /\ keys' = [caller |-> ours, callee |-> calleeKey]
        /\ secure' = [secure EXCEPT !["caller"] = info.secure]
        /\ made' = calleeKey.key
        /\ ex' = [from |-> "caller", offer |-> d]
    BY <1>2, Zenon DEF Invite, histVars
  <2>2. /\ TypeInv /\ IdleInv /\ NameInv /\ OwnInv
        /\ "caller" \in Sides /\ "callee" \in Sides /\ Sides = {"caller", "callee"}
        /\ Other("caller") = "callee"
    BY DEF NegInv, SideInv, TalkInv, Sides, Other
  <2>3. /\ keys["caller"] = None /\ secure["callee"] = FALSE /\ leg["caller"] = Silent
        /\ leg["callee"] = Silent /\ phone["caller"] = Unused
        /\ \A x \in Sides : sent[x] = <<>> /\ sdpTo[x] = <<>>
    BY <2>1, <2>2 DEF IdleInv, Each
  <2>4. Answered("caller", d, ours, in) /\ OfferTaken("caller", d, leg')
    BY <2>1, <2>2, TakeOfferIs
  <2>5. /\ ours \in KeyOrNone /\ Took("caller", d, ours, in) /\ (in = None <=> ours = None)
        /\ KeyNum(ours) \subseteq {} \cup {made + 1}
        /\ (info.secure <=> ours # None)
    BY <2>3, <2>4 DEF Answered, KeyNum
  <2>6. /\ leg' \in [Sides -> LegState] /\ leg'["caller"].in = in /\ leg'["caller"].out = ours
        /\ leg'["caller"].port = (IF d.zero THEN leg["caller"].port ELSE d.port)
        /\ leg'["callee"] = Silent
    BY <2>2, <2>3, <2>4 DEF OfferTaken
  <2>7. info.secure \in BOOLEAN
    <3>1. Heard(d, info) /\ info.ok
      BY <2>1, <2>2, HeardOffer
    <3> HIDE DEF info
    <3> QED
      BY <3>1 DEF Heard
  <2> HIDE DEF info, in
  <2>8. /\ MadeFor(ours) \in Nat /\ made <= MadeFor(ours) /\ made \in Nat
        /\ KeyNum(ours) \subseteq made + 1 .. MadeFor(ours)
    <3> HIDE DEF ours
    <3> DEFINE K == {}
    <3>1. made \in Nat /\ K \subseteq 1..made /\ KeyNum(ours) \subseteq K \cup {made + 1}
      BY <2>2, <2>5 DEF TypeInv
    <3> HIDE DEF K
    <3>2. /\ MadeFor(ours) \in Nat /\ made <= MadeFor(ours)
          /\ KeyNum(ours) \subseteq K \cup (made + 1 .. MadeFor(ours))
      BY <2>5, <3>1, MadeForIs
    <3> QED
      BY <3>1, <3>2 DEF K
  <2> HIDE DEF ours
  <2>9. /\ calleeKey \in Crypto /\ calleeKey.key = MadeFor(ours) + 1 /\ calleeKey # None
        /\ calleeKey \in KeyOrNone
    <3>1. calleeKey \in Crypto /\ calleeKey.key = MadeFor(ours) + 1
      BY <2>8 DEF Crypto
    <3> HIDE DEF calleeKey
    <3> QED
      BY <3>1, NoneApart DEF KeyOrNone
  <2> HIDE DEF calleeKey
  <2>10. /\ keys' \in [Sides -> KeyOrNone] /\ keys'["caller"] = ours
         /\ keys'["callee"] = calleeKey
    BY <2>1, <2>2, <2>5, <2>9
  <2>11. /\ secure' \in [Sides -> BOOLEAN] /\ (secure'["caller"] <=> ours # None)
         /\ secure'["callee"] = FALSE
    BY <2>1, <2>2, <2>3, <2>5, <2>7 DEF TypeInv
  <2>12. OfferKey("caller")' = ours /\ OfferKey("callee")' = None
    BY <2>10, <2>11 DEF OfferKey
  <2>13. made' = MadeFor(ours) + 1 /\ made' \in Nat
    BY <2>1, <2>8, <2>9
  <2>14. TypeInv'
    BY <2>1, <2>2, <2>6, <2>10, <2>11, <2>13 DEF TypeInv
  <2>15. CallInv'
    <3>1. CallSide("caller")'
      BY <2>5, <2>6, <2>10, <2>11, <2>12 DEF CallSide
    <3>2. CallSide("callee")'
      <4>1. leg'["callee"].in = None /\ leg'["callee"].out = None
        BY <2>6 DEF Silent
      <4> QED
        BY <2>11, <2>12, <4>1 DEF CallSide
    <3> QED
      BY <2>2, <3>1, <3>2 DEF CallInv
  <2>16. UpInv'
    BY <2>1 DEF UpInv
  <2>17. RingInv'
    <3>1. ex'.offer = d
      BY <2>1
    <3>2. leg'["caller"].port = IF d.zero THEN phone'["caller"].port ELSE d.port
      BY <2>1, <2>3, <2>6 DEF Silent, Unused
    <3>3. Took("caller", d, OfferKey("caller")', leg'["caller"].in)
      BY <2>5, <2>6, <2>12
    <3> QED
      BY <2>1, <2>9, <2>10, <3>1, <3>2, <3>3 DEF RingInv, PortTaken
  <2>18. TalkInv'
    BY <2>1, <2>17 DEF TalkInv, FwdInv, RoomInv, IdleInv
  <2>19. NameInv'
    BY <2>1, <2>2 DEF NameInv, NameSide
  <2>20. OwnInv'
    <3>1. Owned("caller")' = KeyNum(ours)
      BY <2>1, <2>2, <2>3, <2>10 DEF Owned, BodyNum
    <3>2. Owned("callee")' = {MadeFor(ours) + 1}
      BY <2>1, <2>2, <2>3, <2>9, <2>10 DEF Owned, BodyNum, KeyNum
    <3> DEFINE m == MadeFor(ours)
               K == KeyNum(ours)
    <3>3. m \in Nat /\ made \in Nat /\ made <= m /\ K \subseteq made + 1 .. m /\ made' = m + 1
      BY <2>8, <2>13
    <3>4. Owned("caller")' = K /\ Owned("callee")' = {m + 1}
      BY <3>1, <3>2
    <3> HIDE DEF m, K
    <3>5. /\ K \subseteq 1..made' /\ {m + 1} \subseteq 1..made' /\ K \cap {m + 1} = {}
      BY <3>3
    <3> QED
      BY <2>2, <3>4, <3>5 DEF OwnInv
  <2> QED
    BY <2>14, <2>15, <2>16, <2>18, <2>19, <2>20 DEF NegInv, SideInv
<1> QED
  BY <1>1, <1>2

-----------------------------------------------------------------------------
(***************************************************************************)
(* Conference legs.                                                        *)
(***************************************************************************)

(* A conference leg answers an offer with its own description.             *)
LEMMA ApplyTyped ==
    ASSUME TypeInv, NEW d \in OffersOf["caller"], OfferInfo[d].ok, OfferUsable(OfferInfo[d]),
           NEW l \in LocalDesc
    PROVE  /\ ApplyOffer(l, OfferInfo[d]) \in LocalDesc
           /\ ApplyOffer(l, OfferInfo[d]).crypto = AnswerKey("caller", OfferInfo[d])
<1> DEFINE info == OfferInfo[d]
           ours == AnswerKey("caller", info)
           in == OfferedKey(info)
           same == NoG711(info) \/ \E i \in DOMAIN info.fmts : info.fmts[i] = l.pt
           pt == IF same THEN l.pt ELSE G711(info)
           dtmf == IF info.dtmf = None THEN l.dtmf ELSE info.dtmf
           dir == AnswerDirection(info.dir)
           a == [l EXCEPT !.crypto = ours, !.pt = pt, !.dtmf = dtmf, !.dir = dir]
<1>1. "caller" \in Sides
  BY DEF Sides
<1>2. Heard(d, info) /\ info.ok
  BY <1>1, HeardOffer
<1>3. ours \in KeyOrNone
  <2>1. Answered("caller", d, ours, in)
    BY <1>1, TakeOfferIs
  <2> QED
    BY <2>1 DEF Answered
<1>4. ApplyOffer(l, info) = a
  BY DEF ApplyOffer, LocalDesc
<1> HIDE DEF info, ours
<1>5. info.dir \in Directions /\ info.fmts \in Seq(Nat) /\ info.dtmf \in Nat \cup {None}
  BY <1>2 DEF Heard
<1>6. pt \in Nat
  <2>1. l.pt \in Nat /\ G711(info) \in Nat
    BY <1>5, G711Typed DEF LocalDesc
  <2> HIDE DEF same
  <2> QED
    BY <2>1
<1>7. dtmf \in Nat \cup {None}
  BY <1>5 DEF LocalDesc
<1>8. dir \in Directions
  BY <1>5 DEF AnswerDirection, Directions
<1> HIDE DEF pt, dtmf, dir
<1>9. a \in LocalDesc /\ a.crypto = ours
  BY <1>3, <1>6, <1>7, <1>8 DEF LocalDesc
<1> HIDE DEF a
<1> QED
  BY <1>4, <1>9 DEF info, ours

(* A conference leg that answers an offer, the first or a later one,       *)
(* preserves the invariant.                                                *)
LEMMA RoomPreserves ==
    ASSUME NegInv, kind = "room", stage \in {"idle", "up"}, stage' = "up",
           NEW d \in OffersOf["caller"], OfferInfo[d].ok, OfferUsable(OfferInfo[d]),
           NEW l \in LocalDesc, AnswerRoom(d, l)
    PROVE  NegInv'
<1> DEFINE s == "caller"
           info == OfferInfo[d]
           ours == AnswerKey("caller", info)
           in == OfferedKey(info)
           desc == ApplyOffer(l, info)
           b == Build(desc)
           k == IF ours = None THEN keys["caller"] ELSE ours
           p == PhoneOffered("caller", d, b)
<1>1. /\ kind' = kind /\ secure' = secure /\ sdpTo' = sdpTo /\ stale' = stale
      /\ leg' = TakeOffer("caller", info) /\ keys' = [keys EXCEPT !["caller"] = k]
      /\ made' = MadeFor(ours) /\ local' = desc
      /\ sent' = [sent EXCEPT !["caller"] = b] /\ phone' = [phone EXCEPT !["caller"] = p]
      /\ spoiled' = [spoiled EXCEPT !["caller"] = @ /\ d.zero]
  BY DEF AnswerRoom
<1>2. /\ TypeInv /\ UpInv /\ RoomInv /\ IdleInv /\ NameInv /\ OwnInv
      /\ "caller" \in Sides /\ "callee" \in Sides /\ Sides = {"caller", "callee"}
      /\ Other("caller") = "callee"
  BY DEF NegInv, SideInv, TalkInv, Sides, Other
<1>3. Answered("caller", d, ours, in) /\ OfferTaken("caller", d, leg')
  BY <1>1, <1>2, TakeOfferIs
<1>4. desc \in LocalDesc /\ desc.crypto = ours
  BY <1>2, ApplyTyped
<1>5. d.zero \in BOOLEAN
  BY <1>2, OfferTyped DEF Offer
<1> HIDE DEF info, in, desc
<1>6. /\ ours \in KeyOrNone /\ in \in KeyOrNone /\ Took("caller", d, ours, in)
      /\ (in = None <=> ours = None)
      /\ KeyNum(ours) \subseteq KeyNum(keys["caller"]) \cup {made + 1}
  BY <1>3 DEF Answered
<1>7. /\ leg' \in [Sides -> LegState] /\ leg'["caller"].in = in /\ leg'["caller"].out = ours
      /\ leg'["caller"].port = (IF d.zero THEN leg["caller"].port ELSE d.port)
      /\ leg'["callee"] = leg["callee"]
  BY <1>2, <1>3 DEF OfferTaken, info, in
<1> HIDE DEF ours
<1>8. Sent("caller", b, ours)
  BY <1>4, RelayedBuild
<1> HIDE DEF b
<1>9. /\ b \in Bodies /\ b # <<>> /\ BodyKey(b) = ours /\ Relayed("caller", b)
      /\ BodyNum(b) \subseteq KeyNum(ours)
  BY <1>8, SentFacts
<1>10. /\ made' \in Nat /\ made <= made' /\ made \in Nat
       /\ KeyNum(ours) \subseteq KeyNum(keys["caller"]) \cup (made + 1 .. made')
  <2> DEFINE K == KeyNum(keys["caller"])
  <2>1. made \in Nat /\ K \subseteq 1..made /\ KeyNum(ours) \subseteq K \cup {made + 1}
    BY <1>2, <1>6, OfferKeyTyped DEF OwnInv, TypeInv
  <2> HIDE DEF K
  <2>2. /\ MadeFor(ours) \in Nat /\ made <= MadeFor(ours)
        /\ KeyNum(ours) \subseteq K \cup (made + 1 .. MadeFor(ours))
    BY <1>6, <2>1, MadeForIs
  <2> QED
    BY <1>1, <2>1, <2>2 DEF K
<1>11. p \in PhoneState
  BY <1>2, <1>6, <1>9, PhoneOfferedTyped
<1>12. k \in KeyOrNone /\ k \in {keys["caller"], ours} /\ (ours # None => k = ours)
  BY <1>2, <1>6 DEF TypeInv
<1> HIDE DEF p, k
<1>13. /\ sent' \in [Sides -> Bodies] /\ sent'["caller"] = b /\ sent'["callee"] = sent["callee"]
       /\ phone' \in [Sides -> PhoneState] /\ phone'["caller"] = p
       /\ phone'["callee"] = phone["callee"]
       /\ keys' \in [Sides -> KeyOrNone] /\ keys'["caller"] = k /\ keys'["callee"] = keys["callee"]
  BY <1>1, <1>2, <1>9, <1>11, <1>12 DEF TypeInv
<1>14. /\ spoiled' \in [Sides -> BOOLEAN]
       /\ (~spoiled'["caller"] => ~spoiled["caller"] \/ ~d.zero)
  BY <1>1, <1>2, <1>5 DEF TypeInv
<1>15. TypeInv'
  BY <1>1, <1>2, <1>7, <1>10, <1>13, <1>14 DEF TypeInv
<1>16. CallInv'
  BY <1>1 DEF CallInv
<1>17. UpSide("caller")'
  <2>1. ASSUME ~spoiled'["caller"] PROVE Agrees("caller")'
    <3>1. ~d.zero \/ leg["caller"].port = phone["caller"].port
      <4>1. CASE stage = "idle"
        BY <1>2, <4>1 DEF IdleInv, Each, Silent, Unused
      <4>2. CASE stage = "up"
        BY <1>2, <1>14, <2>1, <4>2 DEF UpInv, UpSide, Agrees
      <4> QED
        BY <4>1, <4>2
    <3>2. leg'["caller"].port = IF d.zero THEN phone["caller"].port ELSE d.port
      BY <1>5, <1>7, <3>1
    <3>3. /\ Took("caller", d, ours, leg'["caller"].in) /\ leg'["caller"].out = ours
          /\ phone'["caller"] = PhoneOffered("caller", d, b)
      BY <1>6, <1>7, <1>13 DEF p
    <3> QED
      BY <1>2, <1>9, <3>2, <3>3, OfferAgrees
  <2> QED
    BY <1>1, <2>1 DEF UpSide
<1>18. UpSide("callee")'
  <2>1. leg'["callee"] = Silent /\ phone'["callee"] = Unused
    BY <1>2, <1>7, <1>13 DEF RoomInv
  <2>2. Agrees("callee")'
    BY <2>1 DEF Agrees, Silent, Unused, SameKey
  <2> QED
    BY <1>1, <2>2 DEF UpSide
<1>19. UpInv'
  BY <1>2, <1>17, <1>18 DEF UpInv
<1>20. RoomInv'
  <2>1. leg'["callee"] = Silent /\ phone'["callee"] = Unused
    BY <1>2, <1>7, <1>13 DEF RoomInv
  <2>2. /\ local' \in LocalDesc /\ local'.crypto = leg'["caller"].out
        /\ (leg'["caller"].in = None <=> leg'["caller"].out = None)
        /\ local'.crypto # None => local'.crypto = keys'["caller"]
    BY <1>1, <1>4, <1>6, <1>7, <1>12, <1>13
  <2> QED
    BY <1>1, <2>1, <2>2 DEF RoomInv
<1>21. TalkInv'
  BY <1>1, <1>20 DEF TalkInv, RingInv, FwdInv, IdleInv
<1>22. NameInv'
  <2>1. NameSide("caller")' /\ NameSide("callee")'
    BY <1>1, <1>2, <1>9, <1>13 DEF NameInv, NameSide
  <2> QED
    BY <1>2, <2>1 DEF NameInv
<1>23. OwnInv'
  <2> DEFINE N == made + 1 .. made'
  <2>1. KeyNum(ours) \subseteq KeyNum(keys["caller"]) \cup N
        /\ KeyNum(k) \subseteq KeyNum(keys["caller"]) \cup N
    BY <1>10, <1>12
  <2> HIDE DEF N
  <2>2. Owned("caller")' \subseteq Owned("caller") \cup N
    <3>1. Owned("caller")' = KeyNum(k) \cup BodyNum(b) \cup BodyNum(sdpTo["caller"])
      BY <1>1, <1>13 DEF Owned
    <3> QED
      BY <1>9, <2>1, <3>1 DEF Owned
  <2>3. Owned("callee")' \subseteq Owned("callee")
    BY <1>1, <1>13 DEF Owned
  <2>4. N \subseteq made + 1 .. made'
    BY DEF N
  <2> QED
    BY <1>2, <1>10, <2>2, <2>3, <2>4, OwnGrows
<1> QED
  BY <1>15, <1>16, <1>19, <1>21, <1>22, <1>23 DEF NegInv, SideInv

(* So does a caller that joins. *)
LEMMA JoinPreserves ==
    ASSUME NegInv, stage = "idle", NEW d \in OffersOf["caller"], JoinRoom(d)
    PROVE  NegInv'
<1> DEFINE info == OfferInfo[d]
           l == [ip |-> Pbx, port |-> RelayPort("caller"), ver |-> 1, pt |-> G711(info),
                 dtmf |-> info.dtmf, dir |-> "sendrecv", crypto |-> None]
           refused == ~info.ok \/ ("caller" \in tlsOnly /\ ~info.secure) \/ NoG711(info)
                      \/ ~OfferUsable(info)
<1>1. CASE refused
  <2>1. End
    BY <1>1, Zenon DEF JoinRoom
  <2> QED
    BY <2>1, EndPreserves
<1>2. CASE ~refused
  <2>1. kind = "room" /\ AnswerRoom(d, l) /\ stage' = "up" /\ info.ok /\ OfferUsable(info)
    BY <1>2, Zenon DEF JoinRoom
  <2>2. Heard(d, info)
    BY HeardOffer DEF Sides
  <2>3. l \in LocalDesc
    <3> HIDE DEF info
    <3>1. info.fmts \in Seq(Nat) /\ info.dtmf \in Nat \cup {None}
      BY <2>1, <2>2 DEF Heard
    <3>2. G711(info) \in Nat
      BY <3>1, G711Typed
    <3> QED
      BY <3>1, <3>2 DEF LocalDesc, KeyOrNone, Directions
  <2> HIDE DEF l
  <2> QED
    BY <2>1, <2>3, RoomPreserves
<1> QED
  BY <1>1, <1>2

(* So does a re-offer of a conference leg. *)
LEMMA ReofferPreserves ==
    ASSUME NegInv, NEW d \in OffersOf["caller"], RoomReoffer(d)
    PROVE  NegInv'
<1> DEFINE v == (local.ver + 1) % VersionModulus
           l == [local EXCEPT !.ver = v]
<1>1. /\ kind = "room" /\ stage = "up" /\ stage' = "up" /\ OfferInfo[d].ok
      /\ OfferUsable(OfferInfo[d]) /\ local \in LocalDesc
  BY DEF RoomReoffer, UseOffer, MayOffer, NegInv, TalkInv, RoomInv
<1>2. l \in LocalDesc
  <2>1. v \in Nat
    BY <1>1, SdpAssumption DEF LocalDesc
  <2> HIDE DEF v
  <2> QED
    BY <1>1, <2>1 DEF LocalDesc
<1>3. AnswerRoom(d, l)
  <2>1. AnswerRoom(d, [local EXCEPT !.ver = (@ + 1) % VersionModulus])
    BY DEF RoomReoffer
  <2>2. l = [local EXCEPT !.ver = (@ + 1) % VersionModulus]
    BY <1>1 DEF LocalDesc
  <2> HIDE DEF l
  <2> QED
    BY <2>1, <2>2
<1> HIDE DEF l
<1> QED
  BY <1>1, <1>2, <1>3, RoomPreserves

(* So does a refresh of it: the leg's description carries the key the      *)
(* relay uses.                                                             *)
LEMMA RoomRefreshPreserves ==
    ASSUME NegInv, RoomRefresh
    PROVE  NegInv'
<1> DEFINE b == Build(local)
           key == local.crypto
           p == phone["caller"]
           send == IF key = None THEN None ELSE p.send
           q == [[p EXCEPT !.recv = key] EXCEPT !.send = send]
<1>1. /\ kind = "room" /\ stage = "up" /\ kind' = kind /\ stage' = stage /\ leg' = leg
      /\ keys' = keys /\ secure' = secure /\ sdpTo' = sdpTo /\ made' = made
      /\ spoiled' = spoiled /\ stale' = stale /\ local' = local
      /\ sent' = [sent EXCEPT !["caller"] = b]
  BY DEF RoomRefresh, UseOffer, MayOffer, callVars
<1>2. /\ TypeInv /\ UpInv /\ RoomInv /\ NameInv /\ OwnInv
      /\ "caller" \in Sides /\ "callee" \in Sides /\ Sides = {"caller", "callee"}
  BY DEF NegInv, SideInv, TalkInv, Sides
<1>3. /\ local \in LocalDesc /\ key = leg["caller"].out
      /\ (leg["caller"].in = None <=> leg["caller"].out = None)
      /\ (key # None => key = keys["caller"])
      /\ leg["callee"] = Silent /\ phone["callee"] = Unused
  BY <1>1, <1>2 DEF RoomInv
<1>4. p \in PhoneState /\ key \in KeyOrNone
  BY <1>2, <1>3 DEF TypeInv, LocalDesc
<1>5. phone' = [phone EXCEPT !["caller"] = q]
  <2>1. phone' = [phone EXCEPT !["caller"].recv = key,
                               !["caller"].send = IF key = None THEN None ELSE @]
    BY DEF RoomRefresh
  <2>2. phone \in [Sides -> PhoneState]
    BY <1>2 DEF TypeInv
  <2>3. q = [p EXCEPT !.recv = key, !.send = send]
    BY <1>4 DEF PhoneState
  <2> QED
    BY <1>2, <1>4, <2>1, <2>2 DEF PhoneState
<1>6. Sent("caller", b, key)
  BY <1>3, RelayedBuild
<1> HIDE DEF b, key, p
<1>7. send \in KeyOrNone
  BY <1>4 DEF PhoneState, KeyOrNone
<1> HIDE DEF send
<1>8. q \in PhoneState /\ q.recv = key /\ q.port = p.port /\ q.send = send
  BY <1>4, <1>7 DEF PhoneState
<1> HIDE DEF q
<1>9. /\ b \in Bodies /\ b # <<>> /\ BodyKey(b) = key /\ Relayed("caller", b)
      /\ BodyNum(b) \subseteq KeyNum(key)
  BY <1>6, SentFacts
<1>10. /\ sent' \in [Sides -> Bodies] /\ sent'["caller"] = b /\ sent'["callee"] = sent["callee"]
       /\ phone' \in [Sides -> PhoneState] /\ phone'["caller"] = q
       /\ phone'["callee"] = phone["callee"]
  BY <1>1, <1>2, <1>5, <1>8, <1>9 DEF TypeInv
<1>11. TypeInv'
  BY <1>1, <1>2, <1>10 DEF TypeInv
<1>12. CallInv'
  BY <1>1 DEF CallInv
<1>13. UpInv'
  <2>1. UpSide("caller") /\ UpSide("callee")
    BY <1>1, <1>2 DEF UpInv
  <2>2. UpSide("callee")'
    BY <1>1, <1>10, <2>1, UpSideKept
  <2>3. ASSUME ~spoiled["caller"] PROVE Agrees("caller")'
    <3>1. SameKey(leg["caller"].in, p.send) /\ leg["caller"].port = p.port
      BY <2>1, <2>3 DEF UpSide, Agrees, p
    <3>2. SameKey(leg["caller"].out, key)
      BY <1>3, SameKeyEqual
    <3>3. SameKey(leg["caller"].in, send)
      <4>1. CASE key = None
        BY <1>3, <4>1, SameKeyEqual DEF send
      <4>2. CASE key # None
        BY <3>1, <4>2 DEF send
      <4> QED
        BY <4>1, <4>2
    <3> QED
      BY <1>1, <1>8, <1>10, <3>1, <3>2, <3>3 DEF Agrees
  <2>4. UpSide("caller")'
    BY <1>1, <2>3 DEF UpSide
  <2> QED
    BY <1>2, <2>2, <2>4 DEF UpInv
<1>14. TalkInv'
  <2>1. RoomInv'
    BY <1>1, <1>2, <1>10 DEF RoomInv
  <2> QED
    BY <1>1, <2>1 DEF TalkInv, RingInv, FwdInv, IdleInv
<1>15. NameInv'
  <2>1. NameSide("caller")' /\ NameSide("callee")'
    BY <1>1, <1>2, <1>9, <1>10 DEF NameInv, NameSide
  <2> QED
    BY <1>2, <2>1 DEF NameInv
<1>16. OwnInv'
  <2>1. KeyNum(key) \subseteq KeyNum(keys["caller"])
    BY <1>3 DEF KeyNum
  <2>2. Owned("caller")' \subseteq Owned("caller")
    <3>1. Owned("caller")' = KeyNum(keys["caller"]) \cup BodyNum(b) \cup BodyNum(sdpTo["caller"])
      BY <1>1, <1>10 DEF Owned
    <3> QED
      BY <1>9, <2>1, <3>1 DEF Owned
  <2>3. Owned("callee")' \subseteq Owned("callee")
    BY <1>1, <1>10 DEF Owned
  <2> QED
    BY <1>1, <1>2, <2>2, <2>3, OwnKept
<1> QED
  BY <1>11, <1>12, <1>13, <1>14, <1>15, <1>16 DEF NegInv, SideInv

-----------------------------------------------------------------------------
(* The steps of the call setup. *)
LEMMA SetupPreserves ==
    ASSUME NegInv, SetupStep
    PROVE  NegInv'
<1>1. CASE stage = "idle" /\ \E d \in OffersOf["caller"] : Invite(d) \/ JoinRoom(d)
  BY <1>1, InvitePreserves, JoinPreserves
<1>2. CASE \E tls \in CalleePhones : \E d \in Answers("callee", ForkKey(tls)) :
               EarlyMedia(tls, d) \/ Connect(tls, d)
  <2>1. PICK tls \in CalleePhones :
            \E d \in Answers("callee", ForkKey(tls)) : EarlyMedia(tls, d) \/ Connect(tls, d)
    BY <1>2
  <2>2. PICK key, offer : key = ForkKey(tls) /\ offer = ex.offer
    OBVIOUS
  <2>3. PICK d \in Answers("callee", key) : EarlyMedia(tls, d) \/ Connect(tls, d)
    BY <2>1, <2>2
  <2>4. tls \in BOOLEAN
    BY DEF CalleePhones
  <2> QED
    BY <2>2, <2>3, <2>4, EarlyMediaPreserves, ConnectPreserves
<1> QED
  BY <1>1, <1>2 DEF SetupStep

(* The steps within a call. *)
LEMMA CallPreserves ==
    ASSUME NegInv, CallStep
    PROVE  NegInv'
<1>1. CASE /\ kind = "call" /\ MayOffer
           /\ \E s \in Sides :
                  \/ \E d \in OffersOf[s] :
                        \/ OfferRefused(s, d) \/ HoldReinvite(s, d)
                        \/ \E invite \in BOOLEAN : Forward(s, d, invite)
                  \/ Refresh(s)
  <2>1. PICK s \in Sides :
            \/ \E d \in OffersOf[s] :
                  \/ OfferRefused(s, d) \/ HoldReinvite(s, d)
                  \/ \E invite \in BOOLEAN : Forward(s, d, invite)
            \/ Refresh(s)
    BY <1>1
  <2>2. CASE Refresh(s)
    BY <2>2, RefreshPreserves
  <2>3. ASSUME NEW d \in OffersOf[s],
               \/ OfferRefused(s, d) \/ HoldReinvite(s, d)
               \/ \E invite \in BOOLEAN : Forward(s, d, invite)
        PROVE  NegInv'
    BY <1>1, <2>3, RefusedPreserves, HoldPreserves, ForwardPreserves
  <2> QED
    BY <2>1, <2>2, <2>3
<1>2. CASE /\ stage = "fwd"
           /\ \E d \in Answers(Other(ex.from), ex.offered) :
                  ForwardAnswered(d) \/ ForwardRefusedWith(d)
  <2>1. PICK s, offer, offered, key, mends, invite :
            /\ s = ex.from /\ offer = ex.offer /\ offered = ex.offered
            /\ key = ex.answerKey /\ mends = ex.mends /\ invite = ex.invite
    OBVIOUS
  <2>2. PICK d \in Answers(Other(s), offered) :
            ForwardAnswered(d) \/ ForwardRefusedWith(d)
    BY <1>2, <2>1
  <2>3. CASE ForwardAnswered(d)
    BY <1>2, <2>1, <2>2, <2>3, ForwardAnsweredPreserves
  <2>4. CASE ForwardRefusedWith(d)
    BY <1>2, <2>1, <2>2, <2>4, ForwardRefusedWithPreserves
  <2> QED
    BY <2>2, <2>3, <2>4
<1>3. CASE ForwardRefused
  BY <1>3, ForwardRefusedPreserves
<1> QED
  BY <1>1, <1>2, <1>3 DEF CallStep

(* The steps within a conference. *)
LEMMA RoomStepPreserves ==
    ASSUME NegInv, RoomStep
    PROVE  NegInv'
<1>1. "caller" \in Sides
  BY DEF Sides
<1> QED
  BY <1>1, RefusedPreserves, ReofferPreserves, RoomRefreshPreserves DEF RoomStep

(* NegInv is inductive. *)
THEOREM NegotiationCorrect == Spec => []NegInv
<1>1. Init => NegInv
  BY InitInv
<1>2. NegInv /\ [Next]_vars => NegInv'
  BY SetupPreserves, CallPreserves, RoomStepPreserves, StutterPreserves DEF Next
<1> QED
  BY <1>1, <1>2, PTL DEF Spec

(***************************************************************************)
(* KeysAgree: whatever offers, answers, early media, holds and refreshes   *)
(* came before, the relay decrypts, encrypts and sends as the phones do,   *)
(* but for a side marked as spoiled.                                       *)
(***************************************************************************)
THEOREM KeysAlwaysAgree == Spec => []KeysAgree
<1>1. NegInv => KeysAgree
  <2> SUFFICES ASSUME NegInv, stage = "up", NEW s \in Sides, ~spoiled[s]
               PROVE  /\ SameKey(leg[s].in, phone[s].send)
                      /\ SameKey(leg[s].out, phone[s].recv)
                      /\ leg[s].port = phone[s].port
    BY DEF KeysAgree
  <2> QED
    BY DEF NegInv, SideInv, UpInv, UpSide, Agrees
<1> QED
  BY <1>1, NegotiationCorrect, PTL

(***************************************************************************)
(* SentNamesRelay: every body that the PBX sends parses, names the relay   *)
(* and no phone, leaves one audio stream enabled and carries a key that    *)
(* the PBX made and that the other phone does not have.                    *)
(***************************************************************************)
THEOREM SentAlwaysNamesRelay == Spec => []SentNamesRelay
<1>1. NegInv => SentNamesRelay
  <2> SUFFICES ASSUME NegInv PROVE SentNamesRelay
    OBVIOUS
  <2> DEFINE infos == InfoSent
  <2>1. "caller" \in Sides /\ "callee" \in Sides
    BY DEF Sides
  <2>2. ASSUME NEW s \in Sides, sent[s] # <<>>
        PROVE  /\ infos[s] = Parse(sent[s]) /\ Relayed(s, sent[s])
               /\ KeysIn(infos[s]) = BodyNum(sent[s])
    <3>1. infos[s] = Parse(sent[s])
      BY <2>2 DEF InfoSent
    <3>2. Relayed(s, sent[s])
      BY <2>2 DEF NegInv, NameInv, NameSide
    <3> DEFINE key == BodyKey(sent[s])
               cryptos == Parse(sent[s]).cryptos
    <3>3. cryptos = IF key = None THEN <<>> ELSE <<key>>
      BY <3>2 DEF Relayed
    <3>4. KeysIn(infos[s]) = {c.key : c \in ToSet(cryptos)}
      BY <3>1 DEF KeysIn
    <3>5. BodyNum(sent[s]) = KeyNum(key)
      BY <2>2 DEF BodyNum
    <3> HIDE DEF infos, key, cryptos
    <3>6. KeyNum(key) = {c.key : c \in ToSet(cryptos)}
      <4>1. CASE key = None
        <5>1. ToSet(cryptos) = {}
          BY <3>3, <4>1 DEF ToSet
        <5> QED
          BY <4>1, <5>1 DEF KeyNum
      <4>2. CASE key # None
        <5>1. ToSet(cryptos) = {key}
          BY <3>3, <4>2 DEF ToSet
        <5> QED
          BY <4>2, <5>1 DEF KeyNum
      <4> QED
        BY <4>1, <4>2
    <3> QED
      BY <3>1, <3>2, <3>4, <3>5, <3>6
  <2>3. \A s \in Sides : Owned(s) \subseteq 1..made /\ BodyNum(sent[s]) \subseteq Owned(s)
    BY DEF NegInv, OwnInv, Owned
  <2> HIDE DEF infos
  <2>4. ASSUME NEW s \in Sides, sent[s] # <<>>
        PROVE  LET info == infos[s] IN
               /\ info.ok /\ info.addr \in {Pbx, Zero} /\ info.port \in {0, RelayPort(s)}
               /\ KeysIn(info) \subseteq 1..made
               /\ \A i \in Lines(sent[s], "m") : sent[s][i].port # 0 => i = Audio(sent[s])
    <3>1. infos[s] = Parse(sent[s]) /\ Relayed(s, sent[s]) /\ KeysIn(infos[s]) \subseteq 1..made
      BY <2>2, <2>3, <2>4
    <3>2. Parse(sent[s]).ok
      <4>1. Readable(sent[s])
        BY <3>1 DEF Relayed
      <4>2. Parse(sent[s]) = Read(sent[s])
        BY <4>1, ParseReads
      <4> QED
        BY <4>2 DEF Read
    <3> QED
      BY <3>1, <3>2 DEF Relayed, OneStream
  <2>5. ASSUME \A s \in Sides : sent[s] # <<>>
        PROVE  KeysIn(infos["caller"]) \cap KeysIn(infos["callee"]) = {}
    <3>1. /\ KeysIn(infos["caller"]) \subseteq Owned("caller")
          /\ KeysIn(infos["callee"]) \subseteq Owned("callee")
      BY <2>1, <2>2, <2>3, <2>5
    <3>2. Owned("caller") \cap Owned("callee") = {}
      BY DEF NegInv, OwnInv
    <3> QED
      BY <3>1, <3>2
  <2> QED
    BY <2>4, <2>5 DEF SentNamesRelay, infos
<1> QED
  BY <1>1, NegotiationCorrect, PTL
=============================================================================
