---------------------------- MODULE AccessProofs ----------------------------
(***************************************************************************)
(* Theorems about who may use the server: Registrar, the phones that are   *)
(* reachable, and BanList, the addresses that are not let in.              *)
(***************************************************************************)
EXTENDS Registrar, BanList, ListTheorems

-----------------------------------------------------------------------------
(***************************************************************************)
(* Registrar, for every set of requests, contacts and goroutines, and for  *)
(* every clock.                                                            *)
(***************************************************************************)

Busy == {"wipe", "now", "known", "apply"}

(* What Refuses lets through: usable lifetimes, and "*" only alone. *)
Accepted(m) ==
    /\ m \in RequestFacts
    /\ \A i \in 1..Len(m.contacts) : ~BadContact(m, m.contacts[i])
    /\ m.wildcard => m.contacts = <<>>

(* How many of a request's bindings were applied. *)
Applied(h) == Len(msg[h].contacts) - Len(todo[h])

IsBound(uri) == \E b \in regs : b.uri = uri /\ b.expiresAt > clock

(***************************************************************************)
(* Every contact applied so far has a last place among them, and what was  *)
(* asked there is what the table says.                                     *)
(***************************************************************************)
Told(h) ==
    LET contacts == msg[h].contacts IN
    \A i \in 1..Applied(h) : \E j \in i..Applied(h) :
        /\ contacts[j].uri = contacts[i].uri
        /\ \A k \in (j + 1)..Applied(h) : contacts[k].uri # contacts[i].uri
        /\ IsBound(contacts[i].uri) <=> Lifetime(msg[h], contacts[j]) > 0

(* A request that is being worked on, as far as nobody else comes between. *)
Working(h) ==
    /\ Accepted(msg[h])
    /\ todo[h] \in Seq(Bindings) /\ Len(todo[h]) <= Len(msg[h].contacts)
    /\ at[h] # "apply" => Applied(h) = 0
    /\ \A i \in 1..Len(todo[h]) : todo[h][i] = BindingsOf(msg[h])[Applied(h) + i]
    /\ ~disturbed[h] =>
           /\ at[h] \in {"known", "apply"} => now[h] = clock
           /\ msg[h].wildcard /\ at[h] # "wipe" => regs = {}
           /\ Told(h)

(* OkMeansDone, for one handler. *)
Answered(h) ==
    answer[h] = "ok" /\ ~disturbed[h] =>
        /\ \A i \in 1..Len(msg[h].contacts) :
               LET uri == msg[h].contacts[i].uri IN
               uri \in listed[h] <=> LastWord(msg[h], uri) > 0
        /\ msg[h].wildcard => listed[h] = {}

Handler(h) ==
    /\ at[h] \in Busy => Working(h)
    /\ answer[h] = "ok" => at[h] = "done"
    /\ Answered(h)

HandlerInv == \A h \in Handlers : Handler(h)

TypeInv ==
    /\ ext \in Rows /\ clock \in 1..MaxTime
    /\ regs \subseteq Registrations
    /\ at \in [Handlers -> Busy \cup {"idle", "done"}]
    /\ msg \in [Handlers -> Requests \cup {NoMsg}]
    /\ now \in [Handlers -> 0..MaxTime]
    /\ todo \in [Handlers -> Seq(Bindings)]
    /\ answer \in [Handlers -> {"none", "refused", "error", "ok"}]
    /\ disturbed \in [Handlers -> BOOLEAN]
    /\ listed \in [Handlers -> SUBSET Contacts]
    /\ route \in [Invites -> {"idle", "read", "done"}]
    /\ callee \in [Invites -> Rows]
    /\ rung \in [Invites -> SUBSET Registrations]

(* The table has one row per contact (its primary key). *)
KeyInv == \A a, b \in regs : a.uri = b.uri => a = b

(* An INVITE that has not read the registrations rings nothing. *)
RungInv == \A i \in Invites : route[i] # "done" => rung[i] = {}

IInv == TypeInv /\ KeyInv /\ HandlerInv /\ NoOrphanBinding /\ RungInv /\ TlsOnlyRung

(***************************************************************************)
(* Lifetimes.  What Refuses lets through asks for zero seconds or for some *)
(* time, and clamping does not turn one into the other.                    *)
(***************************************************************************)
LEMMA AcceptedLifetimes ==
    ASSUME NEW m, Accepted(m), NEW i \in 1..Len(m.contacts)
    PROVE  /\ m.contacts[i].uri \in Contacts
           /\ Lifetime(m, m.contacts[i]) \in Nat
           /\ Clamped(Lifetime(m, m.contacts[i])) \in Nat
           /\ Clamped(Lifetime(m, m.contacts[i])) = 0 <=> ~(Lifetime(m, m.contacts[i]) > 0)
<1> DEFINE c == m.contacts[i]
<1>1. c \in ContactHeaders /\ m.header \in {Absent} \cup Nat
  BY DEF Accepted, RequestFacts
<1>2. c.expires # Bad
  BY DEF Accepted, BadContact
<1>3. c.expires \in {Absent} \cup Nat /\ c.uri \in Contacts
  BY <1>1, <1>2 DEF ContactHeaders
<1>4. Lifetime(m, c) \in Nat
  BY <1>1, <1>3, ExpiresAssumption DEF Lifetime, HeaderExpires
<1>5. /\ Clamped(Lifetime(m, c)) \in Nat
      /\ Clamped(Lifetime(m, c)) = 0 <=> ~(Lifetime(m, c) > 0)
  BY <1>4, ExpiresAssumption DEF Clamped
<1> QED
  BY <1>3, <1>4, <1>5

LEMMA AcceptedBindings ==
    ASSUME NEW m, Accepted(m)
    PROVE  /\ Len(m.contacts) \in Nat
           /\ BindingsOf(m) \in Seq(Bindings)
           /\ Len(BindingsOf(m)) = Len(m.contacts)
           /\ \A i \in 1..Len(m.contacts) : BindingsOf(m)[i] =
                  [uri |-> m.contacts[i].uri,
                   expires |-> Clamped(Lifetime(m, m.contacts[i]))]
<1>1. Len(m.contacts) \in Nat
  BY DEF Accepted, RequestFacts
<1>2. BindingsOf(m) \in [1..Len(m.contacts) -> Bindings]
  BY AcceptedLifetimes DEF BindingsOf, Bindings
<1>3. BindingsOf(m) \in Seq(Bindings) /\ Len(BindingsOf(m)) = Len(m.contacts)
  BY <1>1, <1>2
<1> QED
  BY <1>1, <1>3 DEF BindingsOf

(* The place that LastWord chooses is the one after which none comes. *)
LEMMA LastWordIs ==
    ASSUME NEW m, Accepted(m), NEW j \in 1..Len(m.contacts),
           \A k \in (j + 1)..Len(m.contacts) : m.contacts[k].uri # m.contacts[j].uri
    PROVE  LastWord(m, m.contacts[j].uri) = Lifetime(m, m.contacts[j])
<1> DEFINE uri == m.contacts[j].uri
           places == {i \in 1..Len(m.contacts) : m.contacts[i].uri = uri}
<1>0. Len(m.contacts) \in Nat
  BY AcceptedBindings
<1>1. j \in places /\ \A i \in places : i <= j
  BY <1>0
<1>2. \A i \in places : (\A k \in places : k <= i) => i = j
  BY <1>0, <1>1
<1> HIDE DEF places
<1>3. (CHOOSE i \in places : \A k \in places : k <= i) = j
  BY <1>1, <1>2
<1>4. ASSUME NEW last, last = CHOOSE i \in places : \A k \in places : k <= i
      PROVE  LastWord(m, uri) =
                 IF m.contacts[last].expires # Absent THEN m.contacts[last].expires
                 ELSE IF m.header # Absent THEN m.header ELSE DefaultExpires
  BY <1>4 DEF LastWord, places
<1>5. LastWord(m, uri) =
          IF m.contacts[j].expires # Absent THEN m.contacts[j].expires
          ELSE IF m.header # Absent THEN m.header ELSE DefaultExpires
  BY <1>3, <1>4
<1> QED
  BY <1>5 DEF Lifetime, HeaderExpires

-----------------------------------------------------------------------------
(***************************************************************************)
(* What keeps a handler's part: its own variables are untouched, and it is *)
(* not working, or somebody marked it as disturbed, or what is bound now   *)
(* stays bound and no more.                                                *)
(***************************************************************************)
LEMMA HandlerFrame ==
    ASSUME NEW h \in Handlers, Handler(h), at[h] \in Busy => Accepted(msg[h]),
           at'[h] = at[h], msg'[h] = msg[h], todo'[h] = todo[h], now'[h] = now[h],
           answer'[h] = answer[h], listed'[h] = listed[h],
           disturbed[h] => disturbed'[h],
           \/ at[h] \notin Busy
           \/ disturbed'[h]
           \/ /\ clock' = clock
              /\ regs = {} => regs' = {}
              /\ \A uri \in Contacts : IsBound(uri)' <=> IsBound(uri)
    PROVE  Handler(h)'
<1> DEFINE m == msg[h]
<1>1. Answered(h)'
  BY DEF Handler, Answered
<1>2. CASE at[h] \notin Busy
  BY <1>1, <1>2 DEF Handler
<1>3. CASE at[h] \in Busy /\ disturbed'[h]
  BY <1>1, <1>3 DEF Handler, Working, Applied
<1>4. CASE at[h] \in Busy /\ ~disturbed'[h]
  <2>1. Working(h) /\ Accepted(m) /\ ~disturbed[h]
    BY <1>4 DEF Handler
  <2>2. /\ Applied(h) = Len(m.contacts) - Len(todo[h])
        /\ Applied(h)' = Applied(h)
        /\ Len(todo[h]) \in Nat
        /\ Len(m.contacts) \in Nat
    BY <2>1, AcceptedBindings DEF Applied, Working
  <2>3. ASSUME NEW i \in 1..Applied(h) PROVE m.contacts[i].uri \in Contacts
    <3>0. Applied(h) \in Int /\ Applied(h) <= Len(m.contacts)
      <4> HIDE DEF m
      <4> DEFINE a == Applied(h)
                 c == Len(m.contacts)
                 t == Len(todo[h])
      <4>1. a = c - t /\ t \in Nat /\ c \in Nat
        BY <2>2
      <4> HIDE DEF a, c, t
      <4>2. a \in Int /\ a <= c
        BY <4>1
      <4> QED
        BY <4>2 DEF a, c
    <3>1. i \in 1..Len(m.contacts)
      <4> DEFINE a == Applied(h)
                 c == Len(m.contacts)
      <4>1. i \in 1..a /\ a \in Int /\ a <= c /\ c \in Nat
        BY <2>2, <3>0
      <4> HIDE DEF a, c
      <4>2. i \in 1..c
        BY <4>1
      <4> QED
        BY <4>2 DEF c
    <3> QED
      BY <2>1, <3>1, AcceptedLifetimes
  <2>4. \A i \in 1..Applied(h) : IsBound(m.contacts[i].uri)' <=> IsBound(m.contacts[i].uri)
    BY <1>4, <2>3
  <2>5. Told(h)'
    BY <2>1, <2>2, <2>4 DEF Told, Working
  <2> QED
    BY <1>1, <1>4, <2>1, <2>2, <2>5 DEF Handler, Working
<1> QED
  BY <1>2, <1>3, <1>4

(* A handler other than the one that steps, when the table stays. *)
LEMMA OthersIdle ==
    ASSUME HandlerInv, NEW h \in Handlers, NEW k \in Handlers, k # h,
           at'[k] = at[k], msg'[k] = msg[k], todo'[k] = todo[k], now'[k] = now[k],
           answer'[k] = answer[k], listed'[k] = listed[k],
           disturbed \in [Handlers -> BOOLEAN],
           UNCHANGED <<clock, regs, disturbed>> \/ (Disturb(h) /\ UNCHANGED clock)
    PROVE  Handler(k)'
<1>1. Handler(k) /\ (at[k] \in Busy => Accepted(msg[k]))
  BY DEF HandlerInv, Handler, Working
<1>2. CASE UNCHANGED <<clock, regs, disturbed>>
  BY <1>1, <1>2, HandlerFrame DEF IsBound
<1>3. CASE Disturb(h)
  <2>1. disturbed'[k] = (disturbed[k] \/ at[k] # "idle")
    BY <1>3 DEF Disturb
  <2> QED
    BY <1>1, <2>1, HandlerFrame DEF Busy
<1> QED
  BY <1>2, <1>3

-----------------------------------------------------------------------------
(* A request that is not refused is worked on from its first binding. *)
LEMMA RegisterStep ==
    ASSUME TypeInv, HandlerInv, NEW h \in Handlers, NEW m \in Requests, HandleRegister(h, m)
    PROVE  TypeInv' /\ HandlerInv'
<1> USE DEF HandleRegister
<1>1. m \in RequestFacts
  BY RequestsAssumption
<1>2. CASE ~ext.exists \/ ~ext.enabled \/ Refuses(m, ext)
  <2>1. TypeInv'
    BY <1>2 DEF TypeInv, regVars, invVars
  <2>2. Handler(h)'
    BY <1>2 DEF TypeInv, Handler, Answered, Busy
  <2> QED
    BY <1>2, <2>1, <2>2, OthersIdle DEF HandlerInv, TypeInv
<1>3. CASE ~(~ext.exists \/ ~ext.enabled \/ Refuses(m, ext))
  <2>1. Accepted(m)
    BY <1>1, <1>3 DEF Refuses, Accepted
  <2>2. /\ BindingsOf(m) \in Seq(Bindings)
        /\ Len(BindingsOf(m)) = Len(m.contacts)
        /\ Len(m.contacts) \in Nat
    BY <2>1, AcceptedBindings
  <2>3. TypeInv'
    BY <1>3, <2>2 DEF TypeInv, invVars, Busy
  <2>4. /\ msg'[h] = m /\ todo'[h] = BindingsOf(m) /\ answer'[h] = "none"
        /\ at'[h] = (IF m.wildcard THEN "wipe" ELSE "now")
    BY <1>3 DEF TypeInv
  <2>5. Applied(h)' = 0
    BY <2>2, <2>4 DEF Applied
  <2>6. Working(h)'
    BY <2>1, <2>2, <2>4, <2>5 DEF Working, Told
  <2>7. Handler(h)'
    BY <2>4, <2>6 DEF Handler, Answered
  <2> QED
    BY ZenonT(60), <1>3, <2>3, <2>7, OthersIdle DEF HandlerInv, TypeInv
<1> QED
  BY <1>2, <1>3

(* Before the bindings: the wipe, the clock and the table read in advance. *)
LEMMA PreparingStep ==
    ASSUME TypeInv, HandlerInv, NEW h \in Handlers, Wipe(h) \/ ReadClock(h) \/ ReadKnown(h)
    PROVE  TypeInv' /\ HandlerInv'
<1>1. TypeInv'
  <2>1. CASE Wipe(h)
    BY <2>1 DEF TypeInv, Wipe, invVars, Disturb, Busy
  <2>2. CASE ReadClock(h)
    BY <2>2 DEF TypeInv, ReadClock, invVars, Busy
  <2>3. CASE ReadKnown(h)
    BY <2>3 DEF TypeInv, ReadKnown, invVars, Busy
  <2> QED
    BY <2>1, <2>2, <2>3
<1>2. /\ at[h] \in {"wipe", "now", "known"}
      /\ at'[h] \in {"now", "known", "apply"}
      /\ UNCHANGED <<clock, msg, todo, answer, listed>>
      /\ disturbed'[h] = disturbed[h]
  BY DEF TypeInv, Wipe, ReadClock, ReadKnown, Disturb
<1>3. Working(h) /\ answer[h] # "ok" /\ Applied(h) = 0 /\ Applied(h)' = 0
  BY <1>2 DEF HandlerInv, Handler, Busy, Working, Applied
<1>4. at'[h] \in {"known", "apply"} /\ ~disturbed[h] => now'[h] = clock
  BY <1>2, <1>3 DEF Wipe, ReadClock, ReadKnown, TypeInv, Working
<1>5. msg[h].wildcard /\ ~disturbed[h] => regs' = {}
  BY <1>2, <1>3 DEF Wipe, ReadClock, ReadKnown, Working
<1>6. Handler(h)'
  BY <1>2, <1>3, <1>4, <1>5 DEF Handler, Answered, Working, Told
<1>7. ASSUME NEW k \in Handlers, k # h PROVE Handler(k)'
  BY <1>7, OthersIdle DEF TypeInv, Wipe, ReadClock, ReadKnown
<1> QED
  BY <1>1, <1>6, <1>7 DEF HandlerInv

(* Of c contacts, l are left after k: with one fewer left, one more is done. *)
LEMMA OneMore ==
    ASSUME NEW c \in Nat, NEW k \in Nat, NEW l \in Nat, l > 0, l = c - k
    PROVE  c - (l - 1) = k + 1 /\ k + 1 \in 1..c
  OBVIOUS

(***************************************************************************)
(* A binding is applied: what is bound of the other contacts stays, and    *)
(* of this one it is what its lifetime says, since the clock has not moved *)
(* since the request read it.                                              *)
(***************************************************************************)
LEMMA BindingStep ==
    ASSUME TypeInv, HandlerInv, NEW h \in Handlers, ApplyBinding(h)
    PROVE  TypeInv' /\ HandlerInv'
<1>1. Working(h) /\ answer[h] # "ok" /\ Accepted(msg[h]) /\ at[h] = "apply"
  BY DEF ApplyBinding, HandlerInv, Handler, Busy, Working
<1> SUFFICES ASSUME NEW m, m = msg[h], NEW n, n = Applied(h), NEW b, b = Head(todo[h])
             PROVE  TypeInv' /\ HandlerInv'
  OBVIOUS
<1>2. /\ todo[h] \in Seq(Bindings) /\ todo[h] # <<>>
      /\ Len(todo[h]) \in Nat /\ Len(todo[h]) > 0
      /\ Len(m.contacts) \in Nat /\ n \in Nat
      /\ Len(todo[h]) = Len(m.contacts) - n
      /\ b = todo[h][1] /\ b \in Bindings
  BY <1>1, AcceptedBindings DEF ApplyBinding, Working, Applied
<1>3. /\ todo'[h] \in Seq(Bindings)
      /\ Len(todo'[h]) = Len(todo[h]) - 1
      /\ \A i \in 1..Len(todo'[h]) : todo'[h][i] = todo[h][i + 1]
  BY <1>2 DEF ApplyBinding, TypeInv
<1>4. /\ clock' = clock /\ at' = at /\ msg' = msg /\ now' = now
      /\ answer' = answer /\ listed' = listed
      /\ disturbed'[h] = disturbed[h]
  BY DEF ApplyBinding, Disturb, TypeInv
<1>5. /\ Applied(h)' = n + 1
      /\ n + 1 \in 1..Len(m.contacts)
  <2>1. Applied(h)' = Len(m.contacts) - Len(todo'[h])
    BY <1>4 DEF Applied
  <2>2. /\ Len(m.contacts) - (Len(todo[h]) - 1) = n + 1
        /\ n + 1 \in 1..Len(m.contacts)
    BY <1>2, OneMore
  <2>3. Len(todo'[h]) = Len(todo[h]) - 1
    BY <1>3
  <2> QED
    BY <2>1, <2>2, <2>3
<1>6. b = [uri |-> m.contacts[n + 1].uri, expires |-> Clamped(Lifetime(m, m.contacts[n + 1]))]
  <2>1. b = BindingsOf(m)[n + 1]
    <3>1. 1 \in 1..Len(todo[h])
      BY <1>2
    <3> QED
      BY <1>1, <1>2, <3>1 DEF Working
  <2> QED
    BY <1>1, <1>5, <2>1, AcceptedBindings
<1>7. \A i \in 1..Len(todo'[h]) : todo'[h][i] = BindingsOf(m)[n + 1 + i]
  <2> SUFFICES ASSUME NEW i \in 1..Len(todo'[h])
               PROVE  todo'[h][i] = BindingsOf(m)[n + 1 + i]
    OBVIOUS
  <2>1. /\ i + 1 \in 1..Len(todo[h])
        /\ i \in Nat
        /\ n + (i + 1) = n + 1 + i
    <3>1. ASSUME NEW l \in Nat, l > 0, NEW k \in Nat, NEW j \in 1..(l - 1)
          PROVE  j + 1 \in 1..l /\ j \in Nat /\ k + (j + 1) = k + 1 + j
      OBVIOUS
    <3>2. i \in 1..(Len(todo[h]) - 1)
      BY <1>3
    <3> QED
      BY <1>2, <3>1, <3>2
  <2>2. todo[h][i + 1] = BindingsOf(m)[n + (i + 1)]
    BY <1>1, <2>1 DEF Working
  <2> QED
    BY <1>3, <2>1, <2>2
<1>8. /\ b.expires \in Nat
      /\ b.expires = 0 <=> ~(Lifetime(m, m.contacts[n + 1]) > 0)
  BY <1>1, <1>5, <1>6, AcceptedLifetimes
<1>9. regs' = IF b.expires = 0 THEN Without(b.uri)
              ELSE Without(b.uri) \cup
                   {[uri |-> b.uri, expiresAt |-> now[h] + b.expires, tls |-> m.tls]}
  BY DEF ApplyBinding, SaveRegistration
<1>10. TypeInv'
  <2>1. m.tls \in BOOLEAN /\ now[h] + b.expires \in Nat /\ b.uri \in Contacts
    BY <1>1, <1>2, ExpiresAssumption DEF Accepted, RequestFacts, TypeInv, Bindings
  <2>2. regs' \subseteq Registrations
    BY <1>9, <2>1 DEF Without, TypeInv, Registrations
  <2>3. todo' \in [Handlers -> Seq(Bindings)]
    BY <1>3 DEF ApplyBinding, TypeInv
  <2> QED
    BY <2>2, <2>3 DEF ApplyBinding, TypeInv, invVars, Disturb
<1>11. ASSUME NEW uri, uri # b.uri PROVE IsBound(uri)' <=> IsBound(uri)
  BY <1>4, <1>9, <1>11 DEF IsBound, Without
<1>12. ASSUME ~disturbed[h]
       PROVE  IsBound(b.uri)' <=> (Lifetime(m, m.contacts[n + 1]) > 0)
  <2>1. now[h] = clock /\ clock \in Nat
    BY <1>1, <1>12, ExpiresAssumption DEF Working, TypeInv
  <2>2. CASE b.expires = 0
    <3>1. ~IsBound(b.uri)'
      BY <1>9, <2>2 DEF IsBound, Without
    <3> QED
      BY <1>8, <2>2, <3>1
  <2>3. CASE b.expires # 0
    <3> DEFINE saved == [uri |-> b.uri, expiresAt |-> clock + b.expires, tls |-> m.tls]
    <3>1. saved \in regs' /\ saved.uri = b.uri /\ saved.expiresAt > clock'
      BY <1>4, <1>8, <1>9, <2>1, <2>3
    <3>2. IsBound(b.uri)'
      BY <3>1 DEF IsBound
    <3> QED
      BY <1>8, <2>3, <3>2
  <2> QED
    BY <2>2, <2>3
<1>13. ASSUME ~disturbed[h] PROVE Told(h)'
  <2> SUFFICES ASSUME NEW i \in 1..(n + 1)
               PROVE  \E j \in i..(n + 1) :
                         /\ m.contacts[j].uri = m.contacts[i].uri
                         /\ \A k \in (j + 1)..(n + 1) : m.contacts[k].uri # m.contacts[i].uri
                         /\ IsBound(m.contacts[i].uri)' <=> Lifetime(m, m.contacts[j]) > 0
    <3>1. msg'[h] = m /\ Applied(h)' = n + 1
      BY <1>4, <1>5
    <3> QED
      BY <3>1 DEF Told
  <2>1. CASE m.contacts[i].uri = m.contacts[n + 1].uri
    <3>1. n + 1 \in i..(n + 1) /\ (n + 1 + 1)..(n + 1) = {}
      BY <1>2
    <3>2. IsBound(m.contacts[i].uri)' <=> (Lifetime(m, m.contacts[n + 1]) > 0)
      BY <1>6, <1>12, <1>13, <2>1
    <3> QED
      BY <2>1, <3>1, <3>2
  <2>2. CASE m.contacts[i].uri # m.contacts[n + 1].uri
    <3>1. i \in 1..n
      BY <1>2, <2>2
    <3>2. PICK j \in i..n :
              /\ m.contacts[j].uri = m.contacts[i].uri
              /\ \A k \in (j + 1)..n : m.contacts[k].uri # m.contacts[i].uri
              /\ IsBound(m.contacts[i].uri) <=> Lifetime(m, m.contacts[j]) > 0
      BY <1>1, <1>13, <3>1 DEF Working, Told
    <3>3. j \in i..(n + 1)
      BY <1>2
    <3>4. ASSUME NEW k \in (j + 1)..(n + 1) PROVE k \in (j + 1)..n \/ k = n + 1
      BY <1>2
    <3>5. IsBound(m.contacts[i].uri)' <=> IsBound(m.contacts[i].uri)
      BY <1>6, <1>11, <2>2
    <3> QED
      BY <2>2, <3>2, <3>3, <3>4, <3>5
  <2> QED
    BY <2>1, <2>2
<1>14. ~m.wildcard
  BY <1>1, <1>5 DEF Accepted
<1>15. Working(h)'
  BY <1>1, <1>2, <1>3, <1>4, <1>5, <1>7, <1>13, <1>14 DEF Working
<1>16. Handler(h)'
  BY <1>1, <1>4, <1>15 DEF Handler, Answered
<1>17. ASSUME NEW k \in Handlers, k # h PROVE Handler(k)'
  BY <1>17, OthersIdle DEF ApplyBinding, TypeInv
<1> QED
  BY <1>10, <1>16, <1>17 DEF HandlerInv

(***************************************************************************)
(* The answer: all bindings are applied, so that the last place of every   *)
(* contact is its last word, and what is bound is what the 200 lists.      *)
(***************************************************************************)
LEMMA AnswerStep ==
    ASSUME TypeInv, HandlerInv, NEW h \in Handlers, ListBindings(h) \/ StatementFails(h)
    PROVE  TypeInv' /\ HandlerInv'
<1>1. ASSUME NEW k \in Handlers, k # h PROVE Handler(k)'
  BY <1>1, OthersIdle DEF ListBindings, StatementFails, ServerError, TypeInv
<1>2. CASE StatementFails(h)
  <2>1. TypeInv'
    BY <1>2 DEF StatementFails, ServerError, TypeInv, invVars, Busy
  <2>2. Handler(h)'
    BY <1>2 DEF StatementFails, ServerError, TypeInv, Handler, Answered, Busy
  <2> QED
    BY <1>1, <2>1, <2>2 DEF HandlerInv
<1>3. CASE ListBindings(h)
  <2> SUFFICES ASSUME NEW m, m = msg[h] PROVE TypeInv' /\ HandlerInv'
    OBVIOUS
  <2>1. Working(h) /\ Accepted(m) /\ todo[h] = <<>>
    BY <1>3 DEF ListBindings, HandlerInv, Handler, Busy, Working
  <2>2. Uris(Live(regs, clock)) \subseteq Contacts
    BY DEF Uris, Live, TypeInv, Registrations
  <2>3. TypeInv'
    BY <1>3, <2>2 DEF ListBindings, TypeInv, invVars, Busy
  <2>4. Len(m.contacts) \in Nat /\ Applied(h) = Len(m.contacts)
    BY <2>1, AcceptedBindings DEF Applied
  <2>5. /\ listed'[h] = Uris(Live(regs, clock)) /\ at'[h] = "done"
        /\ msg' = msg /\ disturbed' = disturbed
    BY <1>3 DEF ListBindings, TypeInv
  <2>6. ASSUME ~disturbed[h], NEW i \in 1..Len(m.contacts)
        PROVE  m.contacts[i].uri \in listed'[h] <=> LastWord(m, m.contacts[i].uri) > 0
    <3>1. PICK j \in i..Len(m.contacts) :
              /\ m.contacts[j].uri = m.contacts[i].uri
              /\ \A k \in (j + 1)..Len(m.contacts) : m.contacts[k].uri # m.contacts[i].uri
              /\ IsBound(m.contacts[i].uri) <=> Lifetime(m, m.contacts[j]) > 0
      BY <2>1, <2>4, <2>6 DEF Working, Told
    <3>2. j \in 1..Len(m.contacts)
      BY <2>4
    <3>3. LastWord(m, m.contacts[j].uri) = Lifetime(m, m.contacts[j])
      BY <2>1, <3>1, <3>2, LastWordIs
    <3>4. m.contacts[i].uri \in listed'[h] <=> IsBound(m.contacts[i].uri)
      BY <2>5 DEF IsBound, Uris, Live
    <3> QED
      BY <3>1, <3>3, <3>4
  <2>7. m.wildcard /\ ~disturbed[h] => listed'[h] = {}
    BY <1>3, <2>1, <2>5 DEF ListBindings, Working, Uris, Live
  <2>8. Answered(h)'
    BY <2>5, <2>6, <2>7 DEF Answered
  <2>9. Handler(h)'
    BY <2>5, <2>8 DEF Handler, Busy
  <2> QED
    BY <1>1, <2>3, <2>9 DEF HandlerInv
<1> QED
  BY <1>2, <1>3

(***************************************************************************)
(* Everything that is no handler's step: it marks the handlers it disturbs *)
(* or, as the purge does, leaves what is bound as it was.                  *)
(***************************************************************************)
LEMMA OutsideStep ==
    ASSUME TypeInv, HandlerInv,
           \/ Purge \/ Tick \/ DeleteExtension \/ CreateExtension
           \/ \E enabled, requireTLS \in BOOLEAN : UpdateExtension(enabled, requireTLS)
           \/ \E i \in Invites : GetExtension(i) \/ ListRegistrations(i)
    PROVE  TypeInv' /\ HandlerInv'
<1>1. UNCHANGED regVars
  BY DEF Purge, Tick, DeleteExtension, CreateExtension, UpdateExtension, GetExtension,
         ListRegistrations
<1>2. \/ disturbed' = [h \in Handlers |-> disturbed[h] \/ at[h] # "idle"]
      \/ UNCHANGED <<clock, disturbed>> /\ regs' \in {regs, Live(regs, clock)}
  BY DEF Purge, Tick, DeleteExtension, CreateExtension, UpdateExtension, GetExtension,
         ListRegistrations, regVars, invVars
<1>3. ASSUME NEW h \in Handlers PROVE Handler(h)'
  <2>1. /\ Handler(h) /\ (at[h] \in Busy => Accepted(msg[h]))
        /\ disturbed[h] \in BOOLEAN
    BY DEF HandlerInv, Handler, Working, TypeInv
  <2>2. CASE disturbed' = [k \in Handlers |-> disturbed[k] \/ at[k] # "idle"]
    BY <1>1, <2>1, <2>2, HandlerFrame DEF regVars, Busy
  <2>3. CASE UNCHANGED <<clock, disturbed>> /\ regs' \in {regs, Live(regs, clock)}
    <3>1. clock' = clock /\ disturbed' = disturbed
      BY <2>3
    <3>2. regs = {} => regs' = {}
      BY <2>3 DEF Live
    <3>3. \A uri \in Contacts : IsBound(uri)' <=> IsBound(uri)
      BY <2>3 DEF IsBound, Live
    <3> QED
      BY <1>1, <2>1, <3>1, <3>2, <3>3, HandlerFrame DEF regVars
  <2> QED
    BY <1>2, <2>2, <2>3
<1>4. TypeInv'
  <2>1. CASE Purge
    BY <2>1 DEF Purge, TypeInv, Live, regVars, invVars
  <2>2. CASE Tick
    BY <2>2, ExpiresAssumption DEF Tick, TypeInv, regVars, invVars
  <2>3. CASE DeleteExtension
    BY <2>3 DEF DeleteExtension, TypeInv, regVars, invVars, Rows
  <2>4. CASE CreateExtension
    BY <2>4 DEF CreateExtension, TypeInv, regVars, invVars, Rows, NewRow
  <2>5. ASSUME NEW enabled \in BOOLEAN, NEW requireTLS \in BOOLEAN,
               UpdateExtension(enabled, requireTLS)
        PROVE  TypeInv'
    BY <2>5 DEF UpdateExtension, TypeInv, regVars, invVars, Rows
  <2>6. ASSUME NEW i \in Invites, GetExtension(i) PROVE TypeInv'
    BY <2>6 DEF GetExtension, TypeInv, regVars
  <2>7. ASSUME NEW i \in Invites, ListRegistrations(i) PROVE TypeInv'
    <3>1. Ringable(callee[i], Live(regs, clock)) \in SUBSET Registrations
      BY DEF Ringable, Live, TypeInv
    <3> QED
      BY <2>7, <3>1 DEF ListRegistrations, TypeInv, regVars
  <2> QED
    BY <2>1, <2>2, <2>3, <2>4, <2>5, <2>6, <2>7
<1> QED
  BY <1>3, <1>4 DEF HandlerInv

(***************************************************************************)
(* The table: one row per contact, and none once the extension is gone,    *)
(* because the one statement that adds a row needs the extension's.        *)
(***************************************************************************)
LEMMA TableStep ==
    ASSUME TypeInv, KeyInv, NoOrphanBinding, Next
    PROVE  KeyInv' /\ NoOrphanBinding'
<1> USE DEF KeyInv, NoOrphanBinding
<1>1. CASE regs' \subseteq regs /\ (regs' = {} \/ ext'.exists = ext.exists \/ ext'.exists)
  BY <1>1
<1>2. ASSUME NEW h \in Handlers, ApplyBinding(h) PROVE KeyInv' /\ NoOrphanBinding'
  <2> DEFINE b == Head(todo[h])
  <2>1. CASE b.expires = 0
    BY <1>1, <1>2, <2>1 DEF ApplyBinding, Without
  <2>2. CASE b.expires # 0
    BY <1>2, <2>2 DEF ApplyBinding, SaveRegistration, Without
  <2> QED
    BY <2>1, <2>2
<1>3. ASSUME NEW h \in Handlers,
             \/ Wipe(h) \/ ReadClock(h) \/ ReadKnown(h) \/ StatementFails(h) \/ ListBindings(h)
             \/ \E m \in Requests : HandleRegister(h, m)
      PROVE  KeyInv' /\ NoOrphanBinding'
  <2>1. regs' \in {regs, {}} /\ ext' = ext
    BY <1>3 DEF Wipe, ReadClock, ReadKnown, StatementFails, ServerError, ListBindings,
                HandleRegister
  <2> QED
    BY <2>1, <1>1
<1>4. CASE Purge
  BY <1>1, <1>4 DEF Purge, Live
<1>5. CASE Tick \/ CreateExtension \/ \E i \in Invites : GetExtension(i) \/ ListRegistrations(i)
  BY <1>1, <1>5 DEF Tick, CreateExtension, NewRow, GetExtension, ListRegistrations
<1>6. CASE DeleteExtension
  BY <1>1, <1>6 DEF DeleteExtension
<1>7. ASSUME NEW enabled \in BOOLEAN, NEW requireTLS \in BOOLEAN,
             UpdateExtension(enabled, requireTLS)
      PROVE  KeyInv' /\ NoOrphanBinding'
  BY <1>1, <1>7 DEF UpdateExtension, TypeInv, Rows
<1> QED
  BY <1>2, <1>3, <1>4, <1>5, <1>6, <1>7 DEF Next, HandlerStep

(* What an INVITE rings is filtered by the row it read. *)
LEMMA RungStep ==
    ASSUME TypeInv, RungInv, TlsOnlyRung, [Next]_vars
    PROVE  RungInv' /\ TlsOnlyRung'
<1> USE DEF RungInv, TlsOnlyRung
<1>1. CASE UNCHANGED invVars
  BY <1>1 DEF invVars
<1>2. ASSUME NEW i \in Invites, GetExtension(i) PROVE RungInv' /\ TlsOnlyRung'
  BY <1>2 DEF GetExtension, TypeInv
<1>3. ASSUME NEW i \in Invites, ListRegistrations(i) PROVE RungInv' /\ TlsOnlyRung'
  <2>1. /\ callee' = callee
        /\ rung' = [rung EXCEPT ![i] = Ringable(callee[i], Live(regs, clock))]
        /\ route' = [route EXCEPT ![i] = "done"]
    BY <1>3 DEF ListRegistrations
  <2>2. callee[i].requireTLS => \A b \in rung'[i] : b.tls
    BY <2>1 DEF Ringable, TypeInv
  <2> QED
    BY <2>1, <2>2 DEF TypeInv
<1>4. ASSUME NEW h \in Handlers,
             HandlerStep(h) \/ \E m \in Requests : HandleRegister(h, m)
      PROVE  UNCHANGED invVars
  BY <1>4 DEF HandlerStep, Wipe, ReadClock, ReadKnown, ApplyBinding, StatementFails,
              ServerError, ListBindings, HandleRegister
<1>5. CASE \/ Purge \/ Tick \/ DeleteExtension \/ CreateExtension
           \/ \E enabled, requireTLS \in BOOLEAN : UpdateExtension(enabled, requireTLS)
  BY <1>1, <1>5 DEF Purge, Tick, DeleteExtension, CreateExtension, UpdateExtension
<1>6. CASE UNCHANGED vars
  BY <1>1, <1>6 DEF vars
<1> QED
  BY <1>1, <1>2, <1>3, <1>4, <1>5, <1>6 DEF Next

(* The inductive invariant. *)
THEOREM Invariance == Spec => []IInv
<1>1. Init => IInv
  <2> SUFFICES ASSUME Init PROVE IInv
    OBVIOUS
  <2>1. TypeInv
    BY ExpiresAssumption DEF Init, TypeInv, Busy, Rows, NewRow
  <2>2. HandlerInv
    BY DEF Init, HandlerInv, Handler, Answered, Busy
  <2> QED
    BY <2>1, <2>2 DEF Init, IInv, KeyInv, NoOrphanBinding, RungInv, TlsOnlyRung, NewRow
<1>2. IInv /\ [Next]_vars => IInv'
  <2> SUFFICES ASSUME IInv, [Next]_vars PROVE IInv'
    OBVIOUS
  <2> USE DEF IInv
  <2>1. RungInv' /\ TlsOnlyRung'
    BY RungStep
  <2>2. CASE UNCHANGED vars
    <3>1. TypeInv' /\ KeyInv' /\ NoOrphanBinding'
      BY <2>2 DEF vars, regVars, invVars, TypeInv, KeyInv, NoOrphanBinding
    <3>2. ASSUME NEW h \in Handlers PROVE Handler(h)'
      <4>1. Handler(h) /\ (at[h] \in Busy => Accepted(msg[h]))
        BY DEF HandlerInv, Handler, Working
      <4> QED
        BY <2>2, <4>1, HandlerFrame DEF vars, regVars, IsBound
    <3> QED
      BY <2>1, <3>1, <3>2 DEF HandlerInv
  <2>3. CASE Next
    <3>1. TypeInv' /\ HandlerInv'
      <4>1. ASSUME NEW h \in Handlers, HandlerStep(h) PROVE TypeInv' /\ HandlerInv'
        BY <4>1, PreparingStep, BindingStep, AnswerStep DEF HandlerStep
      <4>2. ASSUME NEW h \in Handlers, NEW m \in Requests, HandleRegister(h, m)
            PROVE  TypeInv' /\ HandlerInv'
        BY <4>2, RegisterStep
      <4> QED
        BY <2>3, <4>1, <4>2, OutsideStep DEF Next
    <3> QED
      BY <2>1, <2>3, <3>1, TableStep
  <2> QED
    BY <2>2, <2>3
<1> QED
  BY <1>1, <1>2, PTL DEF Spec

(* The registrar's state keeps its types; the table has one row per contact. *)
THEOREM RegistrarTypeCorrect == Spec => []TypeOK
<1>1. IInv => TypeOK
  BY DEF IInv, TypeInv, KeyInv, TypeOK, Busy
<1> QED
  BY <1>1, Invariance, PTL

(***************************************************************************)
(* NoOrphanBinding: no binding is left once its extension is deleted,      *)
(* whichever REGISTERs were authorized before and write after.             *)
(***************************************************************************)
THEOREM BindingsDieWithExtension == Spec => []NoOrphanBinding
  BY Invariance, PTL DEF IInv

(***************************************************************************)
(* OkMeansDone: a 200 lists what the request bound and not what it         *)
(* unbound, for requests with any number of contacts, the same contact     *)
(* among them more than once.                                              *)
(***************************************************************************)
THEOREM OkIsTrue == Spec => []OkMeansDone
<1>1. IInv => OkMeansDone
  BY DEF IInv, HandlerInv, Handler, Answered, OkMeansDone
<1> QED
  BY <1>1, Invariance, PTL

(***************************************************************************)
(* TlsOnlyRung: a call to an extension that required TLS when the call     *)
(* came rings no phone that registered without it.                         *)
(***************************************************************************)
THEOREM PlainPhonesNotRung == Spec => []TlsOnlyRung
  BY Invariance, PTL DEF IInv

-----------------------------------------------------------------------------
(***************************************************************************)
(* BanList, for every policy, every set of addresses and any number of     *)
(* requests and connections.  Who is banned until when comes first, then   *)
(* what the lists count.                                                   *)
(***************************************************************************)

Ends == {Never} \cup Duration..(MaxClock + Duration)

(* A ban never ends later than one that would begin now. *)
BanInv ==
    /\ time \in Times
    /\ banned \in [IPs -> Ends]
    /\ \A ip \in IPs : banned[ip] <= time + Duration

SourceInv ==
    /\ request \in [Reqs -> IPs \cup {None}]
    /\ conn \in [Conns -> [ip : IPs \cup {None}, got : BOOLEAN, sent : BOOLEAN,
                           reported : BOOLEAN]]

ListInv == DOMAIN failures = IPs

BanIInv == BanInv /\ SourceInv /\ ListInv /\ HonestNeverBanned

(* What a request of a phone with the right password can come to. *)
LEMMA HonestAccepted ==
    \A c \in HonestCredentials : Authorize(c) \in {"challenge", "error", "accept"}
  BY DEF HonestCredentials, Credentials, Authorize, Verify

(* Fail touches one address: its list, and its ban. *)
LEMMA FailLocal ==
    ASSUME BanInv, ListInv, NEW ip \in IPs, Fail(ip)
    PROVE  /\ DOMAIN failures' = IPs
           /\ \A k \in IPs \ {ip} : failures'[k] = failures[k]
           /\ \/ UNCHANGED banned
              \/ banned' = [banned EXCEPT ![ip] = time + Duration]
  BY DEF Fail, ListInv, banVars, Cleared

(* Succeed and Unban clear one address's list. *)
LEMMA ClearedLocal ==
    ASSUME ListInv, NEW ip \in IPs, failures' = Cleared(failures, ip)
    PROVE  /\ DOMAIN failures' = IPs
           /\ \A k \in IPs : failures'[k] = IF k = ip THEN <<>> ELSE failures[k]
  BY DEF ListInv, Cleared

(* The end of a ban that begins now. *)
LEMMA BanEnd ==
    ASSUME BanInv PROVE time + Duration \in Ends /\ Never \in Ends /\ Never <= time + Duration
  BY PolicyAssumption DEF BanInv, Ends, Times, Never

(* What a step may do to the bans. *)
BanStep(ip) ==
    \/ UNCHANGED banned
    \/ banned' = [banned EXCEPT ![ip] = time + Duration]
    \/ banned' = [banned EXCEPT ![ip] = Never]

LEMMA BansKept ==
    ASSUME BanInv, UNCHANGED time, NEW ip \in IPs, BanStep(ip)
    PROVE  /\ BanInv'
           /\ \A k \in IPs \ {ip} : banned'[k] = banned[k]
<1>1. \A k \in IPs : banned'[k] = IF k # ip THEN banned[k] ELSE banned'[ip]
  BY DEF BanStep, BanInv
<1>2. banned'[ip] \in {banned[ip], time + Duration, Never}
  BY DEF BanStep, BanInv
<1>3. banned' \in [IPs -> Ends]
  BY BanEnd DEF BanStep, BanInv
<1>4. \A k \in IPs : banned'[k] <= time + Duration
  BY <1>1, <1>2, BanEnd, PolicyAssumption DEF BanInv, Times
<1> QED
  BY <1>1, <1>3, <1>4 DEF BanInv

(* Expired bans are forgotten; that is no ban of an honest source. *)
LEMMA ForgetStep ==
    ASSUME BanInv, NEW ip \in IPs, Forget(ip)
    PROVE  BanStep(ip) /\ (IsBanned(ip) => UNCHANGED banned)
  BY DEF Forget, BanStep, IsBanned

(***************************************************************************)
(* One case per action: whose ban and whose list it changes.               *)
(***************************************************************************)
LEMMA Step == BanIInv /\ [BanNext]_banAllVars => BanIInv'
<1> SUFFICES ASSUME BanIInv, [BanNext]_banAllVars PROVE BanIInv'
  OBVIOUS
<1> USE DEF BanIInv, banVars
<1>1. CASE ClockTick
  <2>1. BanInv'
    BY <1>1, PolicyAssumption DEF ClockTick, BanInv, Ends, Times, Never
  <2> QED
    BY <1>1, <2>1 DEF ClockTick, SourceInv, ListInv, HonestNeverBanned
<1>2. CASE Sweep
  <2>1. \A ip \in IPs : banned'[ip] \in {banned[ip], Never}
    BY <1>2 DEF Sweep
  <2>2. BanInv'
    <3>1. banned' \in [IPs -> Ends]
      BY <1>2, BanEnd DEF Sweep, BanInv
    <3>2. \A ip \in IPs : banned'[ip] <= time + Duration
      BY <2>1, BanEnd DEF BanInv
    <3> QED
      BY <1>2, <3>1, <3>2 DEF Sweep, BanInv
  <2>3. ListInv' /\ HonestNeverBanned'
    BY <1>2, <2>1, PolicyAssumption DEF Sweep, ListInv, HonestNeverBanned, Stale
  <2> QED
    BY <1>2, <2>2, <2>3 DEF Sweep, SourceInv
<1>3. ASSUME NEW ip \in IPs, Unban(ip) PROVE BanIInv'
  <2>1. BanStep(ip) /\ UNCHANGED <<time, request, conn>>
    BY <1>3 DEF Unban, BanStep
  <2>2. banned'[ip] = Never
    BY <1>3 DEF Unban, BanInv
  <2>3. HonestNeverBanned' /\ ListInv'
    BY <1>3, <2>1, <2>2, BansKept, ClearedLocal, PolicyAssumption
       DEF Unban, HonestNeverBanned, ListInv
  <2> QED
    BY <2>1, <2>3, BansKept DEF SourceInv
<1>4. ASSUME NEW ip \in IPs, NEW r \in Reqs, Drop(r, ip) PROVE BanIInv'
  <2>1. UNCHANGED <<time, conn, failures>>
    BY <1>4 DEF Drop, BanNow
  <2>2. SourceInv'
    BY <1>4, <2>1 DEF Drop, SourceInv
  <2>3. BanStep(ip)
    BY <1>4, ForgetStep DEF Drop, BanNow, BanStep
  <2>4. ip \in HonestIPs => UNCHANGED banned
    BY <1>4 DEF Drop, HonestNeverBanned, Forget, Expired
  <2>5. HonestNeverBanned'
    BY <2>1, <2>3, <2>4, BansKept, PolicyAssumption DEF HonestNeverBanned
  <2> QED
    BY <2>1, <2>2, <2>3, <2>5, BansKept DEF ListInv
<1>5. ASSUME NEW ip \in IPs, NEW c \in Conns, Accept(c, ip) PROVE BanIInv'
  <2>1. BanStep(ip) /\ UNCHANGED <<time, failures, request>>
    BY <1>5, ForgetStep DEF Accept
  <2>2. ip \in HonestIPs => UNCHANGED banned
    BY <1>5 DEF Accept, HonestNeverBanned, Forget, Expired
  <2>3. SourceInv'
    BY <1>5 DEF Accept, SourceInv
  <2>4. HonestNeverBanned'
    BY <2>1, <2>2, BansKept, PolicyAssumption DEF HonestNeverBanned
  <2> QED
    BY <2>1, <2>3, <2>4, BansKept DEF ListInv
<1>6. ASSUME NEW r \in Reqs, HandlerAuthorizes(r) PROVE BanIInv'
  <2> DEFINE ip == request[r]
  <2>1. ip \in IPs /\ UNCHANGED <<time, conn>>
    BY <1>6 DEF HandlerAuthorizes, SourceInv
  <2>2. SourceInv'
    BY <1>6 DEF HandlerAuthorizes, SourceInv
  <2>3. PICK c \in IF ip \in HonestIPs THEN HonestCredentials ELSE Credentials :
            CASE Authorize(c) = "fail"   -> Fail(ip)
              [] Authorize(c) = "accept" -> Succeed(ip)
              [] OTHER -> UNCHANGED banVars
    BY <1>6 DEF HandlerAuthorizes
  <2>4. CASE Authorize(c) = "fail"
    <3>1. Fail(ip) /\ ip \notin HonestIPs
      BY <2>3, <2>4, HonestAccepted
    <3>2. BanStep(ip)
      BY <2>1, <3>1, FailLocal DEF BanStep
    <3>3. HonestNeverBanned' /\ ListInv'
      BY <2>1, <3>1, <3>2, FailLocal, BansKept, PolicyAssumption
         DEF HonestNeverBanned, ListInv
    <3> QED
      BY <2>1, <2>2, <3>2, <3>3, BansKept
  <2>5. CASE Authorize(c) = "accept"
    <3>1. Succeed(ip)
      BY <2>3, <2>5
    <3>2. UNCHANGED banned /\ failures' = Cleared(failures, ip)
      BY <3>1 DEF Succeed
    <3>3. HonestNeverBanned' /\ ListInv'
      BY <2>1, <3>2, ClearedLocal, PolicyAssumption DEF HonestNeverBanned, ListInv
    <3> QED
      BY <2>1, <2>2, <3>2, <3>3 DEF BanInv
  <2>6. CASE Authorize(c) \notin {"fail", "accept"}
    BY <2>1, <2>2, <2>3, <2>6 DEF BanInv, ListInv, HonestNeverBanned
  <2> QED
    BY <2>4, <2>5, <2>6
<1>7. ASSUME NEW c \in Conns, ConnReads(c) \/ ConnWrites(c) PROVE BanIInv'
  <2>1. UNCHANGED <<time, banVars, request>>
    BY <1>7 DEF ConnReads, ConnWrites
  <2>2. SourceInv'
    BY ZenonT(60), <1>7 DEF ConnReads, ConnWrites, SourceInv
  <2> QED
    BY <2>1, <2>2 DEF BanInv, ListInv, HonestNeverBanned
<1>8. ASSUME NEW c \in Conns, ConnFails(c) PROVE BanIInv'
  <2> DEFINE ip == conn[c].ip
  <2>1. ip \in IPs /\ UNCHANGED <<time, request>>
    BY <1>8 DEF ConnFails, SourceInv
  <2>2. SourceInv'
    BY ZenonT(60), <1>8 DEF ConnFails, SourceInv
  <2>3. CASE UNCHANGED banVars
    BY <2>1, <2>2, <2>3 DEF BanInv, ListInv, HonestNeverBanned
  <2>4. CASE Fail(ip) /\ ip \notin HonestIPs
    <3>1. BanStep(ip)
      BY <2>1, <2>4, FailLocal DEF BanStep
    <3>2. HonestNeverBanned' /\ ListInv'
      BY <2>1, <2>4, <3>1, FailLocal, BansKept, PolicyAssumption
         DEF HonestNeverBanned, ListInv
    <3> QED
      BY <2>1, <2>2, <3>1, <3>2, BansKept
  <2> QED
    BY <1>8, <2>3, <2>4 DEF ConnFails
<1>9. CASE UNCHANGED banAllVars
  BY <1>9 DEF banAllVars, BanInv, SourceInv, ListInv, HonestNeverBanned
<1> QED
  BY <1>1, <1>2, <1>3, <1>4, <1>5, <1>6, <1>7, <1>8, <1>9 DEF BanNext

(* The inductive invariant. *)
THEOREM BanInvariance == BanSpec => []BanIInv
<1>1. BanInit => BanIInv
  <2> SUFFICES ASSUME BanInit PROVE BanIInv
    OBVIOUS
  <2>1. BanInv
    BY PolicyAssumption DEF BanInit, BanInv, Ends, Times, Never
  <2>2. SourceInv /\ ListInv /\ HonestNeverBanned
    BY PolicyAssumption DEF BanInit, SourceInv, ListInv, HonestNeverBanned, NoConn
  <2> QED
    BY <2>1, <2>2 DEF BanIInv
<1> QED
  BY <1>1, Step, PTL DEF BanSpec

(***************************************************************************)
(* HonestNeverBanned: an address from which only phones with the right     *)
(* password call is never banned and never has a failure counted.          *)
(***************************************************************************)
THEOREM HonestSafe == BanSpec => []HonestNeverBanned
  BY BanInvariance, PTL DEF BanIInv

(***************************************************************************)
(* BanKept: a ban in force is only lifted by Unban.  Who is banned again   *)
(* gets a later end, since no ban ends after one that begins now.          *)
(***************************************************************************)
THEOREM BansLast == BanSpec => BanKept
<1>1. BanIInv /\ [BanNext]_banAllVars =>
          [\A ip \in IPs : IsBanned(ip) => banned'[ip] >= banned[ip] \/ Unban(ip)]_banAllVars
  <2> SUFFICES ASSUME BanIInv, BanNext, NEW ip \in IPs, IsBanned(ip), ~Unban(ip)
               PROVE  banned'[ip] >= banned[ip]
    OBVIOUS
  <2> USE DEF BanIInv, banVars
  <2>0. /\ banned[ip] \in Int /\ time \in Int /\ Duration \in Int
        /\ banned[ip] <= time + Duration
    BY PolicyAssumption DEF BanInv, Ends, Times, Never
  <2>1. SUFFICES banned'[ip] = banned[ip] \/ banned'[ip] = time + Duration
    BY <2>0, <2>1
  <2>2. CASE ClockTick \/ \E c \in Conns : ConnReads(c) \/ ConnWrites(c)
    BY <2>2 DEF ClockTick, ConnReads, ConnWrites
  <2>3. CASE Sweep
    BY <2>3 DEF Sweep, IsBanned
  <2>4. ASSUME NEW k \in IPs, Unban(k) PROVE banned'[ip] = banned[ip]
    BY <2>4 DEF Unban, BanInv
  <2>5. ASSUME NEW k \in IPs, Forget(k) PROVE banned'[ip] = banned[ip]
    BY <2>5 DEF Forget, IsBanned, BanInv
  <2>6. ASSUME NEW k \in IPs, Fail(k)
        PROVE  banned'[ip] = banned[ip] \/ banned'[ip] = time + Duration
    BY <2>6, FailLocal DEF BanInv
  <2>7. ASSUME NEW k \in IPs, NEW r \in Reqs, Drop(r, k)
        PROVE  banned'[ip] = banned[ip] \/ banned'[ip] = time + Duration
    BY <2>5, <2>7 DEF Drop, BanNow, BanInv
  <2>8. ASSUME NEW k \in IPs, NEW c \in Conns, Accept(c, k) PROVE banned'[ip] = banned[ip]
    BY <2>5, <2>8 DEF Accept
  <2>9. ASSUME NEW r \in Reqs, HandlerAuthorizes(r)
        PROVE  banned'[ip] = banned[ip] \/ banned'[ip] = time + Duration
    <3>1. request[r] \in IPs
      BY <2>9 DEF HandlerAuthorizes, SourceInv
    <3>2. Fail(request[r]) \/ UNCHANGED banned
      BY <2>9 DEF HandlerAuthorizes, Succeed
    <3> QED
      BY <2>6, <3>1, <3>2
  <2>10. ASSUME NEW c \in Conns, ConnFails(c)
         PROVE  banned'[ip] = banned[ip] \/ banned'[ip] = time + Duration
    <3>1. conn[c].ip \in IPs /\ (Fail(conn[c].ip) \/ UNCHANGED banned)
      BY <2>10 DEF ConnFails, SourceInv
    <3> QED
      BY <2>6, <3>1
  <2> QED
    BY <2>2, <2>3, <2>4, <2>7, <2>8, <2>9, <2>10 DEF BanNext
<1> QED
  BY BanInvariance, <1>1, PTL DEF BanSpec, BanKept

-----------------------------------------------------------------------------
(* The failures in the window at time t. *)
Fresh(t) == {u \in Times : u > t - Window}

(* What the pruned list f and the full history h of an address have in     *)
(* common at time t.  The list is in order: so its last failure tells      *)
(* Sweep about all of them.                                                *)
Counts(f, h, t) ==
    /\ f \in Seq(Times) /\ h \in Seq(Times)
    /\ \A i, j \in 1..Len(f) : i <= j => f[i] <= f[j]
    /\ \A i \in 1..Len(f) : f[i] <= t
    /\ Kept(f, Fresh(t)) = Kept(h, Fresh(t))
    /\ Threshold > 0 => Len(Kept(h, Fresh(t))) < Threshold

CountInv ==
    /\ failures \in [IPs -> Seq(Times)] /\ history \in [IPs -> Seq(Times)]
    /\ \A ip \in IPs : Counts(failures[ip], history[ip], time)

LEMMA EmptyCounts == ASSUME NEW t PROVE Counts(<<>>, <<>>, t)
<1>1. Kept(<<>>, Fresh(t)) = <<>>
  BY KeptEmpty
<1>2. <<>> \in Seq(Times) /\ Len(<<>>) = 0
  OBVIOUS
<1> QED
  BY <1>1, <1>2, PolicyAssumption DEF Counts

(* As time goes by, failures only leave the window. *)
LEMMA LaterCounts ==
    ASSUME NEW t \in Times, t + 1 \in Times, NEW f, NEW h, Counts(f, h, t)
    PROVE  Counts(f, h, t + 1)
<1>1. /\ f \in Seq(Times) /\ h \in Seq(Times)
      /\ Kept(f, Fresh(t)) = Kept(h, Fresh(t))
      /\ Threshold > 0 => Len(Kept(h, Fresh(t))) < Threshold
  BY DEF Counts
<1>2. \A x \in Times : x \in Fresh(t + 1) => x \in Fresh(t)
  BY PolicyAssumption DEF Fresh, Times
<1>3. /\ Kept(Kept(f, Fresh(t)), Fresh(t + 1)) = Kept(f, Fresh(t + 1))
      /\ Kept(Kept(h, Fresh(t)), Fresh(t + 1)) = Kept(h, Fresh(t + 1))
  BY <1>1, <1>2, KeptTwice
<1>4. Threshold > 0 => Len(Kept(h, Fresh(t + 1))) < Threshold
  <2> DEFINE r == Kept(h, Fresh(t))
  <2>1. r \in Seq(Times \cap Fresh(t)) /\ Len(r) \in Nat
    BY <1>1, KeptBound
  <2>2. Len(Kept(r, Fresh(t + 1))) <= Len(r) /\ Len(Kept(r, Fresh(t + 1))) \in Nat
    <3> HIDE DEF r
    <3>1. /\ Kept(r, Fresh(t + 1)) \in Seq((Times \cap Fresh(t)) \cap Fresh(t + 1))
          /\ Len(Kept(r, Fresh(t + 1))) <= Len(r)
      BY <2>1, KeptBound
    <3> QED
      BY <3>1
  <2> QED
    BY <1>1, <1>3, <2>1, <2>2, PolicyAssumption
<1>5. \A i \in 1..Len(f) : f[i] <= t + 1
  <2>1. \A i \in 1..Len(f) : f[i] \in Times /\ f[i] <= t
    BY <1>1 DEF Counts
  <2>2. \A x \in Times : x <= t => x <= t + 1
    BY DEF Times
  <2> QED
    BY <2>1, <2>2
<1> QED
  BY <1>1, <1>3, <1>4, <1>5 DEF Counts

(* Fail drops what is out of the window and adds the new failure. *)
LEMMA FailCounts ==
    ASSUME NEW t \in Times, NEW f, NEW h, Counts(f, h, t), Threshold > 0,
           Len(Append(Kept(f, Fresh(t)), t)) < Threshold
    PROVE  Counts(Append(Kept(f, Fresh(t)), t), Append(h, t), t)
<1> DEFINE r == Kept(f, Fresh(t))
           g == Append(r, t)
<1>1. /\ f \in Seq(Times) /\ h \in Seq(Times) /\ f \in Seq(Nat)
      /\ r = Kept(h, Fresh(t))
      /\ \A i \in 1..Len(f) : f[i] <= t
  <2>1. Times \subseteq Nat
    BY DEF Times
  <2> QED
    BY <2>1, SeqMonotonic DEF Counts
<1>2. /\ r \in Seq(Times) /\ Len(r) \in Nat
      /\ \A i, j \in 1..Len(r) : i <= j => r[i] <= r[j]
      /\ \A i \in 1..Len(r) : r[i] \in Times
  <2>1. r \in Seq(Times \cap Fresh(t))
    BY <1>1, KeptBound
  <2>2. r \in Seq(Times)
    <3> HIDE DEF r
    <3>1. Times \cap Fresh(t) \subseteq Times
      OBVIOUS
    <3> QED
      BY <2>1, <3>1, SeqMonotonic
  <2>3. \A i, j \in 1..Len(r) : i <= j => r[i] <= r[j]
    BY <1>1, KeptOrdered DEF Counts
  <2> HIDE DEF r
  <2> QED
    BY <2>2, <2>3
<1>3. \A i \in 1..Len(r) : r[i] <= t
  <2>1. r \in Seq(Times \cap 0..t)
    <3>1. f \in Seq(Times \cap 0..t)
      <4>1. \A i \in 1..Len(f) : f[i] \in Times \cap 0..t
        <5>1. \A x \in Times : x <= t => x \in 0..t
          BY DEF Times
        <5>2. \A i \in 1..Len(f) : f[i] \in Times
          BY <1>1
        <5> QED
          BY <1>1, <5>1, <5>2
      <4> QED
        BY <1>1, <4>1
    <3>2. r \in Seq((Times \cap 0..t) \cap Fresh(t))
      BY <3>1, KeptBound
    <3>3. (Times \cap 0..t) \cap Fresh(t) \subseteq Times \cap 0..t
      OBVIOUS
    <3> HIDE DEF r
    <3> QED
      BY <3>2, <3>3, SeqMonotonic
  <2> HIDE DEF r
  <2> QED
    BY <2>1
<1>4. Kept(r, Fresh(t)) = r
  BY <1>1, KeptTwice
<1>5. Kept(g, Fresh(t)) = Kept(Append(h, t), Fresh(t))
  <2>1. Kept(Append(h, t), Fresh(t)) = IF t \in Fresh(t) THEN Append(r, t) ELSE r
    <3> HIDE DEF r
    <3> QED
      BY <1>1, KeptAppend
  <2>2. Kept(g, Fresh(t)) = IF t \in Fresh(t) THEN Append(r, t) ELSE r
    <3> HIDE DEF r
    <3> QED
      BY <1>2, <1>4, KeptAppend
  <2> QED
    BY <2>1, <2>2
<1> HIDE DEF r
<1>6. /\ g \in Seq(Times) /\ Len(g) = Len(r) + 1 /\ g[Len(r) + 1] = t
      /\ \A i \in 1..Len(r) : g[i] = r[i]
  BY <1>2, AppendProperties
<1>7. /\ \A i \in 1..Len(g) : g[i] \in Times /\ g[i] <= t
      /\ \A i, j \in 1..Len(g) : i <= j => g[i] <= g[j]
  <2> HIDE DEF g
  <2>1. ASSUME NEW i \in 1..Len(g) PROVE g[i] \in Times /\ g[i] <= t
    <3>1. i \in 1..Len(r) \/ i = Len(r) + 1
      BY <1>2, <1>6
    <3> QED
      BY <1>2, <1>3, <1>6, <3>1 DEF Times
  <2>2. ASSUME NEW i \in 1..Len(g), NEW j \in 1..Len(g), i <= j PROVE g[i] <= g[j]
    <3>1. CASE j = Len(r) + 1
      BY <1>6, <2>1, <3>1
    <3>2. CASE j # Len(r) + 1
      <4>1. i \in 1..Len(r) /\ j \in 1..Len(r)
        BY <1>2, <1>6, <2>2, <3>2
      <4> QED
        BY <1>2, <1>6, <2>2, <4>1
    <3> QED
      BY <3>1, <3>2
  <2> QED
    BY <2>1, <2>2
<1>8. Append(h, t) \in Seq(Times)
  BY <1>1
<1>9. Len(Kept(Append(h, t), Fresh(t))) < Threshold
  <2>1. Kept(g, Fresh(t)) \in Seq(Times \cap Fresh(t)) /\ Len(Kept(g, Fresh(t))) <= Len(g)
    <3> HIDE DEF g
    <3> QED
      BY <1>6, KeptBound
  <2>2. Len(g) < Threshold
    BY DEF r
  <2>3. Len(Kept(g, Fresh(t))) \in Nat /\ Len(g) \in Nat
    BY <1>2, <1>6, <2>1
  <2> QED
    BY <1>5, <2>1, <2>2, <2>3, PolicyAssumption
<1> QED
  BY <1>5, <1>6, <1>7, <1>8, <1>9 DEF Counts, r

(* Sweep drops a list only when nothing of it is in the window. *)
LEMMA SweepCounts ==
    ASSUME NEW t \in Times, NEW f, NEW h, Counts(f, h, t), f # <<>>,
           f[Len(f)] < t - Window
    PROVE  Counts(<<>>, h, t)
<1>1. f \in Seq(Times) /\ h \in Seq(Times) /\ Len(f) \in Nat
  BY DEF Counts
<1>2. \A i \in 1..Len(f) : f[i] \notin Fresh(t)
  <2> SUFFICES ASSUME NEW i \in 1..Len(f) PROVE ~(f[i] > t - Window)
    BY DEF Fresh
  <2>1. Len(f) \in 1..Len(f) /\ i <= Len(f)
    BY <1>1
  <2>2. f[i] <= f[Len(f)] /\ f[i] \in Nat /\ f[Len(f)] \in Nat
    <3>1. f[i] <= f[Len(f)]
      BY <2>1 DEF Counts
    <3>2. f[i] \in Times /\ f[Len(f)] \in Times
      BY <1>1, <2>1
    <3> QED
      BY <3>1, <3>2 DEF Times
  <2> QED
    BY <2>2, PolicyAssumption DEF Times
<1>3. Kept(f, Fresh(t)) = <<>>
  BY <1>1, <1>2, KeptNone
<1>4. Kept(<<>>, Fresh(t)) = <<>> /\ Len(<<>>) = 0 /\ <<>> \in Seq(Times)
  BY KeptEmpty
<1> QED
  BY <1>1, <1>3, <1>4 DEF Counts

LEMMA CountStep == BanIInv /\ CountInv /\ [BanNext]_banAllVars => CountInv'
<1> SUFFICES ASSUME BanIInv, CountInv, [BanNext]_banAllVars PROVE CountInv'
  OBVIOUS
<1>0. time \in Times
  BY DEF BanIInv, BanInv
<1>1. CASE ClockTick
  BY <1>0, <1>1, LaterCounts, PolicyAssumption DEF ClockTick, CountInv, banVars, Times
<1>2. ASSUME UNCHANGED <<time, failures, history>> PROVE CountInv'
  BY <1>2 DEF CountInv
<1>3. ASSUME NEW ip \in IPs, UNCHANGED time,
             failures' = Cleared(failures, ip), history' = Cleared(history, ip)
      PROVE  CountInv'
  <2>1. /\ failures' \in [IPs -> Seq(Times)] /\ history' \in [IPs -> Seq(Times)]
        /\ \A k \in IPs : /\ failures'[k] = IF k = ip THEN <<>> ELSE failures[k]
                          /\ history'[k] = IF k = ip THEN <<>> ELSE history[k]
    BY <1>3 DEF CountInv, Cleared
  <2> QED
    BY <1>3, <2>1, EmptyCounts DEF CountInv
<1>4. ASSUME NEW ip \in IPs, UNCHANGED time, Fail(ip) PROVE CountInv'
  <2> DEFINE kept == Append(Recent(failures[ip]), time)
  <2>1. CASE UNCHANGED banVars
    BY <1>2, <1>4, <2>1 DEF banVars
  <2>2. CASE failures' = Cleared(failures, ip) /\ history' = Cleared(history, ip)
    BY <1>3, <1>4, <2>2
  <2>3. CASE /\ Threshold > 0 /\ Len(kept) < Threshold
             /\ failures' = [failures EXCEPT ![ip] = kept]
             /\ history' = [history EXCEPT ![ip] = Append(@, time)]
    <3>1. Recent(failures[ip]) = Kept(failures[ip], Fresh(time))
      BY DEF Recent, Fresh
    <3>2. Counts(kept, Append(history[ip], time), time)
      BY <1>0, <2>3, <3>1, FailCounts DEF CountInv
    <3>3. kept \in Seq(Times) /\ Append(history[ip], time) \in Seq(Times)
      BY <3>2 DEF Counts
    <3> HIDE DEF kept
    <3>4. /\ failures' \in [IPs -> Seq(Times)] /\ history' \in [IPs -> Seq(Times)]
          /\ \A k \in IPs :
                 /\ failures'[k] = IF k = ip THEN kept ELSE failures[k]
                 /\ history'[k] = IF k = ip THEN Append(history[ip], time) ELSE history[k]
      BY <2>3, <3>3 DEF CountInv
    <3> QED
      BY <1>4, <3>2, <3>4 DEF CountInv
  <2>4. Threshold \in Nat /\ Len(kept) \in Nat
    <3>1. failures[ip] \in Seq(Times)
      BY DEF CountInv
    <3>2. Recent(failures[ip]) \in Seq(Times \cap {t \in Times : t > time - Window})
      BY <3>1, KeptBound DEF Recent
    <3>3. Len(Recent(failures[ip])) \in Nat /\ Recent(failures[ip]) \in Seq(Times)
      <4>1. Times \cap {t \in Times : t > time - Window} \subseteq Times
        OBVIOUS
      <4> QED
        BY <3>2, <4>1, SeqMonotonic
    <3> QED
      BY <1>0, <3>3, PolicyAssumption
  <2>5. \/ UNCHANGED banVars
        \/ failures' = Cleared(failures, ip) /\ history' = Cleared(history, ip)
        \/ /\ ~(Threshold <= 0) /\ ~(Len(kept) >= Threshold)
           /\ failures' = [failures EXCEPT ![ip] = kept]
           /\ history' = [history EXCEPT ![ip] = Append(@, time)]
    BY Zenon, <1>4 DEF Fail
  <2> HIDE DEF kept
  <2> QED
    BY <2>1, <2>2, <2>3, <2>4, <2>5
<1>5. CASE Sweep
  <2>1. /\ failures' \in [IPs -> Seq(Times)] /\ history' = history /\ time' = time
        /\ \A ip \in IPs : failures'[ip] = IF Stale(failures[ip]) THEN <<>>
                                           ELSE failures[ip]
    <3>1. <<>> \in Seq(Times)
      OBVIOUS
    <3> QED
      BY <1>5, <3>1 DEF Sweep, CountInv
  <2>2. \A ip \in IPs : Counts(failures'[ip], history[ip], time)
    <3> SUFFICES ASSUME NEW ip \in IPs, Stale(failures[ip])
                 PROVE  Counts(<<>>, history[ip], time)
      BY <2>1 DEF CountInv
    <3> QED
      BY <1>0, SweepCounts DEF CountInv, Stale
  <2> QED
    BY <2>1, <2>2 DEF CountInv
<1>6. ASSUME NEW ip \in IPs, Unban(ip) PROVE CountInv'
  BY <1>3, <1>6 DEF Unban
<1>7. ASSUME NEW ip \in IPs, NEW r \in Reqs, Drop(r, ip) PROVE CountInv'
  BY <1>2, <1>7 DEF Drop, BanNow, banVars
<1>8. ASSUME NEW ip \in IPs, NEW c \in Conns, Accept(c, ip) PROVE CountInv'
  BY <1>2, <1>8 DEF Accept
<1>9. ASSUME NEW r \in Reqs, HandlerAuthorizes(r) PROVE CountInv'
  <2>1. request[r] \in IPs /\ UNCHANGED time
    BY <1>9 DEF HandlerAuthorizes, BanIInv, SourceInv
  <2>2. Fail(request[r]) \/ Succeed(request[r]) \/ UNCHANGED banVars
    BY <1>9 DEF HandlerAuthorizes
  <2> QED
    BY <1>2, <1>3, <1>4, <2>1, <2>2 DEF Succeed, banVars
<1>10. ASSUME NEW c \in Conns, ConnReads(c) \/ ConnWrites(c) PROVE CountInv'
  BY <1>2, <1>10 DEF ConnReads, ConnWrites, banVars
<1>11. ASSUME NEW c \in Conns, ConnFails(c) PROVE CountInv'
  <2>1. conn[c].ip \in IPs /\ UNCHANGED time
    BY <1>11 DEF ConnFails, BanIInv, SourceInv
  <2>2. Fail(conn[c].ip) \/ UNCHANGED banVars
    BY <1>11 DEF ConnFails
  <2> QED
    BY <1>2, <1>4, <2>1, <2>2 DEF banVars
<1>12. CASE UNCHANGED banAllVars
  BY <1>2, <1>12 DEF banAllVars, banVars
<1> QED
  BY <1>1, <1>5, <1>6, <1>7, <1>8, <1>9, <1>10, <1>11, <1>12 DEF BanNext

LEMMA CountInvariance == BanSpec => []CountInv
<1>1. BanInit => CountInv
  <2> SUFFICES ASSUME BanInit PROVE CountInv
    OBVIOUS
  <2>1. <<>> \in Seq(Times)
    OBVIOUS
  <2> QED
    BY <2>1, EmptyCounts DEF BanInit, CountInv
<1> QED
  BY <1>1, CountStep, BanInvariance, PTL DEF BanSpec

(***************************************************************************)
(* CountExact: for every policy, what the ban list has pruned to counts    *)
(* exactly the failures in the window, as the full history would.          *)
(***************************************************************************)
THEOREM CountsExact == BanSpec => []CountExact
<1>1. CountInv => CountExact
  BY DEF CountInv, Counts, CountExact, Recent, Fresh
<1> QED
  BY <1>1, CountInvariance, PTL

(***************************************************************************)
(* The lists, bans, requests and connections keep their types.             *)
(***************************************************************************)
THEOREM BanTypeCorrect == BanSpec => []BanTypeOK
<1>1. BanIInv /\ CountInv => BanTypeOK
  BY DEF BanIInv, BanInv, SourceInv, CountInv, BanTypeOK, Ends
<1> QED
  BY <1>1, CountInvariance, BanInvariance, PTL
=============================================================================
