---------------------------- MODULE MediaProofs -----------------------------
(***************************************************************************)
(* Theorems about the parts of package media and of the keypad that reads  *)
(* its events: Endpoint, PortPool and PinEntry.                            *)
(***************************************************************************)
EXTENDS Endpoint, PortPool, PinEntry, TLAPS, FiniteSetTheorems, SequenceTheorems

-----------------------------------------------------------------------------
(***************************************************************************)
(* Endpoint, for every set of addresses, setters and SDPs.                 *)
(***************************************************************************)

(* Setters that hold e.mu: between SetRemote's check and its last store. *)
Holds(s) == set[s] \notin {"idle", "lock", "done"}

(* TypeOK counts the holders; what is inductive is that two are one.       *)
TypeInv ==
    /\ allowed \subseteq Ips /\ sdpPort \in Ports \cup {0}
    /\ peer \in [Paths -> Addrs \cup {Nobody}] /\ latched \in [Paths -> BOOLEAN]
    /\ set \in [Setters -> {"idle", "lock", "rtpPeer", "rtpLatched", "rtcpPeer",
                            "rtcpLatched", "done"}]
    /\ offer \in [Setters -> Offers \cup {NoOffer}]
    /\ reader \in [Paths -> {"new", "read", "peer", "latch", "stopped"}]
    /\ src \in [Paths -> Addrs \cup {Nobody}]
    /\ closing \in {"no", "closed", "released"}
    /\ home \in Homes /\ moved \subseteq Homes
    /\ heard \in [Paths -> SUBSET Addrs]
    /\ repeats \subseteq Setters /\ lost \in BOOLEAN

MutexInv ==
    /\ \A s, t \in Setters : Holds(s) /\ Holds(t) => s = t
    /\ \A s \in Setters : set[s] # "idle" => offer[s] \in Offers

(***************************************************************************)
(* Where a peer comes from.  StrangersIgnored alone is not inductive: the  *)
(* address a reader is about to store must be one it accepted, and what it *)
(* accepted under SRTP must be the phone's.                                *)
(***************************************************************************)
SourceInv ==
    \A p \in Paths :
        /\ reader[p] \in {"peer", "latch"} => src[p] \in heard[p]
        /\ Secured => heard[p] \subseteq Homes

IInv == TypeInv /\ MutexInv /\ SourceInv /\ StrangersIgnored /\ NoPacketAfterRelease

(* The address that replaces a private one is an address. *)
LEMMA GuessType == \A o \in Offers : Guess(o) \in Addrs /\ o.port \in Ports
  BY AddrsAssumption DEF Guess, Addrs

(* It holds initially. *)
LEMMA InitInv == Init => IInv
<1> SUFFICES ASSUME Init PROVE IInv
  OBVIOUS
<1>1. TypeInv
  BY DEF Init, TypeInv
<1>2. MutexInv /\ SourceInv
  BY DEF Init, MutexInv, Holds, SourceInv
<1>3. StrangersIgnored /\ NoPacketAfterRelease
  BY DEF Init, StrangersIgnored, NoPacketAfterRelease
<1> QED
  BY <1>1, <1>2, <1>3 DEF IInv

(***************************************************************************)
(* Steps of SetRemote.                                                     *)
(***************************************************************************)
LEMMA SetRemoteStep ==
    ASSUME IInv, NEW s \in Setters, NEW o \in Offers, SetRemote(s, o)
    PROVE  IInv'
<1> USE DEF IInv, SetRemote, At, pathVars, readVars
<1>0. /\ set' = [set EXCEPT ![s] = IF o.hold THEN "done" ELSE "lock"]
      /\ \A t \in Setters : offer'[t] = IF t = s THEN o ELSE offer[t]
      /\ \A t \in Setters : set'[t] = IF t # s THEN set[t] ELSE IF o.hold THEN "done" ELSE "lock"
  BY DEF TypeInv
<1>1. TypeInv'
  BY <1>0, AddrsAssumption DEF TypeInv, Addrs
<1>2. MutexInv'
  BY <1>0 DEF MutexInv, Holds
<1>3. StrangersIgnored'
  BY <1>0 DEF StrangersIgnored
<1>4. SourceInv' /\ NoPacketAfterRelease'
  BY DEF SourceInv, NoPacketAfterRelease
<1> QED
  BY <1>1, <1>2, <1>3, <1>4

LEMMA CheckPortStep ==
    ASSUME IInv, NEW s \in Setters, CheckPort(s)
    PROVE  IInv'
<1> USE DEF IInv, CheckPort, At, pathVars, readVars
<1>0. PICK to \in {"done", "rtpPeer"} : set' = [set EXCEPT ![s] = to]
  OBVIOUS
<1>1. \A t \in Setters : set'[t] = IF t = s THEN to ELSE set[t]
  BY <1>0 DEF TypeInv
<1>2. offer[s] \in Offers
  BY DEF MutexInv
<1>3. TypeInv'
  <2>1. sdpPort' \in Ports \cup {0}
    BY <1>2, GuessType DEF TypeInv
  <2> QED
    BY <1>0, <2>1 DEF TypeInv
<1>4. MutexInv'
  BY <1>1 DEF MutexInv, Holds
<1>5. StrangersIgnored'
  BY <1>1 DEF StrangersIgnored
<1>6. SourceInv' /\ NoPacketAfterRelease'
  BY DEF SourceInv, NoPacketAfterRelease
<1> QED
  BY <1>3, <1>4, <1>5, <1>6

LEMMA StoreGuessStep ==
    ASSUME IInv, NEW s \in Setters, StoreGuess(s)
    PROVE  IInv'
<1> USE DEF IInv, At
<1>1. Holds(s) /\ set[s] # "idle" /\ UNCHANGED <<offer, readVars, closing>>
  BY DEF StoreGuess, StorePeer, StoreUnlatched, Holds
<1>2. offer[s] \in Offers /\ Guess(offer[s]) \in Addrs
  BY <1>1, GuessType DEF MutexInv
<1>3. PICK to \in {"rtpLatched", "rtcpPeer", "rtcpLatched", "done"} :
          set' = [set EXCEPT ![s] = to]
  BY DEF StoreGuess, StorePeer, StoreUnlatched
<1>4. \A t \in Setters : set'[t] = IF t = s THEN to ELSE set[t]
  BY <1>3 DEF TypeInv
<1>5. \/ UNCHANGED peer
      \/ \E p \in Paths : peer' = [peer EXCEPT ![p] = Guess(offer[s])]
  BY DEF StoreGuess, StorePeer, StoreUnlatched, Paths
<1>6. \A p \in Paths : peer'[p] = peer[p] \/ peer'[p] = Guess(offer[s])
  BY <1>5 DEF TypeInv
<1>7. TypeInv'
  <2>1. peer' \in [Paths -> Addrs \cup {Nobody}]
    BY <1>2, <1>5 DEF TypeInv
  <2>2. latched' \in [Paths -> BOOLEAN] /\ lost' \in BOOLEAN
    BY DEF StoreGuess, StorePeer, StoreUnlatched, Paths, TypeInv
  <2>3. UNCHANGED <<allowed, sdpPort, home, moved, repeats>>
    BY DEF StoreGuess, StorePeer, StoreUnlatched
  <2> QED
    BY <1>1, <1>3, <2>1, <2>2, <2>3 DEF TypeInv, readVars
<1>8. MutexInv'
  BY <1>1, <1>4 DEF MutexInv, Holds
<1>9. StrangersIgnored'
  BY <1>1, <1>3, <1>4, <1>6 DEF StrangersIgnored, readVars
<1>10. SourceInv' /\ NoPacketAfterRelease'
  BY <1>1 DEF SourceInv, NoPacketAfterRelease, readVars
<1> QED
  BY <1>7, <1>8, <1>9, <1>10

(***************************************************************************)
(* Steps of the readers.                                                   *)
(***************************************************************************)
LEMMA ReadStep ==
    ASSUME IInv, NEW p \in Paths, NEW a \in {home} \cup Strange, Read(p, a)
    PROVE  IInv'
<1> USE DEF IInv, Read, setVars, pathVars
<1>0. a \in Addrs /\ (Secured => a \in Homes)
  BY AddrsAssumption DEF TypeInv, Accepts
<1>1. /\ \A q \in Paths : heard'[q] = IF q = p THEN heard[p] \cup {a} ELSE heard[q]
      /\ \A q \in Paths : src'[q] = IF q = p THEN a ELSE src[q]
      /\ \A q \in Paths : q # p => reader'[q] = reader[q]
      /\ reader'[p] \in {"peer", "read"}
  BY DEF TypeInv
<1>2. TypeInv'
  BY <1>0 DEF TypeInv
<1>3. MutexInv'
  BY DEF MutexInv, Holds
<1>4. SourceInv'
  BY <1>0, <1>1 DEF SourceInv
<1>5. StrangersIgnored'
  BY <1>1 DEF StrangersIgnored
<1>6. NoPacketAfterRelease'
  BY DEF NoPacketAfterRelease
<1> QED
  BY <1>2, <1>3, <1>4, <1>5, <1>6

LEMMA LatchStep ==
    ASSUME IInv, NEW p \in Paths, Latch(p)
    PROVE  IInv'
<1> USE DEF IInv, Latch, setVars
<1>1. src[p] \in heard[p] /\ (Secured => src[p] \in Homes)
  BY DEF SourceInv
<1>2. \A q \in Paths : q # p => peer'[q] = peer[q] /\ reader'[q] = reader[q]
  BY DEF TypeInv
<1>3. peer'[p] \in {peer[p], src[p]} /\ reader'[p] \in {"latch", "read"}
  BY DEF TypeInv
<1>4. TypeInv'
  BY DEF TypeInv
<1>5. MutexInv'
  BY DEF MutexInv, Holds
<1>6. SourceInv'
  BY <1>1, <1>2, <1>3 DEF SourceInv
<1>7. StrangersIgnored'
  BY <1>1, <1>2, <1>3 DEF StrangersIgnored
<1>8. NoPacketAfterRelease'
  BY DEF NoPacketAfterRelease
<1> QED
  BY <1>4, <1>5, <1>6, <1>7, <1>8

(***************************************************************************)
(* The other steps: only Release needs a look, which waits for readers.    *)
(***************************************************************************)
LEMMA OtherStep ==
    ASSUME IInv,
           \/ Start \/ Close \/ Release \/ Move \/ UNCHANGED vars
           \/ \E p \in Paths : ReadFails(p)
    PROVE  IInv'
<1> USE DEF IInv, setVars, pathVars, readVars
<1>1. UNCHANGED <<setVars, pathVars, src, heard, repeats, lost>>
  BY DEF Start, Close, Release, Move, vars, ReadFails
<1>2. /\ reader' \in [Paths -> {"new", "read", "peer", "latch", "stopped"}]
      /\ \A p \in Paths : reader'[p] \in {"peer", "latch"} => reader'[p] = reader[p]
  BY DEF TypeInv, Start, Close, Release, Move, vars, ReadFails
<1>3. closing' \in {"no", "closed", "released"} /\ home' \in Homes /\ moved' \subseteq Homes
  BY DEF TypeInv, Start, Close, Release, Move, vars, ReadFails
<1>4. TypeInv'
  BY <1>1, <1>2, <1>3 DEF TypeInv
<1>5. MutexInv' /\ SourceInv' /\ StrangersIgnored'
  BY <1>1, <1>2 DEF MutexInv, Holds, SourceInv, StrangersIgnored
<1>6. NoPacketAfterRelease'
  <2>1. CASE Release
    BY <2>1 DEF Release, NoPacketAfterRelease
  <2>2. CASE ~Release
    <3>1. closing' = "released" => closing = "released"
      BY <2>2 DEF Start, Close, Move, vars, ReadFails
    <3> QED
      BY <1>2, <3>1 DEF NoPacketAfterRelease
  <2> QED
    BY <2>1, <2>2
<1> QED
  BY <1>4, <1>5, <1>6

(* The inductive invariant. *)
THEOREM Invariance == Spec => []IInv
<1>1. IInv /\ [Next]_vars => IInv'
  BY SetRemoteStep, CheckPortStep, StoreGuessStep, ReadStep, LatchStep, OtherStep
     DEF Next, SetStep, Done
<1> QED
  BY InitInv, <1>1, PTL DEF Spec

(* Endpoint's variables keep their types, and at most one SetRemote at a   *)
(* time is past its check (e.mu).                                          *)
THEOREM EndpointTypeCorrect == Spec => []TypeOK
<1>1. TypeInv /\ MutexInv => TypeOK
  <2> SUFFICES ASSUME TypeInv, MutexInv PROVE TypeOK
    OBVIOUS
  <2> DEFINE H == {s \in Setters : set[s] \notin {"idle", "lock", "done"}}
  <2>1. H = {} \/ \E s \in Setters : H = {s}
    BY DEF MutexInv, Holds
  <2>2. Cardinality(H) \in {0, 1}
    <3>1. Cardinality({}) = 0 /\ \A s \in Setters : Cardinality({s}) = 1
      BY FS_EmptySet, FS_Singleton
    <3> QED
      BY <2>1, <3>1
  <2>3. Cardinality(H) <= 1
    BY <2>2
  <2> QED
    BY <2>3 DEF TypeInv, TypeOK
<1> QED
  BY Invariance, <1>1, PTL DEF IInv

(***************************************************************************)
(* StrangersIgnored: an endpoint's peer is a guess from SDP or an address  *)
(* that an accepted packet came from; under SRTP, the phone's.             *)
(***************************************************************************)
THEOREM StrangersNeverLatched == Spec => []StrangersIgnored
  BY Invariance, PTL DEF IInv

(* NoPacketAfterRelease: Close gives the ports back when no reader handles *)
(* a packet, and nothing is read from them afterwards.                     *)
THEOREM QuietAfterRelease == Spec => []NoPacketAfterRelease
  BY Invariance, PTL DEF IInv

-----------------------------------------------------------------------------
(***************************************************************************)
(* PortPool, for every range of ports and any set of owners: no pair is    *)
(* lost or shared, free pairs have no open socket, ErrNoPorts is honest,   *)
(* and the pool implements PortSet.                                        *)
(***************************************************************************)

(* The queue operations of allocate and release. *)

(* The ports of the pool, and the neighbours they are paired with, are     *)
(* within the configured range (NewPortPool).                              *)
LEMMA PairsInRange ==
    /\ Count \in Nat
    /\ Pairs \subseteq Nat
    /\ \A p \in Pairs : p \in PortMin..PortMax /\ p + 1 \in PortMin..PortMax
    /\ NewPortPool \in Seq(Pairs)
    /\ Len(NewPortPool) = Count
<1>1. First \in Nat /\ First >= PortMin
    BY RangeAssumption DEF First
<1>2. Count \in Nat /\ (Count > 0 => First + 2 * Count - 1 <= PortMax)
    BY <1>1, RangeAssumption DEF Count
<1>3. NewPortPool \in Seq(Int) /\ Len(NewPortPool) = Count
    BY <1>1, <1>2 DEF NewPortPool
<1>4. \A i \in 1..Count : /\ NewPortPool[i] = First + 2 * (i - 1)
                          /\ NewPortPool[i] \in Nat
                          /\ NewPortPool[i] \in PortMin..PortMax
                          /\ NewPortPool[i] + 1 \in PortMin..PortMax
    BY <1>1, <1>2, RangeAssumption DEF NewPortPool
<1>5. NewPortPool \in Seq(Pairs)
    <2>1. \A i \in 1..Count : NewPortPool[i] \in Pairs
        BY <1>3 DEF Pairs, Members
    <2>2. NewPortPool = [i \in 1..Count |-> NewPortPool[i]]
        BY DEF NewPortPool
    <2>3. NewPortPool \in [1..Count -> Pairs]
        BY <2>1, <2>2
    <2> QED
        BY <1>2, <2>3
<1> QED
    BY <1>2, <1>3, <1>4, <1>5 DEF Pairs, Members

(* No pair is in the pool twice at the start (NewPortPool). *)
LEMMA PoolDistinct ==
    \A i, j \in 1..Len(NewPortPool) : NewPortPool[i] = NewPortPool[j] => i = j
<1>1. First \in Nat
    BY RangeAssumption DEF First
<1> QED
    BY <1>1, PairsInRange DEF NewPortPool

(* Appending, as release does, adds one member. *)
LEMMA MembersAppend ==
    ASSUME NEW S, NEW s \in Seq(S), NEW x \in S
    PROVE  Members(Append(s, x)) = Members(s) \cup {x}
<1>1. /\ Len(Append(s, x)) = Len(s) + 1
      /\ \A i \in 1..Len(s) : Append(s, x)[i] = s[i]
      /\ Append(s, x)[Len(s) + 1] = x
    OBVIOUS
<1>2. 1..(Len(s) + 1) = (1..Len(s)) \cup {Len(s) + 1}
    OBVIOUS
<1> QED
    BY <1>1, <1>2 DEF Members

(* Appending a new member leaves the members distinct. *)
LEMMA AppendDistinct ==
    ASSUME NEW S, NEW s \in Seq(S), NEW x \in S,
           \A i, j \in 1..Len(s) : s[i] = s[j] => i = j,
           \A i \in 1..Len(s) : s[i] # x
    PROVE  \A i, j \in 1..Len(Append(s, x)) : Append(s, x)[i] = Append(s, x)[j] => i = j
OBVIOUS

(* Taking the head, as allocate does, removes at most that member. *)
LEMMA MembersTail ==
    ASSUME NEW S, NEW s \in Seq(S), Len(s) > 0
    PROVE  /\ Head(s) = s[1] /\ Head(s) \in S
           /\ Tail(s) \in Seq(S) /\ Len(Tail(s)) = Len(s) - 1
           /\ \A i \in 1..Len(Tail(s)) : Tail(s)[i] = s[i + 1]
           /\ Members(s) = Members(Tail(s)) \cup {Head(s)}
<1>1. /\ Head(s) = s[1] /\ Head(s) \in S
      /\ Tail(s) \in Seq(S) /\ Len(Tail(s)) = Len(s) - 1
      /\ \A i \in 1..Len(Tail(s)) : Tail(s)[i] = s[i + 1]
    OBVIOUS
<1>2. ASSUME NEW y \in Members(s) PROVE y \in Members(Tail(s)) \cup {Head(s)}
    <2>1. PICK i \in 1..Len(s) : y = s[i]
        BY <1>2 DEF Members
    <2>2. CASE i = 1
        BY <1>1, <2>1, <2>2
    <2>3. CASE i # 1
        <3>1. i - 1 \in 1..Len(Tail(s)) /\ Tail(s)[i - 1] = s[i]
            BY <1>1, <2>3
        <3> QED
            BY <2>1, <3>1 DEF Members
    <2> QED
        BY <2>2, <2>3
<1>3. ASSUME NEW y \in Members(Tail(s)) \cup {Head(s)} PROVE y \in Members(s)
    BY <1>1 DEF Members
<1> QED
    BY <1>1, <1>2, <1>3

(* Moving the head to the end, as allocate does with a pair in use, keeps  *)
(* the members and keeps them distinct.                                    *)
LEMMA Rotate ==
    ASSUME NEW S, NEW s \in Seq(S), Len(s) > 0
    PROVE  /\ Members(Append(Tail(s), Head(s))) = Members(s)
           /\ (\A i, j \in 1..Len(s) : s[i] = s[j] => i = j) =>
                  LET r == Append(Tail(s), Head(s))
                  IN  \A i, j \in 1..Len(r) : r[i] = r[j] => i = j
<1>1. PICK t \in Seq(S), x \in S : t = Tail(s) /\ x = Head(s)
    BY MembersTail
<1>2. /\ Members(s) = Members(t) \cup {x} /\ Len(t) = Len(s) - 1 /\ x = s[1]
      /\ \A i \in 1..Len(t) : t[i] = s[i + 1]
    BY <1>1, MembersTail
<1>3. Members(Append(t, x)) = Members(s)
    BY <1>2, MembersAppend
<1>4. ASSUME \A i, j \in 1..Len(s) : s[i] = s[j] => i = j
      PROVE  \A i, j \in 1..Len(Append(t, x)) : Append(t, x)[i] = Append(t, x)[j] => i = j
    <2>1. /\ \A i, j \in 1..Len(t) : t[i] = t[j] => i = j
          /\ \A i \in 1..Len(t) : t[i] # x
        BY <1>2, <1>4
    <2> QED
        BY <2>1, AppendDistinct
<1> QED
    BY <1>1, <1>3, <1>4

-----------------------------------------------------------------------------
(***************************************************************************)
(* The inductive invariant.  What an owner has in hand goes with where it  *)
(* is; whoever is in allocate holds the mutex, and the pairs it has not    *)
(* tried yet are at the front of the queue.                                *)
(***************************************************************************)
HandInv ==
    /\ \A o \in Owners : port[o] = None <=> at[o] \in {"idle", "try"}
    /\ \A o \in Owners : at[o] \in {"try", "rtcp"} <=> lock = o

QueueInv ==
    \A o \in Owners :
        /\ at[o] = "try" => /\ triesLeft <= Len(free)
                            /\ \A i \in 1..Len(free) : i > triesLeft => free[i] \in tried
        /\ at[o] = "rtcp" => /\ triesLeft > 0 /\ triesLeft <= Len(free) + 1
                             /\ \A i \in 1..Len(free) : i > triesLeft - 1 => free[i] \in tried

SocketInv ==
    \A socket \in open : \E o \in Owners :
        \/ socket = port[o] /\ at[o] \in {"rtcp", "held"}
        \/ socket = port[o] + 1 /\ at[o] \in {"held", "closing"}

Inv == PoolTypeOK /\ HandInv /\ QueueInv /\ SocketInv /\ EachPairOnce

USE NoneAssumption

(* NewPortPool establishes it. *)
LEMMA PoolInitInv == PoolInit => Inv
<1> SUFFICES ASSUME PoolInit PROVE Inv
    OBVIOUS
<1> USE DEF PoolInit
<1>1. PoolTypeOK
    BY PairsInRange DEF PoolTypeOK
<1>2. HandInv /\ QueueInv /\ SocketInv
    BY DEF HandInv, QueueInv, SocketInv
<1>3. EachPairOnce
    <2>1. \A o \in Owners : port[o] \notin Members(free)
        BY PairsInRange DEF Pairs
    <2>2. Members(free) \cup {port[o] : o \in Owners} \cup {None} = Pairs \cup {None}
        BY DEF Pairs
    <2> QED
        BY PoolDistinct, <2>1, <2>2 DEF EachPairOnce
<1> QED
    BY <1>1, <1>2, <1>3 DEF Inv

(* allocate never takes the head of an empty queue: all the pairs it has   *)
(* yet to try are in it.                                                   *)
LEMMA HeadInPool ==
    ASSUME Inv, NEW o \in Owners, at[o] = "try", triesLeft > 0
    PROVE  Len(free) > 0
BY DEF Inv, PoolTypeOK, QueueInv

(* Every step keeps the types, and opens only sockets of the range. *)
LEMMA StepTypeOK ==
    ASSUME Inv, [PoolNext]_poolAllVars
    PROVE  PoolTypeOK'
<1> USE DEF Inv
<1>1. ASSUME NEW o \in Owners, Allocate(o) PROVE PoolTypeOK'
    BY <1>1 DEF PoolTypeOK, Allocate, Go
<1>2. ASSUME NEW o \in Owners, BindRTP(o) PROVE PoolTypeOK'
    <2>1. /\ Len(free) > 0 /\ Head(free) \in Pairs /\ Tail(free) \in Seq(Pairs)
          /\ Append(Tail(free), Head(free)) \in Seq(Pairs)
        BY <1>2, HeadInPool, MembersTail DEF PoolTypeOK, BindRTP
    <2>2. CASE Busy(Head(free))
        <3>1. /\ free' = Append(Tail(free), Head(free)) /\ triesLeft' = triesLeft - 1
              /\ tried' = tried \cup {Head(free)} /\ triesLeft > 0
              /\ UNCHANGED <<lock, at, port, open, foreign>>
            BY <1>2, <2>2 DEF BindRTP, ownVars
        <3>2. triesLeft - 1 \in Nat
            BY <3>1 DEF PoolTypeOK
        <3> QED
            BY <2>1, <3>1, <3>2 DEF PoolTypeOK
    <2>3. CASE ~Busy(Head(free))
        <3>1. Head(free) \in PortMin..PortMax
            BY <2>1, PairsInRange
        <3> QED
            BY <1>2, <2>1, <2>3, <3>1 DEF PoolTypeOK, BindRTP, Go
    <2> QED
        BY <2>2, <2>3
<1>3. ASSUME NEW o \in Owners, BindRTCP(o) PROVE PoolTypeOK'
    <2>1. port[o] \in Pairs /\ triesLeft > 0
        BY <1>3 DEF PoolTypeOK, BindRTCP, HandInv, QueueInv
    <2>2. port[o] + 1 \in PortMin..PortMax
        BY <2>1, PairsInRange
    <2>3. Append(free, port[o]) \in Seq(Pairs)
        BY <2>1 DEF PoolTypeOK
    <2>4. CASE Busy(port[o] + 1)
        <3>1. /\ free' = Append(free, port[o]) /\ triesLeft' = triesLeft - 1
              /\ tried' = tried \cup {port[o]} /\ open' = open \ {port[o]}
              /\ port' = [port EXCEPT ![o] = None] /\ Go(o, "try")
              /\ UNCHANGED <<lock, foreign>>
            BY <1>3, <2>4 DEF BindRTCP
        <3>2. triesLeft - 1 \in Nat
            BY <2>1 DEF PoolTypeOK
        <3> QED
            BY <2>1, <2>3, <3>1, <3>2 DEF PoolTypeOK, Go
    <2>5. CASE ~Busy(port[o] + 1)
        BY <1>3, <2>1, <2>2, <2>5 DEF PoolTypeOK, BindRTCP, Go
    <2> QED
        BY <2>4, <2>5
<1>4. ASSUME NEW o \in Owners, NoPorts(o) PROVE PoolTypeOK'
    BY <1>4 DEF PoolTypeOK, NoPorts, Go
<1>5. ASSUME NEW o \in Owners, CloseRTP(o) \/ CloseRTCP(o) PROVE PoolTypeOK'
    BY <1>5 DEF PoolTypeOK, CloseRTP, CloseRTCP, Go, poolVars
<1>6. ASSUME NEW o \in Owners, ReleasePair(o) PROVE PoolTypeOK'
    <2>1. port[o] \in Pairs
        BY <1>6 DEF PoolTypeOK, ReleasePair, HandInv
    <2> QED
        BY <1>6, <2>1 DEF PoolTypeOK, ReleasePair, Go
<1>7. ASSUME NEW socket \in PortMin..PortMax, ForeignBind(socket) \/ ForeignClose(socket)
      PROVE  PoolTypeOK'
    BY <1>7 DEF PoolTypeOK, ForeignBind, ForeignClose, poolVars, ownVars
<1>8. CASE UNCHANGED poolAllVars
    BY <1>8 DEF PoolTypeOK, poolAllVars, poolVars, ownVars
<1> QED
    BY <1>1, <1>2, <1>3, <1>4, <1>5, <1>6, <1>7, <1>8 DEF PoolNext, Step

(* Every step keeps hand, place and mutex together. *)
LEMMA StepHand ==
    ASSUME Inv, [PoolNext]_poolAllVars
    PROVE  HandInv'
<1> USE DEF Inv, PoolTypeOK, HandInv
<1>1. ASSUME NEW o \in Owners, Allocate(o) PROVE HandInv'
    BY <1>1 DEF Allocate, Go
<1>2. ASSUME NEW o \in Owners, BindRTP(o) PROVE HandInv'
    <2>1. Head(free) \in Pairs /\ None \notin Pairs
        BY <1>2, HeadInPool, MembersTail, PairsInRange DEF BindRTP
    <2> QED
        BY <1>2, <2>1 DEF BindRTP, Go, ownVars
<1>3. ASSUME NEW o \in Owners, BindRTCP(o) PROVE HandInv'
    BY <1>3 DEF BindRTCP, Go
<1>4. ASSUME NEW o \in Owners, NoPorts(o) PROVE HandInv'
    BY <1>4 DEF NoPorts, Go
<1>5. ASSUME NEW o \in Owners, CloseRTP(o) \/ CloseRTCP(o) PROVE HandInv'
    BY <1>5 DEF CloseRTP, CloseRTCP, Go, poolVars
<1>6. ASSUME NEW o \in Owners, ReleasePair(o) PROVE HandInv'
    BY <1>6 DEF ReleasePair, Go
<1>7. ASSUME NEW socket \in PortMin..PortMax, ForeignBind(socket) \/ ForeignClose(socket)
      PROVE  HandInv'
    BY <1>7 DEF ForeignBind, ForeignClose, poolVars, ownVars
<1>8. CASE UNCHANGED poolAllVars
    BY <1>8 DEF poolAllVars, poolVars, ownVars
<1> QED
    BY <1>1, <1>2, <1>3, <1>4, <1>5, <1>6, <1>7, <1>8 DEF PoolNext, Step

(* Every step keeps the pairs found taken behind the ones yet to be tried. *)
LEMMA StepQueue ==
    ASSUME Inv, [PoolNext]_poolAllVars
    PROVE  QueueInv'
<1>0. PoolTypeOK'
    BY StepTypeOK
<1> USE DEF Inv, QueueInv
<1>1. ASSUME NEW o \in Owners, Allocate(o) PROVE QueueInv'
    BY <1>1 DEF Allocate, Go, PoolTypeOK, HandInv
<1>2. ASSUME NEW o \in Owners, BindRTP(o) PROVE QueueInv'
    <2>1. /\ at[o] = "try" /\ lock = o /\ triesLeft > 0 /\ triesLeft <= Len(free)
          /\ \A i \in 1..Len(free) : i > triesLeft => free[i] \in tried
        BY <1>2 DEF BindRTP, HandInv
    <2>2. /\ Len(free) > 0 /\ Head(free) = free[1]
          /\ Tail(free) \in Seq(Pairs) /\ Len(Tail(free)) = Len(free) - 1
          /\ \A i \in 1..Len(Tail(free)) : Tail(free)[i] = free[i + 1]
          /\ Head(free) \in Pairs
        BY <2>1, HeadInPool, MembersTail DEF PoolTypeOK
    <2>3. \A x \in Owners : x # o => at[x] \notin {"try", "rtcp"}
        BY <2>1 DEF HandInv
    <2>4. CASE Busy(Head(free))
        <3>1. /\ free' = Append(Tail(free), Head(free)) /\ triesLeft' = triesLeft - 1
              /\ tried' = tried \cup {Head(free)} /\ at' = at
            BY <1>2, <2>4 DEF BindRTP, ownVars
        <3>2. /\ Len(free') = Len(free)
              /\ \A i \in 1..(Len(free) - 1) : free'[i] = free[i + 1]
              /\ free'[Len(free)] = Head(free)
            BY <2>2, <3>1
        <3>3. ASSUME NEW i \in 1..Len(free'), i > triesLeft' PROVE free'[i] \in tried'
            <4>1. CASE i = Len(free)
                BY <3>1, <3>2, <4>1
            <4>2. CASE i # Len(free)
                <5>1. Len(free) \in Nat /\ triesLeft \in Nat
                    BY DEF PoolTypeOK
                <5>2. i + 1 \in 1..Len(free) /\ i + 1 > triesLeft /\ i \in 1..(Len(free) - 1)
                    BY <3>1, <3>2, <3>3, <4>2, <5>1
                <5> QED
                    BY <2>1, <3>1, <3>2, <5>2
            <4> QED
                BY <4>1, <4>2
        <3>4. triesLeft' <= Len(free')
            BY <2>1, <3>1, <3>2 DEF PoolTypeOK
        <3> QED
            BY <2>1, <2>3, <3>1, <3>3, <3>4
    <2>5. CASE ~Busy(Head(free))
        <3>1. /\ free' = Tail(free) /\ triesLeft' = triesLeft /\ tried' = tried
              /\ at' = [at EXCEPT ![o] = "rtcp"]
            BY <1>2, <2>5 DEF BindRTP, Go
        <3>2. ASSUME NEW i \in 1..Len(free'), i > triesLeft' - 1 PROVE free'[i] \in tried'
            BY <2>1, <2>2, <3>1, <3>2 DEF PoolTypeOK
        <3>3. triesLeft' > 0 /\ triesLeft' <= Len(free') + 1
            BY <2>1, <2>2, <3>1 DEF PoolTypeOK
        <3> QED
            BY <2>3, <3>1, <3>2, <3>3 DEF PoolTypeOK
    <2> QED
        BY <2>4, <2>5
<1>3. ASSUME NEW o \in Owners, BindRTCP(o) PROVE QueueInv'
    <2>1. /\ at[o] = "rtcp" /\ lock = o /\ triesLeft > 0 /\ triesLeft <= Len(free) + 1
          /\ \A i \in 1..Len(free) : i > triesLeft - 1 => free[i] \in tried
          /\ port[o] \in Pairs
        BY <1>3 DEF BindRTCP, HandInv, PoolTypeOK
    <2>2. \A x \in Owners : x # o => at[x] \notin {"try", "rtcp"}
        BY <2>1 DEF HandInv
    <2>3. CASE Busy(port[o] + 1)
        <3>1. /\ free' = Append(free, port[o]) /\ triesLeft' = triesLeft - 1
              /\ tried' = tried \cup {port[o]} /\ at' = [at EXCEPT ![o] = "try"]
            BY <1>3, <2>3 DEF BindRTCP, Go
        <3>2. /\ Len(free') = Len(free) + 1
              /\ \A i \in 1..Len(free) : free'[i] = free[i]
              /\ free'[Len(free) + 1] = port[o]
            BY <2>1, <3>1 DEF PoolTypeOK
        <3>3. ASSUME NEW i \in 1..Len(free'), i > triesLeft' PROVE free'[i] \in tried'
            <4>1. CASE i = Len(free) + 1
                BY <3>1, <3>2, <4>1
            <4>2. CASE i # Len(free) + 1
                <5>1. i \in 1..Len(free) /\ i > triesLeft - 1
                    BY <3>1, <3>2, <3>3, <4>2 DEF PoolTypeOK
                <5> QED
                    BY <2>1, <3>1, <3>2, <5>1
            <4> QED
                BY <4>1, <4>2
        <3>4. triesLeft' <= Len(free')
            BY <2>1, <3>1, <3>2 DEF PoolTypeOK
        <3> QED
            BY <2>2, <3>1, <3>3, <3>4 DEF PoolTypeOK
    <2>4. CASE ~Busy(port[o] + 1)
        BY <1>3, <2>2, <2>4 DEF BindRTCP, Go, PoolTypeOK
    <2> QED
        BY <2>3, <2>4
<1>4. ASSUME NEW o \in Owners, NoPorts(o) PROVE QueueInv'
    BY <1>4 DEF NoPorts, Go, PoolTypeOK
<1>5. ASSUME NEW o \in Owners, CloseRTP(o) \/ CloseRTCP(o) PROVE QueueInv'
    BY <1>5 DEF CloseRTP, CloseRTCP, Go, poolVars, PoolTypeOK
<1>6. ASSUME NEW o \in Owners, ReleasePair(o) PROVE QueueInv'
    <2>1. \A x \in Owners : at[x] \notin {"try", "rtcp"}
        BY <1>6 DEF ReleasePair, HandInv
    <2> QED
        BY <1>6, <2>1 DEF ReleasePair, Go, PoolTypeOK
<1>7. ASSUME NEW socket \in PortMin..PortMax, ForeignBind(socket) \/ ForeignClose(socket)
      PROVE  QueueInv'
    BY <1>7 DEF ForeignBind, ForeignClose, poolVars, ownVars
<1>8. CASE UNCHANGED poolAllVars
    BY <1>8 DEF poolAllVars, poolVars, ownVars
<1> QED
    BY <1>1, <1>2, <1>3, <1>4, <1>5, <1>6, <1>7, <1>8 DEF PoolNext, Step

(* Every step keeps each open socket in the hands of an owner. *)
LEMMA StepSocket ==
    ASSUME Inv, [PoolNext]_poolAllVars
    PROVE  SocketInv'
<1> USE DEF Inv, PoolTypeOK, SocketInv
<1>1. ASSUME NEW o \in Owners, Allocate(o) PROVE SocketInv'
    BY <1>1 DEF Allocate, Go
<1>2. ASSUME NEW o \in Owners, BindRTP(o) PROVE SocketInv'
    <2>1. CASE Busy(Head(free))
        BY <1>2, <2>1 DEF BindRTP, ownVars
    <2>2. CASE ~Busy(Head(free))
        <3>1. /\ at[o] = "try" /\ open' = open \cup {Head(free)}
              /\ port' = [port EXCEPT ![o] = Head(free)]
              /\ at' = [at EXCEPT ![o] = "rtcp"]
            BY <1>2, <2>2 DEF BindRTP, Go
        <3>2. at'[o] = "rtcp" /\ port'[o] = Head(free)
            BY <3>1
        <3>3. \A x \in Owners : x # o => at'[x] = at[x] /\ port'[x] = port[x]
            BY <3>1
        <3> QED
            BY <3>1, <3>2, <3>3
    <2> QED
        BY <2>1, <2>2
<1>3. ASSUME NEW o \in Owners, BindRTCP(o) PROVE SocketInv'
    <2>1. at[o] = "rtcp"
        BY <1>3 DEF BindRTCP
    <2>2. CASE Busy(port[o] + 1)
        <3>1. /\ open' = open \ {port[o]}
              /\ \A x \in Owners : x # o => at'[x] = at[x] /\ port'[x] = port[x]
            BY <1>3, <2>2 DEF BindRTCP, Go
        <3> QED
            BY <2>1, <3>1
    <2>3. CASE ~Busy(port[o] + 1)
        <3>1. /\ open' = open \cup {port[o] + 1} /\ port' = port
              /\ at'[o] = "held"
              /\ \A x \in Owners : x # o => at'[x] = at[x]
            BY <1>3, <2>3 DEF BindRTCP, Go
        <3> QED
            BY <2>1, <3>1
    <2> QED
        BY <2>2, <2>3
<1>4. ASSUME NEW o \in Owners, NoPorts(o) PROVE SocketInv'
    BY <1>4 DEF NoPorts, Go
<1>5. ASSUME NEW o \in Owners, CloseRTP(o) \/ CloseRTCP(o) PROVE SocketInv'
    <2>1. /\ port' = port
          /\ \A x \in Owners : x # o => at'[x] = at[x]
        BY <1>5 DEF CloseRTP, CloseRTCP, Go
    <2>2. CASE CloseRTP(o)
        <3>1. at[o] = "held" /\ at'[o] = "closing" /\ open' = open \ {port[o]}
            BY <2>2 DEF CloseRTP, Go
        <3> QED
            BY <2>1, <3>1
    <2>3. CASE CloseRTCP(o)
        <3>1. at[o] = "closing" /\ open' = open \ {port[o] + 1}
            BY <2>3 DEF CloseRTCP
        <3> QED
            BY <2>1, <3>1
    <2> QED
        BY <1>5, <2>2, <2>3
<1>6. ASSUME NEW o \in Owners, ReleasePair(o) PROVE SocketInv'
    BY <1>6 DEF ReleasePair, Go
<1>7. ASSUME NEW socket \in PortMin..PortMax, ForeignBind(socket) \/ ForeignClose(socket)
      PROVE  SocketInv'
    BY <1>7 DEF ForeignBind, ForeignClose, ownVars
<1>8. CASE UNCHANGED poolAllVars
    BY <1>8 DEF poolAllVars, ownVars
<1> QED
    BY <1>1, <1>2, <1>3, <1>4, <1>5, <1>6, <1>7, <1>8 DEF PoolNext, Step

(* Every step keeps each pair in one place. *)
LEMMA StepPairs ==
    ASSUME Inv, [PoolNext]_poolAllVars
    PROVE  EachPairOnce'
<1>0. /\ \A i, j \in 1..Len(free) : free[i] = free[j] => i = j
      /\ \A o \in Owners : port[o] \notin Members(free)
      /\ \A o1, o2 \in Owners : port[o1] = port[o2] => port[o1] = None \/ o1 = o2
      /\ Members(free) \cup {port[o] : o \in Owners} \cup {None} = Pairs \cup {None}
      /\ free \in Seq(Pairs) /\ port \in [Owners -> Pairs \cup {None}]
      /\ None \notin Pairs
    BY PairsInRange DEF Inv, EachPairOnce, PoolTypeOK
<1>1. CASE free' = free /\ port' = port
    BY <1>0, <1>1 DEF EachPairOnce
<1>2. ASSUME NEW o \in Owners, BindRTP(o) PROVE EachPairOnce'
    <2> DEFINE p == Head(free)
    <2>1. /\ Len(free) > 0 /\ p = free[1] /\ p \in Pairs
          /\ Tail(free) \in Seq(Pairs) /\ Len(Tail(free)) = Len(free) - 1
          /\ \A i \in 1..Len(Tail(free)) : Tail(free)[i] = free[i + 1]
          /\ Members(free) = Members(Tail(free)) \cup {p}
        BY <1>0, <1>2, HeadInPool, MembersTail DEF BindRTP
    <2>2. /\ \A i, j \in 1..Len(Tail(free)) : Tail(free)[i] = Tail(free)[j] => i = j
          /\ \A i \in 1..Len(Tail(free)) : Tail(free)[i] # p
        BY <1>0, <2>1
    <2>3. p \notin Members(Tail(free))
        BY <2>2 DEF Members
    <2>4. CASE Busy(p)
        <3>1. free' = Append(Tail(free), p) /\ port' = port
            BY <1>2, <2>4 DEF BindRTP, ownVars
        <3>2. /\ Members(free') = Members(free)
              /\ \A i, j \in 1..Len(free') : free'[i] = free'[j] => i = j
            BY <1>0, <2>1, <3>1, Rotate
        <3> QED
            BY <1>0, <3>1, <3>2 DEF EachPairOnce
    <2>5. CASE ~Busy(p)
        <3>1. free' = Tail(free) /\ port' = [port EXCEPT ![o] = p] /\ port[o] = None
            BY <1>2, <2>5 DEF BindRTP, Inv, HandInv
        <3>2. /\ port'[o] = p
              /\ \A x \in Owners : x # o => port'[x] = port[x]
            BY <1>0, <3>1
        <3>3. p \notin {port[x] : x \in Owners}
            BY <1>0, <2>1
        <3>4. {port'[x] : x \in Owners} \cup {None}
                  = {port[x] : x \in Owners} \cup {p} \cup {None}
            BY <3>1, <3>2
        <3>5. \A x \in Owners : port'[x] \notin Members(free')
            BY <1>0, <2>1, <2>3, <3>1, <3>2
        <3>6. \A o1, o2 \in Owners : port'[o1] = port'[o2] => port'[o1] = None \/ o1 = o2
            BY <1>0, <3>2, <3>3
        <3>7. Members(free') \cup {port'[x] : x \in Owners} \cup {None} = Pairs \cup {None}
            BY <1>0, <2>1, <3>1, <3>4
        <3> QED
            BY <2>2, <3>1, <3>5, <3>6, <3>7 DEF EachPairOnce
    <2> QED
        BY <2>4, <2>5
<1>3. ASSUME NEW o \in Owners, port[o] \in Pairs,
             free' = Append(free, port[o]), port' = [port EXCEPT ![o] = None]
      PROVE  EachPairOnce'
    <2>1. /\ port'[o] = None
          /\ \A x \in Owners : x # o => port'[x] = port[x]
        BY <1>0, <1>3
    <2>2. Members(free') = Members(free) \cup {port[o]}
        BY <1>0, <1>3, MembersAppend
    <2>3. \A i \in 1..Len(free) : free[i] # port[o]
        BY <1>0 DEF Members
    <2>4. \A i, j \in 1..Len(free') : free'[i] = free'[j] => i = j
        BY <1>0, <1>3, <2>3, AppendDistinct
    <2>5. \A x \in Owners : port'[x] \notin Members(free')
        <3>1. None \notin Members(free')
            BY <1>0, <1>3, <2>2 DEF Members
        <3> QED
            BY <1>0, <1>3, <2>1, <2>2, <3>1
    <2>6. \A o1, o2 \in Owners : port'[o1] = port'[o2] => port'[o1] = None \/ o1 = o2
        BY <1>0, <2>1
    <2>7. {port'[x] : x \in Owners} \cup {port[o]} \cup {None}
              = {port[x] : x \in Owners} \cup {None}
        BY <2>1
    <2>8. Members(free') \cup {port'[x] : x \in Owners} \cup {None} = Pairs \cup {None}
        BY <1>0, <2>2, <2>7
    <2> QED
        BY <2>4, <2>5, <2>6, <2>8 DEF EachPairOnce
<1>4. ASSUME NEW o \in Owners, BindRTCP(o) PROVE EachPairOnce'
    <2>1. port[o] \in Pairs
        BY <1>0, <1>4 DEF BindRTCP, Inv, HandInv
    <2> QED
        BY <1>1, <1>3, <1>4, <2>1 DEF BindRTCP
<1>5. ASSUME NEW o \in Owners, ReleasePair(o) PROVE EachPairOnce'
    <2>1. port[o] \in Pairs
        BY <1>0, <1>5 DEF ReleasePair, Inv, HandInv
    <2> QED
        BY <1>3, <1>5, <2>1 DEF ReleasePair
<1>6. ASSUME NEW o \in Owners, Allocate(o) \/ NoPorts(o) \/ CloseRTP(o) \/ CloseRTCP(o)
      PROVE  EachPairOnce'
    BY <1>1, <1>6 DEF Allocate, NoPorts, CloseRTP, CloseRTCP, poolVars
<1>7. ASSUME NEW socket \in PortMin..PortMax, ForeignBind(socket) \/ ForeignClose(socket)
      PROVE  EachPairOnce'
    BY <1>1, <1>7 DEF ForeignBind, ForeignClose, poolVars, ownVars
<1>8. CASE UNCHANGED poolAllVars
    BY <1>1, <1>8 DEF poolAllVars, poolVars, ownVars
<1> QED
    BY <1>2, <1>4, <1>5, <1>6, <1>7, <1>8 DEF PoolNext, Step

-----------------------------------------------------------------------------
(* The inductive invariant holds in every reachable state of the pool. *)
THEOREM PoolInvariance == PoolSpec => []Inv
<1>1. Inv /\ [PoolNext]_poolAllVars => Inv'
    BY StepTypeOK, StepHand, StepQueue, StepSocket, StepPairs DEF Inv
<1> QED
    BY PoolInitInv, <1>1, PTL DEF PoolSpec

(* Type correctness: in particular no socket outside SIPBX_RTP_PORT_MIN    *)
(* and _MAX is ever opened by allocate.                                    *)
THEOREM PoolTypeCorrect == PoolSpec => []PoolTypeOK
<1>1. Inv => PoolTypeOK
    BY DEF Inv
<1> QED
    BY PoolInvariance, <1>1, PTL

(* allocate and release lose no pair and share none, whatever binds fail. *)
THEOREM PairsNeverLost == PoolSpec => []EachPairOnce
<1>1. Inv => EachPairOnce
    BY DEF Inv
<1> QED
    BY PoolInvariance, <1>1, PTL

(* A pair in the free list has no socket of the PBX left open: Close       *)
(* releases it only after both its sockets are closed.                     *)
THEOREM FreePairsClosed == PoolSpec => []FreeMeansClosed
<1>1. Inv => FreeMeansClosed
    BY DEF Inv, SocketInv, FreeMeansClosed, HandInv
<1> QED
    BY PoolInvariance, <1>1, PTL

(* allocate returns ErrNoPorts only after trying every free pair. *)
THEOREM RefusalsHonest == PoolSpec => RefusedAfterAll
<1>1. ASSUME Inv, [PoolNext]_poolAllVars
      PROVE  [\A o \in Owners : at[o] = "try" /\ at'[o] = "idle" =>
                  Members(free) \subseteq tried]_poolAllVars
    <2> SUFFICES ASSUME PoolNext, NEW o \in Owners, at[o] = "try", at'[o] = "idle"
                 PROVE  Members(free) \subseteq tried
        BY <1>1
    <2>1. NoPorts(o)
        BY <1>1 DEF PoolNext, Step, Allocate, BindRTP, BindRTCP, NoPorts, CloseRTP,
                    CloseRTCP, ReleasePair, ForeignBind, ForeignClose, Go, ownVars,
                    Inv, PoolTypeOK
    <2>2. \A i \in 1..Len(free) : free[i] \in tried
        BY <1>1, <2>1 DEF NoPorts, Inv, QueueInv, PoolTypeOK
    <2> QED
        BY <2>2 DEF Members
<1> QED
    BY PoolInvariance, <1>1, PTL DEF PoolSpec, RefusedAfterAll

-----------------------------------------------------------------------------
(***************************************************************************)
(* The refinement.  A pair is taken by the step that binds its RTCP port   *)
(* and given back by release; every other step leaves the mapped state     *)
(* alone, the failed tries that turn the queue included.                   *)
(***************************************************************************)
(* The new pool maps to the full set of pairs. *)
LEMMA MappedInit == PoolInit => Promise!Init
<1> SUFFICES ASSUME PoolInit PROVE Promise!Init
    OBVIOUS
<1>1. Available = Pairs
    BY DEF PoolInit, Available, Pairs
<1>2. Held = [o \in Owners |-> None]
    BY DEF PoolInit, Held
<1> QED
    BY <1>1, <1>2 DEF Promise!Init

(* Every step of the pool is a Take, a Give or no step of PortSet. *)
LEMMA MappedStep ==
    ASSUME Inv, [PoolNext]_poolAllVars
    PROVE  [Promise!Next]_(Promise!vars)
<1>0. /\ at \in [Owners -> {"idle", "try", "rtcp", "held", "closing", "closed"}]
      /\ port \in [Owners -> Pairs \cup {None}]
      /\ None \notin Pairs /\ free \in Seq(Pairs)
    BY PairsInRange DEF Inv, PoolTypeOK
<1> DEFINE binding == {x \in Owners : at[x] = "rtcp"}
<1>1. \A o \in Owners : lock = o => \A x \in Owners : at[x] = "rtcp" => x = o
    BY DEF Inv, HandInv
<1>2. ASSUME NEW o \in Owners, BindRTP(o) PROVE UNCHANGED <<Available, Held>>
    <2>1. at[o] = "try" /\ lock = o
        BY <1>2 DEF BindRTP, Inv, HandInv
    <2>2. /\ Len(free) > 0 /\ Head(free) \in Pairs /\ Tail(free) \in Seq(Pairs)
          /\ Members(free) = Members(Tail(free)) \cup {Head(free)}
        BY <1>0, <1>2, HeadInPool, MembersTail DEF BindRTP
    <2>3. Available = Members(free)
        BY <1>1, <2>1 DEF Available
    <2>4. CASE Busy(Head(free))
        <3>1. free' = Append(Tail(free), Head(free)) /\ at' = at /\ port' = port
            BY <1>2, <2>4 DEF BindRTP, ownVars
        <3>2. Members(free') = Members(free)
            BY <1>0, <2>2, <3>1, Rotate
        <3> QED
            BY <3>1, <3>2 DEF Available, Held
    <2>5. CASE ~Busy(Head(free))
        <3>1. /\ free' = Tail(free) /\ at' = [at EXCEPT ![o] = "rtcp"]
              /\ port' = [port EXCEPT ![o] = Head(free)]
            BY <1>2, <2>5 DEF BindRTP, Go
        <3>2. {x \in Owners : at'[x] = "rtcp"} = {o} /\ port'[o] = Head(free)
            BY <1>0, <1>1, <2>1, <3>1
        <3>3. Available' = Members(free)
            BY <2>2, <3>1, <3>2 DEF Available
        <3>4. Held' = Held
            BY <1>0, <2>1, <3>1 DEF Held
        <3> QED
            BY <2>3, <3>3, <3>4
    <2> QED
        BY <2>4, <2>5
<1>3. ASSUME NEW o \in Owners, BindRTCP(o)
      PROVE  UNCHANGED <<Available, Held>> \/ Promise!Take(o)
    <2>1. at[o] = "rtcp" /\ lock = o /\ port[o] \in Pairs /\ port[o] \notin Members(free)
        BY <1>0, <1>3 DEF BindRTCP, Inv, HandInv, EachPairOnce
    <2>2. binding = {o}
        BY <1>1, <2>1
    <2>3. Available = Members(free) \cup {port[o]}
        BY <2>2 DEF Available
    <2>4. CASE Busy(port[o] + 1)
        <3>1. /\ free' = Append(free, port[o]) /\ at' = [at EXCEPT ![o] = "try"]
              /\ port' = [port EXCEPT ![o] = None]
            BY <1>3, <2>4 DEF BindRTCP, Go
        <3>2. {x \in Owners : at'[x] = "rtcp"} = {}
            BY <1>0, <2>2, <3>1
        <3>3. Members(free') = Members(free) \cup {port[o]}
            BY <1>0, <2>1, <3>1, MembersAppend
        <3>4. Available' = Available
            BY <2>3, <3>2, <3>3 DEF Available
        <3>5. Held' = Held
            BY <1>0, <2>1, <3>1 DEF Held
        <3> QED
            BY <3>4, <3>5
    <2>5. CASE ~Busy(port[o] + 1)
        <3>1. free' = free /\ port' = port /\ at' = [at EXCEPT ![o] = "held"]
            BY <1>3, <2>5 DEF BindRTCP, Go
        <3>2. {x \in Owners : at'[x] = "rtcp"} = {}
            BY <1>0, <2>2, <3>1
        <3>3. Available' = Available \ {port[o]}
            BY <2>1, <2>3, <3>1, <3>2 DEF Available
        <3>4. Held[o] = None /\ Held' = [Held EXCEPT ![o] = port[o]]
            BY <1>0, <2>1, <3>1 DEF Held
        <3> QED
            BY <2>3, <3>3, <3>4 DEF Promise!Take
    <2> QED
        BY <2>4, <2>5
<1>4. ASSUME NEW o \in Owners, ReleasePair(o) PROVE Promise!Give(o)
    <2>1. /\ at[o] = "closed" /\ lock = None /\ port[o] \in Pairs
          /\ free' = Append(free, port[o]) /\ port' = [port EXCEPT ![o] = None]
          /\ at' = [at EXCEPT ![o] = "idle"]
        BY <1>0, <1>4 DEF ReleasePair, Go, Inv, HandInv
    <2>2. binding = {} /\ {x \in Owners : at'[x] = "rtcp"} = {}
        BY <1>0, <2>1 DEF Inv, HandInv
    <2>3. Members(free') = Members(free) \cup {port[o]}
        BY <1>0, <2>1, MembersAppend
    <2>4. Available' = Available \cup {port[o]}
        BY <2>2, <2>3 DEF Available
    <2>5. Held[o] = port[o] /\ Held' = [Held EXCEPT ![o] = None]
        BY <1>0, <2>1 DEF Held
    <2> QED
        BY <1>0, <2>1, <2>4, <2>5 DEF Promise!Give
<1>5. ASSUME NEW o \in Owners, Allocate(o) \/ NoPorts(o) \/ CloseRTP(o) \/ CloseRTCP(o)
      PROVE  UNCHANGED <<Available, Held>>
    <2>1. free' = free /\ port' = port
        BY <1>5 DEF Allocate, NoPorts, CloseRTP, CloseRTCP, poolVars
    <2>2. \A x \in Owners :
              /\ at[x] = "rtcp" <=> at'[x] = "rtcp"
              /\ at[x] \in {"held", "closing", "closed"}
                     <=> at'[x] \in {"held", "closing", "closed"}
        BY <1>0, <1>5 DEF Allocate, NoPorts, CloseRTP, CloseRTCP, Go
    <2> QED
        BY <2>1, <2>2 DEF Available, Held
<1>6. ASSUME UNCHANGED <<free, at, port>> PROVE UNCHANGED <<Available, Held>>
    BY <1>6 DEF Available, Held
<1>7. ASSUME NEW socket \in PortMin..PortMax, ForeignBind(socket) \/ ForeignClose(socket)
      PROVE  UNCHANGED <<Available, Held>>
    BY <1>6, <1>7 DEF ForeignBind, ForeignClose, poolVars, ownVars
<1>8. CASE UNCHANGED poolAllVars
    BY <1>6, <1>8 DEF poolAllVars, poolVars, ownVars, Promise!vars
<1>9. CASE PoolNext
    BY <1>2, <1>3, <1>4, <1>5, <1>7, <1>9 DEF PoolNext, Step, Promise!Next, Promise!vars
<1> QED
    BY <1>8, <1>9

(* The pool implements PortSet, the plain set of pairs that the models of  *)
(* the call engine and of the conferences take from and give back to.      *)
THEOREM PoolImplementsPortSet == PoolSpec => ImplementsPortSet
<1>1. PoolInit => Promise!Init
    BY MappedInit
<1>2. Inv /\ [PoolNext]_poolAllVars => [Promise!Next]_(Promise!vars)
    BY MappedStep
<1> QED
    BY PoolInvariance, <1>1, <1>2, PTL DEF PoolSpec, ImplementsPortSet, Promise!Spec

-----------------------------------------------------------------------------
(***************************************************************************)
(* PinEntry, for every PIN, any keys pressed and any packets lost,         *)
(* repeated or overtaken: who is admitted has keyed the PIN, and a press   *)
(* counts again only if another's packet came in between its own.          *)
(***************************************************************************)

(* The press of what is on its way or was counted has been made. *)
KeypadInv ==
    /\ pressed \in Seq(Keys) /\ Len(pressed) <= MaxPresses
    /\ net \in Seq(1..Len(pressed)) /\ counted \in Seq(1..Len(pressed))
    /\ lastDTMF \in 0..Len(pressed)
    /\ entered \in Seq(Keys \ {"#"}) /\ Len(entered) < Len(Pin)
    /\ tries \in Nat /\ admitted \in BOOLEAN
    /\ timer \in BOOLEAN /\ late \in BOOLEAN /\ tick \in BOOLEAN
    /\ kicked \in {"no"} \cup Reasons

(* What was entered so far are the last keys that digit saw. *)
EnteredInv ==
    ~admitted /\ kicked = "no" =>
        /\ Len(entered) <= Len(counted)
        /\ \A k \in 1..Len(entered) :
               entered[k] = pressed[counted[Len(counted) - Len(entered) + k]]

(* The PIN is among the keys that digit saw. *)
PinSeen ==
    \E i \in 1..(Len(counted) + 1 - Len(Pin)) :
        \A k \in 1..Len(Pin) : pressed[counted[i + k - 1]] = Pin[k]

PinInv == KeypadInv /\ EnteredInv /\ (admitted => PinSeen)

(* A packet of the press is among these. *)
Seen(seq, press) == \E a \in 1..Len(seq) : seq[a] = press

(* lastDTMF is the last packet that came in; a press that was counted and  *)
(* has packets on their way was counted for one that came in before.       *)
ArrivedInv ==
    /\ arrived \in Seq(1..Len(pressed))
    /\ arrived = <<>> => lastDTMF = 0
    /\ arrived # <<>> => lastDTMF = arrived[Len(arrived)]
    /\ \A i \in 1..Len(counted), j \in 1..Len(net) :
           counted[i] = net[j] => Seen(arrived, net[j])
    /\ EachPressOnce

LEMMA Removed ==
    ASSUME NEW S, NEW s \in Seq(S), NEW i \in 1..Len(s)
    PROVE  /\ RemoveAt(s, i) \in Seq(S)
           /\ \A j \in 1..Len(RemoveAt(s, i)) : \E k \in 1..Len(s) : RemoveAt(s, i)[j] = s[k]
<1> DEFINE a == SubSeq(s, 1, i - 1)
           b == SubSeq(s, i + 1, Len(s))
<1>1. Len(s) \in Nat /\ i \in Int /\ \A j \in 1..Len(s) : s[j] \in S
  OBVIOUS
<1>2. /\ a \in Seq(S)
      /\ Len(a) = i - 1
      /\ \A j \in 1..(i - 1) : a[j] = s[j]
  <2>1. \A j \in 1 .. i - 1 : s[j] \in S
    BY <1>1
  <2>2. /\ a \in Seq(S)
        /\ Len(a) = IF 1 <= i - 1 THEN (i - 1) - 1 + 1 ELSE 0
        /\ \A j \in 1..((i - 1) - 1 + 1) : a[j] = s[1 + j - 1]
    <3> HIDE DEF a
    <3> QED
      BY <1>1, <2>1, SubSeqProperties DEF a
  <2> HIDE DEF a
  <2> QED
    BY <1>1, <2>2
<1>3. /\ b \in Seq(S)
      /\ Len(b) = Len(s) - i
      /\ \A j \in 1..(Len(s) - i) : b[j] = s[j + i]
  <2>1. \A j \in i + 1 .. Len(s) : s[j] \in S
    BY <1>1
  <2>2. /\ b \in Seq(S)
        /\ Len(b) = IF i + 1 <= Len(s) THEN Len(s) - (i + 1) + 1 ELSE 0
        /\ \A j \in 1..(Len(s) - (i + 1) + 1) : b[j] = s[(i + 1) + j - 1]
    <3> HIDE DEF b
    <3> QED
      BY <1>1, <2>1, SubSeqProperties DEF b
  <2> HIDE DEF b
  <2> QED
    BY <1>1, <2>2
<1>4. RemoveAt(s, i) = a \o b
  BY DEF RemoveAt
<1> HIDE DEF a, b
<1>5. /\ a \o b \in Seq(S) /\ Len(a \o b) = Len(s) - 1
      /\ \A j \in 1 .. Len(s) - 1 : (a \o b)[j] = IF j <= i - 1 THEN a[j] ELSE b[j - (i - 1)]
  <2>1. /\ a \o b \in Seq(S) /\ Len(a \o b) = Len(a) + Len(b)
        /\ \A j \in 1 .. Len(a) + Len(b) :
               (a \o b)[j] = IF j <= Len(a) THEN a[j] ELSE b[j - Len(a)]
    BY <1>2, <1>3, ConcatProperties
  <2>2. Len(a) = i - 1 /\ Len(a) + Len(b) = Len(s) - 1
    BY <1>1, <1>2, <1>3
  <2> QED
    BY <2>1, <2>2
<1>6. ASSUME NEW j \in 1..Len(a \o b) PROVE \E k \in 1..Len(s) : (a \o b)[j] = s[k]
  <2>1. CASE j <= i - 1
    BY <1>1, <1>2, <1>5, <2>1
  <2>2. CASE ~(j <= i - 1)
    <3>1. j - (i - 1) \in 1..(Len(s) - i) /\ (j - (i - 1)) + i \in 1..Len(s)
      BY <1>1, <1>5, <2>2
    <3>2. (a \o b)[j] = s[(j - (i - 1)) + i]
      BY <1>1, <1>3, <1>5, <2>2, <3>1
    <3> QED
      BY <3>1, <3>2
  <2> QED
    BY <2>1, <2>2
<1> QED
  BY <1>4, <1>5, <1>6

(* Whatever is judged, the next entry starts empty. *)
LEMMA Judged ==
    ASSUME KeypadInv, NEW entry, Judge(entry), Len(counted') \in Nat
    PROVE  /\ entered' \in Seq(Keys \ {"#"}) /\ Len(entered') < Len(Pin)
           /\ tries' \in Nat /\ admitted' \in BOOLEAN /\ timer' \in BOOLEAN
           /\ EnteredInv'
           /\ admitted' => entry = Pin \/ admitted
<1>1. entered' = <<>> /\ Len(entered') = 0 /\ entered' \in Seq(Keys \ {"#"})
  BY DEF Judge
<1>2. Len(entered') < Len(Pin)
  BY <1>1, PinAssumption, EmptySeq
<1>3. tries' \in Nat
  BY DEF Judge, KeypadInv
<1>4. admitted' \in BOOLEAN /\ (admitted' => entry = Pin \/ admitted)
  BY Zenon DEF Judge, KeypadInv
<1>5. timer' \in BOOLEAN
  <2> DEFINE over == tries + 1 >= MaxTries
  <2>1. timer' = timer \/ timer' = (timer \/ over)
    BY Zenon DEF Judge
  <2>2. timer \in BOOLEAN
    BY DEF KeypadInv
  <2>3. over \in BOOLEAN
    BY PinAssumption DEF KeypadInv
  <2> HIDE DEF over
  <2> QED
    BY Zenon, <2>1, <2>2, <2>3
<1>6. EnteredInv'
  BY <1>1 DEF EnteredInv
<1> QED
  BY <1>1, <1>2, <1>3, <1>4, <1>5, <1>6

(* Participant.digit, whatever it decides. *)
LEMMA DigitStep ==
    ASSUME KeypadInv, EnteredInv, admitted => PinSeen, pressed' \in Seq(Keys), 
           NEW key \in Keys, NEW press \in 1..Len(pressed'), pressed'[press] = key,
           Len(pressed) <= Len(pressed'), 
           \A i \in 1..Len(pressed) : pressed'[i] = pressed[i],
           Digit(press, key), kicked' = kicked
    PROVE  /\ counted' = Append(counted, press)
           /\ counted' \in Seq(1..Len(pressed'))
           /\ entered' \in Seq(Keys \ {"#"}) /\ Len(entered') < Len(Pin)
           /\ tries' \in Nat /\ admitted' \in BOOLEAN /\ timer' \in BOOLEAN
           /\ EnteredInv' /\ (admitted' => PinSeen')
<1> USE PinAssumption
<1>1. /\ counted' = Append(counted, press)
      /\ counted' \in Seq(1..Len(pressed'))
      /\ Len(counted') = Len(counted) + 1
      /\ counted'[Len(counted) + 1] = press
      /\ \A i \in 1..Len(counted) : /\ counted'[i] = counted[i]
                                    /\ counted[i] \in 1..Len(pressed)
                                    /\ pressed'[counted'[i]] = pressed[counted[i]]
      /\ Len(counted) \in Nat /\ Len(pressed) \in Nat /\ Len(pressed') \in Nat
      /\ Len(Pin) \in Nat \ {0}
  <2>1. counted' = Append(counted, press)
    BY DEF Digit
  <2>2. Len(pressed) \in Nat /\ Len(pressed') \in Nat
          /\ 1..Len(pressed) \subseteq 1..Len(pressed')
    BY DEF KeypadInv
  <2>3. counted \in Seq(1..Len(pressed'))
    BY <2>2, SeqMonotonic DEF KeypadInv
  <2>4. \A i \in 1..Len(counted) : counted[i] \in 1..Len(pressed)
    BY DEF KeypadInv
  <2>5. Len(Pin) \in Nat \ {0}
    BY EmptySeq
  <2> QED
    BY <2>1, <2>2, <2>3, <2>4, <2>5, AppendProperties
<1>2. ASSUME PinSeen PROVE PinSeen'
  <2>1. PICK i \in 1..(Len(counted) + 1 - Len(Pin)) :
            \A k \in 1..Len(Pin) : pressed[counted[i + k - 1]] = Pin[k]
    BY <1>2 DEF PinSeen
  <2>2. ASSUME NEW k \in 1..Len(Pin) PROVE pressed'[counted'[i + k - 1]] = Pin[k]
    <3>1. i + k - 1 \in 1..Len(counted)
      BY <1>1
    <3>2. pressed'[counted'[i + k - 1]] = pressed[counted[i + k - 1]]
      BY <3>1, <1>1
    <3> QED
      BY <2>1, <3>2
  <2>3. i \in 1..(Len(counted') + 1 - Len(Pin))
    BY <1>1
  <2> QED
    BY <2>2, <2>3 DEF PinSeen
<1>3. CASE admitted \/ kicked # "no"
  BY <1>1, <1>2, <1>3 DEF Digit, KeypadInv, EnteredInv
<1>4. CASE ~admitted /\ kicked = "no"
  <2> DEFINE entry == IF key = "#" THEN entered ELSE Append(entered, key)
  <2>1. IF key # "#" /\ Len(entry) < Len(Pin)
        THEN entered' = entry /\ UNCHANGED <<tries, admitted, timer>>
        ELSE Judge(entry)
    BY <1>4 DEF Digit
  <2>2. CASE key # "#"
    <3>1. entry \in Seq(Keys \ {"#"}) /\ Len(entry) = Len(entered) + 1 /\ Len(entered) \in Nat
      BY <2>2 DEF KeypadInv
    <3>2. Len(entry) <= Len(counted')
      BY <3>1, <1>1, <1>4 DEF EnteredInv
    <3>3. ASSUME NEW k \in 1..Len(entry)
          PROVE  entry[k] = pressed'[counted'[Len(counted') - Len(entry) + k]]
      <4>1. CASE k = Len(entry)
        BY <2>2, <3>1, <4>1, <1>1 DEF KeypadInv
      <4>2. CASE k # Len(entry)
        <5>1. k \in 1..Len(entered) /\ entry[k] = entered[k]
          BY <2>2, <3>1, <4>2 DEF KeypadInv
        <5>2. /\ Len(counted') - Len(entry) + k = Len(counted) - Len(entered) + k
              /\ Len(counted) - Len(entered) + k \in 1..Len(counted)
          <6> HIDE DEF entry
          <6> QED
            BY <3>1, <3>2, <5>1, <1>1
        <5>3. entered[k] = pressed[counted[Len(counted) - Len(entered) + k]]
          BY <5>1, <1>4 DEF EnteredInv
        <5> QED
          BY <5>1, <5>2, <5>3, <1>1
      <4> QED
        BY <4>1, <4>2
    <3>4. CASE Len(entry) < Len(Pin)
      <4>1. entered' = entry /\ UNCHANGED <<tries, admitted, timer>>
        BY <2>1, <2>2, <3>4
      <4> HIDE DEF entry
      <4> QED
        BY <1>1, <1>4, <3>1, <3>2, <3>3, <3>4, <4>1 DEF EnteredInv, KeypadInv
    <3>5. CASE ~(Len(entry) < Len(Pin))
      <4>1. Judge(entry)
        BY <2>1, <3>5
      <4> HIDE DEF entry
      <4>2. entry = Pin => PinSeen'
        <5> SUFFICES ASSUME entry = Pin PROVE PinSeen'
          OBVIOUS
        <5>1. Len(counted') + 1 - Len(Pin) \in 1..(Len(counted') + 1 - Len(Pin))
          BY <1>1, <3>1, <3>2
        <5>2. ASSUME NEW k \in 1..Len(Pin)
              PROVE  pressed'[counted'[Len(counted') + 1 - Len(Pin) + k - 1]] = Pin[k]
          <6>1. Len(counted') + 1 - Len(Pin) + k - 1 = Len(counted') - Len(entry) + k
            BY <1>1
          <6> QED
            BY <3>3, <6>1
        <5> QED
          BY <5>1, <5>2 DEF PinSeen
      <4> QED
        BY <1>1, <1>4, <4>1, <4>2, Judged
    <3> QED
      BY <3>4, <3>5
  <2>3. CASE key = "#"
    <3>1. entry = entered /\ entry # Pin /\ Judge(entry)
      BY <2>1, <2>3 DEF KeypadInv
    <3> HIDE DEF entry
    <3> QED
      BY <1>1, <1>4, <3>1, Judged
  <2> QED
    BY <2>2, <2>3
<1> QED
  BY <1>1, <1>3, <1>4

(* What a press adds to the presses. *)
LEMMA PressFacts ==
    ASSUME KeypadInv, NEW key \in Keys, Len(pressed) < MaxPresses,
           pressed' = Append(pressed, key)
    PROVE  /\ Len(pressed) \in Nat /\ Len(pressed') = Len(pressed) + 1
           /\ pressed' \in Seq(Keys) /\ Len(pressed') <= MaxPresses
           /\ pressed'[Len(pressed')] = key
           /\ \A i \in 1..Len(pressed) : pressed'[i] = pressed[i]
           /\ 1..Len(pressed) \subseteq 1..Len(pressed')
<1>1. pressed \in Seq(Keys) /\ Len(pressed) \in Nat
  BY DEF KeypadInv
<1>2. /\ pressed' \in Seq(Keys) /\ Len(pressed') = Len(pressed) + 1
      /\ pressed'[Len(pressed) + 1] = key
      /\ \A i \in 1..Len(pressed) : pressed'[i] = pressed[i]
  BY <1>1, AppendProperties
<1> QED
  BY <1>1, <1>2, PinAssumption

(* A key press sent n times. *)
LEMMA Packets ==
    ASSUME KeypadInv, NEW n \in Nat, NEW m \in Nat, Len(pressed) <= m
    PROVE  LET sent == [i \in 1..n |-> m] IN
           /\ m > 0 => net \o sent \in Seq(1..m)
           /\ Len(net \o sent) = Len(net) + n
           /\ \A i \in 1..Len(net) : (net \o sent)[i] = net[i]
           /\ \A i \in Len(net) + 1 .. Len(net) + n : (net \o sent)[i] = m
<1> DEFINE sent == [i \in 1..n |-> m]
<1>1. sent \in Seq({m}) /\ Len(sent) = n /\ \A i \in 1..n : sent[i] = m
  OBVIOUS
<1>2. /\ net \in Seq(Nat) /\ Len(net) \in Nat
      /\ \A i \in 1..Len(net) : net[i] \in 1..Len(pressed)
  <2>1. 1..Len(pressed) \subseteq Nat
    BY DEF KeypadInv
  <2> QED
    BY <2>1, SeqMonotonic DEF KeypadInv
<1>3. sent \in Seq(Nat)
  BY <1>1, SeqMonotonic
<1> HIDE DEF sent
<1>4. /\ net \o sent \in Seq(Nat) /\ Len(net \o sent) = Len(net) + n
      /\ \A i \in 1..Len(net) : (net \o sent)[i] = net[i]
      /\ \A i \in Len(net) + 1 .. Len(net) + n : (net \o sent)[i] = sent[i - Len(net)]
  <2>1. /\ net \o sent \in Seq(Nat) /\ Len(net \o sent) = Len(net) + Len(sent)
        /\ \A i \in 1 .. Len(net) + Len(sent) :
               (net \o sent)[i] = IF i <= Len(net) THEN net[i] ELSE sent[i - Len(net)]
    BY <1>2, <1>3, ConcatProperties
  <2> QED
    BY <1>1, <1>2, <2>1
<1>5. \A i \in Len(net) + 1 .. Len(net) + n : (net \o sent)[i] = m
  BY <1>1, <1>2, <1>4
<1>6. m > 0 => net \o sent \in Seq(1..m)
  <2> SUFFICES ASSUME m > 0 PROVE net \o sent \in Seq(1..m)
    OBVIOUS
  <2>1. Len(pressed) \in Nat
    BY DEF KeypadInv
  <2>2. net \in Seq(1..m)
    <3>1. 1..Len(pressed) \subseteq 1..m
      BY <2>1
    <3> QED
      BY <3>1, SeqMonotonic DEF KeypadInv
  <2>3. sent \in Seq(1..m)
    <3>1. {m} \subseteq 1..m
      OBVIOUS
    <3> QED
      BY <3>1, <1>1, SeqMonotonic
  <2> QED
    BY <2>2, <2>3, ConcatProperties
<1> QED
  BY <1>4, <1>5, <1>6 DEF sent

-----------------------------------------------------------------------------
LEMMA InitPin == PinInit => PinInv /\ ArrivedInv
<1> SUFFICES ASSUME PinInit PROVE PinInv /\ ArrivedInv
  OBVIOUS
<1>1. Len(Pin) \in Nat \ {0}
  BY PinAssumption, EmptySeq
<1>2. KeypadInv
  <2>1. /\ pressed = <<>> /\ net = <<>> /\ counted = <<>> /\ entered = <<>>
        /\ Len(pressed) = 0 /\ Len(entered) = 0
    BY DEF PinInit
  <2>2. <<>> \in Seq(Keys) /\ <<>> \in Seq(1..0) /\ <<>> \in Seq(Keys \ {"#"})
    OBVIOUS
  <2>3. /\ lastDTMF = 0 /\ tries = 0 /\ admitted = FALSE
        /\ timer = FALSE /\ late = FALSE /\ tick = FALSE /\ kicked = "no"
    BY DEF PinInit
  <2>4. pressed \in Seq(Keys) /\ entered \in Seq(Keys \ {"#"})
    BY <2>1, <2>2
  <2>5. net \in Seq(1..Len(pressed)) /\ counted \in Seq(1..Len(pressed))
    <3>1. 1..Len(pressed) = 1..0
      BY <2>1
    <3> QED
      BY <2>1, <2>2, <3>1
  <2>6. Len(pressed) <= MaxPresses /\ Len(entered) < Len(Pin)
    BY <1>1, <2>1, PinAssumption
  <2>7. lastDTMF \in 0..Len(pressed) /\ tries \in Nat
    BY <2>1, <2>3
  <2> QED
    BY <2>3, <2>4, <2>5, <2>6, <2>7 DEF KeypadInv
<1> QED
  BY <1>2 DEF PinInit, PinInv, EnteredInv, ArrivedInv, EachPressOnce

(* What was counted stays counted when presses are added. *)
LEMMA SeenKeeps ==
    ASSUME PinInv, counted' = counted, entered' = entered, admitted' = admitted,
           kicked' = kicked,
           \A i \in 1..Len(pressed) : pressed'[i] = pressed[i]
    PROVE  EnteredInv' /\ (admitted' => PinSeen')
<1>1. /\ Len(counted) \in Nat /\ Len(entered) \in Nat /\ Len(Pin) \in Nat
      /\ \A i \in 1..Len(counted) : /\ counted[i] \in 1..Len(pressed)
                                    /\ pressed'[counted[i]] = pressed[counted[i]]
  <2>1. counted \in Seq(1..Len(pressed)) /\ entered \in Seq(Keys \ {"#"})
    BY DEF PinInv, KeypadInv
  <2>2. Len(Pin) \in Nat
    BY PinAssumption
  <2> QED
    BY <2>1, <2>2
<1>2. EnteredInv'
  <2> SUFFICES ASSUME ~admitted, kicked = "no"
               PROVE  /\ Len(entered) <= Len(counted)
                      /\ \A k \in 1..Len(entered) :
                             entered[k] = pressed'[counted[Len(counted) - Len(entered) + k]]
    BY DEF EnteredInv
  <2>1. Len(entered) <= Len(counted)
    BY DEF PinInv, EnteredInv
  <2>2. ASSUME NEW k \in 1..Len(entered)
        PROVE  entered[k] = pressed'[counted[Len(counted) - Len(entered) + k]]
    <3>1. Len(counted) - Len(entered) + k \in 1..Len(counted)
      BY <1>1, <2>1
    <3> QED
      BY <3>1, <1>1 DEF PinInv, EnteredInv
  <2> QED
    BY <2>1, <2>2
<1>3. ASSUME PinSeen PROVE PinSeen'
  <2>1. PICK i \in 1..(Len(counted) + 1 - Len(Pin)) :
            \A k \in 1..Len(Pin) : pressed[counted[i + k - 1]] = Pin[k]
    BY <1>3 DEF PinSeen
  <2>2. ASSUME NEW k \in 1..Len(Pin) PROVE pressed'[counted'[i + k - 1]] = Pin[k]
    <3>1. i + k - 1 \in 1..Len(counted)
      BY <1>1
    <3>2. pressed'[counted'[i + k - 1]] = pressed[counted[i + k - 1]]
      BY <3>1, <1>1
    <3> QED
      BY <2>1, <3>2
  <2> QED
    BY <2>2 DEF PinSeen
<1> QED
  BY <1>2, <1>3 DEF PinInv

LEMMA StepPin == PinInv /\ [PinNext]_pinAllVars => PinInv'
<1> SUFFICES ASSUME PinInv, [PinNext]_pinAllVars PROVE PinInv'
  OBVIOUS
<1> USE DEF PinInv
<1>1. ASSUME NEW key \in Keys, PressRTP(key) PROVE PinInv'
  <2>1. PICK n \in 0..EndPackets : net' = net \o [i \in 1..n |-> Len(pressed')]
    BY <1>1 DEF PressRTP
  <2>2. /\ Len(pressed) \in Nat /\ Len(pressed') = Len(pressed) + 1
        /\ pressed' \in Seq(Keys) /\ Len(pressed') <= MaxPresses
        /\ \A i \in 1..Len(pressed) : pressed'[i] = pressed[i]
        /\ 1..Len(pressed) \subseteq 1..Len(pressed')
    BY <1>1, PressFacts DEF PressRTP
  <2>3. net' \in Seq(1..Len(pressed'))
    <3>1. n \in Nat /\ Len(pressed') \in Nat /\ Len(pressed') > 0 /\ Len(pressed) <= Len(pressed')
      BY <2>1, <2>2, PinAssumption
    <3> QED
      BY <2>1, <3>1, Packets
  <2>4. counted' = counted /\ counted \in Seq(1..Len(pressed'))
    BY <1>1, <2>2, SeqMonotonic DEF PressRTP, pinVars, KeypadInv
  <2>5. KeypadInv'
    BY <1>1, <2>2, <2>3, <2>4 DEF PressRTP, pinVars, KeypadInv
  <2> QED
    BY <1>1, <2>2, <2>5, SeenKeeps DEF PressRTP, pinVars
<1>2. ASSUME NEW key \in Keys, PressInfo(key) PROVE PinInv'
  <2>1. /\ Len(pressed) \in Nat /\ Len(pressed') = Len(pressed) + 1
        /\ pressed' \in Seq(Keys) /\ Len(pressed') <= MaxPresses
        /\ pressed'[Len(pressed')] = key
        /\ \A i \in 1..Len(pressed) : pressed'[i] = pressed[i]
        /\ 1..Len(pressed) \subseteq 1..Len(pressed')
    BY <1>2, PressFacts DEF PressInfo
  <2>2. /\ counted' \in Seq(1..Len(pressed'))
        /\ entered' \in Seq(Keys \ {"#"}) /\ Len(entered') < Len(Pin)
        /\ tries' \in Nat /\ admitted' \in BOOLEAN /\ timer' \in BOOLEAN
        /\ EnteredInv' /\ (admitted' => PinSeen')
    <3>1. Len(pressed') \in 1..Len(pressed')
      BY <2>1
    <3> QED
      BY <1>2, <2>1, <3>1, DigitStep DEF PressInfo
  <2>3. net' \in Seq(1..Len(pressed'))
    BY <1>2, <2>1, SeqMonotonic DEF PressInfo, KeypadInv
  <2> QED
    BY <1>2, <2>1, <2>2, <2>3 DEF PressInfo, KeypadInv
<1>3. ASSUME NEW i \in 1..Len(net), DtmfEvent(i) PROVE PinInv'
  <2>1. /\ net[i] \in 1..Len(pressed) /\ pressed' = pressed /\ lastDTMF' = net[i]
        /\ Len(pressed) \in Nat
        /\ UNCHANGED <<late, tick, kicked>>
    BY <1>3 DEF DtmfEvent, KeypadInv
  <2>2. net' \in Seq(1..Len(pressed))
    BY <1>3, Removed DEF DtmfEvent, KeypadInv
  <2>3. CASE IsDup(net[i])
    <3>1. UNCHANGED pinVars
      BY <1>3, <2>3 DEF DtmfEvent
    <3>2. EnteredInv' /\ (admitted' => PinSeen')
      BY <2>1, <3>1, SeenKeeps DEF pinVars
    <3> QED
      BY <2>1, <2>2, <3>1, <3>2 DEF pinVars, KeypadInv
  <2>4. CASE ~IsDup(net[i])
    <3>1. Digit(net[i], pressed[net[i]])
      BY <1>3, <2>4 DEF DtmfEvent
    <3>2. pressed[net[i]] \in Keys
      BY <2>1 DEF KeypadInv
    <3>3. /\ counted' \in Seq(1..Len(pressed'))
          /\ entered' \in Seq(Keys \ {"#"}) /\ Len(entered') < Len(Pin)
          /\ tries' \in Nat /\ admitted' \in BOOLEAN /\ timer' \in BOOLEAN
          /\ EnteredInv' /\ (admitted' => PinSeen')
      <4>1. /\ pressed' \in Seq(Keys) /\ net[i] \in 1..Len(pressed')
            /\ pressed'[net[i]] = pressed[net[i]] /\ Len(pressed) <= Len(pressed')
            /\ \A j \in 1..Len(pressed) : pressed'[j] = pressed[j]
        BY <2>1 DEF KeypadInv
      <4> QED
        BY <2>1, <3>1, <3>2, <4>1, DigitStep
    <3> QED
      BY <2>1, <2>2, <3>3 DEF KeypadInv
  <2> QED
    BY <2>3, <2>4
<1>4. CASE TimerKick
  BY <1>4, SeenKeeps DEF TimerKick, Kick, KeypadInv, EnteredInv, PinSeen, Reasons
<1>5. CASE PinTimeout
  BY <1>5, SeenKeeps DEF PinTimeout, pinVars, KeypadInv
<1>6. CASE TickSees
  BY <1>6, SeenKeeps DEF TickSees, pinVars, KeypadInv
<1>7. CASE TickKick
  BY <1>7 DEF TickKick, pinVars, Kick, KeypadInv, EnteredInv, PinSeen, Reasons
<1>8. CASE UNCHANGED pinAllVars
  BY <1>8, SeenKeeps DEF pinAllVars, pinVars, KeypadInv
<1> QED
  BY <1>1, <1>2, <1>3, <1>4, <1>5, <1>6, <1>7, <1>8 DEF PinNext, IdleTick

-----------------------------------------------------------------------------
(* What digit sees again was interrupted; what it sees first, never. *)
LEMMA CountedAgain ==
    ASSUME EachPressOnce, NEW press, NEW S, counted \in Seq(S), press \in S,
           \A p : Interrupted(arrived, p) => Interrupted(arrived', p),
           \A i \in 1..Len(counted) : counted[i] = press => Interrupted(arrived', press),
           counted' = Append(counted, press)
    PROVE  EachPressOnce'
<1>1. /\ Len(counted) \in Nat /\ Len(counted') = Len(counted) + 1
      /\ counted'[Len(counted) + 1] = press
      /\ \A i \in 1..Len(counted) : counted'[i] = counted[i]
  BY AppendProperties
<1>2. ASSUME NEW i \in 1..Len(counted'), NEW j \in 1..Len(counted'),
             i # j, counted'[i] = counted'[j]
      PROVE  Interrupted(arrived', counted'[i])
  <2>1. CASE i \in 1..Len(counted) /\ j \in 1..Len(counted)
    <3>1. Interrupted(arrived, counted[i])
      BY <1>1, <1>2, <2>1 DEF EachPressOnce
    <3>2. counted'[i] = counted[i]
      BY <1>1, <2>1
    <3> QED
      BY <3>1, <3>2
  <2>2. CASE ~(i \in 1..Len(counted) /\ j \in 1..Len(counted))
    <3>1. counted'[i] = press /\ \E k \in 1..Len(counted) : counted[k] = press
      BY <1>1, <1>2, <2>2
    <3> QED
      BY <3>1
  <2> QED
    BY <2>1, <2>2
<1> QED
  BY <1>2 DEF EachPressOnce

LEMMA StepArrived == PinInv /\ ArrivedInv /\ [PinNext]_pinAllVars => ArrivedInv'
<1> SUFFICES ASSUME PinInv, ArrivedInv, [PinNext]_pinAllVars PROVE ArrivedInv'
  OBVIOUS
<1>0. /\ Len(pressed) \in Nat /\ Len(net) \in Nat /\ Len(counted) \in Nat
      /\ Len(arrived) \in Nat
      /\ \A j \in 1..Len(net) : net[j] \in 1..Len(pressed)
      /\ \A i \in 1..Len(counted) : counted[i] \in 1..Len(pressed)
  <2>1. /\ pressed \in Seq(Keys) /\ net \in Seq(1..Len(pressed))
        /\ counted \in Seq(1..Len(pressed)) /\ arrived \in Seq(1..Len(pressed))
    BY DEF PinInv, KeypadInv, ArrivedInv
  <2> QED
    BY <2>1
<1>1. ASSUME NEW key \in Keys, PressRTP(key) PROVE ArrivedInv'
  <2>1. PICK n \in 0..EndPackets : net' = net \o [i \in 1..n |-> Len(pressed')]
    BY <1>1 DEF PressRTP
  <2>2. Len(pressed') = Len(pressed) + 1
    BY <1>1, PressFacts DEF PressRTP, PinInv
  <2>3. /\ Len(net') = Len(net) + n /\ n \in Nat
        /\ \A i \in 1..Len(net) : net'[i] = net[i]
        /\ \A i \in Len(net) + 1 .. Len(net) + n : net'[i] = Len(pressed) + 1
    BY <1>0, <2>1, <2>2, Packets, PinAssumption DEF PinInv
  <2>4. UNCHANGED <<arrived, lastDTMF, counted>>
    BY <1>1 DEF PressRTP, pinVars
  <2>5. arrived' \in Seq(1..Len(pressed'))
    <3>1. 1..Len(pressed) \subseteq 1..Len(pressed')
      BY <1>0, <2>2
    <3> QED
      BY <2>4, <3>1, SeqMonotonic DEF ArrivedInv
  <2>6. ASSUME NEW i \in 1..Len(counted'), NEW j \in 1..Len(net'), counted'[i] = net'[j]
        PROVE  Seen(arrived', net'[j])
    <3>1. counted'[i] = counted[i] /\ counted[i] # Len(pressed) + 1
      BY <1>0, <2>4
    <3>2. j \in 1..Len(net) /\ net'[j] = net[j]
      <4>1. j \in 1..Len(net) \/ j \in Len(net) + 1 .. Len(net) + n
        BY <1>0, <2>3
      <4>2. net'[j] # Len(pressed) + 1
        BY <2>6, <3>1
      <4> QED
        BY <2>3, <4>1, <4>2
    <3> QED
      BY <2>4, <2>6, <3>1, <3>2 DEF ArrivedInv, Seen
  <2> QED
    BY <2>4, <2>5, <2>6 DEF ArrivedInv, EachPressOnce
<1>2. ASSUME NEW key \in Keys, PressInfo(key) PROVE ArrivedInv'
  <2>1. /\ Len(pressed') = Len(pressed) + 1
        /\ counted' = Append(counted, Len(pressed) + 1)
        /\ UNCHANGED <<net, arrived, lastDTMF>>
    BY <1>2, PressFacts DEF PressInfo, PinInv, Digit
  <2>2. counted \in Seq(Nat) /\ Len(pressed) + 1 \in Nat
    <3>1. 1..Len(pressed) \subseteq Nat
      BY <1>0
    <3> QED
      BY <1>0, <3>1, SeqMonotonic DEF PinInv, KeypadInv
  <2>3. EachPressOnce'
    <3>1. \A i \in 1..Len(counted) : counted[i] # Len(pressed) + 1
      BY <1>0
    <3>2. \A p : Interrupted(arrived, p) => Interrupted(arrived', p)
      BY <2>1 DEF Interrupted
    <3> QED
      BY <2>1, <2>2, <3>1, <3>2, CountedAgain DEF ArrivedInv
  <2>4. /\ Len(counted') = Len(counted) + 1
        /\ counted'[Len(counted) + 1] = Len(pressed) + 1
        /\ \A i \in 1..Len(counted) : counted'[i] = counted[i]
    BY <2>1, <2>2, AppendProperties
  <2>5. ASSUME NEW i \in 1..Len(counted'), NEW j \in 1..Len(net'), counted'[i] = net'[j]
        PROVE  Seen(arrived', net'[j])
    <3>1. i \in 1..Len(counted) /\ net'[j] = net[j] /\ j \in 1..Len(net)
      BY <1>0, <2>1, <2>4, <2>5
    <3> QED
      BY <2>1, <2>4, <2>5, <3>1 DEF ArrivedInv, Seen
  <2>6. arrived' \in Seq(1..Len(pressed'))
    <3>1. 1..Len(pressed) \subseteq 1..Len(pressed')
      BY <1>0, <2>1
    <3> QED
      BY <2>1, <3>1, SeqMonotonic DEF ArrivedInv
  <2> QED
    BY <2>1, <2>3, <2>5, <2>6 DEF ArrivedInv
<1>3. ASSUME NEW k \in 1..Len(net), DtmfEvent(k) PROVE ArrivedInv'
  <2>1. /\ lastDTMF' = net[k] /\ net' = RemoveAt(net, k) /\ pressed' = pressed
        /\ arrived' = Append(arrived, net[k]) /\ net[k] \in 1..Len(pressed)
    BY <1>0, <1>3 DEF DtmfEvent
  <2>2. \A j \in 1..Len(net') : \E m \in 1..Len(net) : net'[j] = net[m]
    <3>1. net \in Seq(1..Len(pressed))
      BY DEF PinInv, KeypadInv
    <3>2. \A j \in 1..Len(RemoveAt(net, k)) :
              \E m \in 1..Len(net) : RemoveAt(net, k)[j] = net[m]
      BY <3>1, Removed
    <3> QED
      BY <2>1, <3>2
  <2>3. /\ arrived' \in Seq(1..Len(pressed')) /\ arrived' # <<>>
        /\ Len(arrived') = Len(arrived) + 1 /\ arrived'[Len(arrived')] = net[k]
        /\ \A a \in 1..Len(arrived) : arrived'[a] = arrived[a]
    BY <1>0, <2>1, AppendProperties DEF ArrivedInv
  <2>4. /\ \A p : Interrupted(arrived, p) => Interrupted(arrived', p)
        /\ \A p : Seen(arrived, p) => Seen(arrived', p)
    <3>1. ASSUME NEW p, Interrupted(arrived, p) PROVE Interrupted(arrived', p)
      <4>1. PICK a, b, c \in 1..Len(arrived) :
                /\ a < b /\ b < c
                /\ arrived[a] = p /\ arrived[b] # p /\ arrived[c] = p
        BY <3>1 DEF Interrupted
      <4>2. a \in 1..Len(arrived') /\ b \in 1..Len(arrived') /\ c \in 1..Len(arrived')
        BY <1>0, <2>3
      <4> QED
        BY <2>3, <4>1, <4>2 DEF Interrupted
    <3>2. ASSUME NEW p, Seen(arrived, p) PROVE Seen(arrived', p)
      BY <1>0, <2>3, <3>2 DEF Seen
    <3> QED
      BY <3>1, <3>2
  <2>5. Seen(arrived', net[k]) /\ lastDTMF' = arrived'[Len(arrived')]
    <3>1. Len(arrived') \in 1..Len(arrived')
      BY <1>0, <2>3
    <3> QED
      BY <2>1, <2>3, <3>1 DEF Seen
  <2>6. CASE IsDup(net[k])
    <3>1. UNCHANGED counted
      BY <1>3, <2>6 DEF DtmfEvent, pinVars
    <3>2. ASSUME NEW i \in 1..Len(counted'), NEW j \in 1..Len(net'), counted'[i] = net'[j]
          PROVE  Seen(arrived', net'[j])
      <4>1. PICK m \in 1..Len(net) : net'[j] = net[m]
        BY <2>2
      <4>2. Seen(arrived, net[m])
        BY <3>1, <3>2, <4>1 DEF ArrivedInv
      <4> QED
        BY <2>4, <4>1, <4>2 DEF Seen
    <3>3. EachPressOnce'
      <4> SUFFICES ASSUME NEW i \in 1..Len(counted), NEW j \in 1..Len(counted),
                          i # j, counted[i] = counted[j]
                   PROVE  Interrupted(arrived', counted'[i])
        BY <3>1 DEF EachPressOnce
      <4>1. Interrupted(arrived, counted[i])
        BY DEF ArrivedInv, EachPressOnce
      <4>2. counted'[i] = counted[i]
        BY <3>1
      <4> QED
        BY <2>4, <4>1, <4>2
    <3> QED
      BY <2>3, <2>5, <3>2, <3>3 DEF ArrivedInv
  <2>7. CASE ~IsDup(net[k])
    <3>1. counted' = Append(counted, net[k]) /\ net[k] # lastDTMF
      BY <1>3, <2>7 DEF DtmfEvent, Digit, IsDup
    <3>2. counted \in Seq(1..Len(pressed)) /\ net[k] \in 1..Len(pressed)
      BY <1>0 DEF PinInv, KeypadInv
    <3>3. ASSUME NEW i \in 1..Len(counted), counted[i] = net[k]
          PROVE  Interrupted(arrived', net[k])
      <4>1. PICK a \in 1..Len(arrived) : arrived[a] = net[k]
        BY <3>3 DEF ArrivedInv, Seen
      <4>2. /\ Len(arrived) \in 1..Len(arrived)
            /\ arrived[Len(arrived)] = lastDTMF
        <5>1. Len(arrived) \in 1..Len(arrived)
          BY <1>0, <4>1
        <5>2. arrived # <<>>
          BY <5>1
        <5> QED
          BY <5>1, <5>2 DEF ArrivedInv
      <4>3. a # Len(arrived)
        BY <3>1, <4>1, <4>2
      <4>4. /\ a \in 1..Len(arrived') /\ Len(arrived) \in 1..Len(arrived')
            /\ Len(arrived') \in 1..Len(arrived')
            /\ a < Len(arrived) /\ Len(arrived) < Len(arrived')
        BY <1>0, <2>3, <4>1, <4>3
      <4>5. /\ arrived'[a] = net[k] /\ arrived'[Len(arrived)] # net[k]
            /\ arrived'[Len(arrived')] = net[k]
        BY <2>3, <3>1, <4>1, <4>2
      <4>6. \E x, y, z \in 1..Len(arrived') :
                /\ x < y /\ y < z
                /\ arrived'[x] = net[k] /\ arrived'[y] # net[k] /\ arrived'[z] = net[k]
        BY <4>4, <4>5
      <4> QED
        BY <4>6 DEF Interrupted
    <3>4. EachPressOnce'
      BY <2>4, <3>1, <3>2, <3>3, CountedAgain DEF ArrivedInv
    <3>5. /\ Len(counted') = Len(counted) + 1
          /\ counted'[Len(counted) + 1] = net[k]
          /\ \A i \in 1..Len(counted) : counted'[i] = counted[i]
      BY <3>1, <3>2, AppendProperties
    <3>6. ASSUME NEW i \in 1..Len(counted'), NEW j \in 1..Len(net'), counted'[i] = net'[j]
          PROVE  Seen(arrived', net'[j])
      <4>1. PICK m \in 1..Len(net) : net'[j] = net[m]
        BY <2>2
      <4>2. CASE i \in 1..Len(counted)
        <5>1. Seen(arrived, net[m])
          BY <3>5, <3>6, <4>1, <4>2 DEF ArrivedInv
        <5> QED
          BY <2>4, <4>1, <5>1 DEF Seen
      <4>3. CASE i \notin 1..Len(counted)
        <5>1. net'[j] = net[k]
          BY <1>0, <3>5, <3>6, <4>3
        <5> QED
          BY <2>5, <5>1 DEF Seen
      <4> QED
        BY <4>2, <4>3
    <3> QED
      BY <2>3, <2>5, <3>4, <3>6 DEF ArrivedInv
  <2> QED
    BY <2>6, <2>7
<1>4. CASE UNCHANGED <<pressed, net, arrived, lastDTMF, counted>>
  <2>1. /\ pressed' = pressed /\ net' = net /\ arrived' = arrived
        /\ lastDTMF' = lastDTMF /\ counted' = counted
    BY <1>4
  <2> QED
    BY <2>1 DEF ArrivedInv, EachPressOnce
<1> QED
  BY <1>1, <1>2, <1>3, <1>4
  DEF PinNext, TimerKick, PinTimeout, TickSees, TickKick, IdleTick, pinAllVars, pinVars

-----------------------------------------------------------------------------
LEMMA PinInvariance == PinSpec => []PinInv
<1>1. PinInit => PinInv
  BY InitPin
<1> QED
  BY <1>1, StepPin, PTL DEF PinSpec

LEMMA ArrivedInvariance == PinSpec => [](PinInv /\ ArrivedInv)
<1>1. PinInit => PinInv /\ ArrivedInv
  BY InitPin
<1>2. (PinInv /\ ArrivedInv) /\ [PinNext]_pinAllVars => (PinInv /\ ArrivedInv)'
  BY StepPin, StepArrived
<1> QED
  BY <1>1, <1>2, PTL DEF PinSpec

(* The participant's fields keep their types; an entry under way is        *)
(* shorter than the PIN (digit).                                           *)
THEOREM PinTypeCorrect == PinSpec => []PinTypeOK
<1>1. PinInv /\ ArrivedInv => PinTypeOK
  <2> SUFFICES ASSUME KeypadInv, ArrivedInv PROVE PinTypeOK
    BY DEF PinInv
  <2>1. 1..Len(pressed) \subseteq 1..MaxPresses /\ 0..Len(pressed) \subseteq 0..MaxPresses
    BY PinAssumption DEF KeypadInv
  <2>2. /\ net \in Seq(1..MaxPresses) /\ counted \in Seq(1..MaxPresses)
        /\ arrived \in Seq(1..MaxPresses)
    BY <2>1, SeqMonotonic DEF KeypadInv, ArrivedInv
  <2> QED
    BY <2>1, <2>2 DEF KeypadInv, PinTypeOK
<1> QED
  BY <1>1, ArrivedInvariance, PTL

(* Whoever is admitted keyed the PIN, for any PIN, any keys, and whatever  *)
(* packets are lost, repeated or reordered: digit only ever compares keys  *)
(* that it saw one after the other.                                        *)
THEOREM AdmissionByPin == PinSpec => []AdmittedByPin
<1>1. PinInv => AdmittedByPin
  <2> SUFFICES ASSUME PinInv, admitted
               PROVE  \E i \in 1..(Len(counted) + 1 - Len(Pin)) :
                          SubSeq(KeysCounted, i, i + Len(Pin) - 1) = Pin
    BY DEF AdmittedByPin
  <2>1. PICK i \in 1..(Len(counted) + 1 - Len(Pin)) :
            \A k \in 1..Len(Pin) : pressed[counted[i + k - 1]] = Pin[k]
    BY DEF PinInv, PinSeen
  <2>2. Len(counted) \in Nat /\ Len(Pin) \in Nat \ {0} /\ Pin \in Seq(Keys)
    <3>1. Pin \in Seq(Keys)
      BY PinAssumption, SeqMonotonic
    <3> QED
      BY <3>1, PinAssumption, EmptySeq DEF PinInv, KeypadInv
  <2>3. \A j \in 1..Len(counted) : pressed[counted[j]] \in Keys
    BY DEF PinInv, KeypadInv
  <2>4. /\ KeysCounted \in Seq(Keys) /\ Len(KeysCounted) = Len(counted)
        /\ \A j \in 1..Len(counted) : KeysCounted[j] = pressed[counted[j]]
    BY <2>2, <2>3 DEF KeysCounted, Key
  <2> DEFINE s == SubSeq(KeysCounted, i, i + Len(Pin) - 1)
  <2>5. /\ s \in Seq(Keys) /\ Len(s) = Len(Pin)
        /\ \A k \in 1..Len(Pin) : s[k] = KeysCounted[i + k - 1]
    <3>1. \A j \in i .. i + Len(Pin) - 1 : KeysCounted[j] \in Keys
      BY <2>2, <2>3, <2>4
    <3>2. i \in Int /\ i + Len(Pin) - 1 \in Int /\ i <= i + Len(Pin) - 1
      BY <2>2
    <3>3. /\ s \in Seq(Keys)
          /\ Len(s) = IF i <= i + Len(Pin) - 1 THEN (i + Len(Pin) - 1) - i + 1 ELSE 0
          /\ \A k \in 1..((i + Len(Pin) - 1) - i + 1) : s[k] = KeysCounted[i + k - 1]
      <4> HIDE DEF s
      <4> QED
        BY <3>1, <3>2, SubSeqProperties DEF s
    <3> HIDE DEF s
    <3> QED
      BY <2>2, <3>2, <3>3
  <2>6. \A k \in 1..Len(Pin) : s[k] = Pin[k]
    <3> HIDE DEF s
    <3>1. ASSUME NEW k \in 1..Len(Pin) PROVE s[k] = Pin[k]
      <4>1. i + k - 1 \in 1..Len(counted)
        BY <2>2
      <4> QED
        BY <2>1, <2>4, <2>5, <4>1
    <3> QED
      BY <3>1
  <2>7. s = Pin
    <3> HIDE DEF s
    <3> QED
      BY <2>2, <2>5, <2>6, SeqEqual
  <2> QED
    BY <2>7
<1> QED
  BY <1>1, PinInvariance, PTL

(* A press counts again only if the end packet of another press came in    *)
(* between two of its own, however many packets are lost, repeated or      *)
(* overtaken and whatever is pressed by INFO meanwhile.                    *)
THEOREM PressesOnce == PinSpec => []EachPressOnce
<1>1. ArrivedInv => EachPressOnce
  BY DEF ArrivedInv
<1> QED
  BY <1>1, ArrivedInvariance, PTL
=============================================================================
