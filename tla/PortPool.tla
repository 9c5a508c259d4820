------------------------------ MODULE PortPool ------------------------------
(***************************************************************************)
(* PortPool (internal/media/pool.go): the free list of RTP port pairs, a   *)
(* queue behind a mutex, and the sockets of each pair.  allocate binds the *)
(* RTP port and then the RTCP port above it, and sends a pair some other   *)
(* program is using to the end of the queue; Endpoint.Close closes both    *)
(* sockets and then releases the pair.  Every bind, every close and every  *)
(* critical section is a step; other programs bind and close in between.   *)
(***************************************************************************)
EXTENDS Integers, Sequences

CONSTANTS
    PortMin, PortMax, \* SIPBX_RTP_PORT_MIN and _MAX
    Owners,     \* goroutines that each create, use and close an endpoint
    None        \* nobody, no port

ASSUME RangeAssumption == PortMin \in Nat /\ PortMax \in Nat
ASSUME NoneAssumption == None \notin Nat /\ None \notin Owners

(* NewPortPool: the even ports whose neighbour is within the range.         *)
First == IF PortMin % 2 = 1 THEN PortMin + 1 ELSE PortMin
(* Mutant: the RTCP port of the last pair may lie outside the range. *)
Count_Above == IF First <= PortMax THEN (PortMax - First) \div 2 + 1 ELSE 0
Count == IF First < PortMax THEN (PortMax - First + 1) \div 2 ELSE 0
NewPortPool == [i \in 1..Count |-> First + 2 * (i - 1)]

Members(s) == {s[i] : i \in 1..Len(s)}
Pairs == Members(NewPortPool)

VARIABLES
    free,       \* p.free
    lock,       \* who holds p.mu across the tries of allocate, or None
    triesLeft,  \* pairs the allocate in progress has yet to try
    at, port,   \* per owner: where it is, and the pair it has in hand
    open,       \* sockets of the PBX
    foreign,    \* sockets of other programs in the range
    tried       \* pairs the allocate in progress found taken

poolVars == <<free, lock, triesLeft, tried>>
ownVars == <<at, port>>
poolAllVars == <<poolVars, ownVars, open, foreign>>

PoolTypeOK ==
    /\ free \in Seq(Pairs)
    /\ lock \in Owners \cup {None}
    /\ triesLeft \in Nat
    /\ at \in [Owners -> {"idle", "try", "rtcp", "held", "closing", "closed"}]
    /\ port \in [Owners -> Pairs \cup {None}]
    /\ open \subseteq PortMin..PortMax
    /\ foreign \subseteq PortMin..PortMax
    /\ tried \subseteq Pairs

PoolInit ==
    /\ free = NewPortPool /\ lock = None /\ triesLeft = 0 /\ tried = {}
    /\ at = [o \in Owners |-> "idle"] /\ port = [o \in Owners |-> None]
    /\ open = {} /\ foreign \in SUBSET (PortMin..PortMax)

Busy(socket) == socket \in open \cup foreign
Go(o, to) == at' = [at EXCEPT ![o] = to]

-----------------------------------------------------------------------------
Allocate(o) ==
    /\ at[o] = "idle" /\ lock = None
    /\ lock' = o /\ triesLeft' = Len(free) /\ tried' = {}
    /\ Go(o, "try")
    /\ UNCHANGED <<free, port, open, foreign>>

(* Mutant: a pair that is in use is tried again at once. *)
BindRTP_Front(o) ==
    LET p == Head(free) IN
    /\ at[o] = "try" /\ triesLeft > 0
    /\ IF Busy(p)
       THEN /\ triesLeft' = triesLeft - 1 /\ tried' = tried \cup {p}
            /\ UNCHANGED <<free, ownVars, open>>
       ELSE /\ free' = Tail(free)
            /\ port' = [port EXCEPT ![o] = p]
            /\ open' = open \cup {p}
            /\ Go(o, "rtcp")
            /\ UNCHANGED <<triesLeft, tried>>
    /\ UNCHANGED <<lock, foreign>>

(* The head of the queue; when its RTP port cannot be bound it goes last. *)
BindRTP(o) ==
    LET p == Head(free) IN
    /\ at[o] = "try" /\ triesLeft > 0
    /\ IF Busy(p)
       THEN /\ free' = Append(Tail(free), p)
            /\ triesLeft' = triesLeft - 1 /\ tried' = tried \cup {p}
            /\ UNCHANGED <<ownVars, open>>
       ELSE /\ free' = Tail(free)
            /\ port' = [port EXCEPT ![o] = p]
            /\ open' = open \cup {p}
            /\ Go(o, "rtcp")
            /\ UNCHANGED <<triesLeft, tried>>
    /\ UNCHANGED <<lock, foreign>>

(* The RTCP port; when it is in use the RTP socket is closed again. *)
BindRTCP(o) ==
    LET p == port[o] IN
    /\ at[o] = "rtcp"
    /\ IF Busy(p + 1)
       THEN /\ open' = open \ {p}
            /\ free' = Append(free, p)
            /\ port' = [port EXCEPT ![o] = None]
            /\ triesLeft' = triesLeft - 1 /\ tried' = tried \cup {p}
            /\ Go(o, "try")
            /\ UNCHANGED lock
       ELSE /\ open' = open \cup {p + 1}
            /\ lock' = None
            /\ Go(o, "held")
            /\ UNCHANGED <<free, triesLeft, tried, port>>
    /\ UNCHANGED foreign

(* ErrNoPorts. *)
NoPorts(o) ==
    /\ at[o] = "try" /\ triesLeft = 0
    /\ lock' = None
    /\ Go(o, "idle")
    /\ UNCHANGED <<free, triesLeft, tried, port, open, foreign>>

-----------------------------------------------------------------------------
(* Endpoint.Close. *)
CloseRTP(o) ==
    /\ at[o] = "held"
    /\ open' = open \ {port[o]}
    /\ Go(o, "closing")
    /\ UNCHANGED <<poolVars, port, foreign>>

CloseRTCP(o) ==
    /\ at[o] = "closing"
    /\ open' = open \ {port[o] + 1}
    /\ Go(o, "closed")
    /\ UNCHANGED <<poolVars, port, foreign>>

(* Mutant: release without the mutex, into a copy allocate is replacing. *)
Release_Unlocked(o) ==
    /\ at[o] = "closed"
    /\ free' = IF lock = None THEN Append(free, port[o]) ELSE free
    /\ port' = [port EXCEPT ![o] = None]
    /\ Go(o, "idle")
    /\ UNCHANGED <<lock, triesLeft, tried, open, foreign>>

ReleasePair(o) ==
    /\ at[o] = "closed" /\ lock = None
    /\ free' = Append(free, port[o])
    /\ port' = [port EXCEPT ![o] = None]
    /\ Go(o, "idle")
    /\ UNCHANGED <<lock, triesLeft, tried, open, foreign>>

(* Other programs on the machine. *)
ForeignBind(socket) ==
    /\ ~Busy(socket)
    /\ foreign' = foreign \cup {socket}
    /\ UNCHANGED <<poolVars, ownVars, open>>

ForeignClose(socket) ==
    /\ foreign' = foreign \ {socket}
    /\ UNCHANGED <<poolVars, ownVars, open>>

-----------------------------------------------------------------------------
Step(o) ==
    \/ Allocate(o) \/ BindRTP(o) \/ BindRTCP(o) \/ NoPorts(o)
    \/ CloseRTP(o) \/ CloseRTCP(o) \/ ReleasePair(o)

PoolNext ==
    \/ \E o \in Owners : Step(o)
    \/ \E socket \in PortMin..PortMax : ForeignBind(socket) \/ ForeignClose(socket)

PoolSpec == PoolInit /\ [][PoolNext]_poolAllVars

-----------------------------------------------------------------------------
(* No pair is lost and none is handed out twice: a pair of the range is    *)
(* once in the free list or in the hands of exactly one owner, whatever    *)
(* binds fail in allocate and whoever closes meanwhile.                    *)
EachPairOnce ==
    /\ \A i, j \in 1..Len(free) : free[i] = free[j] => i = j
    /\ \A o \in Owners : port[o] \notin Members(free)
    /\ \A o1, o2 \in Owners : port[o1] = port[o2] => port[o1] = None \/ o1 = o2
    /\ Members(free) \cup {port[o] : o \in Owners} \cup {None} = Pairs \cup {None}

(* Every socket of the PBX belongs to a pair some owner has in hand, so a  *)
(* free pair has none left: Close hands a pair back only when both are     *)
(* closed, and a bind that fails in allocate met another program's socket. *)
FreeMeansClosed ==
    \A socket \in open :
        \E o \in Owners : /\ port[o] # None
                          /\ socket \in {port[o], port[o] + 1}

(* allocate answers ErrNoPorts only after it found every free pair taken,  *)
(* each tried once although the queue turns under the loop.                *)
RefusedAfterAll ==
    [][\A o \in Owners : at[o] = "try" /\ at'[o] = "idle" =>
           Members(free) \subseteq tried]_poolAllVars

(***************************************************************************)
(* The pool implements PortSet: a pair is taken when both its sockets are  *)
(* bound, and given back by release.                                       *)
(***************************************************************************)
Held == [o \in Owners |-> IF at[o] \in {"held", "closing", "closed"}
                          THEN port[o] ELSE None]
Available == Members(free) \cup {port[o] : o \in {x \in Owners : at[x] = "rtcp"}}

Promise == INSTANCE PortSet WITH avail <- Available, held <- Held

(* The queue, its mutex and its sockets behave as the plain set of pairs   *)
(* the call engine and the conferences are modelled with.                  *)
ImplementsPortSet == Promise!Spec
=============================================================================
