------------------------------ MODULE Endpoint ------------------------------
(***************************************************************************)
(* One media endpoint (internal/media): where its phone is.  SetRemote,    *)
(* run by signaling goroutines, guesses from SDP; the two reader           *)
(* goroutines learn from packets; Close stops them and gives the ports     *)
(* back.  peer and latched are two atomics, written one after the other.   *)
(*                                                                         *)
(* An address is an IP and a port pair: the RTCP port is taken to follow   *)
(* the RTP port.  Packets carry no content but whether they decrypt.       *)
(***************************************************************************)
EXTENDS Naturals, FiniteSets

CONSTANTS
    Ips, PrivateIps,
    Ports,
    SignalIP,       \* where the phone's signaling comes from
    Homes,          \* addresses the phone's packets come from, in turn
    Strange,        \* addresses of others who send packets here
    Setters,        \* goroutines that call SetRemote
    Offers,         \* the SDPs they bring: [ip, port, hold]
    Secured,        \* SRTP keys are set: others' packets do not decrypt
    Nobody          \* no address yet

Addrs == [ip : Ips, port : Ports]
Paths == {"rtp", "rtcp"}
NoOffer == [ip |-> SignalIP, port |-> 0, hold |-> TRUE]

ASSUME AddrsAssumption ==
    /\ Homes \subseteq Addrs /\ Strange \subseteq Addrs /\ Homes \cap Strange = {}
    /\ SignalIP \in Ips /\ PrivateIps \subseteq Ips /\ Nobody \notin Addrs
    /\ Offers \subseteq [ip : Ips, port : Ports, hold : BOOLEAN]
    /\ Homes # {} /\ Ports \subseteq Nat \ {0} /\ Secured \in BOOLEAN

VARIABLES
    allowed,        \* IPs that may send here; empty before the first SDP
    sdpPort,        \* port of the last SDP that was used
    peer, latched,  \* per path
    set,            \* per setter: where SetRemote is
    offer,          \* per setter: its SDP
    reader,         \* per path: where read is
    src,            \* per path: source of the packet being handled
    closing,        \* progress of Close's closeOnce
    home,           \* where the phone sends from now
    moved,          \* homes the phone has left
    heard,          \* per path: sources of accepted packets
    repeats,        \* setters whose SDP repeats the port of the one before
    lost            \* a real address was overwritten by such an SDP

setVars  == <<set, offer, sdpPort, allowed>>
pathVars == <<peer, latched>>
readVars == <<reader, src, heard>>
vars == <<setVars, pathVars, readVars, closing, home, moved, repeats, lost>>

TypeOK ==
    /\ allowed \subseteq Ips /\ sdpPort \in Ports \cup {0}
    /\ peer \in [Paths -> Addrs \cup {Nobody}] /\ latched \in [Paths -> BOOLEAN]
    /\ set \in [Setters -> {"idle", "lock", "rtpPeer", "rtpLatched", "rtcpPeer",
                            "rtcpLatched", "done"}]
    /\ offer \in [Setters -> Offers \cup {NoOffer}]
    /\ Cardinality({s \in Setters : set[s] \notin {"idle", "lock", "done"}}) <= 1
    /\ reader \in [Paths -> {"new", "read", "peer", "latch", "stopped"}]
    /\ src \in [Paths -> Addrs \cup {Nobody}]
    /\ closing \in {"no", "closed", "released"}
    /\ home \in Homes /\ moved \subseteq Homes
    /\ heard \in [Paths -> SUBSET Addrs]
    /\ repeats \subseteq Setters /\ lost \in BOOLEAN

Init ==
    /\ allowed = {} /\ sdpPort = 0
    /\ peer = [p \in Paths |-> Nobody] /\ latched = [p \in Paths |-> FALSE]
    /\ set = [s \in Setters |-> "idle"] /\ offer = [s \in Setters |-> NoOffer]
    /\ reader = [p \in Paths |-> "new"] /\ src = [p \in Paths |-> Nobody]
    /\ closing = "no"
    /\ home \in Homes /\ moved = {}
    /\ heard = [p \in Paths |-> {}] /\ repeats = {} /\ lost = FALSE

-----------------------------------------------------------------------------
At(s, to) == set' = [set EXCEPT ![s] = to]

(* SetRemote: a hold SDP changes nothing; otherwise its IPs may send. *)
SetRemote(s, o) ==
    /\ set[s] = "idle"
    /\ offer' = [offer EXCEPT ![s] = o]
    /\ IF o.hold
       THEN At(s, "done") /\ UNCHANGED allowed
       ELSE At(s, "lock") /\ allowed' = {SignalIP, o.ip}
    /\ UNCHANGED <<sdpPort, pathVars, readVars, closing, home, moved, repeats, lost>>

(* Under e.mu: an endpoint that has latched keeps its peer unless the SDP  *)
(* names another port.                                                     *)
CheckPort(s) ==
    /\ set[s] = "lock" /\ \A t \in Setters : set[t] \in {"idle", "lock", "done"}
    /\ IF offer[s].port = sdpPort /\ latched["rtp"]
       THEN At(s, "done") /\ UNCHANGED sdpPort
       ELSE At(s, "rtpPeer") /\ sdpPort' = offer[s].port
    /\ repeats' = IF offer[s].port = sdpPort THEN repeats \cup {s} ELSE repeats
    /\ UNCHANGED <<offer, allowed, pathVars, readVars, closing, home, moved, lost>>

(* A private SDP address that is not the signaling address is replaced by it. *)
Guess(o) ==
    [ip |-> IF o.ip # SignalIP /\ o.ip \in PrivateIps THEN SignalIP ELSE o.ip,
     port |-> o.port]

StorePeer(s, path, next) ==
    /\ peer' = [peer EXCEPT ![path] = Guess(offer[s])]
    /\ At(s, next)
    /\ UNCHANGED <<offer, sdpPort, allowed, latched, readVars, closing, home, moved,
                   repeats>>

StoreUnlatched(s, path, next) ==
    /\ latched' = [latched EXCEPT ![path] = FALSE]
    /\ At(s, next)
    /\ UNCHANGED <<offer, sdpPort, allowed, peer, readVars, closing, home, moved, repeats, lost>>

(* peer, then latched, of the RTP path and of the RTCP path. *)
StoreGuess(s) ==
    \/ /\ set[s] = "rtpPeer" /\ StorePeer(s, "rtp", "rtpLatched")
       /\ lost' = (lost \/ (/\ s \in repeats /\ latched["rtp"]
                            /\ peer["rtp"] \in heard["rtp"] \ {Guess(offer[s])}))
    \/ set[s] = "rtpLatched" /\ StoreUnlatched(s, "rtp", "rtcpPeer")
    \/ set[s] = "rtcpPeer" /\ StorePeer(s, "rtcp", "rtcpLatched") /\ UNCHANGED lost
    \/ set[s] = "rtcpLatched" /\ StoreUnlatched(s, "rtcp", "done")

-----------------------------------------------------------------------------
(* In a conference it may come after Close, whose Wait then is over. *)
Start ==
    /\ reader = [p \in Paths |-> "new"]
    /\ reader' = [p \in Paths |-> "read"]
    /\ UNCHANGED <<setVars, pathVars, src, heard, closing, home, moved, repeats, lost>>

(* Mutant: the source is noted before the packet is decrypted. *)
Accepts_Undecrypted(a) == a.ip \in allowed

(* From an allowed IP, and it decrypts. *)
Accepts(a) == a.ip \in allowed /\ (Secured => a \in Homes)

(* Mutant: once latched, always latched. *)
NewPeer_Once(path, a) == ~latched[path]

NewPeer(path, a) == peer[path] # a \/ ~latched[path]

(* One packet is read: dropped, or accepted, with a new peer or not. *)
Read(path, a) ==
    /\ reader[path] = "read" /\ closing = "no"
    /\ Accepts(a)
    /\ heard' = [heard EXCEPT ![path] = @ \cup {a}]
    /\ src' = [src EXCEPT ![path] = a]
    /\ reader' = [reader EXCEPT ![path] = IF NewPeer(path, a) THEN "peer" ELSE "read"]
    /\ UNCHANGED <<setVars, pathVars, closing, home, moved, repeats, lost>>

(* ... whose two stores come one after the other. *)
Latch(path) ==
    /\ \/ /\ reader[path] = "peer"
          /\ peer' = [peer EXCEPT ![path] = src[path]]
          /\ reader' = [reader EXCEPT ![path] = "latch"]
          /\ UNCHANGED latched
       \/ /\ reader[path] = "latch"
          /\ latched' = [latched EXCEPT ![path] = TRUE]
          /\ reader' = [reader EXCEPT ![path] = "read"]
          /\ UNCHANGED peer
    /\ UNCHANGED <<setVars, src, heard, closing, home, moved, repeats, lost>>

(* The socket is closed: read returns. *)
ReadFails(path) ==
    /\ reader[path] = "read" /\ closing # "no"
    /\ reader' = [reader EXCEPT ![path] = "stopped"]
    /\ UNCHANGED <<setVars, pathVars, src, heard, closing, home, moved, repeats, lost>>

Close ==
    /\ closing = "no" /\ closing' = "closed"
    /\ UNCHANGED <<setVars, pathVars, readVars, home, moved, repeats, lost>>

(* Mutant: the ports go back to the pool before the readers are through. *)
Release_NoWait ==
    /\ closing = "closed" /\ closing' = "released"
    /\ UNCHANGED <<setVars, pathVars, readVars, home, moved, repeats, lost>>

(* wg.Wait, then pool.release. *)
Release ==
    /\ closing = "closed" /\ \A p \in Paths : reader[p] \in {"new", "stopped"}
    /\ closing' = "released"
    /\ UNCHANGED <<setVars, pathVars, readVars, home, moved, repeats, lost>>

(* The phone's NAT gives it another address. *)
Move ==
    /\ \E a \in Homes \ (moved \cup {home}) : home' = a
    /\ moved' = moved \cup {home}
    /\ UNCHANGED <<setVars, pathVars, readVars, closing, repeats, lost>>

SetStep(s) == CheckPort(s) \/ StoreGuess(s)
Done == closing = "released" /\ UNCHANGED vars

Next ==
    \/ \E s \in Setters : SetStep(s) \/ \E o \in Offers : SetRemote(s, o)
    \/ \E p \in Paths :
           Latch(p) \/ ReadFails(p) \/ \E a \in {home} \cup Strange : Read(p, a)
    \/ Start \/ Close \/ Release \/ Move \/ Done

(* Goroutines run; the phone keeps sending once its call has media. *)
Fairness ==
    /\ \A s \in Setters : WF_vars(SetStep(s))
    /\ \A p \in Paths : WF_vars(Latch(p)) /\ WF_vars(ReadFails(p)) /\ WF_vars(Read(p, home))
    /\ WF_vars(Release)

Spec == Init /\ [][Next]_vars
FairSpec == Spec /\ Fairness

-----------------------------------------------------------------------------
(***************************************************************************)
(* An SRTP endpoint never sends to an address that only others' packets    *)
(* came from, and no endpoint sends to one outside the allowed IPs ("never *)
(* latch on it"): whatever SetRemote and the readers interleave, the peer  *)
(* is a guess from SDP or an address whose packets decrypted.              *)
(***************************************************************************)
StrangersIgnored ==
    \A p \in Paths :
        \/ peer[p] = Nobody
        \/ \E s \in Setters : set[s] # "idle" /\ peer[p] = Guess(offer[s])
        \/ peer[p] \in heard[p] /\ (Secured => peer[p] \in Homes)

(***************************************************************************)
(* The ports only go back to the pool when no reader is busy with a packet *)
(* any more: nothing of the next call on these ports reaches this one, and *)
(* a conference's Start that comes after Close reads nothing (Close).      *)
(***************************************************************************)
NoPacketAfterRelease ==
    closing = "released" => \A p \in Paths : reader[p] \in {"new", "read", "stopped"}

(***************************************************************************)
(* A phone that keeps sending is found, wherever SDP says it is, however   *)
(* often it moves, and whichever SetRemote overlaps with its packets: in   *)
(* the end its real address wins (read, SetRemote).                        *)
(***************************************************************************)
FollowsPhone ==
    \A p \in Paths :
        <>[](\/ closing # "no" \/ reader[p] = "new" \/ home.ip \notin allowed
             \/ peer[p] = home)

(***************************************************************************)
(* What the comment on path.latched says: a latched peer came from real    *)
(* traffic, not SDP, at least while no SetRemote is under way.  Checked,   *)
(* and refuted: read's second store may come after all those of SetRemote. *)
(***************************************************************************)
LatchedIsReal ==
    (\A s \in Setters : set[s] \in {"idle", "lock", "done"}) =>
        \A p \in Paths : latched[p] => peer[p] \in heard[p]

(***************************************************************************)
(* What SetRemote's comment says: once the phone has sent media its real   *)
(* address wins, unless a new SDP moves it to another port.  Checked, and  *)
(* refuted: SDP that repeats the port overwrites an address learned        *)
(* between its check and its store.                                        *)
(***************************************************************************)
RealAddressWins == ~lost
=============================================================================
