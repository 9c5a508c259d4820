---------------------------- MODULE Negotiation ----------------------------
(***************************************************************************)
(* Addresses and SRTP keys of one call (internal/b2bua: HandleInvite,      *)
(* connect, onProvisional, forward, handleHold, crypto.go) or of one       *)
(* conference leg (joinConference, applyOffer, confInDialog).  Each phone  *)
(* exchanges keys with the PBX alone; the PBX makes its own and puts them  *)
(* into the descriptions it rewrites (module Sdp).                         *)
(*                                                                         *)
(* Offers are answered one after the other: a phone makes no second offer  *)
(* before the first is answered, and module Reinvite has the overlaps.     *)
(* One phone of the callee may still ring and send early media when        *)
(* another has answered.                                                   *)
(***************************************************************************)
EXTENDS Sdp

CONSTANTS
    Offers,       \* what a phone may describe, see Body
    AnswerKinds,  \* how a phone may answer, see AnswerTo
    Pbx,          \* the public address
    PhoneAddr,    \* the address phones write into their bodies
    MaxOffers     \* bound: re-offers and refreshes in one call

Sides == {"caller", "callee"}
Other(s) == IF s = "caller" THEN "callee" ELSE "caller"
RelayPort(s) == IF s = "caller" THEN 20 ELSE 30

ASSUME MaxOffersAssumption == MaxOffers \in Nat

(* An offer has a port and numbers its keys differently.                   *)
Offer ==
    [port : Nat \ {0}, srtp : BOOLEAN,
     cryptos : Seq([tag : Nat, suite : Nat, key : Nat \cup {Bad}]),
     dir : Directions, zero : BOOLEAN, video : BOOLEAN, fmts : Seq(Nat)]

ASSUME OffersAssumption ==
    /\ Pbx # Bad /\ PhoneAddr \notin {Bad, Zero}
    /\ \A d \in Offers :
           /\ d \in Offer
           /\ \A i, j \in DOMAIN d.cryptos : d.cryptos[i].tag = d.cryptos[j].tag => i = j

VARIABLES
    kind,         \* "call" or "room"
    tlsOnly,      \* the sides whose extension has RequireTLS
    stage,        \* idle, ringing, up, fwd (a re-offer is with the other phone), over
    ex,           \* the offer being answered
    phone,        \* what each phone uses: keys it sends and receives with, port
    leg,          \* the relay's endpoints: keys in and out, SDP port
    keys, secure, \* Call.keys and Call.secure; a conference leg's ours
    holdBy, sdpTo,\* as in Call
    local,        \* confLeg.local
    made,         \* PBX keys made so far, numbered 1..made
    sent,         \* the last body sent to each phone
    early,        \* Call.earlyMedia
    left,         \* offers and refreshes left in the call
    spoiled,      \* the relay took from this phone what the phone does not use
    stale         \* sdpTo does not have the keys this phone uses

callVars == <<keys, secure, holdBy, sdpTo, early>>
histVars == <<tlsOnly, left, spoiled, stale>>
vars == <<kind, stage, ex, phone, leg, callVars, local, made, sent, histVars>>

NoOffer == [from |-> None]
NoLocal == [ver |-> 0]
Each(x) == [s \in Sides |-> x]

Init ==
    /\ kind \in {"call", "room"} /\ stage = "idle" /\ ex = NoOffer
    /\ tlsOnly \in {{}, Sides}
    /\ phone = Each([send |-> None, recv |-> None, port |-> 0])
    /\ leg = Each([in |-> None, out |-> None, port |-> 0])
    /\ keys = Each(None) /\ secure = Each(FALSE)
    /\ holdBy = Each(FALSE) /\ sdpTo = Each(<<>>) /\ early = FALSE
    /\ local = NoLocal /\ made = 0 /\ sent = Each(<<>>)
    /\ left = MaxOffers /\ spoiled = Each(FALSE) /\ stale = Each(FALSE)

-----------------------------------------------------------------------------
(* A phone's body: everything at session level, or an address, a direction *)
(* and an RTCP port of the stream's own among attributes to drop, with a   *)
(* second stream.                                                          *)
Body(d) ==
    LET conn == [k |-> "c", addr |-> IF d.zero THEN Zero ELSE PhoneAddr]
        m == [k |-> "m", media |-> "audio", port |-> d.port, srtp |-> d.srtp,
              feedback |-> d.video, fmts |-> d.fmts]
        dir == [k |-> "dir", dir |-> d.dir]
        o == [k |-> "o", ver |-> 1, addr |-> PhoneAddr]
        cryptos == [i \in DOMAIN d.cryptos |-> KeyAttr(d.cryptos[i])] IN
    IF ~d.video THEN <<o, conn, dir, m>> \o cryptos
    ELSE <<o, [k |-> "c", addr |-> PhoneAddr], [k |-> "ice"], m>> \o cryptos
         \o <<conn, [k |-> "rtcp", port |-> d.port + 5], dir,
              [k |-> "m", media |-> "video", port |-> 9, srtp |-> FALSE,
               feedback |-> FALSE, fmts |-> <<99>>],
              [k |-> "dir", dir |-> "inactive"]>>

(* The offers of each side: each phone has keys of its own. *)
OffersOf == [s \in Sides |->
    {[d EXCEPT !.cryptos = [i \in DOMAIN d.cryptos |->
        [d.cryptos[i] EXCEPT !.key = IF @ = Bad \/ s = "caller" THEN @ ELSE @ + 100]]] :
     d \in Offers}]

(* What the PBX reads in each of them. *)
OfferInfo == [d \in UNION {OffersOf[s] : s \in Sides} |-> Parse(Body(d))]

(* The answer of side s to an offer that carried key: plain RTP, SRTP with *)
(* the offered tag, SRTP with a tag nobody offered, or a body that does    *)
(* not parse.                                                              *)
AnswerTo(s, how, key) ==
    [port |-> IF how = "match" THEN 6 ELSE 7, srtp |-> how \in {"match", "other"},
     cryptos |-> IF how \notin {"match", "other"} THEN <<>>
                 ELSE <<[tag |-> IF how = "match" THEN key.tag ELSE 9,
                         suite |-> key.suite,
                         key |-> IF s = "caller" THEN 301 ELSE 401]>>,
     dir |-> "sendrecv", zero |-> FALSE, video |-> FALSE,
     fmts |-> IF how = "broken" THEN <<>> ELSE <<0>>]
Answers(s, key) ==
    {AnswerTo(s, how, key) :
        how \in {h \in AnswerKinds : h \in {"match", "other"} => key # None}}

First(cryptos) == IF cryptos = <<>> THEN None ELSE Head(cryptos)

(* What a phone uses once its offer d was answered with body: the keys the *)
(* answer's tag selects.                                                   *)
PhoneOffered(s, d, body) ==
    LET key == IF d.srtp THEN First(Parse(body).cryptos) ELSE None
        chosen == Kept(d.cryptos, {c \in ToSet(d.cryptos) :
                                      c.tag = key.tag /\ c.suite = key.suite}) IN
    [send |-> IF key = None THEN None ELSE First(chosen), recv |-> key,
     port |-> IF d.zero THEN phone[s].port ELSE d.port]

(* And once it answered with d an offer that carried key. *)
PhoneAnswered(d, key) ==
    [send |-> First(d.cryptos), recv |-> IF d.srtp THEN key ELSE None, port |-> d.port]

-----------------------------------------------------------------------------
(* Endpoint.SetRemote: a hold changes nothing. *)
Remote(l, info) ==
    IF info.addr = Zero \/ info.port = 0 THEN l ELSE [l EXCEPT !.port = info.port]

(* Mutant: the PBX keeps its key, whatever suite the phone asks for. *)
OurKey_AnySuite(cur, theirs) ==
    IF cur = None
    THEN [tag |-> theirs.tag, suite |-> theirs.suite, key |-> made + 1]
    ELSE [cur EXCEPT !.tag = theirs.tag]

(* The PBX's key for a phone: the one it has if the suite fits, else new;  *)
(* the tag is the phone's.                                                 *)
OurKey(cur, theirs) ==
    IF cur = None \/ cur.suite # theirs.suite
    THEN [tag |-> theirs.tag, suite |-> theirs.suite, key |-> made + 1]
    ELSE [cur EXCEPT !.tag = theirs.tag]

OfferUsable(info) == info.secure => info.cryptos # <<>>

(* acceptOffer, in two parts: the key to answer with, and what it installs. *)
AnswerKey(s, info) ==
    IF info.secure THEN OurKey(keys[s], Head(info.cryptos)) ELSE None
MadeFor(key) == IF key # None /\ key.key > made THEN key.key ELSE made
TakeOffer(s, info) ==
    [leg EXCEPT ![s] = [Remote(@, info) EXCEPT
        !.in = IF info.secure THEN Head(info.cryptos) ELSE None,
        !.out = AnswerKey(s, info)]]

(* setCrypto on the call's side. *)
SetKeys(s, ours) ==
    /\ keys' = [keys EXCEPT ![s] = IF ours = None THEN @ ELSE ours]
    /\ secure' = [secure EXCEPT ![s] = ours # None]

(* offerKey: what an offer to s carries. *)
OfferKey(s) == IF secure[s] THEN keys[s] ELSE None

(* acceptAnswer: the phone's key that goes with the offered one; without   *)
(* any, only the address is taken.                                         *)
Matching(info, offered) ==
    Kept(info.cryptos,
         {c \in ToSet(info.cryptos) : c.tag = offered.tag /\ c.suite = offered.suite})
AnswerPlain(info, offered) == offered = None \/ ~info.secure
AnswerUsable(info, offered) ==
    AnswerPlain(info, offered) \/ Matching(info, offered) # <<>>

(* Mutant: when the answer is plain the leg keeps the keys it had. *)
TakeAnswer_KeepsKeys(s, info, offered) ==
    /\ leg' = [leg EXCEPT ![s] =
            IF AnswerPlain(info, offered) \/ ~AnswerUsable(info, offered)
            THEN Remote(@, info)
            ELSE [Remote(@, info) EXCEPT !.in = Head(Matching(info, offered)), !.out = offered]]
    /\ IF AnswerUsable(info, offered)
       THEN SetKeys(s, IF AnswerPlain(info, offered) THEN None ELSE offered)
       ELSE UNCHANGED <<keys, secure>>

TakeAnswer(s, info, offered) ==
    LET in == IF AnswerPlain(info, offered) THEN None ELSE Head(Matching(info, offered))
        out == IF AnswerPlain(info, offered) THEN None ELSE offered IN
    IF AnswerUsable(info, offered)
    THEN /\ leg' = [leg EXCEPT ![s] = [Remote(@, info) EXCEPT !.in = in, !.out = out]]
         /\ SetKeys(s, out)
    ELSE /\ leg' = [leg EXCEPT ![s] = Remote(@, info)]
         /\ UNCHANGED <<keys, secure>>

-----------------------------------------------------------------------------
(* Call setup.  The caller's INVITE is refused with 488, or taken; each    *)
(* phone of the callee is offered SRTP if it is registered over TLS.       *)
End ==
    /\ stage' = "over"
    /\ UNCHANGED <<kind, ex, phone, leg, callVars, local, made, sent, histVars>>

CalleePhones == IF "callee" \in tlsOnly THEN {TRUE} ELSE BOOLEAN
ForkKey(tls) == IF tls THEN keys["callee"] ELSE None

Invite(d) ==
    LET info == OfferInfo[d]
        ours == AnswerKey("caller", info)
        calleeKey == [tag |-> 1, suite |-> 80, key |-> MadeFor(ours) + 1] IN
    /\ kind = "call" /\ stage = "idle"
    /\ IF ~info.ok \/ ~OfferUsable(info) \/ ("caller" \in tlsOnly /\ ~info.secure)
       THEN End
       ELSE /\ leg' = TakeOffer("caller", info)
            /\ keys' = [caller |-> ours, callee |-> calleeKey]
            /\ secure' = [secure EXCEPT !["caller"] = info.secure]
            /\ made' = calleeKey.key
            /\ ex' = [from |-> "caller", offer |-> d]
            /\ stage' = "ringing"
            /\ UNCHANGED <<kind, phone, holdBy, sdpTo, early, local, sent, histVars>>

ToCaller(d) == Rewrite(Body(d), Pbx, RelayPort("caller"), OfferKey("caller"))
ToCallee(tls) == Rewrite(Body(ex.offer), Pbx, RelayPort("callee"), ForkKey(tls))

(* earlyMediaAnswer: the first 183 with SDP goes to the caller.  Unusable  *)
(* keys make it a 180, with the address already set.  It may come from a   *)
(* phone that lost, after the answer: the caller then ignores it.          *)
EarlyMedia(tls, d) ==
    LET info == Parse(Body(d)) IN
    /\ kind = "call" /\ stage \in {"ringing", "up"} /\ ~early
    /\ early' = TRUE
    /\ IF info.ok THEN TakeAnswer("callee", info, ForkKey(tls))
       ELSE UNCHANGED <<leg, keys, secure>>
    /\ IF stage = "ringing" /\ info.ok /\ AnswerUsable(info, ForkKey(tls))
       THEN /\ sent' = [caller |-> ToCaller(d), callee |-> ToCallee(tls)]
            /\ phone' = [phone EXCEPT !["caller"] =
                             PhoneOffered("caller", ex.offer, ToCaller(d))]
       ELSE UNCHANGED <<sent, phone>>
    /\ spoiled' = [spoiled EXCEPT !["callee"] = @ \/ stage = "up"]
    /\ stale' = [stale EXCEPT !["callee"] = @ \/ stage = "up"]
    /\ UNCHANGED <<kind, tlsOnly, stage, ex, holdBy, sdpTo, local, made, left>>

(* connect: the answer of the phone that won. *)
Connect(tls, d) ==
    LET info == Parse(Body(d)) IN
    /\ kind = "call" /\ stage = "ringing"
    /\ IF ~info.ok \/ ~AnswerUsable(info, ForkKey(tls))
       THEN End
       ELSE /\ TakeAnswer("callee", info, ForkKey(tls))
            /\ sent' = [caller |-> ToCaller(d), callee |-> ToCallee(tls)]
            /\ sdpTo' = sent'
            /\ phone' = [caller |-> PhoneOffered("caller", ex.offer, ToCaller(d)),
                         callee |-> PhoneAnswered(d, ForkKey(tls))]
            /\ stale' = [stale EXCEPT !["callee"] = tls /\ ~d.srtp]
            /\ stage' = "up" /\ ex' = NoOffer
            /\ UNCHANGED <<kind, tlsOnly, holdBy, early, local, made, left, spoiled>>

-----------------------------------------------------------------------------
(* forward: a re-INVITE or UPDATE with an offer. *)
MayOffer == stage = "up" /\ left > 0
UseOffer == MayOffer /\ left' = left - 1

(* The offer does not parse, or its keys are unusable: 488, in the second  *)
(* case with the new address already taken.                                *)
OfferRefused(s, d) ==
    LET info == OfferInfo[d] IN
    /\ UseOffer
    /\ ~(info.ok /\ OfferUsable(info))
    /\ leg' = [leg EXCEPT ![s] = IF info.ok THEN Remote(@, info) ELSE @]
    /\ spoiled' = [spoiled EXCEPT ![s] = @ \/ info.ok]
    /\ UNCHANGED <<kind, tlsOnly, stage, ex, phone, callVars, local, made, sent, stale>>

AcceptOffer(s, d) ==
    LET info == OfferInfo[d] IN
    /\ UseOffer /\ info.ok /\ OfferUsable(info)
    /\ leg' = TakeOffer(s, info)
    /\ SetKeys(s, AnswerKey(s, info))
    /\ made' = MadeFor(AnswerKey(s, info))

HoldOffer(s, d, invite) == invite /\ (OnHold(OfferInfo[d]) \/ holdBy[s])

(* handleHold: the PBX answers, with what it last sent this phone. *)
HoldReinvite(s, d) ==
    LET info == OfferInfo[d]
        dir == IF info.addr = Zero THEN "inactive" ELSE AnswerDirection(info.dir)
        answer == BumpVersion(SetDirection(
                      Rewrite(sdpTo[s], Pbx, RelayPort(s), AnswerKey(s, info)), dir)) IN
    /\ kind = "call" /\ AcceptOffer(s, d) /\ HoldOffer(s, d, TRUE)
    /\ sdpTo' = [sdpTo EXCEPT ![s] = answer]
    /\ sent' = [sent EXCEPT ![s] = answer]
    /\ phone' = [phone EXCEPT ![s] = PhoneOffered(s, d, answer)]
    /\ holdBy' = [holdBy EXCEPT ![s] = OnHold(info)]
    /\ spoiled' = [spoiled EXCEPT ![s] = @ /\ d.zero]
    /\ stale' = [stale EXCEPT ![s] = FALSE]
    /\ UNCHANGED <<kind, tlsOnly, stage, ex, early, local>>

(* Mutant: the offer names the leg it came from. *)
ForwardBody_SwappedLeg(d, to) == Rewrite(Body(d), Pbx, RelayPort(Other(to)), OfferKey(to))
ForwardBody(d, to) == Rewrite(Body(d), Pbx, RelayPort(to), OfferKey(to))

(* Any other offer goes on to the other phone. *)
Forward(s, d, invite) ==
    LET to == Other(s)
        body == ForwardBody(d, to) IN
    /\ kind = "call" /\ AcceptOffer(s, d) /\ ~HoldOffer(s, d, invite)
    /\ ex' = [from |-> s, offer |-> d, invite |-> invite, offered |-> OfferKey(to),
              answerKey |-> AnswerKey(s, OfferInfo[d]), mends |-> ~(spoiled[s] /\ d.zero)]
    /\ sent' = [sent EXCEPT ![to] = body]
    /\ sdpTo' = [sdpTo EXCEPT ![to] = IF invite THEN body ELSE @]
    /\ stale' = [stale EXCEPT ![to] = @ /\ ~invite, ![s] = TRUE]
    /\ spoiled' = [spoiled EXCEPT ![s] = TRUE]
    /\ stage' = "fwd"
    /\ UNCHANGED <<kind, tlsOnly, phone, holdBy, early, local>>

(* The other phone accepts.  Keys of its that do not match are only        *)
(* logged; a body that does not parse makes the answer a 488.              *)
ForwardAnswered(d) ==
    LET s == ex.from
        to == Other(s)
        info == Parse(Body(d))
        body == Rewrite(Body(d), Pbx, RelayPort(s), ex.answerKey)
        taken == info.ok /\ AnswerUsable(info, ex.offered) IN
    /\ stage = "fwd" /\ stage' = "up" /\ ex' = NoOffer
    /\ IF info.ok THEN TakeAnswer(to, info, ex.offered) ELSE UNCHANGED <<leg, keys, secure>>
    /\ IF info.ok THEN sent' = [sent EXCEPT ![s] = body] ELSE UNCHANGED sent
    /\ IF info.ok /\ ex.invite THEN sdpTo' = [sdpTo EXCEPT ![s] = body] ELSE UNCHANGED sdpTo
    /\ phone' = [phone EXCEPT
           ![s] = IF info.ok THEN PhoneOffered(s, ex.offer, body) ELSE @,
           ![to] = PhoneAnswered(d, ex.offered)]
    /\ spoiled' = [spoiled EXCEPT ![to] = ~taken, ![s] = ~(info.ok /\ ex.mends)]
    /\ stale' = [stale EXCEPT ![to] = @ \/ (ex.offered # None /\ ~d.srtp),
                              ![s] = ~(info.ok /\ ex.invite)]
    /\ UNCHANGED <<kind, tlsOnly, holdBy, early, local, made, left>>

(* The other phone refuses, with a body that does not parse or none, or    *)
(* does not answer within 32 s: so says the PBX, and keeps the keys and    *)
(* the address of the refused offer.                                       *)
ForwardRefused ==
    /\ stage = "fwd" /\ stage' = "up" /\ ex' = NoOffer
    /\ UNCHANGED <<kind, phone, leg, callVars, local, made, sent, histVars>>

(* The SDP of a refusal is read as an answer: the relay takes its address  *)
(* and keys, the body goes back and is kept, while both phones go on with  *)
(* what they had.                                                          *)
ForwardRefusedWith(d) ==
    LET s == ex.from
        to == Other(s)
        info == Parse(Body(d))
        body == Rewrite(Body(d), Pbx, RelayPort(s), ex.answerKey) IN
    /\ stage = "fwd" /\ info.ok
    /\ stage' = "up" /\ ex' = NoOffer
    /\ TakeAnswer(to, info, ex.offered)
    /\ sent' = [sent EXCEPT ![s] = body]
    /\ sdpTo' = [sdpTo EXCEPT ![s] = IF ex.invite THEN body ELSE @]
    /\ spoiled' = [spoiled EXCEPT ![to] = TRUE]
    /\ stale' = [stale EXCEPT ![to] = @ \/ (ex.offered # None /\ ~d.srtp)]
    /\ UNCHANGED <<kind, tlsOnly, phone, holdBy, early, local, made, left>>

(* A re-INVITE without an offer gets what this phone was last sent. *)
Refresh(s) ==
    LET key == First(Parse(sdpTo[s]).cryptos) IN
    /\ kind = "call" /\ UseOffer
    /\ sent' = [sent EXCEPT ![s] = sdpTo[s]]
    /\ phone' = [phone EXCEPT ![s].recv = key, ![s].send = IF key = None THEN None ELSE @]
    /\ spoiled' = [spoiled EXCEPT ![s] = @ \/ stale[s]]
    /\ UNCHANGED <<kind, tlsOnly, stage, ex, leg, callVars, local, made, stale>>

-----------------------------------------------------------------------------
(* A conference leg: the PBX itself is the other end. *)
NoG711(info) == \A i \in DOMAIN info.fmts : info.fmts[i] \notin {0, 8}

ApplyOffer(l, info) ==
    [l EXCEPT !.crypto = AnswerKey("caller", info),
              !.pt = IF NoG711(info) \/ \E i \in DOMAIN info.fmts : info.fmts[i] = @
                     THEN @ ELSE G711(info),
              !.dtmf = IF info.dtmf = None THEN @ ELSE info.dtmf,
              !.dir = AnswerDirection(info.dir)]

(* What applyOffer and the answer change, l being the leg's description. *)
AnswerRoom(d, l) ==
    LET info == OfferInfo[d]
        ours == AnswerKey("caller", info) IN
    /\ leg' = TakeOffer("caller", info)
    /\ keys' = [keys EXCEPT !["caller"] = IF ours = None THEN @ ELSE ours]
    /\ made' = MadeFor(ours)
    /\ local' = ApplyOffer(l, info)
    /\ sent' = [sent EXCEPT !["caller"] = Build(local')]
    /\ phone' = [phone EXCEPT !["caller"] = PhoneOffered("caller", d, Build(local'))]
    /\ spoiled' = [spoiled EXCEPT !["caller"] = @ /\ d.zero]
    /\ UNCHANGED <<kind, tlsOnly, ex, secure, holdBy, sdpTo, early, stale>>

JoinRoom(d) ==
    LET info == OfferInfo[d] IN
    /\ kind = "room" /\ stage = "idle"
    /\ IF ~info.ok \/ ("caller" \in tlsOnly /\ ~info.secure) \/ NoG711(info)
          \/ ~OfferUsable(info)
       THEN End
       ELSE /\ AnswerRoom(d, [ip |-> Pbx, port |-> RelayPort("caller"), ver |-> 1,
                              pt |-> G711(info), dtmf |-> info.dtmf,
                              dir |-> "sendrecv", crypto |-> None])
            /\ stage' = "up" /\ UNCHANGED left

RoomReoffer(d) ==
    /\ kind = "room" /\ UseOffer
    /\ OfferInfo[d].ok /\ OfferUsable(OfferInfo[d])
    /\ AnswerRoom(d, [local EXCEPT !.ver = (@ + 1) % VersionModulus])
    /\ UNCHANGED stage

RoomRefresh ==
    /\ kind = "room" /\ UseOffer
    /\ sent' = [sent EXCEPT !["caller"] = Build(local)]
    /\ phone' = [phone EXCEPT !["caller"].recv = local.crypto,
                              !["caller"].send = IF local.crypto = None THEN None ELSE @]
    /\ UNCHANGED <<kind, tlsOnly, stage, ex, leg, callVars, local, made, spoiled, stale>>

-----------------------------------------------------------------------------
SetupStep ==
    \/ stage = "idle" /\ \E d \in OffersOf["caller"] : Invite(d) \/ JoinRoom(d)
    \/ /\ kind = "call" /\ (stage = "ringing" \/ (stage = "up" /\ ~early))
       /\ \E tls \in CalleePhones : \E d \in Answers("callee", ForkKey(tls)) :
              EarlyMedia(tls, d) \/ Connect(tls, d)

CallStep ==
    \/ /\ kind = "call" /\ MayOffer
       /\ \E s \in Sides :
              \/ \E d \in OffersOf[s] :
                    \/ OfferRefused(s, d) \/ HoldReinvite(s, d)
                    \/ \E invite \in BOOLEAN : Forward(s, d, invite)
              \/ Refresh(s)
    \/ /\ stage = "fwd"
       /\ \E d \in Answers(Other(ex.from), ex.offered) :
              ForwardAnswered(d) \/ ForwardRefusedWith(d)
    \/ ForwardRefused

RoomStep ==
    /\ kind = "room" /\ MayOffer
    /\ \/ \E d \in OffersOf["caller"] : OfferRefused("caller", d) \/ RoomReoffer(d)
       \/ RoomRefresh

Next == SetupStep \/ CallStep \/ RoomStep
Spec == Init /\ [][Next]_vars

-----------------------------------------------------------------------------
SameKey(a, b) ==
    IF a = None \/ b = None THEN a = b ELSE a.suite = b.suite /\ a.key = b.key

(* The relay decrypts what a phone sends with the key the phone uses,      *)
(* encrypts with the key the phone expects and sends where the phone       *)
(* listens, across early media, answers, re-offers, holds and refreshes.   *)
(* It fails to only after a step of the known kinds: an offer the relay    *)
(* took and the PBX or the other phone refused, a refusal with a           *)
(* description of its own, a re-answer whose keys do not fit, a refresh    *)
(* answered from an old description, early media of a phone that lost.     *)
(* These are the steps where the code itself does not keep the promise;    *)
(* the phone's next accepted offer mends it.                               *)
KeysAgree ==
    stage = "up" =>
        \A s \in Sides : ~spoiled[s] =>
            /\ SameKey(leg[s].in, phone[s].send)
            /\ SameKey(leg[s].out, phone[s].recv)
            /\ leg[s].port = phone[s].port

InfoSent == [s \in Sides |-> IF sent[s] = <<>> THEN NoInfo ELSE Parse(sent[s])]
KeysIn(info) == {c.key : c \in ToSet(info.cryptos)}

(* Whatever a phone sends, what the PBX sends on names the relay and no    *)
(* phone: its address (or an old-style hold's), its port, the PBX's own    *)
(* key and not the one the other phone has; only the first audio stream is *)
(* left enabled.  In particular it parses, so a hold can be answered.      *)
SentNamesRelay ==
    LET infos == InfoSent IN
    /\ \A s \in Sides : sent[s] # <<>> =>
           LET info == infos[s] IN
           /\ info.ok /\ info.addr \in {Pbx, Zero} /\ info.port \in {0, RelayPort(s)}
           /\ KeysIn(info) \subseteq 1..made
           /\ \A i \in Lines(sent[s], "m") : sent[s][i].port # 0 => i = Audio(sent[s])
    /\ (\A s \in Sides : sent[s] # <<>>) =>
           KeysIn(infos["caller"]) \cap KeysIn(infos["callee"]) = {}

(* README.md, "Encryption"; extensions.go:22: a phone that must use TLS    *)
(* has encrypted audio.  Refuted: a plain re-offer or answer is accepted.  *)
TlsMeansSrtp ==
    stage = "up" => \A s \in tlsOnly : leg[s].in # None /\ leg[s].out # None
=============================================================================
