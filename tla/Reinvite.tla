------------------------------ MODULE Reinvite ------------------------------
(***************************************************************************)
(* In-dialog requests of one established call: Call.forward and handleHold *)
(* (internal/b2bua), Relay.Hold, Resume and Close with the hold-music      *)
(* players (internal/media).  Each request runs in a goroutine of its own, *)
(* concurrently with the hangup that closes the relay and unregisters the  *)
(* call.                                                                   *)
(*                                                                         *)
(* An SDP body is its origin's version and its direction; addresses and    *)
(* keys are left out.                                                      *)
(***************************************************************************)
EXTENDS Naturals, FiniteSets

CONSTANTS
    Reqs,    \* goroutines that handle in-dialog requests
    MaxVer,  \* per side: how many SDPs that phone makes
    Offers,  \* what requests carry: a direction, "none" (no SDP) or "bad"
    Music    \* whether hold music is configured

Sides == {"caller", "callee"}
Other(s) == IF s = "caller" THEN "callee" ELSE "caller"

Dirs == {"sendrecv", "sendonly", "recvonly", "inactive", "zero"}
(* "zero" is the old-style hold, c=0.0.0.0. *)
ASSUME OffersAssumption ==
    Offers \subseteq Dirs \cup {"none", "bad"} /\ MaxVer \in [Sides -> Nat] /\ Music \in BOOLEAN

OnHold(dir) == dir \in {"sendonly", "inactive", "zero"}
AnswerDirection(dir) ==
    CASE dir = "sendonly" -> "recvonly"
      [] dir = "recvonly" -> "sendonly"
      [] dir \in {"inactive", "zero"} -> "inactive"
      [] OTHER -> "sendrecv"

VARIABLES
    at,       \* per request goroutine: where it is
    req,      \* per request goroutine: [from, invite, dir, ver]
    reinvite, \* Call.reinvite
    holdBy,   \* Call.holdBy
    sdpTo,    \* Call.sdpTo: last SDP sent to each side, as the Call knows it
    seen,     \* last SDP each phone really received
    ver,      \* each phone's own o= version
    blocked,  \* Relay.blocked
    players,  \* Relay.players, per side: a player is installed
    playing,  \* players whose goroutine runs: side -> number
    hang      \* progress of hangup

callVars  == <<reinvite, holdBy, sdpTo>>
relayVars == <<blocked, players, playing>>
reinviteVars == <<at, req, callVars, relayVars, seen, ver, hang>>

NoReq == [from |-> "caller", invite |-> FALSE, dir |-> "none", ver |-> 0]
SDP == [ver : Nat, dir : Dirs]

ReinviteTypeOK ==
    /\ at \in [Reqs -> {"idle", "body", "do", "stopmusic", "unblock", "block",
                        "play", "reply"}]
    /\ req \in [Reqs -> [from : Sides, invite : BOOLEAN,
                         dir : Dirs \cup {"none", "bad"}, ver : Nat]]
    /\ reinvite \in BOOLEAN
    /\ holdBy \in [Sides -> BOOLEAN]
    /\ sdpTo \in [Sides -> SDP] /\ seen \in [Sides -> SDP]
    /\ ver \in [Sides -> Nat]
    /\ blocked \in [Sides -> BOOLEAN] /\ players \in [Sides -> BOOLEAN]
    /\ playing \in [Sides -> Nat]
    /\ hang \in {"no", "stopmusic", "unblock", "forget", "over"}

ReinviteInit ==
    /\ at = [r \in Reqs |-> "idle"] /\ req = [r \in Reqs |-> NoReq]
    /\ reinvite = FALSE /\ holdBy = [s \in Sides |-> FALSE]
    /\ sdpTo = [s \in Sides |-> [ver |-> 1, dir |-> "sendrecv"]]
    /\ seen = sdpTo
    /\ ver = [s \in Sides |-> 1]
    /\ blocked = [s \in Sides |-> FALSE] /\ players = [s \in Sides |-> FALSE]
    /\ playing = [s \in Sides |-> 0]
    /\ hang = "no"

-----------------------------------------------------------------------------
GoOn(r, to) == at' = [at EXCEPT ![r] = to]

(* The deferred reset of reinvite runs when an INVITE's goroutine returns. *)
Return(r) ==
    /\ GoOn(r, "idle")
    /\ req' = [req EXCEPT ![r] = NoReq]
    /\ reinvite' = IF req[r].invite THEN FALSE ELSE reinvite

(* A phone receives an SDP body. *)
Deliver(s, sdp) == seen' = [seen EXCEPT ![s] = sdp]

(* A request comes in while the call is registered.  A second INVITE while *)
(* one is pending gets 491 and changes nothing.  dir "none" is a request   *)
(* without SDP, "bad" one whose SDP or keys cannot be used.                *)
Arrive(r, from, invite, dir) ==
    /\ at[r] = "idle" /\ hang # "over"
    /\ invite => ~reinvite
    /\ reinvite' = (reinvite \/ invite)
    /\ dir \in Dirs => ver[from] < MaxVer[from]
    /\ ver' = [ver EXCEPT ![from] = IF dir \in Dirs THEN @ + 1 ELSE @]
    /\ req' = [req EXCEPT ![r] =
           [from |-> from, invite |-> invite, dir |-> dir, ver |-> ver'[from]]]
    /\ GoOn(r, "body")
    /\ UNCHANGED <<holdBy, sdpTo, relayVars, seen, hang>>

(* Offerless re-INVITE: answered with the SDP the phone is taken to have. *)
Refresh(r) ==
    LET from == req[r].from IN
    /\ at[r] = "body" /\ req[r].invite /\ req[r].dir = "none"
    /\ Deliver(from, sdpTo[from])
    /\ Return(r)
    /\ UNCHANGED <<holdBy, sdpTo, relayVars, ver, hang>>

(* Mutant: the early return on unusable SDP forgets the reset. *)
Refuse_KeepsFlag(r) ==
    /\ at[r] = "body" /\ req[r].dir = "bad"
    /\ GoOn(r, "idle") /\ req' = [req EXCEPT ![r] = NoReq]
    /\ UNCHANGED <<callVars, relayVars, seen, ver, hang>>

(* Unusable SDP: 488. *)
Refuse(r) ==
    /\ at[r] = "body" /\ req[r].dir = "bad"
    /\ Return(r)
    /\ UNCHANGED <<holdBy, sdpTo, relayVars, seen, ver, hang>>

IsHold(r) ==
    /\ req[r].invite /\ req[r].dir \in Dirs
    /\ OnHold(req[r].dir) \/ holdBy[req[r].from]

(* Everything else goes to the other phone, SDP rewritten. *)
Forward(r) ==
    LET to == Other(req[r].from)
        body == [ver |-> req[r].ver, dir |-> req[r].dir] IN
    /\ at[r] = "body" /\ ~IsHold(r) /\ req[r].dir # "bad"
    /\ ~(req[r].invite /\ req[r].dir = "none")
    /\ IF req[r].dir \in Dirs
       THEN /\ Deliver(to, body)
            /\ sdpTo' = IF req[r].invite THEN [sdpTo EXCEPT ![to] = body] ELSE sdpTo
       ELSE UNCHANGED <<seen, sdpTo>>
    /\ GoOn(r, "do")
    /\ UNCHANGED <<req, reinvite, holdBy, relayVars, ver, hang>>

(* The other phone's response: its SDP (with a new version) goes back to   *)
(* the sender.  sdpTo keeps it whatever the response's status is, but the  *)
(* sender takes an answer only from a 2xx.  A timeout or a response without *)
(* SDP changes nothing.                                                    *)
ForwardAnswered(r) ==
    LET from == req[r].from  to == Other(from) IN
    /\ at[r] = "do"
    /\ \/ UNCHANGED <<sdpTo, seen, ver>>
       \/ /\ req[r].dir \in Dirs /\ ver[to] < MaxVer[to]
          /\ ver' = [ver EXCEPT ![to] = @ + 1]
          /\ LET body == [ver |-> ver'[to], dir |-> AnswerDirection(req[r].dir)] IN
             /\ Deliver(from, body) \/ UNCHANGED seen
             /\ sdpTo' = IF req[r].invite THEN [sdpTo EXCEPT ![from] = body] ELSE sdpTo
    /\ Return(r)
    /\ UNCHANGED <<holdBy, relayVars, hang>>

-----------------------------------------------------------------------------
(* handleHold: the PBX answers itself, with the SDP the phone already has, *)
(* its direction set and its version bumped.                               *)
HandleHold(r) ==
    LET from == req[r].from IN
    /\ at[r] = "body" /\ IsHold(r)
    /\ sdpTo' = [sdpTo EXCEPT ![from] =
           [ver |-> @.ver + 1, dir |-> AnswerDirection(req[r].dir)]]
    /\ holdBy' = [holdBy EXCEPT ![from] = OnHold(req[r].dir)]
    /\ GoOn(r, "stopmusic")
    /\ UNCHANGED <<req, reinvite, relayVars, seen, ver, hang>>

(* Mutant: Resume forgets the players without stopping them. *)
StopMusic_Forgets ==
    /\ players' = [s \in Sides |-> FALSE]
    /\ UNCHANGED <<playing, blocked>>

(* Resume: stop the players under the lock (Stop waits for them), then     *)
(* unblock.                                                                *)
StopMusic ==
    /\ playing' = [s \in Sides |-> IF players[s] THEN playing[s] - 1 ELSE playing[s]]
    /\ players' = [s \in Sides |-> FALSE]
    /\ UNCHANGED blocked
Unblock ==
    /\ blocked' = [s \in Sides |-> FALSE]
    /\ UNCHANGED <<players, playing>>

HoldStopMusic(r) ==
    /\ at[r] = "stopmusic"
    /\ StopMusic /\ GoOn(r, "unblock")
    /\ UNCHANGED <<req, callVars, seen, ver, hang>>

Held == \E s \in Sides : holdBy[s]

HoldUnblock(r) ==
    /\ at[r] = "unblock"
    /\ Unblock /\ GoOn(r, IF Held THEN "block" ELSE "reply")
    /\ UNCHANGED <<req, callVars, seen, ver, hang>>

(* Relay.Hold: block both directions, then start music for the side that   *)
(* does not hold: the other one if the sender just resumed.                *)
HoldBlock(r) ==
    /\ at[r] = "block"
    /\ blocked' = [s \in Sides |-> TRUE]
    /\ GoOn(r, "play")
    /\ UNCHANGED <<req, callVars, players, playing, seen, ver, hang>>

(* Mutant: whoever sent the re-INVITE counts as the holder. *)
Holder_Sender(r) == req[r].from
Holder(r) == IF OnHold(req[r].dir) THEN req[r].from ELSE Other(req[r].from)

HoldPlay(r) ==
    LET listener == Other(Holder(r)) IN
    /\ at[r] = "play"
    /\ IF Music /\ ~players[listener]
       THEN /\ players' = [players EXCEPT ![listener] = TRUE]
            /\ playing' = [playing EXCEPT ![listener] = @ + 1]
       ELSE UNCHANGED <<players, playing>>
    /\ GoOn(r, "reply")
    /\ UNCHANGED <<req, callVars, blocked, seen, ver, hang>>

HoldReply(r) ==
    /\ at[r] = "reply"
    /\ Deliver(req[r].from, sdpTo[req[r].from])
    /\ Return(r)
    /\ UNCHANGED <<holdBy, sdpTo, relayVars, ver, hang>>

-----------------------------------------------------------------------------
(* hangup: relay.Close (Resume, then the endpoints, which are not part of  *)
(* this model), then the record and unregister.                            *)
Hangup ==
    /\ hang = "no" /\ hang' = "stopmusic"
    /\ UNCHANGED <<at, req, callVars, relayVars, seen, ver>>
CloseStopMusic ==
    /\ hang = "stopmusic" /\ hang' = "unblock"
    /\ StopMusic
    /\ UNCHANGED <<at, req, callVars, seen, ver>>
CloseUnblock ==
    /\ hang = "unblock" /\ hang' = "forget"
    /\ Unblock
    /\ UNCHANGED <<at, req, callVars, seen, ver>>
Unregister ==
    /\ hang = "forget" /\ hang' = "over"
    /\ UNCHANGED <<at, req, callVars, relayVars, seen, ver>>

HangupStep == CloseStopMusic \/ CloseUnblock \/ Unregister

ReqStep(r) ==
    \/ Refresh(r) \/ Refuse(r) \/ Forward(r) \/ ForwardAnswered(r)
    \/ HandleHold(r) \/ HoldStopMusic(r) \/ HoldUnblock(r) \/ HoldBlock(r)
    \/ HoldPlay(r) \/ HoldReply(r)

Over == hang = "over" /\ (\A r \in Reqs : at[r] = "idle") /\ UNCHANGED reinviteVars

ReinviteNext ==
    \/ \E r \in Reqs :
           \/ \E from \in Sides, invite \in BOOLEAN, dir \in Offers :
                  Arrive(r, from, invite, dir)
           \/ ReqStep(r)
    \/ Hangup \/ HangupStep \/ Over

(* Goroutines run, and Do gives up after 32 seconds. *)
ReinviteFairness == \A r \in Reqs : WF_reinviteVars(ReqStep(r))

ReinviteSpec == ReinviteInit /\ [][ReinviteNext]_reinviteVars
ReinviteFairSpec == ReinviteSpec /\ ReinviteFairness

-----------------------------------------------------------------------------
Reinviting == {r \in Reqs : at[r] # "idle" /\ req[r].invite}

(***************************************************************************)
(* Between re-INVITEs the relay agrees with the phones' holds: held by     *)
(* anyone means that nothing passes and that exactly one side hears music, *)
(* the other side of a phone that holds; held by nobody means that audio   *)
(* passes and nobody hears music (handleHold, Relay.Hold, Relay.Resume).   *)
(***************************************************************************)
HoldAgrees ==
    Reinviting = {} /\ hang = "no" =>
        /\ \A s \in Sides : blocked[s] <=> Held
        /\ \A s \in Sides : players[s] => holdBy[Other(s)]
        /\ Cardinality({s \in Sides : players[s]}) = IF Held /\ Music THEN 1 ELSE 0

(* No side ever has two players, and a player that runs can be stopped by  *)
(* the next Resume: it is the one the relay knows.                         *)
PlayersKnown == \A s \in Sides : playing[s] = IF players[s] THEN 1 ELSE 0

(* Every in-dialog request is answered, and the flag that makes others     *)
(* wait with 491 is given back.                                            *)
RequestsAnswered ==
    /\ \A r \in Reqs : at[r] # "idle" ~> at[r] = "idle"
    /\ reinvite ~> ~reinvite

(***************************************************************************)
(* What Relay.Close's comment promises: it stops what the relay sends.     *)
(* Checked, and refuted: a hold in progress starts its player after Close. *)
(***************************************************************************)
NoMusicAfterClose ==
    hang = "over" /\ Reinviting = {} => \A s \in Sides : playing[s] = 0

(***************************************************************************)
(* What forward's comment on offerless re-INVITEs says: the answer is the  *)
(* SDP the phone already has.  Checked, and refuted: UPDATEs change what   *)
(* the phone has, not sdpTo.                                               *)
(***************************************************************************)
RefreshUnchanged == [][\A r \in Reqs : Refresh(r) => seen' = seen]_reinviteVars

(***************************************************************************)
(* What BumpVersion's comment requires: a changed session description has  *)
(* a newer version.  Checked, and refuted: after a hold answered by the    *)
(* PBX the other phone's own versions lag behind the bumped ones.          *)
(***************************************************************************)
VersionsIncrease ==
    [][\A s \in Sides : seen'[s] # seen[s] => seen'[s].ver > seen[s].ver]_reinviteVars
=============================================================================
