----------------------------- MODULE CallEngine -----------------------------
(***************************************************************************)
(* The life of extension-to-extension calls in internal/b2bua: INVITE,     *)
(* parallel ringing of every phone the callee registered, early media, the *)
(* race between answers, CANCEL, ring timeout and shutdown, hangup from    *)
(* any side, the call record, and the RTP ports each call holds.           *)
(*                                                                         *)
(* Every call has a goroutine running HandleInvite -> setup -> connect     *)
(* (pc), one goroutine per rung phone (fork), and whoever first calls      *)
(* hangup (end).  sipgo, the SIP library, is external: what it may return  *)
(* is a nondeterministic choice.                                           *)
(***************************************************************************)
EXTENDS Naturals, Sequences, FiniteSets

CONSTANTS
    Calls,      \* INVITEs the PBX will see, one Call struct each
    Phones,     \* phones the callee may have registered
    TLSPhones,  \* those registered over SIP/TLS
    Announcing, \* those that send provisional responses (180, 183)
    Pairs,      \* RTP/RTCP port pairs of the PortPool
    Invites,    \* the INVITEs, as facts about caller, callee and SDP
    None        \* no phone

InviteFacts ==
    [auth : BOOLEAN,        \* Authorize accepted the caller
     callerTLS : BOOLEAN,   \* caller.RequireTLS
     overTLS : BOOLEAN,     \* the INVITE came over TLS
     target : {"extension", "room", "unknown", "dberror"},
     enabled : BOOLEAN,     \* callee.Enabled
     self : BOOLEAN,        \* callee.Number = caller.Number
     sdp : {"unusable", "plain", "srtp"},
     dbok : BOOLEAN,        \* ListRegistrations succeeded
     calleeTLS : BOOLEAN,   \* callee.RequireTLS
     regs : SUBSET Phones]

ASSUME PhonesAssumption ==
    TLSPhones \subseteq Phones /\ Announcing \subseteq Phones /\ None \notin Phones
ASSUME InvitesAssumption == Invites \subseteq InviteFacts

VARIABLES
    pc,         \* where the call's INVITE goroutine is
    verdict,    \* what fail() answers and records
    todo,       \* registrations setup has not tried yet
    fork,       \* per phone: its WaitAnswer goroutine
    results,    \* the results channel
    left,       \* forks whose result was not received yet
    codes,      \* failures received so far
    winner,     \* the phone that won, or None
    ringCtx,    \* live, or why it is done
    callerGone, \* c.a.Context() is done: CANCEL arrived
    lateCancel, \* history: it arrived after setup had decided, before the response
    ringing, earlyMedia,  \* 180 sent / a 183 with SDP was claimed
    remote,     \* phone whose SDP address the callee leg uses
    keyed,      \* phone whose SRTP parameters the callee leg uses
    phone,      \* per phone: what it believes about this call
    end, endBy, \* progress of hangup's endOnce, and who hung up
    active,     \* e.calls / e.byA / e.byB
    ports, free,\* port pairs of each call's relay, and the pool
    saved,      \* per call: its SaveCalls, in order, and whether they worked
    stage,      \* Serve: run, HangupAll, sockets closing, store closed
    snapshot    \* the calls HangupAll found

callVars  == <<pc, verdict>>
setupVars == <<todo, fork, results, left, codes, winner, ringCtx, phone>>
mediaVars == <<ringing, earlyMedia, remote, keyed>>
endVars   == <<end, endBy, active>>
poolVars  == <<ports, free>>
cancelVars == <<callerGone, lateCancel>>
downVars  == <<stage, snapshot>>
vars == <<callVars, setupVars, cancelVars, mediaVars, endVars, poolVars,
          saved, downVars>>

Outcomes == {"ok", "busy", "decline", "other", "ctx"}
Verdict(code, status, by) == [code |-> code, status |-> status, by |-> by]
NoVerdict == Verdict(0, "none", "none")

Sides == {"none", "system", "caller", "callee"}
Statuses == {"none", "unavailable", "failed", "cancelled", "no-answer", "busy",
             "answered"}

CallTypes ==
    /\ pc \in [Calls -> {"idle", "refused", "conference", "read", "relay",
                         "relay2", "offer", "setup", "ring", "connect", "key",
                         "answer", "respond", "close", "record", "done"}]
    /\ verdict \in [Calls -> [code : {0, 480, 486, 487, 488, 500, 503, 603},
                              status : Statuses, by : Sides]]
ForkTypes ==
    fork \in [Calls -> [Phones -> {"none", "wait", "claimed", "keying",
                                   "ringback", "done"}]]
PhoneTypes ==
    phone \in [Calls -> [Phones -> {"idle", "ringing", "answered", "up", "bye"}]]
ForkResults == [phone : Phones, outcome : Outcomes]
ResultTypes ==
    /\ results \in [Calls -> Seq(ForkResults)]
    /\ left \in [Calls -> Nat]
SetupTypes ==
    /\ todo \in [Calls -> SUBSET Phones]
    /\ codes \in [Calls -> SUBSET Outcomes]
    /\ winner \in [Calls -> Phones \cup {None}]
    /\ ringCtx \in [Calls -> {"none", "live", "deadline", "cancelled", "stopped"}]
MediaTypes ==
    /\ callerGone \in [Calls -> BOOLEAN] /\ lateCancel \in [Calls -> BOOLEAN]
    /\ ringing \in [Calls -> BOOLEAN] /\ earlyMedia \in [Calls -> BOOLEAN]
    /\ remote \in [Calls -> Phones \cup {None}]
    /\ keyed \in [Calls -> Phones \cup {None}]
EndTypes ==
    /\ end \in [Calls -> {"no", "bye", "close", "record", "forget", "over"}]
    /\ endBy \in [Calls -> Sides]
    /\ active \in SUBSET Calls
PoolTypes == ports \in [Calls -> SUBSET Pairs] /\ free \in SUBSET Pairs
Saves == [status : Statuses, by : Sides, ok : BOOLEAN]
SavedTypes == saved \in [Calls -> Seq(Saves)]
DownTypes == stage \in {"run", "hangup", "closing", "stopped"} /\ snapshot \in SUBSET Calls

TypeOK ==
    /\ CallTypes /\ SetupTypes /\ ForkTypes /\ PhoneTypes /\ ResultTypes
    /\ MediaTypes /\ EndTypes /\ PoolTypes /\ SavedTypes /\ DownTypes

Init ==
    /\ pc = [c \in Calls |-> "idle"] /\ verdict = [c \in Calls |-> NoVerdict]
    /\ todo = [c \in Calls |-> {}]
    /\ fork = [c \in Calls |-> [p \in Phones |-> "none"]]
    /\ results = [c \in Calls |-> <<>>] /\ left = [c \in Calls |-> 0]
    /\ codes = [c \in Calls |-> {}] /\ winner = [c \in Calls |-> None]
    /\ ringCtx = [c \in Calls |-> "none"]
    /\ callerGone = [c \in Calls |-> FALSE] /\ lateCancel = [c \in Calls |-> FALSE]
    /\ ringing = [c \in Calls |-> FALSE] /\ earlyMedia = [c \in Calls |-> FALSE]
    /\ remote = [c \in Calls |-> None] /\ keyed = [c \in Calls |-> None]
    /\ phone = [c \in Calls |-> [p \in Phones |-> "idle"]]
    /\ end = [c \in Calls |-> "no"] /\ endBy = [c \in Calls |-> "none"]
    /\ active = {}
    /\ ports = [c \in Calls |-> {}] /\ free = Pairs
    /\ saved = [c \in Calls |-> <<>>]
    /\ stage = "run" /\ snapshot = {}

Receiving == stage \in {"run", "hangup"}   \* the SIP sockets are still open

Go(c, to) == pc' = [pc EXCEPT ![c] = to]

(* Leave the INVITE goroutine through fail (or through record alone). *)
Fail(c, to, code, status, by) ==
    /\ Go(c, to)
    /\ verdict' = [verdict EXCEPT ![c] = Verdict(code, status, by)]

-----------------------------------------------------------------------------
(***************************************************************************)
(* HandleInvite: the checks, in the order of the code, each with the       *)
(* response it sends when it fails.  The first that fails decides.         *)
(***************************************************************************)
Checks(inv) ==
    LET ext == inv.target = "extension" IN
    << <<~inv.auth, 401>>,
       <<inv.callerTLS /\ ~inv.overTLS, 403>>,
       <<inv.target = "unknown", 404>>,
       <<inv.target = "dberror", 500>>,
       <<ext /\ ~inv.enabled, 480>>,
       <<ext /\ inv.self, 486>>,
       <<ext /\ inv.sdp = "unusable", 488>>,
       <<ext /\ inv.callerTLS /\ inv.sdp # "srtp", 488>>,
       <<ext /\ ~inv.dbok, 500>> >>

Refusals(inv) ==
    LET Fails(check) == check[1] IN SelectSeq(Checks(inv), Fails)

(* Registrations worth ringing: a callee that requires TLS is only rung at *)
(* phones registered over TLS.                                             *)
Kept(inv) == IF inv.calleeTLS THEN inv.regs \cap TLSPhones ELSE inv.regs

Admit(c, inv) ==
    IF Refusals(inv) # <<>> THEN
        Go(c, "refused") /\ UNCHANGED <<verdict, todo>>
    ELSE IF inv.target = "room" THEN
        Go(c, "conference") /\ UNCHANGED <<verdict, todo>>
    ELSE IF Kept(inv) = {} THEN
        Fail(c, "record", 480, "unavailable", "system") /\ UNCHANGED todo
    ELSE
        /\ Go(c, "read") /\ UNCHANGED verdict
        /\ todo' = [todo EXCEPT ![c] = Kept(inv)]

HandleInvite(c) ==
    /\ pc[c] = "idle" /\ Receiving
    /\ \E inv \in Invites : Admit(c, inv)
    /\ UNCHANGED <<fork, results, left, codes, winner, ringCtx, phone,
                   cancelVars, mediaVars, endVars, poolVars, saved, downVars>>

(* 100 Trying, then sipgo's ReadInvite; an error is answered but not recorded. *)
ReadInvite(c) ==
    /\ pc[c] = "read"
    /\ Go(c, "relay") \/ Go(c, "refused")
    /\ UNCHANGED <<verdict, setupVars, cancelVars, mediaVars, endVars, poolVars,
                   saved, downVars>>

(* Mutant: the error path of NewRelay forgets the leg it already has. *)
NewRelayFails_KeepsFirstLeg(c) ==
    /\ pc[c] \in {"relay", "relay2"}
    /\ Fail(c, "record", 503, "failed", "system")
    /\ UNCHANGED <<setupVars, cancelVars, mediaVars, endVars, poolVars, saved,
                   downVars>>

(* media.NewRelay: one port pair per leg, taken one after the other.  It   *)
(* fails when no free pair can be bound, and then gives back the first.    *)
NewRelay(c) ==
    /\ pc[c] \in {"relay", "relay2"}
    /\ \E pair \in free :
           /\ free' = free \ {pair}
           /\ ports' = [ports EXCEPT ![c] = @ \cup {pair}]
    /\ Go(c, IF pc[c] = "relay" THEN "relay2" ELSE "offer")
    /\ UNCHANGED <<verdict, setupVars, cancelVars, mediaVars, endVars, saved,
                   downVars>>

ReleasePorts(c) ==
    /\ free' = free \cup ports[c]
    /\ ports' = [ports EXCEPT ![c] = {}]

NewRelayFails(c) ==
    /\ pc[c] \in {"relay", "relay2"}
    /\ ReleasePorts(c)
    /\ Fail(c, "record", 503, "failed", "system")
    /\ UNCHANGED <<setupVars, cancelVars, mediaVars, endVars, saved, downVars>>

(* SetRemote and acceptOffer on the caller's leg (488), then relay.Start   *)
(* and the start of setup, which makes the callee's key (500) and derives  *)
(* ringCtx from the caller's context.                                      *)
AcceptOffer(c) ==
    /\ pc[c] = "offer"
    /\ \/ /\ \E code \in {488, 500} : Fail(c, "respond", code, "failed", "system")
          /\ UNCHANGED ringCtx
       \/ /\ Go(c, "setup") /\ UNCHANGED verdict
          /\ ringCtx' = [ringCtx EXCEPT
                 ![c] = IF callerGone[c] THEN "cancelled" ELSE "live"]
    /\ UNCHANGED <<todo, fork, results, left, codes, winner, phone, cancelVars,
                   mediaVars, endVars, poolVars, saved, downVars>>

-----------------------------------------------------------------------------
(* setup: one INVITE per registration.  A contact that cannot be parsed or *)
(* reached is skipped.                                                     *)
ForkPhone(c, p) ==
    /\ pc[c] = "setup" /\ p \in todo[c]
    /\ todo' = [todo EXCEPT ![c] = @ \ {p}]
    /\ \/ UNCHANGED <<fork, left, phone>>
       \/ /\ fork' = [fork EXCEPT ![c][p] = "wait"]
          /\ left' = [left EXCEPT ![c] = @ + 1]
          /\ phone' = [phone EXCEPT ![c][p] = "ringing"]
    /\ UNCHANGED <<callVars, results, codes, winner, ringCtx, cancelVars,
                   mediaVars, endVars, poolVars, saved, downVars>>

(* stopRinging: the context keeps the first reason it was done for. *)
StopRinging(c) ==
    ringCtx' = [ringCtx EXCEPT ![c] = IF @ = "live" THEN "stopped" ELSE @]

ForksStarted(c) ==
    /\ pc[c] = "setup" /\ todo[c] = {}
    /\ IF left[c] = 0
       THEN Fail(c, "respond", 480, "unavailable", "system") /\ StopRinging(c)
       ELSE Go(c, "ring") /\ UNCHANGED <<verdict, ringCtx>>
    /\ UNCHANGED <<todo, fork, results, left, codes, winner, phone, cancelVars,
                   mediaVars, endVars, poolVars, saved, downVars>>

(* A fork's result goes to the buffered channel; the goroutine is done. *)
Result(c, p, outcome) ==
    /\ fork[c][p] = "wait"
    /\ fork' = [fork EXCEPT ![c][p] = "done"]
    /\ results' = [results EXCEPT ![c] =
           Append(@, [phone |-> p, outcome |-> outcome])]
    /\ phone' = [phone EXCEPT ![c][p] =
           IF outcome = "ok" THEN "answered" ELSE "idle"]
    /\ UNCHANGED <<callVars, todo, left, codes, winner, ringCtx, cancelVars,
                   mediaVars, endVars, poolVars, saved, downVars>>

(* The phone's 2xx: it may overtake the CANCEL that stopRinging provokes. *)
PhoneAnswers(c, p) == Receiving /\ Result(c, p, "ok")
PhoneRefuses(c, p) ==
    Receiving /\ \E outcome \in {"busy", "decline", "other"} : Result(c, p, outcome)
(* Mutant: WaitAnswer given a context that does not end with the caller's. *)
ForkCancelled_IgnoresCaller(c, p) ==
    ringCtx[c] \in {"deadline", "stopped"} /\ Result(c, p, "ctx")

(* WaitAnswer notices that ringCtx is done, CANCELs and returns an error. *)
ForkCancelled(c, p) == ringCtx[c] # "live" /\ Result(c, p, "ctx")

(* onProvisional, run by the fork's goroutine inside WaitAnswer: the first *)
(* 183 with SDP claims earlyMedia; anything else becomes the one 180.      *)
Provisional(c, p) ==
    /\ fork[c][p] = "wait" /\ Receiving /\ p \in Announcing
    /\ \/ /\ ~earlyMedia[c]
          /\ earlyMedia' = [earlyMedia EXCEPT ![c] = TRUE]
          /\ fork' = [fork EXCEPT ![c][p] = "claimed"]
          /\ UNCHANGED ringing
       \/ /\ ~ringing[c]
          /\ ringing' = [ringing EXCEPT ![c] = TRUE]
          /\ UNCHANGED <<fork, earlyMedia>>
    /\ UNCHANGED <<callVars, todo, results, left, codes, winner, ringCtx, phone,
                   cancelVars, remote, keyed, endVars, poolVars, saved, downVars>>

(* earlyMediaAnswer: SetRemote, then acceptAnswer on the callee leg, then  *)
(* the 183; SDP or keys it cannot use fall back to a plain 180.            *)
EarlyMediaAnswer(c, p) ==
    /\ \/ /\ fork[c][p] = "claimed"
          /\ remote' = [remote EXCEPT ![c] = p]
          /\ fork' = [fork EXCEPT ![c][p] = "keying"]
          /\ UNCHANGED <<ringing, keyed>>
       \/ /\ fork[c][p] = "keying"
          /\ keyed' = [keyed EXCEPT ![c] = p]
          /\ fork' = [fork EXCEPT ![c][p] = "wait"]
          /\ UNCHANGED <<ringing, remote>>
       \/ /\ fork[c][p] \in {"claimed", "keying"}
          /\ fork' = [fork EXCEPT ![c][p] = "ringback"]
          /\ UNCHANGED <<ringing, remote, keyed>>
       \/ /\ fork[c][p] = "ringback"
          /\ ringing' = [ringing EXCEPT ![c] = TRUE]
          /\ fork' = [fork EXCEPT ![c][p] = "wait"]
          /\ UNCHANGED <<remote, keyed>>
    /\ UNCHANGED <<callVars, todo, results, left, codes, winner, ringCtx, phone,
                   cancelVars, earlyMedia, endVars, poolVars, saved, downVars>>

(* The ring timer. *)
RingTimeout(c) ==
    /\ ringCtx[c] = "live"
    /\ ringCtx' = [ringCtx EXCEPT ![c] = "deadline"]
    /\ UNCHANGED <<callVars, todo, fork, results, left, codes, winner, phone,
                   cancelVars, mediaVars, endVars, poolVars, saved, downVars>>

(* CANCEL before the final response: sipgo answers 487 and ends the        *)
(* caller's dialog context, hence ringCtx too.  It may still come when     *)
(* setup or connect has decided what fail is to answer.                    *)
Cancel(c) ==
    /\ pc[c] \in {"relay", "relay2", "offer", "setup", "ring", "connect", "key",
                  "answer", "respond"}
    /\ Receiving /\ ~callerGone[c]
    /\ callerGone' = [callerGone EXCEPT ![c] = TRUE]
    /\ lateCancel' = [lateCancel EXCEPT ![c] = pc[c] = "respond"]
    /\ ringCtx' = [ringCtx EXCEPT ![c] = IF @ = "live" THEN "cancelled" ELSE @]
    /\ UNCHANGED <<callVars, todo, fork, results, left, codes, winner, phone,
                   mediaVars, endVars, poolVars, saved, downVars>>

(* One receive from the results channel. *)
Receive(c) ==
    /\ results[c] # <<>>
    /\ results' = [results EXCEPT ![c] = Tail(@)]
    /\ left' = [left EXCEPT ![c] = @ - 1]

(* setup's winner loop. *)
AwaitAnswer(c) ==
    /\ pc[c] = "ring" /\ left[c] > 0 /\ winner[c] = None
    /\ Receive(c)
    /\ LET r == Head(results[c]) IN
       IF r.outcome = "ok"
       THEN /\ winner' = [winner EXCEPT ![c] = r.phone]
            /\ StopRinging(c) /\ Go(c, "connect") /\ UNCHANGED codes
       ELSE /\ codes' = [codes EXCEPT ![c] = @ \cup {r.outcome}]
            /\ UNCHANGED <<winner, ringCtx, pc>>
    /\ UNCHANGED <<verdict, todo, fork, phone, cancelVars, mediaVars, endVars,
                   poolVars, saved, downVars>>

(* Mutant: the ring timeout is looked at before the caller's context. *)
NoAnswerVerdict_DeadlineFirst(c) ==
    IF ringCtx[c] = "deadline" THEN Verdict(480, "no-answer", "system")
    ELSE IF callerGone[c] THEN Verdict(487, "cancelled", "caller")
    ELSE IF "busy" \in codes[c] THEN Verdict(486, "busy", "callee")
    ELSE IF "decline" \in codes[c] THEN Verdict(603, "busy", "callee")
    ELSE Verdict(480, "unavailable", "system")

(* Every phone declined, failed or was cancelled. *)
NoAnswerVerdict(c) ==
    IF callerGone[c] THEN Verdict(487, "cancelled", "caller")
    ELSE IF ringCtx[c] = "deadline" THEN Verdict(480, "no-answer", "system")
    ELSE IF "busy" \in codes[c] THEN Verdict(486, "busy", "callee")
    ELSE IF "decline" \in codes[c] THEN Verdict(603, "busy", "callee")
    ELSE Verdict(480, "unavailable", "system")

NobodyAnswered(c) ==
    /\ pc[c] = "ring" /\ left[c] = 0
    /\ Go(c, "respond") /\ StopRinging(c)
    /\ verdict' = [verdict EXCEPT ![c] = NoAnswerVerdict(c)]
    /\ UNCHANGED <<todo, fork, results, left, codes, winner, phone, cancelVars,
                   mediaVars, endVars, poolVars, saved, downVars>>

(* Mutant: late answers are taken from the channel but not hung up. *)
DropLateAnswer_NoBye(c) ==
    /\ winner[c] # None /\ left[c] > 0
    /\ Receive(c)
    /\ UNCHANGED <<callVars, todo, fork, codes, winner, ringCtx, phone, cancelVars,
                   mediaVars, endVars, poolVars, saved, downVars>>

(* dropLateAnswers: ACK and BYE every phone that answered after the winner. *)
DropLateAnswer(c) ==
    /\ winner[c] # None /\ left[c] > 0
    /\ Receive(c)
    /\ LET r == Head(results[c]) IN
       phone' = IF r.outcome = "ok"
                THEN [phone EXCEPT ![c][r.phone] = "bye"] ELSE phone
    /\ UNCHANGED <<callVars, todo, fork, codes, winner, ringCtx, cancelVars,
                   mediaVars, endVars, poolVars, saved, downVars>>

-----------------------------------------------------------------------------
(* connect: ACK the winner and use its SDP; unusable SDP means BYE and 488. *)
ConnectFails(c) ==
    /\ phone' = [phone EXCEPT ![c][winner[c]] = "bye"]
    /\ Fail(c, "respond", 488, "failed", "system")
    /\ UNCHANGED <<mediaVars, active>>

Connect(c) ==
    /\ pc[c] = "connect"
    /\ \/ ConnectFails(c)
       \/ /\ phone' = [phone EXCEPT ![c][winner[c]] = "up"]
          /\ remote' = [remote EXCEPT ![c] = winner[c]]
          /\ Go(c, "key")
          /\ UNCHANGED <<verdict, ringing, earlyMedia, keyed, active>>
    /\ UNCHANGED <<todo, fork, results, left, codes, winner, ringCtx, cancelVars,
                   end, endBy, poolVars, saved, downVars>>

(* acceptAnswer, then register: from here on the call can be found. *)
ConnectKeys(c) ==
    /\ pc[c] = "key"
    /\ \/ ConnectFails(c)
       \/ /\ keyed' = [keyed EXCEPT ![c] = winner[c]]
          /\ active' = active \cup {c}
          /\ Go(c, "answer")
          /\ UNCHANGED <<verdict, phone, ringing, earlyMedia, remote>>
    /\ UNCHANGED <<todo, fork, results, left, codes, winner, ringCtx, cancelVars,
                   end, endBy, poolVars, saved, downVars>>

(* The caller's ACK, matched by HandleAck while the call is registered,    *)
(* lets Respond(200) return.                                               *)
HandleAck(c) ==
    /\ pc[c] = "answer" /\ Receiving /\ c \in active /\ ~callerGone[c]
    /\ Go(c, "done")
    /\ UNCHANGED <<verdict, setupVars, cancelVars, mediaVars, endVars, poolVars,
                   saved, downVars>>

(* Mutant: hangup without endOnce. *)
BeginHangup_NoOnce(c, by) ==
    /\ end' = [end EXCEPT ![c] = "bye"]
    /\ endBy' = [endBy EXCEPT ![c] = by]

(* hangup's endOnce: only the first caller's side is remembered; the others *)
(* wait until it is through.                                                *)
BeginHangup(c, by) ==
    IF end[c] = "no"
    THEN /\ end' = [end EXCEPT ![c] = "bye"]
         /\ endBy' = [endBy EXCEPT ![c] = by]
    ELSE UNCHANGED <<end, endBy>>

(* Respond(200) failed: no ACK, or the caller is gone. *)
AnswerLost(c) ==
    /\ pc[c] = "answer"
    /\ BeginHangup(c, "system")
    /\ Go(c, "done")
    /\ UNCHANGED <<verdict, setupVars, cancelVars, mediaVars, active, poolVars,
                   saved, downVars>>

HandleBye(c, side) ==
    /\ c \in active /\ Receiving /\ end[c] = "no"
    /\ BeginHangup(c, side)
    /\ phone' = IF side = "callee"
                THEN [phone EXCEPT ![c][winner[c]] = "bye"] ELSE phone
    /\ UNCHANGED <<callVars, todo, fork, results, left, codes, winner, ringCtx,
                   cancelVars, mediaVars, active, poolVars, saved, downVars>>

(* Monitor: no media for MediaTimeout. *)
Monitor(c) ==
    /\ c \in active /\ stage = "run" /\ end[c] = "no"
    /\ BeginHangup(c, "system")
    /\ UNCHANGED <<callVars, setupVars, cancelVars, mediaVars, active, poolVars,
                   saved, downVars>>

(* HangupAll's goroutine for one call of its snapshot. *)
HangupAllOne(c) ==
    /\ stage = "hangup" /\ c \in snapshot /\ end[c] = "no"
    /\ BeginHangup(c, "system")
    /\ UNCHANGED <<callVars, setupVars, cancelVars, mediaVars, active, poolVars,
                   saved, downVars>>

HangupByes(c) ==
    /\ end[c] = "bye"
    /\ end' = [end EXCEPT ![c] = "close"]
    /\ phone' = IF endBy[c] # "callee"
                THEN [phone EXCEPT ![c][winner[c]] = "bye"] ELSE phone
    /\ UNCHANGED <<callVars, todo, fork, results, left, codes, winner, ringCtx,
                   cancelVars, mediaVars, endBy, active, poolVars, saved, downVars>>

(* Mutant: the call is unregistered before it is recorded. *)
HangupClose_Unregisters(c) ==
    /\ end[c] = "close"
    /\ end' = [end EXCEPT ![c] = "record"]
    /\ ReleasePorts(c)
    /\ active' = active \ {c}
    /\ UNCHANGED <<callVars, setupVars, cancelVars, mediaVars, endBy, saved, downVars>>

HangupClose(c) ==
    /\ end[c] = "close"
    /\ end' = [end EXCEPT ![c] = "record"]
    /\ ReleasePorts(c)
    /\ UNCHANGED <<callVars, setupVars, cancelVars, mediaVars, endBy, active,
                   saved, downVars>>

(* record: one SaveCall; its error is only logged, and the row is lost. *)
Save(c, status, by) ==
    \E ok \in BOOLEAN :
        saved' = [saved EXCEPT
            ![c] = Append(@, [status |-> status, by |-> by, ok |-> ok])]

HangupRecord(c) ==
    /\ end[c] = "record"
    /\ end' = [end EXCEPT ![c] = "forget"]
    /\ Save(c, "answered", endBy[c])
    /\ UNCHANGED <<callVars, setupVars, cancelVars, mediaVars, endBy, active,
                   poolVars, downVars>>

Unregister(c) ==
    /\ end[c] = "forget"
    /\ end' = [end EXCEPT ![c] = "over"]
    /\ active' = active \ {c}
    /\ UNCHANGED <<callVars, setupVars, cancelVars, mediaVars, endBy, poolVars,
                   saved, downVars>>

(* fail: the final response (an error is only logged: a late CANCEL was    *)
(* answered with 487 already), relay.Close, then the record.               *)
FailRespond(c) ==
    /\ pc[c] = "respond"
    /\ Go(c, "close")
    /\ UNCHANGED <<verdict, setupVars, cancelVars, mediaVars, endVars, poolVars,
                   saved, downVars>>

FailClose(c) ==
    /\ pc[c] = "close"
    /\ ReleasePorts(c)
    /\ Go(c, "record")
    /\ UNCHANGED <<verdict, setupVars, cancelVars, mediaVars, endVars, saved,
                   downVars>>

FailRecord(c) ==
    /\ pc[c] = "record"
    /\ Save(c, verdict[c].status, verdict[c].by)
    /\ Go(c, "done")
    /\ UNCHANGED <<verdict, setupVars, cancelVars, mediaVars, endVars, poolVars,
                   downVars>>

-----------------------------------------------------------------------------
(* Serve's end: HangupAll takes a snapshot of the registered calls and     *)
(* waits for their hangups; then the sockets close, and main closes the    *)
(* store and exits, which ends every goroutine.                            *)
HangupAll ==
    /\ stage = "run"
    /\ stage' = "hangup" /\ snapshot' = active
    /\ UNCHANGED <<callVars, setupVars, cancelVars, mediaVars, endVars, poolVars,
                   saved>>

(* Mutant: HangupAll does not wait for the hangups it started. *)
HangupAllWaited_NoWait ==
    /\ stage = "hangup" /\ \A c \in snapshot : end[c] # "no"
    /\ stage' = "closing"
    /\ UNCHANGED <<callVars, setupVars, cancelVars, mediaVars, endVars, poolVars,
                   saved, snapshot>>

(* Mutant: HangupAll waits until no call at all is registered. *)
HangupAllWaited_ForEveryone ==
    /\ stage = "hangup" /\ active = {}
    /\ stage' = "closing"
    /\ UNCHANGED <<callVars, setupVars, cancelVars, mediaVars, endVars, poolVars,
                   saved, snapshot>>

HangupAllWaited ==
    /\ stage = "hangup" /\ \A c \in snapshot : end[c] = "over"
    /\ stage' = "closing"
    /\ UNCHANGED <<callVars, setupVars, cancelVars, mediaVars, endVars, poolVars,
                   saved, snapshot>>

CloseStore ==
    /\ stage = "closing"
    /\ stage' = "stopped"
    /\ UNCHANGED <<callVars, setupVars, cancelVars, mediaVars, endVars, poolVars,
                   saved, snapshot>>

Stopped == stage = "stopped" /\ UNCHANGED vars

-----------------------------------------------------------------------------
(* Steps of the call's INVITE goroutine. *)
InviteStep(c) ==
    \/ ReadInvite(c) \/ NewRelay(c) \/ NewRelayFails(c) \/ AcceptOffer(c)
    \/ \E p \in Phones : ForkPhone(c, p)
    \/ ForksStarted(c) \/ AwaitAnswer(c) \/ NobodyAnswered(c)
    \/ Connect(c) \/ ConnectKeys(c) \/ AnswerLost(c)
    \/ FailRespond(c) \/ FailClose(c) \/ FailRecord(c)

(* Steps of whoever runs hangup's endOnce. *)
HangupStep(c) ==
    HangupByes(c) \/ HangupClose(c) \/ HangupRecord(c) \/ Unregister(c)

ForkStep(c, p) == EarlyMediaAnswer(c, p) \/ ForkCancelled(c, p)

(* What phones do, or fail to do. *)
PhoneStep(c) ==
    \/ HandleInvite(c) \/ Cancel(c) \/ HandleAck(c) \/ Monitor(c)
    \/ \E side \in {"caller", "callee"} : HandleBye(c, side)
    \/ \E p \in Phones :
           PhoneAnswers(c, p) \/ PhoneRefuses(c, p) \/ Provisional(c, p)

CallStep(c) ==
    \/ InviteStep(c) \/ HangupStep(c) \/ PhoneStep(c)
    \/ RingTimeout(c) \/ DropLateAnswer(c) \/ HangupAllOne(c)
    \/ \E p \in Phones : ForkStep(c, p)

Next ==
    \/ stage # "stopped" /\ \E c \in Calls : CallStep(c)
    \/ HangupAll \/ HangupAllWaited \/ CloseStore \/ Stopped

(* The program's goroutines and timers run; phones and operators need not. *)
Fairness ==
    /\ \A c \in Calls :
           /\ WF_vars(stage # "stopped" /\ InviteStep(c))
           /\ WF_vars(stage # "stopped" /\ HangupStep(c))
           /\ WF_vars(stage # "stopped" /\ RingTimeout(c))
           /\ WF_vars(stage # "stopped" /\ DropLateAnswer(c))
           /\ WF_vars(stage # "stopped" /\ HangupAllOne(c))
           /\ \A p \in Phones : WF_vars(stage # "stopped" /\ ForkStep(c, p))
    /\ WF_vars(HangupAllWaited) /\ WF_vars(CloseStore)

Spec == Init /\ [][Next]_vars
FairSpec == Spec /\ Fairness

-----------------------------------------------------------------------------
(* A call whose INVITE goroutine left through fail or record. *)
Failed(c) == verdict[c].code # 0
(* A call that was answered and registered. *)
Established(c) == pc[c] \in {"answer", "done"} /\ ~Failed(c)

(***************************************************************************)
(* Whatever order answers, CANCEL, BYEs, timeouts and shutdown come in, a  *)
(* call is given to SaveCall exactly once when fail or hangup got past     *)
(* record: the failure paths of setup and connect, the lost 200 and the    *)
(* concurrent hangups never add up to two records, none ends without one,  *)
(* and a SaveCall that failed is not tried again.                          *)
(***************************************************************************)
ExactlyOneRecord ==
    \A c \in Calls :
        Len(saved[c]) = IF \/ pc[c] = "done" /\ Failed(c)
                           \/ end[c] \in {"forget", "over"}
                        THEN 1 ELSE 0

(* What a user of the call log would like, checked and refuted: the row of *)
(* a call is in the store once the call is over.                           *)
NoRowLost == \A c \in Calls : \A i \in 1..Len(saved[c]) : saved[c][i].ok

(***************************************************************************)
(* Port pairs are conserved: no pair belongs to two calls or to a call and *)
(* the pool, none is lost, and a recorded call has given its pairs back    *)
(* (NewRelay, fail, hangup and Close together).                            *)
(***************************************************************************)
PortsConserved ==
    /\ free \cup UNION {ports[c] : c \in Calls} = Pairs
    /\ \A c \in Calls :
           /\ ports[c] \cap free = {}
           /\ \A d \in Calls \ {c} : ports[c] \cap ports[d] = {}
           /\ saved[c] # <<>> => ports[c] = {}

(* An answered call can be found by BYE, Monitor and HangupAll until its   *)
(* record is written ("Unregister last", hangup).                          *)
FindableUntilRecorded ==
    \A c \in Calls : Established(c) /\ c \notin active => Len(saved[c]) = 1

(* HangupAll only returns, and the store is only closed, when every call   *)
(* it found has its record.                                                *)
SnapshotRecorded ==
    stage \in {"closing", "stopped"} =>
        \A c \in snapshot : Len(saved[c]) = 1

(***************************************************************************)
(* The record tells what happened (setup's switch, connect): cancelled     *)
(* only if the caller's CANCEL was there when setup decided; no answer     *)
(* only after the ring timeout and busy only if a phone said so, and both  *)
(* only if no CANCEL was there then, so that a caller who gave up while    *)
(* phones rang is never taken for one that was let down; and answered only *)
(* for a call that a phone answered.  A CANCEL between the decision and    *)
(* the response leaves the record as decided.                              *)
(***************************************************************************)
RecordTruthful ==
    \A c \in Calls : \A i \in 1..Len(saved[c]) :
        LET status == saved[c][i].status
            gaveUp == callerGone[c] /\ ~lateCancel[c]
        IN
        /\ status = "cancelled" => gaveUp
        /\ status = "no-answer" => ringCtx[c] = "deadline" /\ ~gaveUp
        /\ status = "busy" => codes[c] \cap {"busy", "decline"} # {} /\ ~gaveUp
        /\ status = "answered" <=> Established(c)
        /\ status \in {"cancelled", "no-answer", "busy", "unavailable"} =>
               winner[c] = None

(***************************************************************************)
(* The stronger claim, checked and refuted: a caller whose CANCEL was      *)
(* accepted, and answered 487, is never recorded as unanswered or busy.    *)
(* fail's own response comes after setup's decision (fail, setup).         *)
(***************************************************************************)
CancelRecorded ==
    \A c \in Calls : \A i \in 1..Len(saved[c]) :
        saved[c][i].status \in {"no-answer", "busy"} => ~callerGone[c]

(***************************************************************************)
(* Once a call is recorded and every fork's result has been taken, no      *)
(* phone is left believing that it rings or talks: the winner and every    *)
(* late answer got their BYE (setup, dropLateAnswers, hangup).             *)
(***************************************************************************)
NoOrphanPhone ==
    \A c \in Calls :
        saved[c] # <<>> /\ left[c] = 0 =>
            \A p \in Phones : phone[c][p] \in {"idle", "bye"}

(* An INVITE that was read is settled: answered, or failed and recorded    *)
(* (the ring timeout and the cancelled forks guarantee it); and every      *)
(* phone that answered is connected or told to hang up.                    *)
CallsSettle ==
    \A c \in Calls :
        /\ pc[c] = "read" ~> pc[c] \in {"refused", "done"} \/ stage = "stopped"
        /\ \A p \in Phones :
               phone[c][p] = "answered" ~> phone[c][p] \in {"up", "bye"}
                                           \/ stage = "stopped"

(* Shutdown never waits forever for the calls it hangs up. *)
ShutdownFinishes == stage = "hangup" ~> stage = "stopped"

(***************************************************************************)
(* What hangup's comment promises: shutdown never closes the store under   *)
(* an answered call that is being recorded.  Checked, and refuted: a call  *)
(* that connect registers after HangupAll took its snapshot is not waited  *)
(* for.                                                                    *)
(***************************************************************************)
NoCloseUnderRecord ==
    stage = "stopped" => \A c \in Calls : end[c] # "record"

(***************************************************************************)
(* What setup's comment promises of the callee's media: which phone's keys *)
(* (and address) apply is settled on answer.  Checked, and refuted.        *)
(***************************************************************************)
SettledOnAnswer ==
    \A c \in active : remote[c] = winner[c] /\ keyed[c] = winner[c]
=============================================================================
