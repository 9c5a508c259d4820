----------------------------- MODULE Conference -----------------------------
(***************************************************************************)
(* Conference calls: joinConference and endConference of internal/b2bua,   *)
(* Join, Leave and the room lifecycle of internal/conference, kicks by the *)
(* mixer, and shutdown.  A leg is one phone's call into a room; its INVITE *)
(* goroutine (pc) joins it while other goroutines (BYE, kick, HangupAll)   *)
(* may already be ending it (end).                                         *)
(*                                                                         *)
(* What a keypad digit does to the PIN is a choice here (see PinEntry);    *)
(* audio and tones are left out.                                           *)
(***************************************************************************)
EXTENDS Naturals, Sequences, FiniteSets

CONSTANTS
    Legs,       \* calls into rooms
    Numbers,    \* room numbers
    PinNumbers, \* the rooms that have a PIN
    Ports,      \* port pairs
    None

(* A room object is named after the leg that created it. *)
RoomObjects == Legs

ASSUME NumbersAssumption == PinNumbers \subseteq Numbers
ASSUME NoneAssumption == None \notin Legs /\ None \notin Ports

VARIABLES
    pc,        \* the leg's INVITE goroutine
    number,    \* the room number the leg dialled
    port,      \* the endpoint's port pair, None before and after
    free,      \* PortPool
    confByA,   \* legs that in-dialog requests find
    rooms,     \* Manager.rooms: number -> room object or None
    parts,     \* members of each room object
    stops,     \* how often each room object's stop channel was closed
    room,      \* Participant.room
    admitted, kicked, left,  \* Participant flags
    timer,     \* kick scheduled by the third wrong PIN
    end,       \* progress of endConference's endOnce
    records,   \* the leg's SaveCalls, in order: whether each one worked
    stage, snapshot, \* Serve and HangupAll, as in CallEngine
    panicked   \* a nil room was dereferenced

legVars  == <<pc, number>>
poolVars == <<port, free>>
roomVars == <<rooms, parts, stops>>
partVars == <<room, admitted, kicked, left, timer>>
downVars == <<stage, snapshot>>
vars == <<legVars, poolVars, confByA, roomVars, partVars, end, records, downVars,
          panicked>>

(* What SaveCall returned for a leg, call by call. *)
Saves == Seq(BOOLEAN)

TypeOK ==
    /\ pc \in [Legs -> {"idle", "refused", "invite", "media", "answer", "join",
                        "add", "in", "gone"}]
    /\ number \in [Legs -> Numbers \cup {None}]
    /\ port \in [Legs -> Ports \cup {None}] /\ free \in SUBSET Ports
    /\ confByA \in SUBSET Legs
    /\ rooms \in [Numbers -> RoomObjects \cup {None}]
    /\ parts \in [RoomObjects -> SUBSET Legs]
    /\ stops \in [RoomObjects -> Nat]
    /\ room \in [Legs -> RoomObjects \cup {None}]
    /\ admitted \in [Legs -> BOOLEAN] /\ kicked \in [Legs -> BOOLEAN]
    /\ left \in [Legs -> BOOLEAN] /\ timer \in [Legs -> BOOLEAN]
    /\ end \in [Legs -> {"no", "leave", "remove", "shut", "port", "forget",
                         "record", "over"}]
    /\ records \in [Legs -> Saves]
    /\ stage \in {"run", "hangup", "closing", "stopped"} /\ snapshot \in SUBSET Legs
    /\ panicked \in BOOLEAN

Init ==
    /\ pc = [l \in Legs |-> "idle"] /\ number = [l \in Legs |-> None]
    /\ port = [l \in Legs |-> None] /\ free = Ports
    /\ confByA = {}
    /\ rooms = [n \in Numbers |-> None]
    /\ parts = [r \in RoomObjects |-> {}] /\ stops = [r \in RoomObjects |-> 0]
    /\ room = [l \in Legs |-> None]
    /\ admitted = [l \in Legs |-> FALSE] /\ kicked = [l \in Legs |-> FALSE]
    /\ left = [l \in Legs |-> FALSE] /\ timer = [l \in Legs |-> FALSE]
    /\ end = [l \in Legs |-> "no"] /\ records = [l \in Legs |-> <<>>]
    /\ stage = "run" /\ snapshot = {}
    /\ panicked = FALSE

Receiving == stage \in {"run", "hangup"}
Go(l, to) == pc' = [pc EXCEPT ![l] = to]

(* Endpoint.Close: the first call returns the pair to the pool. *)
ClosePort(l) ==
    /\ free' = free \cup ({port[l]} \ {None})
    /\ port' = [port EXCEPT ![l] = None]

-----------------------------------------------------------------------------
(* joinConference: unusable SDP, no SRTP where TLS is required, no G.711,  *)
(* or a failed ReadInvite refuse the call.                                 *)
JoinConference(l) ==
    /\ pc[l] = "idle" /\ Receiving
    /\ \/ Go(l, "refused") /\ UNCHANGED number
       \/ /\ Go(l, "media")
          /\ \E n \in Numbers : number' = [number EXCEPT ![l] = n]
    /\ UNCHANGED <<poolVars, confByA, roomVars, partVars, end, records, downVars,
                   panicked>>

(* NewEndpoint; 503 when no port pair can be bound. *)
NewEndpoint(l) ==
    /\ pc[l] = "media"
    /\ \/ /\ \E q \in free :
                 port' = [port EXCEPT ![l] = q] /\ free' = free \ {q}
          /\ Go(l, "invite")
       \/ Go(l, "refused") /\ UNCHANGED poolVars
    /\ UNCHANGED <<number, confByA, roomVars, partVars, end, records, downVars,
                   panicked>>

(* Mutant: an unusable SRTP offer is refused without closing the endpoint. *)
AnswerConference_LeaksPort(l) ==
    /\ pc[l] = "invite"
    /\ \/ Go(l, "answer") /\ confByA' = confByA \cup {l}
       \/ Go(l, "refused") /\ UNCHANGED confByA
    /\ UNCHANGED <<number, poolVars, roomVars, partVars, end, records, downVars, panicked>>

(* applyOffer, then the leg becomes findable and 200 is sent; an SRTP      *)
(* offer without a usable key closes the endpoint again.                   *)
AnswerConference(l) ==
    /\ pc[l] = "invite"
    /\ \/ /\ Go(l, "answer")
          /\ confByA' = confByA \cup {l}
          /\ UNCHANGED poolVars
       \/ Go(l, "refused") /\ ClosePort(l) /\ UNCHANGED confByA
    /\ UNCHANGED <<number, roomVars, partVars, end, records, downVars, panicked>>

(* HandleAck finds the leg: Respond returns and Join comes next. *)
HandleAck(l) ==
    /\ pc[l] = "answer" /\ l \in confByA /\ Receiving
    /\ Go(l, "join")
    /\ UNCHANGED <<number, poolVars, confByA, roomVars, partVars, end, records,
                   downVars, panicked>>

(* Respond failed: the leg is dropped without a record. *)
AnswerLost(l) ==
    /\ pc[l] = "answer"
    /\ Go(l, "gone")
    /\ confByA' = confByA \ {l}
    /\ ClosePort(l)
    /\ UNCHANGED <<number, roomVars, partVars, end, records, downVars, panicked>>

(* Manager.Join holds the manager's lock from looking the room up to r.add. *)
ManagerLocked == \E l \in Legs : pc[l] = "add"

Join(l) ==
    LET n == number[l]
        r == IF rooms[n] = None THEN l ELSE rooms[n] IN
    /\ pc[l] = "join" /\ ~ManagerLocked
    /\ Go(l, "add")
    /\ rooms' = [rooms EXCEPT ![n] = r]
    /\ room' = [room EXCEPT ![l] = r]
    /\ admitted' = [admitted EXCEPT ![l] = @ \/ n \notin PinNumbers]
    /\ UNCHANGED <<number, poolVars, confByA, parts, stops, kicked, left, timer, end,
                   records, downVars, panicked>>

(* r.add: the phone may be leaving already, it knew its room before. *)
AddToRoom(l) ==
    /\ pc[l] = "add"
    /\ Go(l, "in")
    /\ parts' = [parts EXCEPT ![room[l]] = @ \cup {l}]
    /\ UNCHANGED <<number, poolVars, confByA, rooms, stops, partVars, end, records,
                   downVars, panicked>>

-----------------------------------------------------------------------------
(* Participant.digit, once a PIN is complete: right, wrong, or wrong for   *)
(* the third time.  Both log through p.room, which is nil before Join.     *)
Digit(l) ==
    /\ ~admitted[l] /\ ~kicked[l]
    /\ \/ /\ admitted' = [admitted EXCEPT ![l] = TRUE]
          /\ panicked' = (room[l] = None)
          /\ UNCHANGED timer
       \/ /\ ~timer[l]
          /\ timer' = [timer EXCEPT ![l] = TRUE]
          /\ panicked' = (room[l] = None)
          /\ UNCHANGED admitted
    /\ UNCHANGED <<legVars, poolVars, confByA, roomVars, room, kicked, left, end,
                   records, downVars>>

(* Digits come as SIP INFO while the leg is findable, or as RTP once its   *)
(* endpoint is started and until it is closed.                             *)
KeyPressed(l) ==
    /\ Receiving
    /\ l \in confByA \/ (pc[l] = "in" /\ port[l] # None)
    /\ Digit(l)

(* kick: at most once, and not for a phone that has left. *)
Kick(l) ==
    /\ ~kicked[l] /\ ~left[l]
    /\ kicked' = [kicked EXCEPT ![l] = TRUE]
    /\ UNCHANGED <<legVars, poolVars, confByA, roomVars, room, admitted, left, end,
                   records, downVars, panicked>>

(* The mixer's tick: no PIN within pinTimeout, or no audio. *)
TickKick(l) == pc[l] = "in" /\ Kick(l) /\ UNCHANGED timer
(* Mutant: the delayed kick spares a phone that was admitted meanwhile. *)
TimerKick_SparesAdmitted(l) ==
    /\ timer[l] /\ ~admitted[l]
    /\ Kick(l) /\ timer' = [timer EXCEPT ![l] = FALSE]
TimerKick(l) ==
    /\ timer[l]
    /\ Kick(l) /\ timer' = [timer EXCEPT ![l] = FALSE]

-----------------------------------------------------------------------------
(* endConference's endOnce: BYE, a kick, or HangupAll starts it. *)
BeginEnd(l) ==
    /\ end[l] = "no"
    /\ end' = [end EXCEPT ![l] = "leave"]
    /\ UNCHANGED <<legVars, poolVars, confByA, roomVars, partVars, records, downVars,
                   panicked>>

HandleBye(l) == l \in confByA /\ Receiving /\ BeginEnd(l)
KickHangup(l) == kicked[l] /\ BeginEnd(l)
HangupAllOne(l) == stage = "hangup" /\ l \in snapshot /\ BeginEnd(l)

(* Manager.Leave: flag and room under the participant's lock ... *)
Leave(l) ==
    /\ end[l] = "leave"
    /\ left' = [left EXCEPT ![l] = TRUE]
    /\ end' = [end EXCEPT ![l] = IF room[l] = None THEN "port" ELSE "remove"]
    /\ UNCHANGED <<legVars, poolVars, confByA, roomVars, room, admitted, kicked, timer,
                   records, downVars, panicked>>

(* ... then out of the room ... *)
RemoveFromRoom(l) ==
    /\ end[l] = "remove"
    /\ parts' = [parts EXCEPT ![room[l]] = @ \ {l}]
    /\ end' = [end EXCEPT ![l] = "shut"]
    /\ UNCHANGED <<legVars, poolVars, confByA, rooms, stops, partVars, records,
                   downVars, panicked>>

(* Mutant: the room found empty by remove is closed without a second look. *)
ShutRoom_Unchecked(l) ==
    LET r == room[l]  n == number[l] IN
    /\ end[l] = "shut" /\ ~ManagerLocked
    /\ IF rooms[n] = r
       THEN /\ rooms' = [rooms EXCEPT ![n] = None]
            /\ stops' = [stops EXCEPT ![r] = @ + 1]
       ELSE UNCHANGED <<rooms, stops>>
    /\ end' = [end EXCEPT ![l] = "port"]
    /\ UNCHANGED <<legVars, poolVars, confByA, parts, partVars, records, downVars,
                   panicked>>

(* ... and the room is closed once empty, under the manager's lock. *)
ShutRoom(l) ==
    LET r == room[l]  n == number[l] IN
    /\ end[l] = "shut" /\ ~ManagerLocked
    /\ IF parts[r] = {} /\ rooms[n] = r
       THEN /\ rooms' = [rooms EXCEPT ![n] = None]
            /\ stops' = [stops EXCEPT ![r] = @ + 1]
       ELSE UNCHANGED <<rooms, stops>>
    /\ end' = [end EXCEPT ![l] = "port"]
    /\ UNCHANGED <<legVars, poolVars, confByA, parts, partVars, records, downVars,
                   panicked>>

CloseEndpoint(l) ==
    /\ end[l] = "port"
    /\ ClosePort(l)
    /\ end' = [end EXCEPT ![l] = "forget"]
    /\ UNCHANGED <<legVars, confByA, roomVars, partVars, records, downVars, panicked>>

(* Mutant: an ended leg stays findable. *)
ForgetLeg_Keeps(l) ==
    /\ end[l] = "forget"
    /\ end' = [end EXCEPT ![l] = "record"]
    /\ UNCHANGED <<legVars, poolVars, confByA, roomVars, partVars, records, downVars,
                   panicked>>

(* BYE to the phone (bounded by its own timeout), then the leg is forgotten ... *)
ForgetLeg(l) ==
    /\ end[l] = "forget"
    /\ confByA' = confByA \ {l}
    /\ end' = [end EXCEPT ![l] = "record"]
    /\ UNCHANGED <<legVars, poolVars, roomVars, partVars, records, downVars, panicked>>

(* ... and recorded; SaveCall's error is only logged, and the second       *)
(* delete finds nothing.                                                   *)
RecordLeg(l) ==
    /\ end[l] = "record"
    /\ \E ok \in BOOLEAN : records' = [records EXCEPT ![l] = Append(@, ok)]
    /\ end' = [end EXCEPT ![l] = "over"]
    /\ UNCHANGED <<legVars, poolVars, confByA, roomVars, partVars, downVars, panicked>>

-----------------------------------------------------------------------------
HangupAll ==
    /\ stage = "run"
    /\ stage' = "hangup" /\ snapshot' = confByA
    /\ UNCHANGED <<legVars, poolVars, confByA, roomVars, partVars, end, records,
                   panicked>>

(* Mutant: a leg that is being ended by another goroutine is passed over. *)
HangupAllWaited_PassesOver ==
    /\ stage = "hangup" /\ \A l \in snapshot : end[l] # "no"
    /\ stage' = "closing"
    /\ UNCHANGED <<legVars, poolVars, confByA, roomVars, partVars, end, records,
                   snapshot, panicked>>

HangupAllWaited ==
    /\ stage = "hangup" /\ \A l \in snapshot : end[l] = "over"
    /\ stage' = "closing"
    /\ UNCHANGED <<legVars, poolVars, confByA, roomVars, partVars, end, records,
                   snapshot, panicked>>

CloseStore ==
    /\ stage = "closing"
    /\ stage' = "stopped"
    /\ UNCHANGED <<legVars, poolVars, confByA, roomVars, partVars, end, records,
                   snapshot, panicked>>

Alive == stage # "stopped" /\ ~panicked
Dead == ~Alive /\ UNCHANGED vars

InviteStep(l) ==
    NewEndpoint(l) \/ AnswerConference(l) \/ AnswerLost(l) \/ Join(l) \/ AddToRoom(l)
EndStep(l) ==
    \/ Leave(l) \/ RemoveFromRoom(l) \/ ShutRoom(l) \/ CloseEndpoint(l)
    \/ ForgetLeg(l) \/ RecordLeg(l)
ServerStep(l) ==
    InviteStep(l) \/ EndStep(l) \/ TimerKick(l) \/ KickHangup(l) \/ HangupAllOne(l)
PhoneStep(l) ==
    JoinConference(l) \/ HandleAck(l) \/ HandleBye(l) \/ KeyPressed(l) \/ TickKick(l)

Next ==
    \/ Alive /\ (\/ \E l \in Legs : ServerStep(l) \/ PhoneStep(l)
                 \/ HangupAll \/ HangupAllWaited \/ CloseStore)
    \/ Dead

(* Goroutines and timers run; phones and the operator need not. *)
Fairness ==
    \A l \in Legs :
        /\ WF_vars(Alive /\ InviteStep(l))
        /\ WF_vars(Alive /\ EndStep(l))
        /\ WF_vars(Alive /\ TimerKick(l))
        /\ WF_vars(Alive /\ KickHangup(l))
        /\ WF_vars(Alive /\ HangupAllOne(l))

Spec == Init /\ [][Next]_vars
FairSpec ==
    /\ Spec /\ Fairness
    /\ WF_vars(Alive /\ HangupAllWaited) /\ WF_vars(Alive /\ CloseStore)

-----------------------------------------------------------------------------
(***************************************************************************)
(* A room is open while it is used and no longer.  Whoever is in a room is *)
(* mixed: it is the room its number maps to, and its mixer was not stopped *)
(* (Manager.Join and room.remove: "a concurrent Join either sees the room  *)
(* gone or keeps it open").  A room without members is being entered, or   *)
(* closed by the phone that left it last.                                  *)
(***************************************************************************)
RoomsOpenWhileUsed ==
    /\ \A r \in RoomObjects : \A l \in parts[r] :
           rooms[number[l]] = r /\ stops[r] = 0
    /\ \A n \in Numbers :
           rooms[n] # None /\ parts[rooms[n]] = {} =>
               \E l \in Legs : (pc[l] = "add" \/ end[l] = "shut") /\ room[l] = rooms[n]

(* Port pairs are in the pool or with one leg, and every way out of        *)
(* joinConference and endConference gives the pair back.                   *)
LegPortsConserved ==
    /\ free \cup ({port[l] : l \in Legs} \ {None}) = Ports
    /\ \A l \in Legs : port[l] # None =>
           port[l] \notin free /\ \A m \in Legs \ {l} : port[m] # port[l]
    /\ \A l \in Legs : pc[l] \in {"refused", "gone"} \/ end[l] \in {"forget", "record", "over"}
                      => port[l] = None

(* The legs take and give back pairs as the pool promises (PortSet): one   *)
(* at a time, none while they have one, and only what is theirs.           *)
Promise == INSTANCE PortSet WITH Pairs <- Ports, Owners <- Legs, avail <- free, held <- port
UsesPortSet == Promise!Spec

(* Every leg HangupAll found has been given to SaveCall, once, when the    *)
(* store is closed, also one that another goroutine was ending already     *)
(* (endOnce makes HangupAll wait for it).  The legs this does not cover    *)
(* were forgotten before the snapshot, or became findable after it.        *)
SnapshotLegsRecorded ==
    stage \in {"closing", "stopped"} => \A l \in snapshot : Len(records[l]) = 1

(* Three wrong PINs end the call, even if the right one follows. *)
WrongPinEnds ==
    \A l \in Legs : timer[l] ~> end[l] = "over" \/ ~Alive

(* A conference call that is being ended is recorded, or its SaveCall has  *)
(* failed, and nothing is held.                                            *)
EndsFinish ==
    \A l \in Legs : end[l] # "no" ~> (Len(records[l]) = 1 /\ l \notin confByA) \/ ~Alive

(***************************************************************************)
(* What Leave's comment promises: a phone that left is out of its room.    *)
(* Checked, and refuted: BYE may overtake Join.                            *)
(***************************************************************************)
LeftMeansGone ==
    \A l \in Legs : end[l] = "over" => \A r \in RoomObjects : l \notin parts[r]

(***************************************************************************)
(* What endConference's comment promises of shutdown: the store is not     *)
(* closed while a leg waits for its record.  Checked, and refuted.         *)
(***************************************************************************)
NoCloseUnderLegRecord == stage = "stopped" => \A l \in Legs : end[l] # "record"

(***************************************************************************)
(* What confInDialog and Digit promise: a digit sent by INFO is delivered  *)
(* to the participant.  Checked, and refuted: before Join the participant  *)
(* has no room, and digit dereferences it.                                 *)
(***************************************************************************)
DigitsDelivered == ~panicked
=============================================================================
