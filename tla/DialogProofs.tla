---------------------------- MODULE DialogProofs ----------------------------
(***************************************************************************)
(* Theorems about what goes on while people talk: Conference, the legs and *)
(* rooms of conferences, and Reinvite, the requests within a call and the  *)
(* holds they make.                                                        *)
(***************************************************************************)
EXTENDS Conference, Reinvite, TLAPS, FiniteSetTheorems

-----------------------------------------------------------------------------
(* Conference, for every set of legs, room numbers and ports.              *)

(***************************************************************************)
(* A leg's progress: what its INVITE goroutine has reached bounds what the *)
(* others may have done to it.                                             *)
(***************************************************************************)
Progress(l) ==
    /\ pc[l] \notin {"idle", "refused"} => number[l] \in Numbers
    /\ pc[l] \notin {"answer", "join", "add", "in", "gone"} =>
           end[l] = "no" /\ l \notin confByA \cup snapshot /\ ~kicked[l] /\ ~timer[l]
    /\ pc[l] \in {"add", "in"} <=> room[l] # None
    /\ end[l] \in {"remove", "shut"} => room[l] # None
    /\ Len(records[l]) = IF end[l] = "over" THEN 1 ELSE 0

ProgressInv == \A l \in Legs : Progress(l)

(* Every pair is in the pool or with exactly one leg that still needs it. *)
PortInv ==
    /\ \A q \in Ports : q \in free \/ \E l \in Legs : port[l] = q
    /\ \A l \in Legs : port[l] \notin free
    /\ \A l, m \in Legs : l # m /\ port[l] # None => port[m] # port[l]
    /\ \A l \in Legs : \/ pc[l] \in {"idle", "refused", "media", "gone"}
                       \/ end[l] \in {"forget", "record", "over"}
                       => port[l] = None

(***************************************************************************)
(* Who is in a room knows it, its number maps to it, and it was never      *)
(* stopped; an open room is named after a leg that joined it under its     *)
(* number; a room without members has a leg that is entering it or about   *)
(* to shut it, and the one being entered is still open.                    *)
(***************************************************************************)
MemberInv ==
    \A r \in Legs : \A l \in parts[r] :
        room[l] = r /\ rooms[number[l]] = r /\ stops[r] = 0
OpenInv ==
    \A n \in Numbers : rooms[n] # None =>
        number[rooms[n]] = n /\ stops[rooms[n]] = 0 /\ room[rooms[n]] = rooms[n]
JoinedInv ==
    /\ \A l \in Legs : room[l] # None =>
           room[room[l]] = room[l] /\ number[l] = number[room[l]]
    /\ \A r \in Legs : stops[r] # 0 => room[r] # None
ShutInv ==
    \A n \in Numbers : rooms[n] # None /\ parts[rooms[n]] = {} =>
        \E l \in Legs : (pc[l] = "add" \/ end[l] = "shut") /\ room[l] = rooms[n]
AddInv ==
    \A l \in Legs : pc[l] = "add" => rooms[number[l]] = room[l] /\ stops[room[l]] = 0

RoomInv == MemberInv /\ OpenInv /\ JoinedInv /\ ShutInv /\ AddInv

(* HangupAll waits until the legs it found are over. *)
WaitedInv ==
    stage \in {"closing", "stopped"} => \A l \in snapshot : end[l] = "over"
(* Every step keeps the types (Join needs to know that the leg dialled a   *)
(* number, and Leave that the leg it takes out of its room has one).       *)
LEMMA TypeStep == TypeOK /\ ProgressInv /\ [Next]_vars => TypeOK'
<1> SUFFICES ASSUME TypeOK, ProgressInv, [Next]_vars PROVE TypeOK'
  OBVIOUS
<1> USE DEF TypeOK, legVars, poolVars, roomVars, partVars, downVars, Go, RoomObjects
<1>1. ASSUME NEW l \in Legs, JoinConference(l) PROVE TypeOK'
  BY <1>1 DEF JoinConference
<1>2. ASSUME NEW l \in Legs, NewEndpoint(l) PROVE TypeOK'
  BY <1>2 DEF NewEndpoint
<1>3. ASSUME NEW l \in Legs, ClosePort(l)
      PROVE  port' \in [Legs -> Ports \cup {None}] /\ free' \in SUBSET Ports
  BY <1>3 DEF ClosePort
<1>4. ASSUME NEW l \in Legs, AnswerConference(l) \/ AnswerLost(l) PROVE TypeOK'
  BY <1>3, <1>4 DEF AnswerConference, AnswerLost
<1>5. ASSUME NEW l \in Legs, HandleAck(l) PROVE TypeOK'
  BY <1>5 DEF HandleAck
<1>6. ASSUME NEW l \in Legs, Join(l) PROVE TypeOK'
  <2>1. number[l] \in Numbers
    BY <1>6 DEF Join, ProgressInv, Progress
  <2>2. PICK r \in Legs : r = IF rooms[number[l]] = None THEN l ELSE rooms[number[l]]
    BY <2>1
  <2> QED
    BY <1>6, <2>1, <2>2 DEF Join
<1>15. ASSUME NEW l \in Legs, AddToRoom(l) PROVE TypeOK'
  BY <1>15 DEF AddToRoom
<1>7. ASSUME NEW l \in Legs, KeyPressed(l) PROVE TypeOK'
  BY <1>7 DEF KeyPressed, Digit
<1>8. ASSUME NEW l \in Legs, TickKick(l) \/ TimerKick(l) PROVE TypeOK'
  BY <1>8 DEF TickKick, TimerKick, Kick
<1>9. ASSUME NEW l \in Legs, HandleBye(l) \/ KickHangup(l) \/ HangupAllOne(l) PROVE TypeOK'
  BY <1>9 DEF HandleBye, KickHangup, HangupAllOne, BeginEnd
<1>10. ASSUME NEW l \in Legs, Leave(l) PROVE TypeOK'
  BY <1>10 DEF Leave
<1>11. ASSUME NEW l \in Legs, RemoveFromRoom(l) \/ ShutRoom(l) PROVE TypeOK'
  <2>1. room[l] \in Legs /\ number[l] \in Numbers
    BY <1>11 DEF RemoveFromRoom, ShutRoom, ProgressInv, Progress
  <2>2. CASE RemoveFromRoom(l)
    BY <2>1, <2>2 DEF RemoveFromRoom
  <2>3. CASE ShutRoom(l)
    BY <2>1, <2>3 DEF ShutRoom
  <2> QED
    BY <1>11, <2>2, <2>3
<1>12. ASSUME NEW l \in Legs, CloseEndpoint(l) \/ ForgetLeg(l) PROVE TypeOK'
  BY <1>3, <1>12 DEF CloseEndpoint, ForgetLeg
<1>16. ASSUME NEW l \in Legs, RecordLeg(l) PROVE TypeOK'
  <2>1. PICK ok \in BOOLEAN : records' = [records EXCEPT ![l] = Append(@, ok)]
    BY <1>16 DEF RecordLeg
  <2>2. Append(records[l], ok) \in Saves
    BY DEF Saves
  <2>3. records' \in [Legs -> Saves]
    BY <2>1, <2>2
  <2> QED
    BY <1>16, <2>3 DEF RecordLeg
<1>13. CASE HangupAll \/ HangupAllWaited \/ CloseStore
  BY <1>13 DEF HangupAll, HangupAllWaited, CloseStore
<1>14. CASE UNCHANGED vars
  BY <1>14 DEF vars
<1> QED
  BY <1>1, <1>2, <1>4, <1>5, <1>6, <1>7, <1>8, <1>9, <1>10, <1>11, <1>12, <1>13, <1>14,
     <1>15, <1>16
     DEF Next, Dead, ServerStep, PhoneStep, InviteStep, EndStep

(***************************************************************************)
(* Each goroutine's step keeps the leg's progress: what has been joined,   *)
(* ended and recorded follows the order of joinConference and endOnce.     *)
(***************************************************************************)
LEMMA ProgressStep == TypeOK /\ ProgressInv /\ [Next]_vars => ProgressInv'
<1> SUFFICES ASSUME TypeOK, ProgressInv, [Next]_vars PROVE ProgressInv'
  OBVIOUS
<1> USE DEF legVars, poolVars, roomVars, partVars, downVars, Go, RoomObjects, ProgressInv,
Progress
<1>0. /\ pc \in [Legs -> {"idle", "refused", "invite", "media", "answer", "join", "add",
                        "in", "gone"}]
      /\ number \in [Legs -> Numbers \cup {None}]
      /\ rooms \in [Numbers -> Legs \cup {None}]
      /\ room \in [Legs -> Legs \cup {None}]
      /\ kicked \in [Legs -> BOOLEAN] /\ timer \in [Legs -> BOOLEAN]
      /\ end \in [Legs -> {"no", "leave", "remove", "shut", "port", "forget",
                           "record", "over"}]
      /\ records \in [Legs -> Saves] /\ confByA \in SUBSET Legs /\ snapshot \in SUBSET Legs
  BY DEF TypeOK
<1>1. ASSUME NEW l \in Legs, JoinConference(l) PROVE ProgressInv'
  BY <1>0, <1>1 DEF JoinConference
<1>2. ASSUME NEW l \in Legs, NewEndpoint(l) \/ AnswerConference(l) PROVE ProgressInv'
  BY <1>0, <1>2 DEF NewEndpoint, AnswerConference
<1>3. ASSUME NEW l \in Legs, HandleAck(l) \/ AnswerLost(l) PROVE ProgressInv'
  BY <1>0, <1>3 DEF HandleAck, AnswerLost
<1>4. ASSUME NEW l \in Legs, Join(l) PROVE ProgressInv'
  <2>1. number[l] \in Numbers
    BY <1>4 DEF Join
  <2>2. PICK r \in Legs : r = IF rooms[number[l]] = None THEN l ELSE rooms[number[l]]
    BY <1>0, <2>1
  <2> QED
    BY <1>0, <1>4, <2>2, NoneAssumption DEF Join
<1>13. ASSUME NEW l \in Legs, AddToRoom(l) PROVE ProgressInv'
  BY <1>0, <1>13 DEF AddToRoom
<1>5. ASSUME NEW l \in Legs, KeyPressed(l) PROVE ProgressInv'
  BY <1>0, <1>5 DEF KeyPressed, Digit
<1>6. ASSUME NEW l \in Legs, TickKick(l) \/ TimerKick(l) PROVE ProgressInv'
  BY <1>0, <1>6 DEF TickKick, TimerKick, Kick
<1>7. ASSUME NEW l \in Legs, HandleBye(l) PROVE ProgressInv'
  BY <1>0, <1>7 DEF HandleBye, BeginEnd
<1>15. ASSUME NEW l \in Legs, KickHangup(l) PROVE ProgressInv'
  BY <1>0, <1>15 DEF KickHangup, BeginEnd
<1>8. ASSUME NEW l \in Legs, HangupAllOne(l) PROVE ProgressInv'
  BY <1>0, <1>8 DEF HangupAllOne, BeginEnd
<1>9. ASSUME NEW l \in Legs, Leave(l) \/ RemoveFromRoom(l) PROVE ProgressInv'
  BY <1>0, <1>9 DEF Leave, RemoveFromRoom
<1>10. ASSUME NEW l \in Legs, ShutRoom(l) \/ CloseEndpoint(l) PROVE ProgressInv'
  BY <1>0, <1>10 DEF ShutRoom, CloseEndpoint
<1>11. ASSUME NEW l \in Legs, ForgetLeg(l) PROVE ProgressInv'
  BY <1>0, <1>11 DEF ForgetLeg
<1>14. ASSUME NEW l \in Legs, RecordLeg(l) PROVE ProgressInv'
  <2>1. PICK ok \in BOOLEAN : records' = [records EXCEPT ![l] = Append(@, ok)]
    BY <1>14 DEF RecordLeg
  <2>2. Len(Append(records[l], ok)) = 1
    BY <1>0, <1>14 DEF RecordLeg, Saves
  <2>3. \A m \in Legs : Len(records'[m]) = IF m = l THEN 1 ELSE Len(records[m])
    BY <1>0, <2>1, <2>2
  <2> QED
    BY <1>0, <1>14, <2>3 DEF RecordLeg
<1>12. CASE HangupAll \/ HangupAllWaited \/ CloseStore \/ UNCHANGED vars
  BY <1>0, <1>12 DEF HangupAll, HangupAllWaited, CloseStore, vars
<1> QED
  BY <1>1, <1>2, <1>3, <1>4, <1>5, <1>6, <1>7, <1>8, <1>9, <1>10, <1>11, <1>12,
     <1>13, <1>14, <1>15
     DEF Next, Dead, ServerStep, PhoneStep, InviteStep, EndStep

(***************************************************************************)
(* Ports: NewEndpoint takes a free pair for a leg that has none, and every *)
(* other step leaves the pairs alone or closes one leg's.                  *)
(***************************************************************************)
LEMMA CloseKeepsPairs ==
    ASSUME TypeOK, PortInv, NEW l \in Legs, ClosePort(l)
    PROVE  /\ \A m \in Legs : port'[m] = IF m = l THEN None ELSE port[m]
           /\ \A q \in Ports : q \in free' \/ \E m \in Legs : port'[m] = q
           /\ \A m \in Legs : port'[m] \notin free'
           /\ \A k, m \in Legs : k # m /\ port'[k] # None => port'[m] # port'[k]
<1> USE DEF ClosePort
<1>0. port \in [Legs -> Ports \cup {None}] /\ free \in SUBSET Ports
  BY DEF TypeOK
<1>1. \A m \in Legs : port'[m] = IF m = l THEN None ELSE port[m]
  BY <1>0
<1>2. \A q \in Ports : q \in free' \/ \E m \in Legs : port'[m] = q
  BY <1>0, <1>1 DEF PortInv
<1>3. \A m \in Legs : port'[m] \notin free'
  BY <1>0, <1>1, NoneAssumption DEF PortInv
<1>4. \A k, m \in Legs : k # m /\ port'[k] # None => port'[m] # port'[k]
  BY <1>1 DEF PortInv
<1> QED
  BY <1>1, <1>2, <1>3, <1>4

LEMMA PortStep == TypeOK /\ ProgressInv /\ PortInv /\ [Next]_vars => PortInv'
<1> SUFFICES ASSUME TypeOK, ProgressInv, PortInv, [Next]_vars PROVE PortInv'
  OBVIOUS
<1> USE DEF legVars, poolVars, roomVars, partVars, downVars, Go
<1>0. /\ pc \in [Legs -> {"idle", "refused", "invite", "media", "answer", "join", "add",
                        "in", "gone"}]
      /\ port \in [Legs -> Ports \cup {None}] /\ free \in SUBSET Ports
      /\ end \in [Legs -> {"no", "leave", "remove", "shut", "port", "forget",
                           "record", "over"}]
  BY DEF TypeOK
<1>1. ASSUME NEW l \in Legs, JoinConference(l) PROVE PortInv'
  BY <1>0, <1>1 DEF JoinConference, PortInv
<1>2. ASSUME NEW l \in Legs, NewEndpoint(l) PROVE PortInv'
  <2>1. port[l] = None /\ end[l] = "no" /\ pc[l] = "media"
    BY <1>2 DEF NewEndpoint, PortInv, ProgressInv, Progress
  <2>2. ASSUME NEW q \in free, port' = [port EXCEPT ![l] = q], free' = free \ {q},
               pc' = [pc EXCEPT ![l] = "invite"], UNCHANGED end
        PROVE  PortInv'
    <3>1. \A m \in Legs : port'[m] = IF m = l THEN q ELSE port[m]
      BY <1>0, <2>2
    <3>2. \A p \in Ports : p \in free' \/ \E m \in Legs : port'[m] = p
      BY <2>1, <2>2, <3>1, NoneAssumption DEF PortInv
    <3>3. \A m \in Legs : port'[m] \notin free'
      BY <2>2, <3>1 DEF PortInv
    <3>4. \A k, m \in Legs : k # m /\ port'[k] # None => port'[m] # port'[k]
      BY <2>2, <3>1 DEF PortInv
    <3>5. \A m \in Legs : \/ pc'[m] \in {"idle", "refused", "media", "gone"}
                          \/ end'[m] \in {"forget", "record", "over"}
                          => port'[m] = None
      BY <1>0, <2>1, <2>2, <3>1 DEF PortInv
    <3> QED
      BY <3>2, <3>3, <3>4, <3>5 DEF PortInv
  <2>3. CASE Go(l, "refused") /\ UNCHANGED <<poolVars, end>>
    BY <1>0, <2>1, <2>3 DEF PortInv
  <2> QED
    BY <1>2, <2>2, <2>3 DEF NewEndpoint
<1>3. ASSUME NEW l \in Legs, ClosePort(l),
             \A m \in Legs \ {l} : pc'[m] = pc[m] /\ end'[m] = end[m]
      PROVE  PortInv'
  BY <1>3, CloseKeepsPairs DEF PortInv
<1>4. ASSUME NEW l \in Legs, AnswerConference(l) \/ AnswerLost(l) \/ CloseEndpoint(l)
      PROVE  PortInv'
  <2>1. CASE Go(l, "answer") /\ UNCHANGED <<poolVars, end>> /\ pc[l] = "invite"
    BY <1>0, <2>1 DEF PortInv
  <2>2. CASE /\ ClosePort(l)
             /\ AnswerConference(l) \/ AnswerLost(l) \/ CloseEndpoint(l)
    BY <1>0, <1>3, <2>2 DEF AnswerConference, AnswerLost, CloseEndpoint
  <2> QED
    BY <1>4, <2>1, <2>2 DEF AnswerConference, AnswerLost, CloseEndpoint
<1>5. ASSUME NEW l \in Legs, HandleAck(l) \/ Join(l) \/ AddToRoom(l) PROVE PortInv'
  BY <1>0, <1>5 DEF HandleAck, Join, AddToRoom, PortInv
<1>6. ASSUME NEW l \in Legs,
             \/ HandleBye(l) \/ KickHangup(l) \/ HangupAllOne(l) \/ Leave(l)
             \/ RemoveFromRoom(l) \/ ShutRoom(l) \/ ForgetLeg(l) \/ RecordLeg(l)
      PROVE  PortInv'
  BY <1>0, <1>6 DEF HandleBye, KickHangup, HangupAllOne, BeginEnd, Leave,
                    RemoveFromRoom, ShutRoom, ForgetLeg, RecordLeg, PortInv
<1>7. ASSUME NEW l \in Legs, KeyPressed(l) \/ TickKick(l) \/ TimerKick(l) PROVE PortInv'
  BY <1>7 DEF KeyPressed, Digit, TickKick, TimerKick, Kick, PortInv
<1>8. CASE HangupAll \/ HangupAllWaited \/ CloseStore \/ UNCHANGED vars
  BY <1>8 DEF HangupAll, HangupAllWaited, CloseStore, vars, PortInv
<1> QED
  BY <1>1, <1>2, <1>4, <1>5, <1>6, <1>7, <1>8
     DEF Next, Dead, ServerStep, PhoneStep, InviteStep, EndStep

(* Nothing takes a leg back out of "over", and the snapshot is taken once. *)
LEMMA WaitedStep == TypeOK /\ WaitedInv /\ [Next]_vars => WaitedInv'
<1> SUFFICES ASSUME TypeOK, WaitedInv, [Next]_vars PROVE WaitedInv'
  OBVIOUS
<1> USE DEF WaitedInv, downVars
<1>0. /\ end \in [Legs -> {"no", "leave", "remove", "shut", "port", "forget",
                           "record", "over"}]
      /\ snapshot \subseteq Legs
  BY DEF TypeOK
<1>1. ASSUME NEW l \in Legs,
             \/ JoinConference(l) \/ NewEndpoint(l) \/ AnswerConference(l) \/ HandleAck(l)
             \/ AnswerLost(l) \/ Join(l) \/ AddToRoom(l) \/ KeyPressed(l) \/ TickKick(l)
             \/ TimerKick(l)
      PROVE  WaitedInv'
  BY <1>1 DEF JoinConference, NewEndpoint, AnswerConference, HandleAck, AnswerLost, Join,
              AddToRoom, KeyPressed, Digit, TickKick, TimerKick, Kick
<1>2. ASSUME NEW l \in Legs,
             HandleBye(l) \/ KickHangup(l) \/ HangupAllOne(l) \/ EndStep(l)
      PROVE  WaitedInv'
  <2>1. end[l] # "over" /\ UNCHANGED downVars /\ \A m \in Legs \ {l} : end'[m] = end[m]
    BY <1>0, <1>2 DEF HandleBye, KickHangup, HangupAllOne, BeginEnd, EndStep, Leave,
           RemoveFromRoom, ShutRoom, CloseEndpoint, ForgetLeg, RecordLeg
  <2> QED
    BY <1>0, <2>1
<1>3. CASE HangupAll \/ HangupAllWaited \/ CloseStore \/ UNCHANGED vars
  BY <1>3 DEF HangupAll, HangupAllWaited, CloseStore, vars
<1> QED
  BY <1>1, <1>2, <1>3 DEF Next, Dead, ServerStep, PhoneStep, InviteStep
(***************************************************************************)
(* Rooms.  Only Join, Leave's two halves and the end of a leg touch what   *)
(* RoomInv speaks of.                                                      *)
(***************************************************************************)
LEMMA RoomFrame ==
    ASSUME TypeOK, RoomInv, UNCHANGED <<rooms, parts, stops, room>>,
           \A l \in Legs : room[l] # None => number'[l] = number[l],
           \A l \in Legs : end[l] = "shut" => end'[l] = "shut",
           \A l \in Legs : pc[l] = "add" <=> pc'[l] = "add",
           \A l \in Legs : pc[l] = "add" => room[l] # None
    PROVE  RoomInv'
<1> USE DEF RoomInv
<1>0. /\ rooms \in [Numbers -> Legs \cup {None}] /\ parts \in [Legs -> SUBSET Legs]
      /\ room \in [Legs -> Legs \cup {None}]
  BY DEF TypeOK, RoomObjects
<1>1. MemberInv'
  BY <1>0, NoneAssumption DEF MemberInv
<1>2. OpenInv' /\ JoinedInv'
  BY <1>0, NoneAssumption DEF OpenInv, JoinedInv
<1>3. ShutInv'
  BY DEF ShutInv
<1>4. AddInv'
  BY DEF AddInv
<1> QED
  BY <1>1, <1>2, <1>3, <1>4

(* Join opens the room or finds it open, and holds the lock that shutting  *)
(* it takes.                                                               *)
LEMMA JoinKeepsRooms ==
    ASSUME TypeOK, ProgressInv, RoomInv, NEW l \in Legs, Join(l)
    PROVE  RoomInv'
<1> DEFINE n == number[l]
<1>0. /\ rooms \in [Numbers -> Legs \cup {None}] /\ parts \in [Legs -> SUBSET Legs]
      /\ stops \in [Legs -> Nat] /\ room \in [Legs -> Legs \cup {None}]
      /\ pc[l] = "join" /\ UNCHANGED <<number, stops, end, parts>>
      /\ \A m \in Legs : pc'[m] = IF m = l THEN "add" ELSE pc[m]
      /\ \A m \in Legs : pc[m] # "add"
  BY DEF TypeOK, RoomObjects, Join, ManagerLocked, Go
<1>1. n \in Numbers /\ room[l] = None
  BY <1>0 DEF ProgressInv, Progress
<1>2. PICK r \in Legs : r = IF rooms[n] = None THEN l ELSE rooms[n]
  BY <1>0, <1>1
<1>3. /\ rooms' = [rooms EXCEPT ![n] = r] /\ room' = [room EXCEPT ![l] = r]
  BY <1>2 DEF Join
<1>4. /\ \A k \in Numbers : rooms'[k] = IF k = n THEN r ELSE rooms[k]
      /\ \A m \in Legs : room'[m] = IF m = l THEN r ELSE room[m]
  BY <1>0, <1>1, <1>3
<1>5. number[r] = n /\ stops[r] = 0 /\ room'[r] = r
  <2>1. CASE rooms[n] = None
    BY <1>0, <1>1, <1>2, <1>4, <2>1 DEF RoomInv, JoinedInv
  <2>2. CASE rooms[n] # None
    BY <1>1, <1>2, <1>4, <2>2 DEF RoomInv, OpenInv
  <2> QED
    BY <2>1, <2>2
<1>7. MemberInv'
  <2> SUFFICES ASSUME NEW s \in Legs, NEW m \in parts[s]
               PROVE  room'[m] = s /\ rooms'[number[m]] = s /\ stops[s] = 0
    BY <1>0 DEF MemberInv
  <2>1. m \in Legs /\ room[m] = s /\ rooms[number[m]] = s /\ stops[s] = 0
    BY <1>0 DEF RoomInv, MemberInv
  <2>2. m # l /\ room'[m] = s
    BY <1>1, <1>4, <2>1, NoneAssumption
  <2>3. number[m] \in Numbers
    BY <2>1, NoneAssumption DEF ProgressInv, Progress
  <2>4. rooms'[number[m]] = s
    BY <1>2, <1>4, <2>1, <2>3, NoneAssumption
  <2> QED
    BY <2>1, <2>2, <2>4
<1>8. OpenInv'
  <2> SUFFICES ASSUME NEW k \in Numbers, rooms'[k] # None
               PROVE  number[rooms'[k]] = k /\ stops[rooms'[k]] = 0
               /\ room'[rooms'[k]] = rooms'[k]
    BY <1>0 DEF OpenInv
  <2>1. CASE k = n
    BY <1>4, <1>5, <2>1
  <2>2. CASE k # n
    <3>1. /\ rooms'[k] = rooms[k] /\ rooms[k] \in Legs
          /\ number[rooms[k]] = k /\ stops[rooms[k]] = 0 /\ room[rooms[k]] = rooms[k]
      BY <1>0, <1>4, <2>2 DEF RoomInv, OpenInv
    <3> QED
      BY <1>1, <1>4, <3>1, NoneAssumption
  <2> QED
    BY <2>1, <2>2
<1>9. JoinedInv'
  <2>1. ASSUME NEW m \in Legs, room'[m] # None
        PROVE  room'[room'[m]] = room'[m] /\ number[m] = number[room'[m]]
    <3>1. CASE m = l
      BY <1>4, <1>5, <3>1
    <3>2. CASE m # l
      <4>1. /\ room'[m] = room[m] /\ room[m] \in Legs
            /\ room[room[m]] = room[m] /\ number[m] = number[room[m]]
        BY <1>0, <1>4, <2>1, <3>2 DEF RoomInv, JoinedInv
      <4> QED
        BY <1>1, <1>4, <4>1, NoneAssumption
    <3> QED
      BY <3>1, <3>2
  <2>2. ASSUME NEW m \in Legs, stops[m] # 0 PROVE room'[m] # None
    BY <1>4, <2>2, NoneAssumption DEF RoomInv, JoinedInv
  <2> QED
    BY <1>0, <2>1, <2>2 DEF JoinedInv
<1>10. ShutInv'
  <2> SUFFICES ASSUME NEW k \in Numbers, rooms'[k] # None, parts[rooms'[k]] = {}
               PROVE  \E m \in Legs : /\ pc'[m] = "add" \/ end[m] = "shut"
                                     /\ room'[m] = rooms'[k]
    BY <1>0 DEF ShutInv
  <2>1. CASE k = n
    BY <1>0, <1>4, <2>1
  <2>2. CASE k # n
    <3>1. rooms'[k] = rooms[k]
      BY <1>4, <2>2
    <3>2. PICK m \in Legs : end[m] = "shut" /\ room[m] = rooms[k]
      BY <1>0, <3>1 DEF RoomInv, ShutInv
    <3> QED
      BY <1>1, <1>4, <3>1, <3>2
  <2> QED
    BY <2>1, <2>2
<1>11. AddInv'
  BY <1>0, <1>1, <1>4, <1>5 DEF AddInv
<1> QED
  BY <1>7, <1>8, <1>9, <1>10, <1>11 DEF RoomInv

(* The room a leg is added to is still the one its number maps to. *)
LEMMA AddKeepsRooms ==
    ASSUME TypeOK, ProgressInv, RoomInv, NEW l \in Legs, AddToRoom(l)
    PROVE  RoomInv'
<1>0. /\ parts \in [Legs -> SUBSET Legs] /\ room \in [Legs -> Legs \cup {None}]
      /\ pc[l] = "add" /\ UNCHANGED <<number, rooms, stops, room, end>>
      /\ \A m \in Legs : pc'[m] = IF m = l THEN "in" ELSE pc[m]
  BY DEF TypeOK, RoomObjects, AddToRoom, Go, partVars
<1>1. room[l] \in Legs
  BY <1>0 DEF ProgressInv, Progress
<1>2. \A r \in Legs : parts'[r] = IF r = room[l] THEN parts[r] \cup {l} ELSE parts[r]
  BY <1>0, <1>1 DEF AddToRoom
<1>3. MemberInv'
  <2> SUFFICES ASSUME NEW s \in Legs, NEW m \in parts'[s]
               PROVE  room[m] = s /\ rooms[number[m]] = s /\ stops[s] = 0
    BY <1>0 DEF MemberInv
  <2>1. CASE m \in parts[s]
    BY <2>1 DEF RoomInv, MemberInv
  <2>2. CASE m = l /\ s = room[l]
    BY <1>0, <2>2 DEF RoomInv, AddInv
  <2> QED
    BY <1>2, <2>1, <2>2
<1>4. OpenInv' /\ JoinedInv'
  BY <1>0 DEF RoomInv, OpenInv, JoinedInv
<1>5. ShutInv'
  <2> SUFFICES ASSUME NEW k \in Numbers, rooms[k] # None, parts'[rooms[k]] = {}
               PROVE  \E m \in Legs : /\ pc'[m] = "add" \/ end[m] = "shut"
                                     /\ room[m] = rooms[k]
    BY <1>0 DEF ShutInv
  <2>1. rooms[k] # room[l]
    BY <1>1, <1>2
  <2>2. parts[rooms[k]] = {}
    <3>1. CASE rooms[k] \in Legs
      BY <1>2, <2>1, <3>1
    <3> QED
      BY <3>1 DEF TypeOK, RoomObjects
  <2>3. PICK m \in Legs : (pc[m] = "add" \/ end[m] = "shut") /\ room[m] = rooms[k]
    BY <2>2 DEF RoomInv, ShutInv
  <2> QED
    BY <1>0, <2>1, <2>3
<1>6. AddInv'
  BY <1>0 DEF RoomInv, AddInv
<1> QED
  BY <1>3, <1>4, <1>5, <1>6 DEF RoomInv

(* A leg that has left its room will look whether to shut it. *)
LEMMA RemoveKeepsRooms ==
    ASSUME TypeOK, ProgressInv, RoomInv, NEW l \in Legs, RemoveFromRoom(l)
    PROVE  RoomInv'
<1>0. /\ parts \in [Legs -> SUBSET Legs] /\ rooms \in [Numbers -> Legs \cup {None}]
      /\ end \in [Legs -> {"no", "leave", "remove", "shut", "port", "forget",
                           "record", "over"}]
      /\ UNCHANGED <<pc, number, rooms, stops, room>>
  BY DEF TypeOK, RoomObjects, RemoveFromRoom, legVars, partVars
<1>1. room[l] \in Legs /\ end[l] = "remove"
  BY DEF TypeOK, RoomObjects, RemoveFromRoom, ProgressInv, Progress
<1>2. /\ \A r \in Legs : parts'[r] = IF r = room[l] THEN parts[r] \ {l} ELSE parts[r]
      /\ \A m \in Legs : end'[m] = IF m = l THEN "shut" ELSE end[m]
  BY <1>0, <1>1 DEF RemoveFromRoom
<1>3. MemberInv'
  BY <1>0, <1>2 DEF RoomInv, MemberInv
<1>4. OpenInv' /\ JoinedInv'
  BY <1>0 DEF RoomInv, OpenInv, JoinedInv
<1>5. ShutInv'
  <2> SUFFICES ASSUME NEW k \in Numbers, rooms[k] # None, parts'[rooms[k]] = {}
               PROVE  \E m \in Legs : /\ pc[m] = "add" \/ end'[m] = "shut"
                                     /\ room[m] = rooms[k]
    BY <1>0 DEF ShutInv
  <2>1. CASE rooms[k] = room[l]
    BY <1>2, <2>1
  <2>2. CASE rooms[k] # room[l]
    <3>1. parts[rooms[k]] = {}
      BY <1>0, <1>2, <2>2
    <3>2. PICK m \in Legs : (pc[m] = "add" \/ end[m] = "shut") /\ room[m] = rooms[k]
      BY <3>1 DEF RoomInv, ShutInv
    <3> QED
      BY <1>2, <3>2
  <2> QED
    BY <2>1, <2>2
<1>6. AddInv'
  BY <1>0 DEF RoomInv, AddInv
<1> QED
  BY <1>3, <1>4, <1>5, <1>6 DEF RoomInv

(* Shutting looks again: a room with a member, or another room opened under *)
(* the number meanwhile, is left alone.                                    *)
LEMMA ShutKeepsRooms ==
    ASSUME TypeOK, ProgressInv, RoomInv, NEW l \in Legs, ShutRoom(l)
    PROVE  RoomInv'
<1> DEFINE r == room[l]  n == number[l]
<1>0. /\ rooms \in [Numbers -> Legs \cup {None}] /\ stops \in [Legs -> Nat]
      /\ parts \in [Legs -> SUBSET Legs] /\ room \in [Legs -> Legs \cup {None}]
      /\ end \in [Legs -> {"no", "leave", "remove", "shut", "port", "forget",
                           "record", "over"}]
      /\ UNCHANGED <<pc, number, parts, room>> /\ \A m \in Legs : pc[m] # "add"
  BY DEF TypeOK, RoomObjects, ShutRoom, legVars, partVars, ManagerLocked
<1>1. r \in Legs /\ n \in Numbers /\ end[l] = "shut" /\ number[r] = n /\ room[r] = r
  <2>1. end[l] = "shut" /\ r \in Legs /\ n \in Numbers
    BY <1>0 DEF ShutRoom, ProgressInv, Progress
  <2> QED
    BY <2>1, NoneAssumption DEF RoomInv, JoinedInv
<1>2. \A m \in Legs : end'[m] = IF m = l THEN "port" ELSE end[m]
  BY <1>0 DEF ShutRoom
<1>3. CASE /\ parts[r] = {} /\ rooms[n] = r
           /\ rooms' = [rooms EXCEPT ![n] = None]
           /\ stops' = [stops EXCEPT ![r] = @ + 1]
  <2>1. /\ \A k \in Numbers : rooms'[k] = IF k = n THEN None ELSE rooms[k]
        /\ \A m \in Legs : stops'[m] = IF m = r THEN stops[r] + 1 ELSE stops[m]
    BY <1>0, <1>1, <1>3
  <2>2. MemberInv'
    <3> SUFFICES ASSUME NEW s \in Legs, NEW m \in parts[s]
                 PROVE  room[m] = s /\ rooms'[number[m]] = s /\ stops'[s] = 0
      BY <1>0 DEF MemberInv
    <3>1. m \in Legs /\ room[m] = s /\ rooms[number[m]] = s /\ stops[s] = 0
      BY <1>0 DEF RoomInv, MemberInv
    <3>2. s # r /\ number[m] \in Numbers
      BY <1>3, <3>1, NoneAssumption DEF ProgressInv, Progress
    <3>3. number[m] # n
      BY <1>3, <3>1, <3>2
    <3> QED
      BY <2>1, <3>1, <3>2, <3>3
  <2>3. OpenInv'
    <3> SUFFICES ASSUME NEW k \in Numbers, rooms'[k] # None
                 PROVE  /\ number[rooms'[k]] = k /\ stops'[rooms'[k]] = 0
                        /\ room[rooms'[k]] = rooms'[k]
      BY <1>0 DEF OpenInv
    <3>1. /\ k # n /\ rooms'[k] = rooms[k] /\ rooms[k] \in Legs
          /\ number[rooms[k]] = k /\ stops[rooms[k]] = 0 /\ room[rooms[k]] = rooms[k]
      BY <1>0, <2>1 DEF RoomInv, OpenInv
    <3> QED
      BY <1>1, <2>1, <3>1
  <2>4. JoinedInv'
    BY <1>0, <1>1, <2>1, NoneAssumption DEF RoomInv, JoinedInv
  <2>5. ShutInv'
    <3> SUFFICES ASSUME NEW k \in Numbers, rooms'[k] # None, parts[rooms'[k]] = {}
                 PROVE  \E m \in Legs : /\ pc[m] = "add" \/ end'[m] = "shut"
                                       /\ room[m] = rooms'[k]
      BY <1>0 DEF ShutInv
    <3>1. k # n /\ rooms'[k] = rooms[k] /\ number[rooms[k]] = k
      BY <2>1 DEF RoomInv, OpenInv
    <3>2. PICK m \in Legs : end[m] = "shut" /\ room[m] = rooms[k]
      BY <1>0, <3>1 DEF RoomInv, ShutInv
    <3>3. m # l
      BY <1>1, <3>1, <3>2
    <3> QED
      BY <1>2, <3>1, <3>2, <3>3
  <2> QED
    BY <1>0, <2>2, <2>3, <2>4, <2>5 DEF RoomInv, AddInv
<1>4. CASE ~(parts[r] = {} /\ rooms[n] = r) /\ UNCHANGED <<rooms, stops>>
  <2>1. MemberInv' /\ OpenInv' /\ JoinedInv'
    BY <1>0, <1>4 DEF RoomInv, MemberInv, OpenInv, JoinedInv
  <2>2. ShutInv'
    <3> SUFFICES ASSUME NEW k \in Numbers, rooms[k] # None, parts[rooms[k]] = {}
                 PROVE  \E m \in Legs : /\ pc[m] = "add" \/ end'[m] = "shut"
                                       /\ room[m] = rooms[k]
      BY <1>0, <1>4 DEF ShutInv
    <3>1. number[rooms[k]] = k
      BY DEF RoomInv, OpenInv
    <3>2. PICK m \in Legs : end[m] = "shut" /\ room[m] = rooms[k]
      BY <1>0 DEF RoomInv, ShutInv
    <3>3. m # l
      BY <1>1, <1>4, <3>1, <3>2
    <3> QED
      BY <1>2, <3>2, <3>3
  <2> QED
    BY <1>0, <2>1, <2>2 DEF RoomInv, AddInv
<1> QED
  BY <1>3, <1>4 DEF ShutRoom

LEMMA RoomStep == TypeOK /\ ProgressInv /\ RoomInv /\ [Next]_vars => RoomInv'
<1> SUFFICES ASSUME TypeOK, ProgressInv, RoomInv, [Next]_vars PROVE RoomInv'
  OBVIOUS
<1> USE DEF legVars, roomVars, partVars, Go
<1>0. /\ pc \in [Legs -> {"idle", "refused", "invite", "media", "answer", "join", "add",
                        "in", "gone"}]
      /\ number \in [Legs -> Numbers \cup {None}]
      /\ end \in [Legs -> {"no", "leave", "remove", "shut", "port", "forget",
                           "record", "over"}]
  BY DEF TypeOK
<1>9. \A l \in Legs : pc[l] = "add" => room[l] # None
  BY DEF ProgressInv, Progress
<1>1. ASSUME NEW l \in Legs, JoinConference(l) PROVE RoomInv'
  <2>1. \A m \in Legs : room[m] # None => number'[m] = number[m]
    BY <1>0, <1>1 DEF JoinConference, ProgressInv, Progress
  <2> QED
    BY <1>0, <1>1, <1>9, <2>1, RoomFrame DEF JoinConference
<1>2. ASSUME NEW l \in Legs,
             \/ NewEndpoint(l) \/ AnswerConference(l) \/ HandleAck(l) \/ AnswerLost(l)
             \/ KeyPressed(l) \/ TickKick(l) \/ TimerKick(l)
      PROVE  RoomInv'
  BY <1>0, <1>2, <1>9, RoomFrame DEF NewEndpoint, AnswerConference, HandleAck, AnswerLost,
         KeyPressed, Digit, TickKick, TimerKick, Kick
<1>3. ASSUME NEW l \in Legs,
             \/ HandleBye(l) \/ KickHangup(l) \/ HangupAllOne(l) \/ Leave(l)
             \/ CloseEndpoint(l) \/ ForgetLeg(l) \/ RecordLeg(l)
      PROVE  RoomInv'
  <2>1. /\ UNCHANGED <<pc, rooms, parts, stops, room, number>>
        /\ \A m \in Legs : end[m] = "shut" => end'[m] = "shut"
    BY <1>0, <1>3 DEF HandleBye, KickHangup, HangupAllOne, BeginEnd, Leave, CloseEndpoint,
           ForgetLeg, RecordLeg
  <2> QED
    BY <1>9, <2>1, RoomFrame
<1>4. CASE HangupAll \/ HangupAllWaited \/ CloseStore \/ UNCHANGED vars
  BY <1>4, <1>9, RoomFrame DEF HangupAll, HangupAllWaited, CloseStore, vars
<1> QED
  BY <1>1, <1>2, <1>3, <1>4, JoinKeepsRooms, AddKeepsRooms,
     RemoveKeepsRooms, ShutKeepsRooms
     DEF Next, Dead, ServerStep, PhoneStep, InviteStep, EndStep

(* Everything holds initially. *)
LEMMA InitInv == Init => TypeOK /\ ProgressInv /\ PortInv /\ RoomInv /\ WaitedInv
<1> SUFFICES ASSUME Init PROVE TypeOK /\ ProgressInv /\ PortInv /\ RoomInv /\ WaitedInv
  OBVIOUS
<1>0. [l \in Legs |-> <<>>] \in [Legs -> Saves]
  BY DEF Saves
<1>1. TypeOK
  BY <1>0 DEF Init, TypeOK, RoomObjects
<1>2. ProgressInv
  BY DEF Init, ProgressInv, Progress
<1>3. PortInv
  BY NoneAssumption DEF Init, PortInv
<1>4. RoomInv /\ WaitedInv
  BY DEF Init, RoomInv, MemberInv, OpenInv, JoinedInv, ShutInv, AddInv,
         WaitedInv, RoomObjects
<1> QED
  BY <1>1, <1>2, <1>3, <1>4

(* The inductive invariant. *)
THEOREM Invariance == Spec => [](TypeOK /\ ProgressInv /\ PortInv /\ RoomInv /\ WaitedInv)
<1>1. TypeOK /\ ProgressInv /\ PortInv /\ RoomInv /\ WaitedInv /\ [Next]_vars
      => (TypeOK /\ ProgressInv /\ PortInv /\ RoomInv /\ WaitedInv)'
  BY TypeStep, ProgressStep, PortStep, RoomStep, WaitedStep
<1> QED
  BY InitInv, <1>1, PTL DEF Spec

(* Conference's variables keep their types. *)
THEOREM TypeCorrect == Spec => []TypeOK
  BY Invariance, PTL

(***************************************************************************)
(* RoomsOpenWhileUsed: Join and room.remove never leave a participant in a *)
(* room whose mixer was stopped, nor an empty room that nobody will shut.  *)
(***************************************************************************)
THEOREM UsedRoomsOpen == Spec => []RoomsOpenWhileUsed
<1>1. RoomInv => RoomsOpenWhileUsed
  BY DEF RoomInv, MemberInv, ShutInv, RoomsOpenWhileUsed, RoomObjects
<1> QED
  BY Invariance, <1>1, PTL

(* LegPortsConserved: every way through joinConference and endConference   *)
(* gives the leg's RTP port pair back, exactly once.                       *)
THEOREM LegPortsNeverLost == Spec => []LegPortsConserved
<1>1. TypeOK /\ PortInv => LegPortsConserved
  <2> SUFFICES ASSUME TypeOK, PortInv PROVE LegPortsConserved
    OBVIOUS
  <2>0. port \in [Legs -> Ports \cup {None}] /\ free \in SUBSET Ports
    BY DEF TypeOK
  <2>1. free \cup ({port[l] : l \in Legs} \ {None}) = Ports
    <3>1. free \cup ({port[l] : l \in Legs} \ {None}) \subseteq Ports
      BY <2>0
    <3>2. Ports \subseteq free \cup ({port[l] : l \in Legs} \ {None})
      BY NoneAssumption DEF PortInv
    <3> QED
      BY <3>1, <3>2
  <2> QED
    BY <2>1 DEF PortInv, LegPortsConserved
<1> QED
  BY Invariance, <1>1, PTL

(* Each step takes a pair for one leg, gives one leg's back, or is no step *)
(* of PortSet.                                                             *)
LEMMA PairStep ==
    TypeOK /\ ProgressInv /\ PortInv /\ [Next]_vars => [Promise!Next]_(Promise!vars)
<1> SUFFICES ASSUME TypeOK, ProgressInv, PortInv, [Next]_vars, ~UNCHANGED Promise!vars
             PROVE  Promise!Next
  OBVIOUS
<1> USE DEF legVars, poolVars, roomVars, partVars, downVars, Promise!vars, Go
<1>1. ASSUME NEW l \in Legs, ClosePort(l) PROVE Promise!Next
  <2>1. port[l] # None
    BY <1>1 DEF ClosePort, TypeOK
  <2>2. Promise!Give(l)
    BY <1>1, <2>1, NoneAssumption DEF ClosePort, TypeOK, Promise!Give
  <2> QED
    BY <2>2 DEF Promise!Next
<1>2. ASSUME NEW l \in Legs, NewEndpoint(l) PROVE Promise!Next
  <2>1. port[l] = None
    BY <1>2 DEF NewEndpoint, PortInv
  <2>2. Promise!Take(l)
    BY <1>2, <2>1 DEF NewEndpoint, Promise!Take
  <2> QED
    BY <2>2 DEF Promise!Next
<1>3. ASSUME NEW l \in Legs, AnswerConference(l) \/ AnswerLost(l) \/ CloseEndpoint(l)
      PROVE  Promise!Next
  BY <1>1, <1>3 DEF AnswerConference, AnswerLost, CloseEndpoint
<1>4. ASSUME NEW l \in Legs,
             \/ JoinConference(l) \/ HandleAck(l) \/ Join(l) \/ KeyPressed(l)
             \/ TickKick(l) \/ TimerKick(l) \/ HandleBye(l) \/ KickHangup(l)
             \/ HangupAllOne(l) \/ Leave(l) \/ RemoveFromRoom(l) \/ ShutRoom(l)
             \/ ForgetLeg(l) \/ RecordLeg(l) \/ AddToRoom(l)
      PROVE  FALSE
  BY <1>4 DEF JoinConference, HandleAck, Join, KeyPressed, Digit, TickKick, TimerKick, Kick,
              HandleBye, KickHangup, HangupAllOne, BeginEnd, Leave, RemoveFromRoom,
              ShutRoom, ForgetLeg, RecordLeg, AddToRoom
<1>5. CASE HangupAll \/ HangupAllWaited \/ CloseStore \/ UNCHANGED vars
  BY <1>5 DEF HangupAll, HangupAllWaited, CloseStore, vars
<1> QED
  BY <1>2, <1>3, <1>4, <1>5 DEF Next, Dead, ServerStep, PhoneStep, InviteStep, EndStep

(* UsesPortSet: the legs use the pool as PortSet has it, which PortPool is *)
(* proved to implement: no way through joinConference and endConference    *)
(* takes a second pair or gives back one that is not the leg's.            *)
THEOREM LegsUsePortSet == Spec => UsesPortSet
<1>1. Init => Promise!Init
  BY DEF Init, Promise!Init
<1>2. TypeOK /\ ProgressInv /\ PortInv /\ [Next]_vars => [Promise!Next]_(Promise!vars)
  BY PairStep
<1> QED
  BY Invariance, <1>1, <1>2, PTL DEF Spec, UsesPortSet, Promise!Spec

(* SnapshotLegsRecorded: the store is only closed once every leg that      *)
(* HangupAll found has its one record.                                     *)
THEOREM ShutdownRecordsLegs == Spec => []SnapshotLegsRecorded
<1>1. TypeOK /\ ProgressInv /\ WaitedInv => SnapshotLegsRecorded
  BY DEF TypeOK, ProgressInv, Progress, WaitedInv, SnapshotLegsRecorded
<1> QED
  BY Invariance, <1>1, PTL

-----------------------------------------------------------------------------
(***************************************************************************)
(* Reinvite, for any number of request goroutines, any offers and any      *)
(* number of SDPs, with and without hold music.                            *)
(***************************************************************************)

(***************************************************************************)
(* The flag reinvite is a lock: at most one re-INVITE is under way, and    *)
(* nobody but a re-INVITE gets to the steps of a hold.                     *)
(***************************************************************************)
Holding == {"stopmusic", "unblock", "block", "play"}

LockInv ==
    /\ \A r \in Reqs : at[r] # "idle" /\ req[r].invite => reinvite
    /\ \A r, q \in Reqs :
           /\ at[r] # "idle" /\ req[r].invite
           /\ at[q] # "idle" /\ req[q].invite
           => r = q
    /\ \A r \in Reqs : at[r] \in Holding \cup {"reply"} =>
           req[r].invite /\ req[r].dir \in Dirs

(* The relay does what the holds say. *)
Silent == \A s \in Sides : ~players[s]
Agreed ==
    /\ \A s \in Sides : blocked[s] <=> Held
    /\ \A s \in Sides : players[s] => holdBy[Other(s)]
    /\ Cardinality({s \in Sides : players[s]}) = IF Held /\ Music THEN 1 ELSE 0

(***************************************************************************)
(* While a hold or a resume is under way the relay lags behind the holds,  *)
(* and each step is prepared by those before it.                           *)
(***************************************************************************)
Underway(r) ==
    at[r] \in Holding =>
        /\ holdBy[req[r].from] = OnHold(req[r].dir)
        /\ at[r] # "stopmusic" => Silent
        /\ at[r] \in {"block", "play"} => Held
        /\ at[r] = "play" => \A s \in Sides : blocked[s]

HoldInv ==
    hang = "no" =>
        /\ \A r \in Reqs : Underway(r)
        /\ (\A r \in Reqs : at[r] \notin Holding) => Agreed

ReinviteInv == ReinviteTypeOK /\ LockInv /\ HoldInv /\ PlayersKnown
-----------------------------------------------------------------------------
(* Stopping and starting players keeps their count right. *)
LEMMA PlayersStep ==
    ASSUME ReinviteTypeOK, PlayersKnown, [ReinviteNext]_reinviteVars
    PROVE  PlayersKnown' /\ players' \in [Sides -> BOOLEAN] /\ playing' \in [Sides -> Nat]
<1>1. players \in [Sides -> BOOLEAN] /\ playing \in [Sides -> Nat]
  BY DEF ReinviteTypeOK
<1>2. CASE UNCHANGED relayVars \/ UNCHANGED <<players, playing>>
  BY <1>1, <1>2 DEF PlayersKnown, relayVars
<1>3. CASE StopMusic
  BY <1>1, <1>3 DEF StopMusic, PlayersKnown
<1>4. ASSUME NEW r \in Reqs, HoldPlay(r)
      PROVE  PlayersKnown' /\ players' \in [Sides -> BOOLEAN] /\ playing' \in [Sides -> Nat]
  <2> SUFFICES ASSUME NEW listener, listener = Other(Holder(r))
               PROVE  PlayersKnown' /\ players' \in [Sides -> BOOLEAN]
                      /\ playing' \in [Sides -> Nat]
    OBVIOUS
  <2>1. listener \in Sides
    BY DEF Other, Holder, Sides, ReinviteTypeOK
  <2>2. CASE Music /\ ~players[listener]
    <3>1. /\ players' = [players EXCEPT ![listener] = TRUE]
          /\ playing' = [playing EXCEPT ![listener] = playing[listener] + 1]
      BY <1>4, <2>2 DEF HoldPlay
    <3>2. playing[listener] = 0
      BY <2>1, <2>2 DEF PlayersKnown
    <3> QED
      BY <1>1, <2>1, <3>1, <3>2 DEF PlayersKnown
  <2>3. CASE ~(Music /\ ~players[listener])
    BY <1>1, <1>2, <1>4, <2>3 DEF HoldPlay
  <2> QED
    BY <2>2, <2>3
<1>5. ASSUME NEW r \in Reqs,
             \/ Refresh(r) \/ Refuse(r) \/ Forward(r) \/ ForwardAnswered(r)
             \/ HandleHold(r) \/ HoldUnblock(r) \/ HoldBlock(r) \/ HoldReply(r)
             \/ \E from \in Sides, invite \in BOOLEAN, dir \in Offers :
                    Arrive(r, from, invite, dir)
      PROVE  UNCHANGED relayVars \/ UNCHANGED <<players, playing>>
  BY <1>5 DEF Refresh, Refuse, Forward, ForwardAnswered, HandleHold, HoldUnblock, Unblock,
              HoldBlock, HoldReply, Arrive
<1>6. CASE Hangup \/ CloseUnblock \/ Unregister \/ Over \/ UNCHANGED reinviteVars
  BY <1>2, <1>6 DEF Hangup, CloseUnblock, Unblock, Unregister, Over, reinviteVars, relayVars
<1>7. CASE CloseStopMusic
  BY <1>3, <1>7 DEF CloseStopMusic
<1>8. ASSUME NEW r \in Reqs, HoldStopMusic(r) PROVE StopMusic
  BY <1>8 DEF HoldStopMusic
<1> QED
  BY <1>2, <1>3, <1>4, <1>5, <1>6, <1>7, <1>8 DEF ReinviteNext, ReqStep, HangupStep

(* The types; what a request does to the relay is PlayersStep's. *)
LEMMA ReinviteTypeStep ==
    ASSUME ReinviteTypeOK, PlayersKnown, ReinviteNext
    PROVE  ReinviteTypeOK'
<1>1. players' \in [Sides -> BOOLEAN] /\ playing' \in [Sides -> Nat]
  BY PlayersStep
<1>2. \A d : OnHold(d) \in BOOLEAN /\ AnswerDirection(d) \in Dirs
  BY DEF OnHold, AnswerDirection, Dirs
<1>3. ASSUME NEW r \in Reqs, NEW from \in Sides, NEW invite \in BOOLEAN, NEW dir \in Offers,
             Arrive(r, from, invite, dir)
      PROVE  ReinviteTypeOK'
  <2>1. ver' \in [Sides -> Nat] /\ dir \in Dirs \cup {"none", "bad"}
    BY <1>3, OffersAssumption DEF Arrive, ReinviteTypeOK
  <2> QED
    BY <1>1, <1>3, <2>1 DEF Arrive, ReinviteTypeOK, GoOn, relayVars
<1>4. ASSUME NEW r \in Reqs, Refresh(r) \/ Refuse(r) \/ HoldReply(r) PROVE ReinviteTypeOK'
  <2>1. req[r].from \in Sides
    BY DEF ReinviteTypeOK
  <2>2. seen' \in [Sides -> SDP]
    BY <1>4, <2>1 DEF Refresh, Refuse, HoldReply, Deliver, ReinviteTypeOK
  <2>3. /\ Return(r)
        /\ UNCHANGED <<holdBy, sdpTo, relayVars, ver, hang>>
    BY <1>4 DEF Refresh, Refuse, HoldReply
  <2> QED
    BY <1>1, <2>2, <2>3 DEF Return, GoOn, ReinviteTypeOK, NoReq, Sides, relayVars
<1>5. ASSUME NEW r \in Reqs, Forward(r) PROVE ReinviteTypeOK'
  <2> SUFFICES ASSUME NEW to, to = Other(req[r].from),
                      NEW body, body = [ver |-> req[r].ver, dir |-> req[r].dir]
               PROVE  ReinviteTypeOK'
    OBVIOUS
  <2>1. to \in Sides /\ (req[r].dir \in Dirs => body \in SDP)
    BY DEF Other, Sides, ReinviteTypeOK, SDP
  <2>2. seen' \in [Sides -> SDP] /\ sdpTo' \in [Sides -> SDP]
    BY <1>5, <2>1 DEF Forward, Deliver, ReinviteTypeOK
  <2> QED
    BY <1>5, <2>2 DEF Forward, GoOn, ReinviteTypeOK, relayVars
<1>6. ASSUME NEW r \in Reqs, ForwardAnswered(r) PROVE ReinviteTypeOK'
  <2> SUFFICES ASSUME NEW from, from = req[r].from, NEW to, to = Other(from)
               PROVE  ReinviteTypeOK'
    OBVIOUS
  <2>1. to \in Sides /\ from \in Sides
    BY DEF Other, Sides, ReinviteTypeOK
  <2>2. seen' \in [Sides -> SDP] /\ sdpTo' \in [Sides -> SDP] /\ ver' \in [Sides -> Nat]
    <3>1. CASE UNCHANGED <<sdpTo, seen, ver>>
      BY <3>1 DEF ReinviteTypeOK
    <3>2. CASE ~UNCHANGED <<sdpTo, seen, ver>>
      <4>1. ver' = [ver EXCEPT ![to] = @ + 1]
        BY <1>6, <3>2 DEF ForwardAnswered
      <4>2. ver' \in [Sides -> Nat] /\ ver'[to] \in Nat
        BY <2>1, <4>1 DEF ReinviteTypeOK
      <4>3. [ver |-> ver'[to], dir |-> AnswerDirection(req[r].dir)] \in SDP
        BY <1>2, <4>2 DEF SDP
      <4> QED
        BY <1>6, <2>1, <3>2, <4>2, <4>3 DEF ForwardAnswered, Deliver, ReinviteTypeOK
    <3> QED
      BY <3>1, <3>2
  <2> QED
    BY <1>6, <2>2 DEF ForwardAnswered, Return, GoOn, ReinviteTypeOK, NoReq, Sides, relayVars
<1>7. ASSUME NEW r \in Reqs, HandleHold(r) PROVE ReinviteTypeOK'
  <2>1. req[r].from \in Sides /\ sdpTo[req[r].from] \in SDP
    BY DEF ReinviteTypeOK
  <2>2. [ver |-> sdpTo[req[r].from].ver + 1, dir |-> AnswerDirection(req[r].dir)] \in SDP
    BY <1>2, <2>1 DEF SDP
  <2>3. sdpTo' \in [Sides -> SDP] /\ holdBy' \in [Sides -> BOOLEAN]
    BY <1>2, <1>7, <2>1, <2>2 DEF HandleHold, ReinviteTypeOK
  <2> QED
    BY <1>7, <2>3 DEF HandleHold, GoOn, ReinviteTypeOK, relayVars
<1>8. ASSUME NEW r \in Reqs,
             HoldStopMusic(r) \/ HoldUnblock(r) \/ HoldBlock(r) \/ HoldPlay(r)
      PROVE  ReinviteTypeOK'
  <2>1. /\ UNCHANGED <<req, callVars, seen, ver, hang>>
        /\ at' \in [Reqs -> {"idle", "body", "do", "stopmusic", "unblock", "block",
                             "play", "reply"}]
        /\ blocked' \in [Sides -> BOOLEAN]
    BY <1>8 DEF HoldStopMusic, HoldUnblock, HoldBlock, HoldPlay, StopMusic, Unblock, GoOn,
         ReinviteTypeOK
  <2> QED
    BY <1>1, <2>1 DEF ReinviteTypeOK, callVars
<1>9. CASE Hangup \/ HangupStep \/ Over
  BY <1>1, <1>9 DEF Hangup, HangupStep, CloseStopMusic, StopMusic, CloseUnblock, Unblock,
                    Unregister, Over, reinviteVars, callVars, relayVars, ReinviteTypeOK
<1> QED
  BY <1>3, <1>4, <1>5, <1>6, <1>7, <1>8, <1>9 DEF ReinviteNext, ReqStep
-----------------------------------------------------------------------------
(* A request that goes on keeps the lock, one that returns gives it back. *)
LEMMA LockFrame ==
    ASSUME ReinviteTypeOK, LockInv, NEW r \in Reqs, NEW to, GoOn(r, to),
           at[r] # "idle", to # "idle", req' = req, reinvite' = reinvite,
           to \in Holding \cup {"reply"} => req[r].invite /\ req[r].dir \in Dirs
    PROVE  LockInv'
BY DEF LockInv, GoOn, ReinviteTypeOK

LEMMA LockReturn ==
    ASSUME ReinviteTypeOK, LockInv, NEW r \in Reqs, Return(r), at[r] # "idle"
    PROVE  LockInv'
<1>1. /\ at'[r] = "idle" /\ \A q \in Reqs \ {r} : at'[q] = at[q] /\ req'[q] = req[q]
      /\ reinvite' = IF req[r].invite THEN FALSE ELSE reinvite
  BY DEF Return, GoOn, ReinviteTypeOK
<1>2. ASSUME NEW q \in Reqs, at'[q] # "idle" /\ req'[q].invite PROVE reinvite'
  BY <1>1, <1>2 DEF LockInv
<1>3. ASSUME NEW p \in Reqs, NEW q \in Reqs,
             at'[p] # "idle" /\ req'[p].invite, at'[q] # "idle" /\ req'[q].invite
      PROVE  p = q
  BY <1>1, <1>3 DEF LockInv
<1>4. ASSUME NEW q \in Reqs, at'[q] \in Holding \cup {"reply"}
      PROVE  req'[q].invite /\ req'[q].dir \in Dirs
  BY <1>1, <1>4 DEF LockInv, Holding
<1> QED
  BY <1>2, <1>3, <1>4 DEF LockInv

LEMMA LockStep ==
    ASSUME ReinviteTypeOK, LockInv, [ReinviteNext]_reinviteVars
    PROVE  LockInv'
<1>1. ASSUME NEW r \in Reqs, NEW from \in Sides, NEW invite \in BOOLEAN, NEW dir \in Offers,
             Arrive(r, from, invite, dir)
      PROVE  LockInv'
  <2>1. /\ at'[r] = "body" /\ req'[r].invite = invite /\ reinvite' = (reinvite \/ invite)
        /\ invite => ~reinvite
        /\ \A q \in Reqs \ {r} : at'[q] = at[q] /\ req'[q] = req[q]
    BY <1>1 DEF Arrive, GoOn, ReinviteTypeOK
  <2>2. \A q \in Reqs : at'[q] # "idle" /\ req'[q].invite => reinvite'
    BY <2>1 DEF LockInv
  <2>3. ASSUME NEW p \in Reqs, NEW q \in Reqs,
               at'[p] # "idle" /\ req'[p].invite, at'[q] # "idle" /\ req'[q].invite
        PROVE  p = q
    BY <2>1, <2>3 DEF LockInv
  <2>4. \A q \in Reqs : at'[q] \in Holding \cup {"reply"} =>
            req'[q].invite /\ req'[q].dir \in Dirs
    BY <2>1 DEF LockInv, Holding
  <2> QED
    BY <2>2, <2>3, <2>4 DEF LockInv
<1>2. ASSUME NEW r \in Reqs, Refresh(r) \/ Refuse(r) \/ ForwardAnswered(r) \/ HoldReply(r)
      PROVE  LockInv'
  <2>1. Return(r) /\ at[r] # "idle"
    BY <1>2 DEF Refresh, Refuse, ForwardAnswered, HoldReply
  <2> QED
    BY <2>1, LockReturn
<1>3. ASSUME NEW r \in Reqs, Forward(r) PROVE LockInv'
  BY <1>3, LockFrame DEF Forward, Holding
<1>4. ASSUME NEW r \in Reqs, HandleHold(r) PROVE LockInv'
  BY <1>4, LockFrame DEF HandleHold, IsHold
<1>5. ASSUME NEW r \in Reqs,
             HoldStopMusic(r) \/ HoldUnblock(r) \/ HoldBlock(r) \/ HoldPlay(r)
      PROVE  LockInv'
  <2>1. at[r] \in Holding /\ UNCHANGED <<req, reinvite>>
    BY <1>5 DEF HoldStopMusic, HoldUnblock, HoldBlock, HoldPlay, Holding, callVars
  <2>2. PICK to \in Holding \cup {"reply"} : GoOn(r, to)
    BY <1>5 DEF HoldStopMusic, HoldUnblock, HoldBlock, HoldPlay, Holding
  <2>3. req[r].invite /\ req[r].dir \in Dirs
    BY <2>1 DEF LockInv
  <2>4. at[r] # "idle" /\ to # "idle"
    BY <2>1, <2>2 DEF Holding
  <2> QED
    BY <2>1, <2>2, <2>3, <2>4, LockFrame
<1>6. CASE Hangup \/ HangupStep \/ Over \/ UNCHANGED reinviteVars
  BY <1>6 DEF Hangup, HangupStep, CloseStopMusic, CloseUnblock, Unregister, Over, reinviteVars,
              callVars, LockInv
<1> QED
  BY <1>1, <1>2, <1>3, <1>4, <1>5, <1>6 DEF ReinviteNext, ReqStep

-----------------------------------------------------------------------------
(* How many players there are, when there is none and when there is one. *)
LEMMA PlayersCount ==
    /\ \A f : (\A s \in Sides : ~f[s]) => Cardinality({s \in Sides : f[s]}) = 0
    /\ \A f, t : t \in Sides /\ (\A s \in Sides : f[s] <=> s = t) =>
           Cardinality({s \in Sides : f[s]}) = 1
<1>1. ASSUME NEW f, \A s \in Sides : ~f[s] PROVE Cardinality({s \in Sides : f[s]}) = 0
  <2>1. {s \in Sides : f[s]} = {}
    BY <1>1
  <2> QED
    BY <2>1, FS_EmptySet
<1>2. ASSUME NEW f, NEW t, t \in Sides /\ (\A s \in Sides : f[s] <=> s = t)
      PROVE  Cardinality({s \in Sides : f[s]}) = 1
  <2>1. {s \in Sides : f[s]} = {t}
    BY <1>2
  <2> QED
    BY <2>1, FS_Singleton
<1> QED
  BY <1>1, <1>2

(* Nobody else is at a hold while one request is. *)
LEMMA OneHolds ==
    ASSUME LockInv, NEW r \in Reqs, at[r] # "idle" /\ req[r].invite
    PROVE  \A q \in Reqs \ {r} : at[q] \notin Holding
BY DEF LockInv, Holding

(* Requests that neither are at a hold nor begin one. *)
LEMMA HoldFrame ==
    ASSUME HoldInv, NEW r \in Reqs, at[r] \notin Holding, at'[r] \notin Holding,
           \A q \in Reqs \ {r} : at'[q] = at[q] /\ req'[q] = req[q],
           UNCHANGED <<holdBy, relayVars, hang>>
    PROVE  HoldInv'
<1>1. blocked' = blocked /\ players' = players /\ holdBy' = holdBy /\ hang' = hang
  BY DEF relayVars
<1>2. Agreed' <=> Agreed
  BY <1>1 DEF Agreed, Held
<1>3. ASSUME NEW q \in Reqs, Underway(q) PROVE Underway(q)'
  BY <1>1, <1>3 DEF Underway, Silent, Held
<1>4. (\A q \in Reqs : at'[q] \notin Holding) => \A q \in Reqs : at[q] \notin Holding
  OBVIOUS
<1> QED
  BY <1>1, <1>2, <1>3, <1>4 DEF HoldInv

(* The steps of a hold or a resume, up to the one after which they agree. *)
LEMMA HoldingStep ==
    ASSUME ReinviteTypeOK, LockInv, HoldInv, NEW r \in Reqs, hang = "no",
           \/ HandleHold(r) \/ HoldStopMusic(r) \/ HoldUnblock(r) \/ HoldBlock(r)
           \/ HoldPlay(r)
    PROVE  HoldInv'
<1>1. at[r] # "idle" /\ req[r].invite
  BY DEF HandleHold, IsHold, HoldStopMusic, HoldUnblock, HoldBlock, HoldPlay, LockInv, Holding
<1>2. \A q \in Reqs \ {r} : at[q] \notin Holding
  BY <1>1, OneHolds
<1>3. req' = req /\ hang' = hang /\ \A q \in Reqs \ {r} : at'[q] = at[q]
  BY DEF HandleHold, HoldStopMusic, HoldUnblock, HoldBlock, HoldPlay, GoOn, ReinviteTypeOK
<1>4. SUFFICES Underway(r)' /\ (at'[r] \notin Holding => Agreed')
  BY <1>2, <1>3, <1>4 DEF HoldInv, Underway
<1>5. Underway(r)
  BY DEF HoldInv
<1>6. req[r].from \in Sides /\ Other(req[r].from) \in Sides
  BY DEF ReinviteTypeOK, Other, Sides
<1>7. CASE HandleHold(r)
  <2>1. at'[r] = "stopmusic" /\ holdBy'[req[r].from] = OnHold(req[r].dir)
    BY <1>6, <1>7 DEF HandleHold, GoOn, ReinviteTypeOK
  <2> QED
    BY <1>3, <2>1 DEF Underway, Holding
<1>8. CASE HoldStopMusic(r)
  <2>1. at[r] = "stopmusic" /\ at'[r] = "unblock" /\ holdBy' = holdBy /\ Silent'
    BY <1>8 DEF HoldStopMusic, StopMusic, Silent, GoOn, ReinviteTypeOK, callVars
  <2> QED
    BY <1>3, <1>5, <2>1 DEF Underway, Holding
<1>9. CASE HoldUnblock(r)
  <2>1. /\ at[r] = "unblock" /\ at'[r] = (IF Held THEN "block" ELSE "reply")
        /\ holdBy' = holdBy /\ players' = players
        /\ \A s \in Sides : ~blocked'[s]
    BY <1>9 DEF HoldUnblock, Unblock, GoOn, ReinviteTypeOK, callVars
  <2>2. Held' = Held /\ Silent /\ Silent'
    BY <1>5, <2>1 DEF Held, Silent, Underway, Holding
  <2>3. CASE Held
    BY <1>3, <1>5, <2>1, <2>2, <2>3 DEF Underway, Holding
  <2>4. CASE ~Held
    <3>1. Cardinality({s \in Sides : players'[s]}) = 0
      BY <2>2, PlayersCount DEF Silent
    <3>2. Agreed'
      BY <2>1, <2>2, <2>4, <3>1 DEF Agreed, Silent
    <3> QED
      BY <2>1, <2>4, <3>2 DEF Underway, Holding
  <2> QED
    BY <2>3, <2>4
<1>10. CASE HoldBlock(r)
  <2>1. /\ at[r] = "block" /\ at'[r] = "play"
        /\ holdBy' = holdBy /\ players' = players
        /\ \A s \in Sides : blocked'[s]
    BY <1>10 DEF HoldBlock, GoOn, ReinviteTypeOK, callVars
  <2> QED
    BY <1>3, <1>5, <2>1 DEF Underway, Holding, Silent, Held
<1>11. CASE HoldPlay(r)
  <2> SUFFICES ASSUME NEW listener, listener = Other(Holder(r))
               PROVE  Underway(r)' /\ (at'[r] \notin Holding => Agreed')
    OBVIOUS
  <2>1. /\ at[r] = "play" /\ at'[r] = "reply"
        /\ holdBy' = holdBy /\ blocked' = blocked
    BY <1>11 DEF HoldPlay, GoOn, ReinviteTypeOK, callVars
  <2>2. Silent /\ Held /\ (\A s \in Sides : blocked[s])
        /\ holdBy[req[r].from] = OnHold(req[r].dir)
    BY <1>5, <2>1 DEF Underway, Holding
  <2>3. listener \in Sides /\ holdBy[Other(listener)]
    BY <1>6, <2>2 DEF Holder, Held, Other, Sides
  <2>4. Held' /\ \A s \in Sides : blocked'[s]
    BY <2>1, <2>2 DEF Held
  <2>5. Cardinality({s \in Sides : players'[s]}) = (IF Music THEN 1 ELSE 0)
        /\ \A s \in Sides : players'[s] => s = listener
    <3>1. CASE Music
      <4>1. players' = [players EXCEPT ![listener] = TRUE]
        BY <1>11, <2>2, <2>3, <3>1 DEF HoldPlay, Silent
      <4>2. \A s \in Sides : players'[s] <=> s = listener
        BY <2>2, <2>3, <4>1 DEF Silent, ReinviteTypeOK
      <4> QED
        BY <2>3, <3>1, <4>2, PlayersCount
    <3>2. CASE ~Music
      <4>1. players' = players
        BY <1>11, <3>2 DEF HoldPlay
      <4> QED
        BY <2>2, <3>2, <4>1, PlayersCount DEF Silent
    <3> QED
      BY <3>1, <3>2
  <2>6. Agreed'
    BY <2>1, <2>3, <2>4, <2>5 DEF Agreed
  <2> QED
    BY <2>1, <2>6 DEF Underway, Holding
<1> QED
  BY <1>7, <1>8, <1>9, <1>10, <1>11

LEMMA HoldStep ==
    ASSUME ReinviteTypeOK, LockInv, HoldInv, [ReinviteNext]_reinviteVars
    PROVE  HoldInv'
<1>1. CASE hang # "no"
  <2>1. hang' # "no"
    BY <1>1 DEF ReinviteNext, ReqStep, Arrive, Refresh, Refuse, Forward, ForwardAnswered,
         HandleHold,
       HoldStopMusic, HoldUnblock, HoldBlock, HoldPlay, HoldReply, Hangup, HangupStep,
       CloseStopMusic, CloseUnblock, Unregister, Over, reinviteVars
  <2> QED
    BY <2>1 DEF HoldInv
<1>2. ASSUME hang = "no", NEW r \in Reqs, ReqStep(r) PROVE HoldInv'
  <2>1. CASE \/ HandleHold(r) \/ HoldStopMusic(r) \/ HoldUnblock(r) \/ HoldBlock(r)
             \/ HoldPlay(r)
    BY <1>2, <2>1, HoldingStep
  <2>2. CASE Refresh(r) \/ Refuse(r) \/ Forward(r) \/ ForwardAnswered(r) \/ HoldReply(r)
    <3>1. /\ at[r] \notin Holding /\ at'[r] \notin Holding
          /\ \A q \in Reqs \ {r} : at'[q] = at[q] /\ req'[q] = req[q]
          /\ UNCHANGED <<holdBy, relayVars, hang>>
      BY <2>2 DEF Refresh, Refuse, Forward, ForwardAnswered, HoldReply, Return, GoOn,
           ReinviteTypeOK,
                  Holding
    <3> QED
      BY <3>1, HoldFrame
  <2> QED
    BY <1>2, <2>1, <2>2 DEF ReqStep
<1>3. ASSUME NEW r \in Reqs, NEW from \in Sides, NEW invite \in BOOLEAN, NEW dir \in Offers,
             Arrive(r, from, invite, dir)
      PROVE  HoldInv'
  <2>1. /\ at[r] \notin Holding /\ at'[r] \notin Holding
        /\ \A q \in Reqs \ {r} : at'[q] = at[q] /\ req'[q] = req[q]
        /\ UNCHANGED <<holdBy, relayVars, hang>>
    BY <1>3 DEF Arrive, GoOn, ReinviteTypeOK, Holding
  <2> QED
    BY <2>1, HoldFrame
<1>4. CASE hang = "no" /\ (Hangup \/ HangupStep)
  BY <1>4 DEF Hangup, HangupStep, CloseStopMusic, CloseUnblock, Unregister, HoldInv
<1>5. CASE Over \/ UNCHANGED reinviteVars
  BY <1>5 DEF Over, reinviteVars, callVars, relayVars, HoldInv, Underway, Agreed, Silent, Held
<1> QED
  BY <1>1, <1>2, <1>3, <1>4, <1>5 DEF ReinviteNext

-----------------------------------------------------------------------------
(* The inductive invariant. *)
THEOREM ReinviteInvariance == ReinviteSpec => []ReinviteInv
<1>1. ReinviteInit => ReinviteInv
  <2> SUFFICES ASSUME ReinviteInit PROVE ReinviteInv
    OBVIOUS
  <2>1. ReinviteTypeOK
    BY DEF ReinviteInit, ReinviteTypeOK, NoReq, SDP, Dirs, Sides
  <2>2. LockInv /\ PlayersKnown
    BY DEF ReinviteInit, LockInv, Holding, PlayersKnown
  <2>3. Agreed
    <3>1. Cardinality({s \in Sides : players[s]}) = 0
      BY PlayersCount DEF ReinviteInit
    <3>2. ~Held /\ (\A s \in Sides : ~players[s] /\ ~blocked[s])
      BY DEF ReinviteInit, Held
    <3> QED
      BY <3>1, <3>2 DEF Agreed
  <2>4. HoldInv
    BY <2>3 DEF ReinviteInit, HoldInv, Underway, Holding
  <2> QED
    BY <2>1, <2>2, <2>4 DEF ReinviteInv
<1>2. ReinviteInv /\ [ReinviteNext]_reinviteVars => ReinviteInv'
  <2> SUFFICES ASSUME ReinviteInv, [ReinviteNext]_reinviteVars PROVE ReinviteInv'
    OBVIOUS
  <2>1. ReinviteTypeOK'
    <3>1. CASE UNCHANGED reinviteVars
      BY <3>1 DEF ReinviteInv, reinviteVars, callVars, relayVars, ReinviteTypeOK
    <3> QED
      BY <3>1, ReinviteTypeStep DEF ReinviteInv
  <2> QED
    BY <2>1, PlayersStep, LockStep, HoldStep DEF ReinviteInv
<1> QED
  BY <1>1, <1>2, PTL DEF ReinviteSpec

(* The call's and the relay's state keep their types. *)
THEOREM ReinviteTypeCorrect == ReinviteSpec => []ReinviteTypeOK
  BY ReinviteInvariance, PTL DEF ReinviteInv

(***************************************************************************)
(* HoldAgrees: between re-INVITEs the relay does what the phones' holds    *)
(* say, whatever requests came before and in whatever order.               *)
(***************************************************************************)
THEOREM RelayFollowsHolds == ReinviteSpec => []HoldAgrees
<1>1. ReinviteInv => HoldAgrees
  <2> SUFFICES ASSUME ReinviteInv, Reinviting = {}, hang = "no" PROVE Agreed
    BY DEF HoldAgrees, Agreed
  <2>1. \A r \in Reqs : at[r] \notin Holding
    BY DEF ReinviteInv, LockInv, Reinviting, Holding
  <2> QED
    BY <2>1 DEF ReinviteInv, HoldInv
<1> QED
  BY <1>1, ReinviteInvariance, PTL

(***************************************************************************)
(* PlayersKnown: each side has at most one player, and the relay knows it. *)
(***************************************************************************)
THEOREM NoLostPlayer == ReinviteSpec => []PlayersKnown
  BY ReinviteInvariance, PTL DEF ReinviteInv
=============================================================================
