-------------------------- MODULE OperationsProofs --------------------------
(***************************************************************************)
(* Theorems about running the server: Sessions with the Directory under it,*)
(* and Server with its certificate.                                        *)
(***************************************************************************)
EXTENDS Sessions, Server, TLAPS

-----------------------------------------------------------------------------
(***************************************************************************)
(* Sessions and Directory: for any numbers, passwords and requests, however*)
(* many overlap.                                                           *)
(***************************************************************************)

SessionRows == [pw : Passwords \cup {NoRow}, expired : BOOLEAN, late : BOOLEAN]

Places == {"idle", "insertExt", "saveExt", "insertRoom", "saveRoom", "check",
           "newSession", "setPassword", "wipe", "keepSession", "done"}
Replies == {"none", "ok", "refused", "exists", "notfound", "error", "login", "locked",
            "badlogin"}

DirectoryTypes ==
    /\ exts \in [ValidNumbers -> ExtRows \cup {NoRow}]
    /\ rooms \in [ValidNumbers -> Pins \cup {NoRow, Keep}]
    /\ op \in [Ops -> Places] /\ reply \in [Ops -> Replies]
    /\ num \in [Ops -> Numbers \cup {AdminRow, CHOOSE n \in Numbers : TRUE}]
    /\ row \in [Ops -> ExtRows \cup {NoRow}]
    /\ pin \in [Ops -> Pins \cup {NoRow, Keep}]
    /\ edit \in [Ops -> Edits]
    /\ moved \in [Ops -> BOOLEAN]
    /\ told \in [ValidNumbers -> Secrets \cup {NoRow}]

AdminTypes ==
    /\ hash \in Passwords \cup {NoRow} /\ toldPw \in Passwords \cup {NoRow}
    /\ sessions \in [Tokens -> SessionRows \cup {NoRow}]
    /\ letIn \subseteq Ops
    /\ given \in [Ops -> Passwords \cup {NoRow}]
    /\ fails \in Nat /\ locked \in BOOLEAN /\ unwiped \in BOOLEAN

TypeInv == DirectoryTypes /\ AdminTypes

(***************************************************************************)
(* What a request about to write still knows: what it read is so, or was   *)
(* changed in between.                                                     *)
(***************************************************************************)
Knows(o) ==
    LET n == num[o] IN
    /\ op[o] \in {"insertExt", "saveExt", "insertRoom", "saveRoom"} => n \in ValidNumbers
    /\ op[o] \in {"insertExt", "saveExt"} => row[o] \in ExtRows
    /\ op[o] = "insertExt" => moved[o] \/ rooms[n] = NoRow \/ exts[n] # NoRow
    /\ op[o] = "insertRoom" => moved[o] \/ exts[n] = NoRow
    /\ op[o] = "saveExt" =>
           IF edit[o].secret = Keep
           THEN moved[o] \/ row[o].secret = exts[n].secret
           ELSE row[o].secret = edit[o].secret
    /\ op[o] \in {"check", "setPassword"} => n = AdminRow
    /\ op[o] \in {"newSession", "wipe", "keepSession"} =>
           n = AdminRow /\ (moved[o] \/ given[o] = hash)

(* Sessions need their administrator, and his password of today. *)
SessionInv ==
    /\ hash = NoRow => \A t \in Tokens : sessions[t] = NoRow
    /\ SignedOutUnlessOverlap

IInv == TypeInv /\ (\A o \in Ops : Knows(o)) /\ SessionInv
-----------------------------------------------------------------------------
(***************************************************************************)
(* A step of one request leaves the others' variables alone, and marks     *)
(* those whose number's rows, or whose administrator, it changes.          *)
(***************************************************************************)
Alone(o) ==
    \A x \in Ops \ {o} :
        /\ op'[x] = op[x] /\ num'[x] = num[x] /\ row'[x] = row[x]
        /\ edit'[x] = edit[x] /\ given'[x] = given[x]

Marked(o) ==
    \A x \in Ops \ {o} :
        /\ moved[x] => moved'[x]
        /\ num[x] \in ValidNumbers =>
               \/ moved'[x]
               \/ exts'[num[x]] = exts[num[x]] /\ rooms'[num[x]] = rooms[num[x]]
        /\ num[x] = AdminRow => moved'[x] \/ hash' = hash

LEMMA OthersKnow ==
    ASSUME NEW o \in Ops, Alone(o), Marked(o), NEW x \in Ops \ {o}, Knows(x)
    PROVE  Knows(x)'
<1>1. /\ op'[x] = op[x] /\ num'[x] = num[x] /\ row'[x] = row[x]
      /\ edit'[x] = edit[x] /\ given'[x] = given[x]
      /\ moved[x] => moved'[x]
      /\ num[x] \in ValidNumbers =>
             \/ moved'[x]
             \/ exts'[num[x]] = exts[num[x]] /\ rooms'[num[x]] = rooms[num[x]]
      /\ num[x] = AdminRow => moved'[x] \/ hash' = hash
  BY DEF Alone, Marked
<1> QED
  BY <1>1 DEF Knows

(* Every way in which a request leaves the rows alone, or changes one number's. *)
LEMMA TurnedOne ==
    ASSUME TypeInv, NEW o \in Ops, NEW text \in Replies, Turned(o, text),
           given' = given, hash' = hash
    PROVE  /\ DirectoryTypes' /\ Alone(o) /\ Marked(o) /\ Knows(o)'
           /\ op'[o] = "done" /\ reply'[o] = text
<1>1. /\ op' = [op EXCEPT ![o] = "done"] /\ reply' = [reply EXCEPT ![o] = text]
      /\ UNCHANGED <<exts, rooms, num, row, pin, edit, moved, told>>
  BY DEF Turned, Reply, Then, tables, histVars
<1>2. DirectoryTypes' /\ op'[o] = "done" /\ reply'[o] = text
  BY <1>1 DEF TypeInv, DirectoryTypes, Places, Replies
<1>3. Alone(o) /\ Marked(o)
  BY <1>1 DEF Alone, Marked, TypeInv, DirectoryTypes
<1>4. Knows(o)'
  BY <1>2 DEF Knows
<1> QED
  BY <1>2, <1>3, <1>4

LEMMA ReadOne ==
    ASSUME TypeInv, NEW o \in Ops, NEW to \in Places,
           NEW n \in Numbers \cup {AdminRow}, Read(o, to, n), hash' = hash,
           \A x \in Ops \ {o} : row'[x] = row[x] /\ edit'[x] = edit[x] /\ given'[x] = given[x],
           row' \in [Ops -> ExtRows \cup {NoRow}], edit' \in [Ops -> Edits],
           pin' \in [Ops -> Pins \cup {NoRow, Keep}]
    PROVE  /\ DirectoryTypes' /\ Alone(o) /\ Marked(o)
           /\ op'[o] = to /\ num'[o] = n /\ exts' = exts /\ rooms' = rooms /\ ~moved'[o]
<1>1. /\ op' = [op EXCEPT ![o] = to] /\ num' = [num EXCEPT ![o] = n]
      /\ moved' = [moved EXCEPT ![o] = FALSE]
      /\ UNCHANGED <<exts, rooms, reply, told>>
  BY DEF Read, Then, tables
<1>2. DirectoryTypes'
  BY <1>1 DEF TypeInv, DirectoryTypes
<1>3. Alone(o) /\ Marked(o)
  BY <1>1 DEF Alone, Marked, TypeInv, DirectoryTypes
<1> QED
  BY <1>1, <1>2, <1>3 DEF TypeInv, DirectoryTypes

LEMMA WriteOne ==
    ASSUME TypeInv, NEW o \in Ops, NEW n \in ValidNumbers, Moved(n), Reply(o, "ok"),
           UNCHANGED <<num, row, pin, edit, given, hash>>,
           exts' \in [ValidNumbers -> ExtRows \cup {NoRow}],
           rooms' \in [ValidNumbers -> Pins \cup {NoRow, Keep}],
           told' \in [ValidNumbers -> Secrets \cup {NoRow}],
           \A k \in ValidNumbers \ {n} : exts'[k] = exts[k] /\ rooms'[k] = rooms[k]
    PROVE  DirectoryTypes' /\ Alone(o) /\ Marked(o) /\ Knows(o)' /\ op'[o] = "done"
<1>1. /\ op' = [op EXCEPT ![o] = "done"] /\ reply' = [reply EXCEPT ![o] = "ok"]
      /\ moved' = [x \in Ops |-> moved[x] \/ num[x] = n]
  BY DEF Moved, Reply, Then
<1>2. DirectoryTypes' /\ op'[o] = "done"
  BY <1>1 DEF TypeInv, DirectoryTypes, Places, Replies
<1>3. Alone(o) /\ Marked(o)
  BY <1>1 DEF Alone, Marked, TypeInv, DirectoryTypes
<1>4. Knows(o)'
  BY <1>2 DEF Knows
<1> QED
  BY <1>2, <1>3, <1>4

-----------------------------------------------------------------------------
(* The pages and commands of module Directory. *)
LEMMA DirectoryOne ==
    ASSUME TypeInv, NEW o \in Ops, Knows(o), DirectoryStep(o)
    PROVE  DirectoryTypes' /\ Alone(o) /\ Marked(o) /\ Knows(o)'
<1>0. UNCHANGED adminVars /\ given' = given /\ hash' = hash
  BY DEF DirectoryStep, adminVars
<1> DEFINE Done == DirectoryTypes' /\ Alone(o) /\ Marked(o) /\ Knows(o)'
<1>1. ASSUME NEW text \in Replies, Turned(o, text) PROVE Done
  BY <1>0, <1>1, TurnedOne
<1>2. ASSUME NEW n \in Numbers, NEW s \in Secrets, CreateExtension(o, n, s) PROVE Done
  <2>1. CASE ExtensionRefused(n)
    BY <1>1, <1>2, <2>1 DEF CreateExtension, Replies
  <2>2. CASE ~ExtensionRefused(n)
    <3>1. /\ Read(o, "insertExt", n) /\ UNCHANGED <<pin, edit>>
          /\ row' = [row EXCEPT ![o] = [secret |-> s, settings |-> Fresh]]
      BY <1>2, <2>2 DEF CreateExtension
    <3>2. [secret |-> s, settings |-> Fresh] \in ExtRows
      BY InputsAssumption DEF ExtRows
    <3>3. /\ row' \in [Ops -> ExtRows \cup {NoRow}] /\ row'[o] \in ExtRows
          /\ \A x \in Ops \ {o} : row'[x] = row[x]
          /\ edit' \in [Ops -> Edits] /\ pin' \in [Ops -> Pins \cup {NoRow, Keep}]
      BY <3>1, <3>2 DEF TypeInv, DirectoryTypes
    <3>4. /\ DirectoryTypes' /\ Alone(o) /\ Marked(o)
          /\ op'[o] = "insertExt" /\ num'[o] = n /\ exts' = exts /\ rooms' = rooms
      BY <1>0, <3>1, <3>3, ReadOne DEF Places
    <3>5. n \in ValidNumbers /\ (rooms[n] = NoRow \/ exts[n] # NoRow)
      BY <2>2 DEF ExtensionRefused, NumberUsed
    <3> QED
      BY <3>3, <3>4, <3>5 DEF Knows
  <2> QED
    BY <2>1, <2>2
<1>3. ASSUME NEW n \in Numbers, NEW p \in Pins, CreateRoom(o, n, p) PROVE Done
  <2>1. CASE RoomRefused(n, p)
    BY <1>1, <1>3, <2>1 DEF CreateRoom, Replies
  <2>2. CASE ~RoomRefused(n, p)
    <3>1. /\ Read(o, "insertRoom", n) /\ UNCHANGED <<row, edit>>
          /\ pin' = [pin EXCEPT ![o] = p]
      BY <1>3, <2>2 DEF CreateRoom
    <3>2. /\ row' \in [Ops -> ExtRows \cup {NoRow}]
          /\ edit' \in [Ops -> Edits] /\ pin' \in [Ops -> Pins \cup {NoRow, Keep}]
      BY <3>1 DEF TypeInv, DirectoryTypes
    <3>3. /\ DirectoryTypes' /\ Alone(o) /\ Marked(o)
          /\ op'[o] = "insertRoom" /\ num'[o] = n /\ exts' = exts
      BY <1>0, <3>1, <3>2, ReadOne DEF Places
    <3>4. n \in ValidNumbers /\ exts[n] = NoRow
      BY <2>2 DEF RoomRefused, NumberUsed
    <3> QED
      BY <3>3, <3>4 DEF Knows
  <2> QED
    BY <2>1, <2>2
<1>4. ASSUME NEW n \in ValidNumbers, NEW e \in Edits, EditExtension(o, n, e) PROVE Done
  <2>1. CASE exts[n] = NoRow
    BY <1>1, <1>4, <2>1 DEF EditExtension, Replies
  <2>2. CASE exts[n] # NoRow
    <3>1. /\ Read(o, "saveExt", n) /\ UNCHANGED pin
          /\ row' = [row EXCEPT ![o] = Edited(exts[n], e)]
          /\ edit' = [edit EXCEPT ![o] = e]
      BY <1>4, <2>2 DEF EditExtension
    <3>2. Edited(exts[n], e) \in ExtRows
      <4>1. exts[n] \in ExtRows
        BY <2>2 DEF TypeInv, DirectoryTypes
      <4> QED
        BY <4>1 DEF Edited, ExtRows, Edits
    <3>3. /\ row' \in [Ops -> ExtRows \cup {NoRow}] /\ row'[o] = Edited(exts[n], e)
          /\ edit' \in [Ops -> Edits] /\ edit'[o] = e
          /\ \A x \in Ops \ {o} : row'[x] = row[x] /\ edit'[x] = edit[x]
          /\ pin' \in [Ops -> Pins \cup {NoRow, Keep}]
      BY <3>1, <3>2 DEF TypeInv, DirectoryTypes
    <3>4. n \in Numbers
      BY InputsAssumption
    <3>5. /\ DirectoryTypes' /\ Alone(o) /\ Marked(o)
          /\ op'[o] = "saveExt" /\ num'[o] = n /\ exts' = exts
      BY <1>0, <3>1, <3>3, <3>4, ReadOne DEF Places
    <3>6. row'[o].secret = IF e.secret = Keep THEN exts[n].secret ELSE e.secret
      BY <3>3 DEF Edited
    <3> QED
      BY <3>2, <3>3, <3>5, <3>6 DEF Knows
  <2> QED
    BY <2>1, <2>2
<1>5. ASSUME NEW n \in ValidNumbers, NEW p \in Pins \cup {Keep}, EditRoom(o, n, p) PROVE Done
  <2>1. CASE rooms[n] = NoRow
    BY <1>1, <1>5, <2>1 DEF EditRoom, Replies
  <2>2. CASE rooms[n] # NoRow
    <3>1. /\ Read(o, "saveRoom", n) /\ UNCHANGED <<row, edit>>
          /\ pin' = [pin EXCEPT ![o] = RoomEdited(rooms[n], p)]
      BY <1>5, <2>2 DEF EditRoom
    <3>2. /\ row' \in [Ops -> ExtRows \cup {NoRow}]
          /\ edit' \in [Ops -> Edits] /\ pin' \in [Ops -> Pins \cup {NoRow, Keep}]
      BY <3>1 DEF TypeInv, DirectoryTypes, RoomEdited
    <3>3. n \in Numbers
      BY InputsAssumption
    <3>4. /\ DirectoryTypes' /\ Alone(o) /\ Marked(o)
          /\ op'[o] = "saveRoom" /\ num'[o] = n
      BY <1>0, <3>1, <3>2, <3>3, ReadOne DEF Places
    <3> QED
      BY <3>4 DEF Knows
  <2> QED
    BY <2>1, <2>2
<1>6. ASSUME NEW n \in ValidNumbers, DeleteExtension(o, n) \/ DeleteRoom(o, n) PROVE Done
  <2>1. CASE Turned(o, "notfound")
    BY <1>1, <2>1 DEF Replies
  <2>2. CASE ~Turned(o, "notfound")
    <3>1. /\ exts' \in [ValidNumbers -> ExtRows \cup {NoRow}]
          /\ rooms' \in [ValidNumbers -> Pins \cup {NoRow, Keep}]
          /\ told' \in [ValidNumbers -> Secrets \cup {NoRow}]
          /\ \A k \in ValidNumbers \ {n} : exts'[k] = exts[k] /\ rooms'[k] = rooms[k]
      BY <1>6, <2>2 DEF DeleteExtension, DeleteRoom, TypeInv, DirectoryTypes
    <3>2. Moved(n) /\ Reply(o, "ok") /\ UNCHANGED <<num, row, pin, edit>>
      BY <1>6, <2>2 DEF DeleteExtension, DeleteRoom
    <3> QED
      BY <1>0, <3>1, <3>2, WriteOne
  <2> QED
    BY <2>1, <2>2
<1>7. CASE Write(o)
  <2>1. CASE \E text \in Replies : Turned(o, text)
    BY <1>1, <2>1
  <2>2. CASE ~\E text \in Replies : Turned(o, text)
    <3> SUFFICES ASSUME NEW n, n = num[o] PROVE Done
      OBVIOUS
    <3>1. n \in ValidNumbers
      BY <1>7 DEF Write, InsertExtension, UpdateExtension, InsertRoom, UpdateRoom, Knows
    <3>2. /\ exts' \in [ValidNumbers -> ExtRows \cup {NoRow}]
          /\ rooms' \in [ValidNumbers -> Pins \cup {NoRow, Keep}]
          /\ told' \in [ValidNumbers -> Secrets \cup {NoRow}]
          /\ \A k \in ValidNumbers \ {n} : exts'[k] = exts[k] /\ rooms'[k] = rooms[k]
      <4>1. CASE InsertExtension(o)
        BY <2>2, <3>1, <4>1 DEF InsertExtension, TypeInv, DirectoryTypes, Knows, ExtRows, Replies
      <4>2. CASE UpdateExtension(o)
        BY <2>2, <3>1, <4>2 DEF UpdateExtension, TypeInv, DirectoryTypes, Knows, Edits, Replies
      <4>3. CASE InsertRoom(o)
        BY <2>2, <3>1, <4>3 DEF InsertRoom, TypeInv, DirectoryTypes, Replies
      <4>4. CASE UpdateRoom(o)
        BY <2>2, <3>1, <4>4 DEF UpdateRoom, SaveRoom, TypeInv, DirectoryTypes, Replies
      <4> QED
        BY <1>7, <4>1, <4>2, <4>3, <4>4 DEF Write
    <3>3. Moved(n) /\ Reply(o, "ok") /\ UNCHANGED <<num, row, pin, edit>>
      BY <1>7, <2>2
         DEF Write, InsertExtension, UpdateExtension, InsertRoom, UpdateRoom, SaveRoom,
             Replies
    <3> QED
      BY <1>0, <3>1, <3>2, <3>3, WriteOne
  <2> QED
    BY <2>1, <2>2
<1>8. CASE StatementFails(o)
  BY <1>1, <1>8 DEF StatementFails, Replies
<1> QED
  BY <1>2, <1>3, <1>4, <1>5, <1>6, <1>7, <1>8 DEF DirectoryStep, Request
-----------------------------------------------------------------------------
(* No session becomes wrong while the administrator's row stays, and no    *)
(* change of password comes to its end.                                    *)
LEMMA SessionFrame ==
    ASSUME SessionInv, hash' = hash, unwiped => unwiped', Changing => Changing' \/ unwiped',
           \A t \in Tokens : \/ sessions'[t] = sessions[t] \/ sessions'[t] = NoRow
                             \/ sessions[t] # NoRow /\ ~Alive(t)'
    PROVE  SessionInv'
<1>1. ASSUME NEW t \in Tokens, Alive(t)' PROVE sessions'[t] = sessions[t] /\ Alive(t)
  BY <1>1 DEF Alive
<1>2. ASSUME hash' = NoRow, NEW t \in Tokens PROVE sessions'[t] = NoRow
  BY <1>2 DEF SessionInv
<1> QED
  BY <1>1, <1>2 DEF SessionInv, SignedOutUnlessOverlap

(* A request that is at no change of password leaves those there are. *)
LEMMA ChangingStays ==
    ASSUME NEW o \in Ops, Alone(o), op[o] # "wipe" \/ op'[o] = "wipe"
    PROVE  Changing => Changing'
BY DEF Changing, Alone

(* A request that ends without effect on the administrator. *)
LEMMA RefusedOne ==
    ASSUME TypeInv, SessionInv, NEW o \in Ops, NEW text \in Replies, RefusedAs(o, text),
           op[o] # "wipe"
    PROVE  TypeInv' /\ Alone(o) /\ Marked(o) /\ Knows(o)' /\ SessionInv'
<1>1. Turned(o, text) /\ UNCHANGED adminVars
  BY DEF RefusedAs
<1>2. DirectoryTypes' /\ Alone(o) /\ Marked(o) /\ Knows(o)'
  BY <1>1, TurnedOne DEF adminVars
<1>3. AdminTypes'
  BY <1>1 DEF TypeInv, AdminTypes, adminVars
<1>4. SessionInv'
  BY <1>1, <1>2, SessionFrame, ChangingStays DEF adminVars
<1> QED
  BY <1>2, <1>3, <1>4 DEF TypeInv

(* The administrator's row changes: who read it knows. *)
LEMMA MovedOne ==
    ASSUME TypeInv, NEW o \in Ops, MovedBy(o), UNCHANGED <<exts, rooms>>
    PROVE  Marked(o) /\ moved' \in [Ops -> BOOLEAN]
BY DEF MovedBy, Marked, TypeInv, DirectoryTypes

(* Logging in and out, and the checks before a change of password. *)
LEMMA LoginOne ==
    ASSUME TypeInv, SessionInv, NEW o \in Ops,
           \/ \E t \in Tokens : RequireLogin(o, t) \/ Logout(o, t)
           \/ \E p \in Passwords : Login(o, p)
           \/ \E p, q, r \in Passwords : ChangePassword(o, p, q, r)
           \/ CheckLogin(o)
    PROVE  TypeInv' /\ Alone(o) /\ Marked(o) /\ Knows(o)' /\ SessionInv'
<1> DEFINE Done == TypeInv' /\ Alone(o) /\ Marked(o) /\ Knows(o)' /\ SessionInv'
<1>1. ASSUME NEW text \in Replies, RefusedAs(o, text), op[o] # "wipe" PROVE Done
  BY <1>1, RefusedOne
<1>2. ASSUME NEW t \in Tokens, RequireLogin(o, t) PROVE Done
  <2>1. CASE Alive(t)
    <3>1. /\ UNCHANGED <<vars, hash, sessions, given, fails, locked, toldPw, unwiped>>
          /\ letIn' = letIn \cup {o} /\ op[o] = "idle"
      BY <1>2, <2>1 DEF RequireLogin
    <3>2. TypeInv'
      BY <3>1 DEF TypeInv, DirectoryTypes, AdminTypes, vars, tables, reqVars, histVars
    <3>3. Alone(o) /\ Marked(o) /\ op'[o] = "idle"
      BY <3>1 DEF Alone, Marked, vars, tables, reqVars, histVars
    <3>4. SessionInv'
      BY <3>1, <3>3, SessionFrame, ChangingStays
    <3> QED
      BY <3>2, <3>3, <3>4 DEF Knows
  <2> QED
    BY <1>1, <1>2, <2>1 DEF RequireLogin, Replies
<1>3. ASSUME NEW t \in Tokens, Logout(o, t) PROVE Done
  <2>1. /\ op[o] = "idle"
        /\ op' = [op EXCEPT ![o] = "done"] /\ reply' = [reply EXCEPT ![o] = "ok"]
        /\ UNCHANGED <<exts, rooms, num, row, pin, edit, moved, told>>
        /\ UNCHANGED <<hash, letIn, given, fails, locked, toldPw, unwiped>>
        /\ sessions' = [sessions EXCEPT ![t] = NoRow] \/ sessions' = sessions
    BY <1>3 DEF Logout, Reply, Then, tables, histVars
  <2>2. TypeInv' /\ op'[o] = "done"
    BY <2>1 DEF TypeInv, DirectoryTypes, AdminTypes, Places, Replies
  <2>3. Alone(o) /\ Marked(o)
    BY <2>1 DEF Alone, Marked, TypeInv, DirectoryTypes
  <2>4. \A k \in Tokens : sessions'[k] = sessions[k] \/ sessions'[k] = NoRow
    BY <2>1 DEF TypeInv, AdminTypes
  <2>5. SessionInv'
    BY <2>1, <2>3, <2>4, SessionFrame, ChangingStays
  <2> QED
    BY <2>2, <2>3, <2>5 DEF Knows
<1>4. ASSUME NEW p \in Passwords, Login(o, p) PROVE Done
  <2>1. CASE locked
    BY <1>1, <1>4, <2>1 DEF Login, Replies
  <2>2. CASE ~locked
    <3>1. /\ op[o] = "idle"
          /\ op' = [op EXCEPT ![o] = "check"] /\ num' = [num EXCEPT ![o] = AdminRow]
          /\ given' = [given EXCEPT ![o] = p]
          /\ UNCHANGED <<exts, rooms, row, pin, edit, reply, moved, told>>
          /\ UNCHANGED <<hash, sessions, letIn, fails, locked, toldPw, unwiped>>
      BY <1>4, <2>2 DEF Login, Then, tables, histVars
    <3>2. TypeInv' /\ op'[o] = "check" /\ num'[o] = AdminRow
      BY <3>1 DEF TypeInv, DirectoryTypes, AdminTypes, Places
    <3>3. Alone(o) /\ Marked(o)
      BY <3>1 DEF Alone, Marked, TypeInv, DirectoryTypes, AdminTypes
    <3>4. SessionInv'
      BY <3>1, <3>3, SessionFrame, ChangingStays
    <3> QED
      BY <3>2, <3>3, <3>4 DEF Knows
  <2> QED
    BY <2>1, <2>2
<1>5. ASSUME NEW p \in Passwords, NEW q \in Passwords, NEW r \in Passwords,
             ChangePassword(o, p, q, r)
      PROVE  Done
  <2>1. CASE hash # p \/ q # r \/ q \notin ValidPasswords
    BY <1>1, <1>5, <2>1 DEF ChangePassword, Replies
  <2>2. CASE ~(hash # p \/ q # r \/ q \notin ValidPasswords)
    <3>1. /\ op[o] = "idle" /\ Read(o, "setPassword", AdminRow)
          /\ given' = [given EXCEPT ![o] = q]
          /\ UNCHANGED <<row, pin, edit, hash, sessions, letIn, fails, locked, toldPw, unwiped>>
      BY <1>5, <2>2 DEF ChangePassword
    <3>2. /\ row' \in [Ops -> ExtRows \cup {NoRow}]
          /\ edit' \in [Ops -> Edits] /\ pin' \in [Ops -> Pins \cup {NoRow, Keep}]
          /\ given' \in [Ops -> Passwords \cup {NoRow}]
          /\ \A x \in Ops \ {o} : given'[x] = given[x]
      BY <3>1 DEF TypeInv, DirectoryTypes, AdminTypes
    <3>3. /\ DirectoryTypes' /\ Alone(o) /\ Marked(o)
          /\ op'[o] = "setPassword" /\ num'[o] = AdminRow
      BY <3>1, <3>2, ReadOne DEF Places
    <3>4. SessionInv'
      BY <3>1, <3>3, SessionFrame, ChangingStays
    <3> QED
      BY <3>1, <3>2, <3>3, <3>4 DEF Knows, TypeInv, AdminTypes
  <2> QED
    BY <2>1, <2>2
<1>6. CASE CheckLogin(o)
  <2>1. /\ op[o] = "check"
        /\ UNCHANGED <<hash, sessions, letIn, given, toldPw, unwiped>>
    BY <1>6 DEF CheckLogin
  <2>2. CASE hash = given[o]
    <3>1. /\ Read(o, "newSession", AdminRow)
          /\ UNCHANGED <<row, pin, edit, locked>> /\ fails' = 0
      BY <1>6, <2>2 DEF CheckLogin
    <3>2. /\ row' \in [Ops -> ExtRows \cup {NoRow}]
          /\ edit' \in [Ops -> Edits] /\ pin' \in [Ops -> Pins \cup {NoRow, Keep}]
      BY <3>1 DEF TypeInv, DirectoryTypes
    <3>3. /\ DirectoryTypes' /\ Alone(o) /\ Marked(o)
          /\ op'[o] = "newSession" /\ num'[o] = AdminRow
      BY <2>1, <3>1, <3>2, ReadOne DEF Places
    <3>4. AdminTypes'
      BY <2>1, <3>1 DEF TypeInv, AdminTypes
    <3>5. SessionInv'
      BY <2>1, <3>3, SessionFrame, ChangingStays
    <3> QED
      BY <2>1, <2>2, <3>3, <3>4, <3>5 DEF Knows, TypeInv
  <2>3. CASE hash # given[o]
    <3>1. /\ Turned(o, "badlogin")
          /\ fails' = IF fails + 1 >= LockAt THEN 0 ELSE fails + 1
          /\ locked' = (locked \/ fails + 1 >= LockAt)
      BY <1>6, <2>3 DEF CheckLogin
    <3>2. /\ DirectoryTypes' /\ Alone(o) /\ Marked(o) /\ Knows(o)'
      BY <2>1, <3>1, TurnedOne DEF Replies
    <3>3. AdminTypes'
      BY <2>1, <3>1, SessionsAssumption DEF TypeInv, AdminTypes
    <3>4. SessionInv'
      BY <2>1, <3>2, SessionFrame, ChangingStays
    <3> QED
      BY <3>2, <3>3, <3>4 DEF TypeInv
  <2> QED
    BY <2>2, <2>3
<1> QED
  BY <1>2, <1>3, <1>4, <1>5, <1>6
(***************************************************************************)
(* The UPDATE of the password: whatever session there is may be wrong now, *)
(* but the change is under way.                                            *)
(***************************************************************************)
LEMMA SetPasswordOne ==
    ASSUME TypeInv, SessionInv, NEW o \in Ops, NEW p \in Passwords, UpdatePassword(o, p)
    PROVE  TypeInv' /\ Alone(o) /\ Marked(o) /\ Knows(o)' /\ SessionInv'
<1>1. \/ \E text \in Replies : RefusedAs(o, text) /\ op[o] # "wipe"
      \/ hash # NoRow /\ SetPassword(o, p)
  BY DEF UpdatePassword, SetPassword, Replies
<1>2. CASE \E text \in Replies : RefusedAs(o, text) /\ op[o] # "wipe"
  BY <1>2, RefusedOne
<1>3. CASE hash # NoRow /\ SetPassword(o, p)
  <2>1. /\ hash' = p /\ given' = [given EXCEPT ![o] = p]
        /\ op' = [op EXCEPT ![o] = "wipe"] /\ num' = [num EXCEPT ![o] = AdminRow]
        /\ MovedBy(o)
        /\ UNCHANGED <<exts, rooms, row, pin, edit, reply, told>>
        /\ UNCHANGED <<sessions, letIn, fails, locked, toldPw, unwiped>>
    BY <1>3 DEF SetPassword, Then, tables
  <2>2. Marked(o) /\ moved' \in [Ops -> BOOLEAN]
    BY <2>1, MovedOne
  <2>3. TypeInv' /\ op'[o] = "wipe" /\ num'[o] = AdminRow /\ given'[o] = p
    BY <2>1, <2>2 DEF TypeInv, DirectoryTypes, AdminTypes, Places
  <2>4. Alone(o)
    BY <2>1 DEF Alone, TypeInv, DirectoryTypes, AdminTypes
  <2>5. Knows(o)'
    BY <2>1, <2>3 DEF Knows
  <2>6. SessionInv'
    BY <2>1, <2>3, PasswordsAssumption DEF SessionInv, SignedOutUnlessOverlap, Changing
  <2> QED
    BY <2>2, <2>3, <2>4, <2>5, <2>6
<1> QED
  BY <1>1, <1>2, <1>3

(* The DELETE: no session is left, so that none is wrong. *)
LEMMA WipeOne ==
    ASSUME TypeInv, SessionInv, NEW o \in Ops, Knows(o), WipeSessions(o)
    PROVE  TypeInv' /\ Alone(o) /\ Marked(o) /\ Knows(o)' /\ SessionInv'
<1>1. /\ op[o] = "wipe" /\ sessions' = [t \in Tokens |-> NoRow] /\ unwiped' = FALSE
      /\ op' = [op EXCEPT ![o] = IF o \in letIn THEN "keepSession" ELSE "done"]
      /\ reply' = [reply EXCEPT ![o] = IF o \in letIn THEN reply[o] ELSE "ok"]
      /\ toldPw' = IF o \in letIn THEN toldPw ELSE given[o]
      /\ UNCHANGED <<exts, rooms, num, row, pin, edit, moved, told>>
      /\ UNCHANGED <<hash, letIn, given, fails, locked>>
  BY DEF WipeSessions, Wiped, Then, Reply, tables, histVars, TypeInv, DirectoryTypes
<1>2. DirectoryTypes' /\ op'[o] \in {"keepSession", "done"}
  BY <1>1 DEF TypeInv, DirectoryTypes, Places, Replies
<1>3. AdminTypes'
  BY <1>1 DEF TypeInv, AdminTypes
<1>4. Alone(o) /\ Marked(o)
  BY <1>1 DEF Alone, Marked, TypeInv, DirectoryTypes
<1>5. Knows(o)'
  BY <1>1, <1>2 DEF Knows
<1>6. SessionInv'
  BY <1>1 DEF SessionInv, SignedOutUnlessOverlap, Alive
<1> QED
  BY <1>2, <1>3, <1>4, <1>5, <1>6 DEF TypeInv

(* A new session has today's password, or is known to be late. *)
LEMMA CreateSessionOne ==
    ASSUME TypeInv, SessionInv, NEW o \in Ops, Knows(o), CreateSession(o)
    PROVE  TypeInv' /\ Alone(o) /\ Marked(o) /\ Knows(o)' /\ SessionInv'
<1>1. CASE hash = NoRow
  BY <1>1, RefusedOne DEF CreateSession, Replies
<1>2. CASE hash # NoRow
  <2>1. /\ op[o] \in {"newSession", "keepSession"}
        /\ sessions' = [sessions EXCEPT ![o] = Session(given[o], moved[o])]
        /\ toldPw' = IF op[o] = "keepSession" THEN given[o] ELSE toldPw
        /\ op' = [op EXCEPT ![o] = "done"] /\ reply' = [reply EXCEPT ![o] = "ok"]
        /\ UNCHANGED <<exts, rooms, num, row, pin, edit, moved, told>>
        /\ UNCHANGED <<hash, letIn, given, fails, locked, unwiped>>
    BY <1>2 DEF CreateSession, Reply, Then, tables, histVars
  <2>2. DirectoryTypes' /\ op'[o] = "done"
    BY <2>1 DEF TypeInv, DirectoryTypes, Places, Replies
  <2>3. Session(given[o], moved[o]) \in SessionRows /\ o \in Tokens
    BY DEF Session, SessionRows, Tokens, TypeInv, DirectoryTypes, AdminTypes
  <2>4. AdminTypes'
    BY <2>1, <2>3 DEF TypeInv, AdminTypes
  <2>5. Alone(o) /\ Marked(o)
    BY <2>1 DEF Alone, Marked, TypeInv, DirectoryTypes
  <2>6. ASSUME NEW t \in Tokens, Alive(t)', sessions'[t].pw # hash'
        PROVE  sessions'[t].late \/ Changing' \/ unwiped'
    <3>1. CASE t = o
      <4>1. sessions'[t] = Session(given[o], moved[o])
        BY <2>1, <2>3, <3>1 DEF TypeInv, AdminTypes
      <4>2. sessions'[t].pw = given[o] /\ sessions'[t].late = moved[o]
        BY <4>1 DEF Session
      <4> QED
        BY <2>1, <2>6, <4>2 DEF Knows
    <3>2. CASE t # o
      <4>1. sessions'[t] = sessions[t] /\ Alive(t)
        BY <2>1, <2>6, <3>2 DEF Alive, TypeInv, AdminTypes
      <4>2. Changing => Changing'
        BY <2>1, <2>5, ChangingStays
      <4> QED
        BY <2>1, <2>6, <4>1, <4>2 DEF SessionInv, SignedOutUnlessOverlap
    <3> QED
      BY <3>1, <3>2
  <2>7. SessionInv'
    BY <1>2, <2>1, <2>6 DEF SessionInv, SignedOutUnlessOverlap
  <2> QED
    BY <2>2, <2>4, <2>5, <2>7 DEF Knows, TypeInv
<1> QED
  BY <1>1, <1>2

(* "admin add" and "admin del": no session is left of an older one. *)
LEMMA AdminOne ==
    ASSUME TypeInv, SessionInv, NEW o \in Ops,
           DeleteAdmin(o) \/ \E p \in Passwords : CreateAdmin(o, p)
    PROVE  TypeInv' /\ Alone(o) /\ Marked(o) /\ Knows(o)' /\ SessionInv'
<1>1. CASE \E text \in Replies : RefusedAs(o, text)
  BY <1>1, RefusedOne DEF DeleteAdmin, CreateAdmin
<1>2. CASE ~\E text \in Replies : RefusedAs(o, text)
  <2>1. /\ op' = [op EXCEPT ![o] = "done"] /\ reply' = [reply EXCEPT ![o] = "ok"]
        /\ MovedBy(o)
        /\ UNCHANGED <<exts, rooms, num, row, pin, edit, told>>
        /\ UNCHANGED <<letIn, given, fails, locked, unwiped>>
        /\ hash' \in Passwords \cup {NoRow} /\ toldPw' = hash'
        /\ \/ hash = NoRow /\ sessions' = sessions
           \/ sessions' = [t \in Tokens |-> NoRow]
    BY <1>2 DEF DeleteAdmin, CreateAdmin, Reply, Then, tables, Replies
  <2>2. \A t \in Tokens : sessions'[t] = NoRow
    BY <2>1 DEF SessionInv
  <2>3. SessionInv'
    BY <2>2 DEF SessionInv, SignedOutUnlessOverlap, Alive
  <2>4. Marked(o) /\ moved' \in [Ops -> BOOLEAN]
    BY <2>1, MovedOne
  <2>5. TypeInv' /\ op'[o] = "done"
    BY <2>1, <2>4 DEF TypeInv, DirectoryTypes, AdminTypes, Places, Replies
  <2>6. Alone(o)
    BY <2>1 DEF Alone, TypeInv, DirectoryTypes
  <2> QED
    BY <2>3, <2>4, <2>5, <2>6 DEF Knows
<1> QED
  BY <1>1, <1>2

LEMMA AdminFailsOne ==
    ASSUME TypeInv, SessionInv, NEW o \in Ops, AdminStatementFails(o)
    PROVE  TypeInv' /\ Alone(o) /\ Marked(o) /\ Knows(o)' /\ SessionInv'
<1>1. /\ Turned(o, "error") /\ unwiped' = (unwiped \/ op[o] = "wipe")
      /\ UNCHANGED <<hash, sessions, letIn, given, fails, locked, toldPw>>
  BY DEF AdminStatementFails
<1>2. DirectoryTypes' /\ Alone(o) /\ Marked(o) /\ Knows(o)'
  BY <1>1, TurnedOne DEF Replies
<1>3. AdminTypes'
  BY <1>1 DEF TypeInv, AdminTypes
<1>4. Changing => Changing' \/ unwiped'
  BY <1>1, <1>2, ChangingStays
<1>5. SessionInv'
  BY <1>1, <1>4, SessionFrame DEF TypeInv, AdminTypes
<1> QED
  BY <1>2, <1>3, <1>5 DEF TypeInv

(* What no request does: sessions expire and go, a lock-out ends. *)
LEMMA TimeOne ==
    ASSUME TypeInv, SessionInv,
           (\E t \in Tokens : Expire(t)) \/ PurgeExpiredSessions \/ Unlock
    PROVE  TypeInv' /\ SessionInv' /\ UNCHANGED <<vars, given, hash>>
<1>1. UNCHANGED <<vars, hash, letIn, given, fails, toldPw, unwiped>>
  BY DEF Expire, PurgeExpiredSessions, Unlock
<1>2. /\ sessions' \in [Tokens -> SessionRows \cup {NoRow}]
      /\ locked' \in BOOLEAN
      /\ \A t \in Tokens : \/ sessions'[t] = sessions[t] \/ sessions'[t] = NoRow
                           \/ sessions[t] # NoRow /\ ~Alive(t)'
  <2>1. ASSUME NEW k \in Tokens, Expire(k)
        PROVE  /\ sessions' \in [Tokens -> SessionRows \cup {NoRow}]
               /\ \A t \in Tokens : \/ sessions'[t] = sessions[t]
                                    \/ sessions[t] # NoRow /\ ~Alive(t)'
    <3>1. sessions[k] \in SessionRows /\ sessions[k] # NoRow
      BY <2>1 DEF Expire, Alive, TypeInv, AdminTypes
    <3>2. sessions' = [sessions EXCEPT ![k] = [sessions[k] EXCEPT !.expired = TRUE]]
      BY <2>1 DEF Expire
    <3>3. /\ [sessions[k] EXCEPT !.expired = TRUE] \in SessionRows
          /\ [sessions[k] EXCEPT !.expired = TRUE].expired
      BY <3>1 DEF SessionRows
    <3> QED
      BY <3>1, <3>2, <3>3 DEF TypeInv, AdminTypes, Alive
  <2>2. CASE PurgeExpiredSessions
    BY <2>2 DEF PurgeExpiredSessions, TypeInv, AdminTypes
  <2>3. CASE Unlock
    BY <2>3 DEF Unlock, TypeInv, AdminTypes
  <2>4. locked' \in BOOLEAN
    BY DEF Expire, PurgeExpiredSessions, Unlock, TypeInv, AdminTypes
  <2> QED
    BY <2>1, <2>2, <2>3, <2>4
<1>3. TypeInv'
  BY <1>1, <1>2
     DEF TypeInv, DirectoryTypes, AdminTypes, vars, tables, reqVars, histVars
<1>4. Changing' = Changing
  BY <1>1 DEF Changing, vars, reqVars
<1>5. SessionInv'
  BY <1>1, <1>2, <1>4, SessionFrame
<1> QED
  BY <1>1, <1>3, <1>5

LEMMA Step ==
    ASSUME IInv, [AdminNext]_allVars
    PROVE  IInv'
<1> USE DEF IInv
<1>1. ASSUME NEW o \in Ops, TypeInv' /\ Alone(o) /\ Marked(o) /\ Knows(o)' /\ SessionInv'
      PROVE  IInv'
  BY <1>1, OthersKnow
<1>2. ASSUME NEW o \in Ops, DirectoryStep(o) PROVE IInv'
  <2>1. DirectoryTypes' /\ Alone(o) /\ Marked(o) /\ Knows(o)' /\ UNCHANGED adminVars
    BY <1>2, DirectoryOne DEF DirectoryStep
  <2>2. AdminTypes'
    BY <2>1 DEF TypeInv, AdminTypes, adminVars
  <2>3. op[o] # "wipe"
    BY <1>2 DEF DirectoryStep, Request, CreateExtension, CreateRoom, EditExtension, EditRoom,
       DeleteExtension, DeleteRoom, Write, InsertExtension, UpdateExtension, InsertRoom,
       UpdateRoom, StatementFails
  <2>4. SessionInv'
    BY <2>1, <2>3, SessionFrame, ChangingStays DEF adminVars
  <2> QED
    BY <1>1, <2>1, <2>2, <2>4 DEF TypeInv
<1>3. ASSUME NEW o \in Ops, AdminRequest(o) PROVE IInv'
  BY <1>1, <1>3, LoginOne, AdminOne DEF AdminRequest
<1>4. ASSUME NEW o \in Ops, AdminWrite(o) PROVE IInv'
  BY <1>1, <1>4, LoginOne, SetPasswordOne, WipeOne, CreateSessionOne DEF AdminWrite
<1>5. ASSUME NEW o \in Ops, AdminStatementFails(o) PROVE IInv'
  BY <1>1, <1>5, AdminFailsOne
<1>6. CASE (\E t \in Tokens : Expire(t)) \/ PurgeExpiredSessions \/ Unlock
  BY <1>6, TimeOne DEF Knows, vars, tables, reqVars, histVars
<1>7. CASE UNCHANGED allVars
  BY <1>7 DEF allVars, vars, adminVars, tables, reqVars, histVars, TypeInv, DirectoryTypes,
     AdminTypes, Knows, SessionInv, SignedOutUnlessOverlap, Alive, Changing
<1> QED
  BY <1>2, <1>3, <1>4, <1>5, <1>6, <1>7 DEF AdminNext

(* The inductive invariant. *)
THEOREM Invariance == AdminSpec => []IInv
<1>1. AdminInit => IInv
  <2> SUFFICES ASSUME AdminInit PROVE IInv
    OBVIOUS
  <2>1. DirectoryTypes
    BY InputsAssumption DEF AdminInit, Init, DirectoryTypes, ExtRows, Edits, Places, Replies
  <2>2. PICK s \in {NoRow} \cup (IF hash = NoRow THEN {} ELSE {Session(hash, FALSE)}) :
            sessions = [t \in Tokens |-> IF t = First THEN s ELSE NoRow]
    BY DEF AdminInit
  <2>3. hash \in Passwords \cup {NoRow} /\ s \in SessionRows \cup {NoRow}
    <3>1. hash \in Passwords \cup {NoRow}
      BY PasswordsAssumption DEF AdminInit
    <3>2. Session(hash, FALSE) \in SessionRows
      BY <3>1 DEF Session, SessionRows
    <3>3. s = NoRow \/ s = Session(hash, FALSE)
      BY <2>2
    <3> QED
      BY <3>1, <3>2, <3>3
  <2>4. AdminTypes
    BY <2>2, <2>3 DEF AdminInit, AdminTypes
  <2>5. SessionInv
    BY <2>2 DEF SessionInv, SignedOutUnlessOverlap, Alive, Session
  <2>6. \A o \in Ops : Knows(o)
    BY DEF AdminInit, Init, Knows
  <2> QED
    BY <2>1, <2>4, <2>5, <2>6 DEF IInv, TypeInv
<1> QED
  BY <1>1, Step, PTL DEF AdminSpec

(***************************************************************************)
(* SignedOutUnlessOverlap: a session opened with another password than     *)
(* today's is gone, but for the three ways the property names.             *)
(***************************************************************************)
THEOREM SignedOut == AdminSpec => []SignedOutUnlessOverlap
  BY Invariance, PTL DEF IInv, SessionInv
-----------------------------------------------------------------------------
(***************************************************************************)
(* SharedOnlyByOverlap: a number becomes both an extension and a room only *)
(* through a creation whose check was overtaken by another change.         *)
(***************************************************************************)
THEOREM SharedByOverlap == AdminSpec => SharedOnlyByOverlap
<1> DEFINE Allowed ==
        \A n \in ValidNumbers : Shared(n)' /\ ~Shared(n) =>
            \E o \in Ops : /\ op[o] \in {"insertExt", "insertRoom"}
                           /\ op'[o] = "done" /\ num[o] = n /\ moved[o]
<1>1. ASSUME IInv, NEW o \in Ops, Write(o) PROVE Allowed
  <2> SUFFICES ASSUME NEW n \in ValidNumbers, Shared(n)', ~Shared(n)
               PROVE  /\ op[o] \in {"insertExt", "insertRoom"}
                      /\ op'[o] = "done" /\ num[o] = n /\ moved[o]
    OBVIOUS
  <2> USE DEF Shared
  <2>1. /\ DirectoryTypes /\ Knows(o)
        /\ op' = [op EXCEPT ![o] = "done"] => op'[o] = "done"
    BY <1>1 DEF IInv, TypeInv, DirectoryTypes
  <2>2. CASE InsertExtension(o)
    BY <2>1, <2>2
       DEF InsertExtension, Turned, Reply, Then, tables, Knows, DirectoryTypes
  <2>3. CASE InsertRoom(o)
    BY <2>1, <2>3 DEF InsertRoom, Turned, Reply, Then, tables, Knows, DirectoryTypes
  <2>4. CASE UpdateExtension(o)
    BY <2>1, <2>4 DEF UpdateExtension, Turned, tables, Knows, DirectoryTypes
  <2>5. CASE UpdateRoom(o)
    BY <2>1, <2>5 DEF UpdateRoom, SaveRoom, Turned, tables, Knows, DirectoryTypes
  <2> QED
    BY <1>1, <2>2, <2>3, <2>4, <2>5 DEF Write
<1>2. ASSUME IInv, NEW o \in Ops, Request(o) \/ StatementFails(o) PROVE Allowed
  <2>1. \/ UNCHANGED <<exts, rooms>>
        \/ \E n \in ValidNumbers : exts' = [exts EXCEPT ![n] = NoRow] /\ rooms' = rooms
        \/ \E n \in ValidNumbers : exts' = exts /\ rooms' = [rooms EXCEPT ![n] = NoRow]
    BY <1>2 DEF Request, StatementFails, CreateExtension, CreateRoom, EditExtension, EditRoom,
       DeleteExtension, DeleteRoom, Turned, Read, tables
  <2> QED
    BY <1>2, <2>1 DEF Shared, IInv, TypeInv, DirectoryTypes
<1>3. ASSUME UNCHANGED tables PROVE Allowed
  BY <1>3 DEF Shared, tables
<1>4. ASSUME NEW o \in Ops, AdminRequest(o) \/ AdminWrite(o) \/ AdminStatementFails(o)
      PROVE  UNCHANGED tables
  BY <1>4 DEF AdminRequest, AdminWrite, AdminStatementFails, RequireLogin, Logout, Login,
     CreateAdmin, ChangePassword, DeleteAdmin, CheckLogin, WipeSessions, CreateSession,
     UpdatePassword, SetPassword, RefusedAs, Turned, Read, vars
<1>5. ASSUME (\E t \in Tokens : Expire(t)) \/ PurgeExpiredSessions \/ Unlock
             \/ UNCHANGED allVars
      PROVE  UNCHANGED tables
  BY <1>5 DEF Expire, PurgeExpiredSessions, Unlock, allVars, vars
<1>6. IInv /\ [AdminNext]_allVars => [Allowed]_vars
  BY <1>1, <1>2, <1>3, <1>4, <1>5 DEF AdminNext, DirectoryStep
<1> QED
  BY Invariance, <1>6, PTL DEF AdminSpec, SharedOnlyByOverlap
(***************************************************************************)
(* LostOnlyByOverlap: a phone password that was reported as set is lost    *)
(* only to an update whose row was read before it changed.                 *)
(***************************************************************************)
THEOREM LostByOverlap == AdminSpec => LostOnlyByOverlap
<1> DEFINE Allowed ==
        \A n \in ValidNumbers : Forgotten(n)' /\ ~Forgotten(n) =>
            \E o \in Ops : /\ op[o] = "saveExt" /\ op'[o] = "done"
                           /\ num[o] = n /\ moved[o]
<1>1. ASSUME IInv, NEW o \in Ops, Write(o) PROVE Allowed
  <2> SUFFICES ASSUME NEW n \in ValidNumbers, Forgotten(n)', ~Forgotten(n)
               PROVE  op[o] = "saveExt" /\ op'[o] = "done" /\ num[o] = n /\ moved[o]
    OBVIOUS
  <2> USE DEF Forgotten
  <2>1. DirectoryTypes /\ Knows(o)
    BY <1>1 DEF IInv, TypeInv
  <2>2. CASE InsertExtension(o)
    BY <2>1, <2>2 DEF InsertExtension, Turned, tables, histVars, Knows, DirectoryTypes
  <2>3. CASE InsertRoom(o) \/ UpdateRoom(o)
    BY <2>3 DEF InsertRoom, UpdateRoom, SaveRoom, Turned, tables, histVars
  <2>4. CASE UpdateExtension(o)
    <3>1. op[o] = "saveExt" /\ num[o] \in ValidNumbers /\ ~UNCHANGED <<exts, told>>
      BY <2>1, <2>4 DEF UpdateExtension, Knows
    <3>2. /\ exts[num[o]] # NoRow
          /\ exts' = [exts EXCEPT ![num[o]] = row[o]]
          /\ told' = [told EXCEPT ![num[o]] =
                 IF edit[o].secret = Keep THEN told[num[o]] ELSE edit[o].secret]
          /\ op' = [op EXCEPT ![o] = "done"]
      BY <2>4, <3>1 DEF UpdateExtension, Turned, tables, histVars, Reply, Then
    <3>3. num[o] = n /\ op'[o] = "done"
      BY <2>1, <3>1, <3>2 DEF DirectoryTypes
    <3>4. row[o].secret # IF edit[o].secret = Keep THEN told[n] ELSE edit[o].secret
      BY <2>1, <3>2, <3>3 DEF DirectoryTypes
    <3>5. moved[o]
      BY <2>1, <3>1, <3>2, <3>3, <3>4 DEF Knows
    <3> QED
      BY <3>1, <3>3, <3>5
  <2> QED
    BY <1>1, <2>2, <2>3, <2>4 DEF Write
<1>2. ASSUME IInv, NEW o \in Ops, Request(o) \/ StatementFails(o) PROVE Allowed
  <2>1. \/ UNCHANGED <<exts, told>>
        \/ \E n \in ValidNumbers : exts' = [exts EXCEPT ![n] = NoRow]
                                   /\ told' = [told EXCEPT ![n] = NoRow]
    BY <1>2 DEF Request, StatementFails, CreateExtension, CreateRoom, EditExtension, EditRoom,
       DeleteExtension, DeleteRoom, Turned, Read, tables, histVars
  <2> QED
    BY <1>2, <2>1 DEF Forgotten, IInv, TypeInv, DirectoryTypes
<1>3. ASSUME UNCHANGED <<exts, told>> PROVE Allowed
  BY <1>3 DEF Forgotten
<1>4. ASSUME NEW o \in Ops, AdminRequest(o) \/ AdminWrite(o) \/ AdminStatementFails(o)
      PROVE  UNCHANGED <<exts, told>>
  BY <1>4 DEF AdminRequest, AdminWrite, AdminStatementFails, RequireLogin, Logout, Login,
     CreateAdmin, ChangePassword, DeleteAdmin, CheckLogin, WipeSessions, CreateSession,
     UpdatePassword, SetPassword, RefusedAs, Turned, Read, vars, tables, histVars
<1>5. ASSUME (\E t \in Tokens : Expire(t)) \/ PurgeExpiredSessions \/ Unlock
             \/ UNCHANGED allVars
      PROVE  UNCHANGED <<exts, told>>
  BY <1>5 DEF Expire, PurgeExpiredSessions, Unlock, allVars, vars, tables, histVars
<1>6. IInv /\ [AdminNext]_allVars => [Allowed]_vars
  BY <1>1, <1>2, <1>3, <1>4, <1>5 DEF AdminNext, DirectoryStep
<1> QED
  BY Invariance, <1>6, PTL DEF AdminSpec, LostOnlyByOverlap

(***************************************************************************)
(* PasswordAsTold: the password in force becomes another one than the last *)
(* reported only by a change that failed halfway, or that another overtook. *)
(***************************************************************************)
THEOREM PasswordToldTruly == AdminSpec => PasswordAsTold
<1> DEFINE Changes(o) == op[o] \in {"wipe", "keepSession"}
           Excused ==
               \E o \in Ops : /\ op[o] \in {"wipe", "keepSession"} /\ op'[o] = "done"
                              /\ moved[o] \/ reply'[o] # "ok"
           Allowed == Mistold' /\ ~Mistold => Excused
<1>1. ASSUME UNCHANGED <<hash, toldPw>>, \A o \in Ops : Changes(o) => Changes(o)'
      PROVE  Allowed
  BY <1>1 DEF Mistold
<1>2. ASSUME IInv, NEW o \in Ops, Alone(o), UNCHANGED <<hash, toldPw>>,
             Changes(o) => Changes(o)'
      PROVE  Allowed
  BY <1>1, <1>2 DEF Alone
<1>3. ASSUME IInv, NEW o \in Ops, DirectoryStep(o) PROVE Allowed
  <2>1. Alone(o) /\ UNCHANGED adminVars
    BY <1>3, DirectoryOne DEF IInv, DirectoryStep
  <2>2. ~Changes(o)
    BY <1>3 DEF DirectoryStep, Request, CreateExtension, CreateRoom, EditExtension, EditRoom,
       DeleteExtension, DeleteRoom, Write, InsertExtension, UpdateExtension, InsertRoom,
       UpdateRoom, StatementFails
  <2> QED
    BY <1>2, <1>3, <2>1, <2>2 DEF adminVars
<1>4. ASSUME IInv, NEW o \in Ops,
             \/ \E t \in Tokens : RequireLogin(o, t) \/ Logout(o, t)
             \/ \E p \in Passwords : Login(o, p)
             \/ \E p, q, r \in Passwords : ChangePassword(o, p, q, r)
             \/ CheckLogin(o)
      PROVE  Allowed
  <2>1. Alone(o)
    BY <1>4, LoginOne DEF IInv
  <2>2. ~Changes(o) /\ UNCHANGED <<hash, toldPw>>
    BY <1>4 DEF RequireLogin, Logout, Login, ChangePassword, CheckLogin, RefusedAs, adminVars
  <2> QED
    BY <1>2, <1>4, <2>1, <2>2
<1>5. ASSUME IInv, NEW o \in Ops, DeleteAdmin(o) \/ \E p \in Passwords : CreateAdmin(o, p)
      PROVE  Allowed
  <2>1. CASE \E text : RefusedAs(o, text)
    <3>1. Alone(o)
      BY <1>5, AdminOne DEF IInv
    <3>2. ~Changes(o) /\ UNCHANGED <<hash, toldPw>>
      BY <1>5, <2>1 DEF DeleteAdmin, CreateAdmin, RefusedAs, adminVars
    <3> QED
      BY <1>2, <1>5, <3>1, <3>2
  <2>2. CASE ~\E text : RefusedAs(o, text)
    BY <1>5, <2>2 DEF DeleteAdmin, CreateAdmin, Mistold
  <2> QED
    BY <2>1, <2>2
<1>6. ASSUME IInv, NEW o \in Ops, NEW p \in Passwords, UpdatePassword(o, p) PROVE Allowed
  <2>1. CASE \E text : RefusedAs(o, text)
    <3>1. Alone(o)
      BY <1>6, SetPasswordOne DEF IInv
    <3>2. ~Changes(o) /\ UNCHANGED <<hash, toldPw>>
      BY <1>6, <2>1 DEF UpdatePassword, RefusedAs, adminVars
    <3> QED
      BY <1>2, <1>6, <3>1, <3>2
  <2>2. CASE ~\E text : RefusedAs(o, text)
    <3>1. op' = [op EXCEPT ![o] = "wipe"]
      BY <1>6, <2>2 DEF UpdatePassword, SetPassword, Then
    <3>2. op'[o] = "wipe"
      BY <1>6, <3>1 DEF IInv, TypeInv, DirectoryTypes
    <3> QED
      BY <3>2 DEF Mistold
  <2> QED
    BY <2>1, <2>2
<1>7. ASSUME IInv, NEW o \in Ops, WipeSessions(o) PROVE Allowed
  <2>1. /\ op[o] = "wipe" /\ hash' = hash /\ Knows(o)
        /\ op' = [op EXCEPT ![o] = IF o \in letIn THEN "keepSession" ELSE "done"]
        /\ toldPw' = IF o \in letIn THEN toldPw ELSE given[o]
    BY <1>7 DEF WipeSessions, Then, Reply, IInv
  <2>2. op'[o] = IF o \in letIn THEN "keepSession" ELSE "done"
    BY <1>7, <2>1 DEF IInv, TypeInv, DirectoryTypes
  <2>3. CASE o \in letIn
    BY <2>2, <2>3 DEF Mistold
  <2>4. CASE o \notin letIn
    BY <2>1, <2>2, <2>4 DEF Mistold, Knows
  <2> QED
    BY <2>3, <2>4
<1>8. ASSUME IInv, NEW o \in Ops, CreateSession(o) PROVE Allowed
  <2>1. Alone(o) /\ Knows(o)
    BY <1>8, CreateSessionOne DEF IInv
  <2>2. /\ op[o] \in {"newSession", "keepSession"} /\ hash' = hash
        /\ op' = [op EXCEPT ![o] = "done"]
        /\ \/ toldPw' = toldPw /\ reply' = [reply EXCEPT ![o] = "error"]
           \/ toldPw' = IF op[o] = "keepSession" THEN given[o] ELSE toldPw
    BY <1>8 DEF CreateSession, RefusedAs, Turned, Reply, Then, adminVars
  <2>3. op'[o] = "done"
    BY <1>8, <2>2 DEF IInv, TypeInv, DirectoryTypes
  <2>4. CASE op[o] = "newSession"
    BY <1>2, <1>8, <2>1, <2>2, <2>4
  <2>5. CASE op[o] = "keepSession" /\ toldPw' = given[o]
    BY <2>1, <2>2, <2>3, <2>5 DEF Mistold, Knows
  <2>6. CASE op[o] = "keepSession" /\ reply' = [reply EXCEPT ![o] = "error"]
    <3>1. reply'[o] = "error"
      BY <1>8, <2>6 DEF IInv, TypeInv, DirectoryTypes
    <3> QED
      BY <2>3, <2>6, <3>1
  <2> QED
    BY <2>2, <2>4, <2>5, <2>6
<1>9. ASSUME IInv, NEW o \in Ops, AdminStatementFails(o) PROVE Allowed
  <2>1. /\ op'[o] = "done" /\ reply'[o] = "error" /\ Alone(o)
        /\ UNCHANGED <<hash, toldPw>>
    BY <1>9, TurnedOne DEF AdminStatementFails, IInv, Replies
  <2>2. CASE Changes(o)
    BY <2>1, <2>2
  <2>3. CASE ~Changes(o)
    BY <1>2, <1>9, <2>1, <2>3
  <2> QED
    BY <2>2, <2>3
<1>10. ASSUME IInv,
              (\E t \in Tokens : Expire(t)) \/ PurgeExpiredSessions \/ Unlock
              \/ UNCHANGED allVars
       PROVE  Allowed
  <2>1. UNCHANGED <<hash, toldPw, op>>
    BY <1>10 DEF Expire, PurgeExpiredSessions, Unlock, allVars, vars, reqVars, adminVars
  <2> QED
    BY <1>1, <2>1
<1>11. IInv /\ [AdminNext]_allVars => [Allowed]_allVars
  BY <1>3, <1>4, <1>5, <1>6, <1>7, <1>8, <1>9, <1>10
     DEF AdminNext, AdminRequest, AdminWrite
<1> QED
  BY Invariance, <1>11, PTL DEF AdminSpec, PasswordAsTold

-----------------------------------------------------------------------------
(***************************************************************************)
(* Server, for every environment and any number of signals and transports  *)
(* that end: a failure is reported in the exit status.                     *)
(***************************************************************************)

(* Up to StartWeb there is no web server and nothing has failed. *)
Starting == {"config", "store", "new", "cert", "udp", "tcp", "tls", "web"}
(* From NotifyContext to stop a signal, and nothing else, ends the context. *)
Watching == {"serve", "select", "hangup", "close", "stop"}
Ending   == {"hangup", "close", "stop", "wait", "exited"}

(***************************************************************************)
(* Who knows of a failure: a web server that failed has left its error in  *)
(* the channel, or main has taken it; a start that failed has ended with   *)
(* an error; and main leaves the select with an error, after a signal or   *)
(* with the end of a transport that had none.                              *)
(***************************************************************************)
FailureInv ==
    /\ main \in Starting => web = "none" /\ failures = {}
    /\ main \in Starting \cup {"serve"} => running = 0
    /\ main \in Starting \cup {"serve", "select"} => ret = "nil"
    /\ signals \in 0..MaxSignals
    /\ web \in {"none", "listen", "serving"} => "web" \notin failures
    /\ web \in {"listen", "serving"} => webDone = "empty"
    /\ "web" \in failures => webDone = "err" \/ ret = "err"
    /\ "start" \in failures => main = "exited" /\ ret = "err"
    /\ main \in Starting => ~ctx
    /\ ctx /\ main \in Watching => signals < MaxSignals
    /\ main \in Ending => \/ ret = "err" \/ signals < MaxSignals
                          \/ "nil" \in errc
    /\ ret \in {"nil", "err"} /\ failures \subseteq {"web", "start"}
    /\ errc \subseteq {"nil", "err"}
    /\ main = "exited" => webDone = "empty" \/ ret = "err"
    /\ main \in Starting \cup Watching \cup {"wait", "exited", "killed"}

LEMMA FailsKeeps ==
    ASSUME FailureInv, [ServerNext]_programVars PROVE FailureInv'
<1> USE BoundsAssumption DEF FailureInv, Starting, Watching, Ending
<1>1. CASE LoadConfig
  BY <1>1 DEF LoadConfig, Goto, Fail
<1>2. CASE OpenStore
  BY <1>2 DEF OpenStore, Goto, Fail
<1>3. CASE New
  BY <1>3 DEF New, Goto, Fail
<1>4. CASE CertLoaded
  BY <1>4 DEF CertLoaded, Goto, Fail
<1>5. ASSUME NEW t \in {"udp", "tcp", "tls"}, Listen(t) PROVE FailureInv'
  BY <1>5 DEF Listen, Goto, Fail, AfterListen
<1>6. CASE StartWeb
  BY <1>6 DEF StartWeb, Goto, Fail
<1>7. CASE StartServe
  BY <1>7 DEF StartServe, Goto
<1>8. CASE Select
  <2>1. /\ main = "select" /\ main' = "hangup"
        /\ UNCHANGED <<ctx, running, errc, web, webDone, signals, failures>>
        /\ (ctx /\ ret' = ret) \/ ret' \in errc
    BY <1>8 DEF Select, Goto
  <2>2. /\ ret' \in {"nil", "err"}
        /\ ret' = "err" \/ signals < MaxSignals \/ "nil" \in errc
    BY <2>1
  <2>3. "web" \in failures => webDone = "err" \/ ret' = "err"
    BY <2>1
  <2>4. "start" \notin failures
    BY <2>1
  <2> QED
    BY <2>1, <2>2, <2>3, <2>4
<1>9. CASE HangupAll
  BY <1>9 DEF HangupAll, Goto
<1>16. CASE CloseSockets
  BY <1>16 DEF CloseSockets, Goto
<1>17. CASE Stop
  BY <1>17 DEF Stop, Goto
<1>10. CASE Wait
  BY <1>10 DEF Wait, Goto
<1>11. CASE Signal
  BY <1>11 DEF Signal, ProgramAlive
<1>12. CASE TransportEnds
  BY <1>12 DEF TransportEnds, ProgramAlive
<1>13. CASE WebListens
  BY <1>13 DEF WebListens, ProgramAlive
<1>14. CASE WebEnds
  BY <1>14 DEF WebEnds, ProgramAlive
<1>15. CASE LoaderRuns \/ Renewer \/ UNCHANGED programVars
  <2>1. UNCHANGED <<main, ctx, running, errc, web, webDone, ret, signals, failures>>
    BY <1>15 DEF LoaderRuns, Renewer, programVars, serverVars
  <2> QED
    BY <2>1
<1> QED
  BY <1>1, <1>2, <1>3, <1>4, <1>5, <1>6, <1>7, <1>8, <1>9, <1>10, <1>11, <1>12, <1>13,
     <1>14, <1>15, <1>16, <1>17 DEF ServerNext, Main, Ended

THEOREM FailuresReported == ServerSpec => []FailureReported
<1>1. ServerInit => FailureInv
  BY BoundsAssumption DEF ServerInit, FailureInv, Starting, Watching, Ending
<1>2. FailureInv => FailureReported
  BY DEF FailureInv, FailureReported, Ending
<1> QED
  BY <1>1, <1>2, FailsKeeps, PTL DEF ServerSpec
=============================================================================
