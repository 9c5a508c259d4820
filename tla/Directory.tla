----------------------------- MODULE Directory -----------------------------
(***************************************************************************)
(* The number space: extensions and conference rooms (internal/store), and *)
(* the administrators who change them through the web pages (internal/web) *)
(* and the command line (cmd/sipbxgo), which is a process of its own on    *)
(* the same database.  Nothing runs in a transaction: every SQL statement  *)
(* is one step, and what a request read may be old when it writes.         *)
(***************************************************************************)
EXTENDS Integers, FiniteSets

CONSTANTS
    Numbers, ValidNumbers,  \* numbers typed in, and those of 2 to 8 digits
    Pins, ValidPins,        \* room PINs typed in, and those pinRe accepts
    Secrets,                \* phone passwords
    Settings, Fresh,        \* name, enabled and require_tls; those of a new row
    Ops,                    \* requests of administrators
    NoRow, Keep             \* no such row; an edit that leaves a field alone

ASSUME InputsAssumption ==
    ValidNumbers \subseteq Numbers /\ ValidPins \subseteq Pins /\ Fresh \in Settings
ASSUME MarkersAssumption ==
    NoRow \notin Pins \cup Secrets /\ Keep \notin Pins \cup Secrets \cup Settings

VARIABLES
    exts, rooms,    \* the two tables, by number
    op,             \* per request: the statement it executes next
    num, row, pin,  \* its number and the row it will write
    edit,           \* what it changes of an extension
    reply,          \* how the store answered the request
    moved,          \* the number's rows changed since the request read them
    told            \* per extension: the password last reported as set

tables == <<exts, rooms>>
reqVars == <<op, num, row, pin, edit, reply>>
histVars == <<moved, told>>
vars == <<tables, reqVars, histVars>>

ExtRows == [secret : Secrets, settings : Settings]
Edits == [secret : Secrets \cup {Keep}, settings : Settings \cup {Keep}]

(* A database with or without rows; a number is not used twice yet. *)
Init ==
    /\ exts \in [ValidNumbers -> ExtRows \cup {NoRow}]
    /\ rooms \in [ValidNumbers -> ValidPins \cup {NoRow}]
    /\ \A n \in ValidNumbers : exts[n] = NoRow \/ rooms[n] = NoRow
    /\ op = [o \in Ops |-> "idle"] /\ num = [o \in Ops |-> CHOOSE n \in Numbers : TRUE]
    /\ row = [o \in Ops |-> NoRow] /\ pin = [o \in Ops |-> NoRow]
    /\ edit = [o \in Ops |-> [secret |-> Keep, settings |-> Keep]]
    /\ reply = [o \in Ops |-> "none"] /\ moved = [o \in Ops |-> FALSE]
    /\ told = [n \in ValidNumbers |->
                  IF exts[n] = NoRow THEN NoRow ELSE exts[n].secret]

-----------------------------------------------------------------------------
Then(o, to) == op' = [op EXCEPT ![o] = to]
Reply(o, text) == Then(o, "done") /\ reply' = [reply EXCEPT ![o] = text]

(* A request that is refused, or finds nothing, before it changes anything. *)
Turned(o, text) ==
    Reply(o, text) /\ UNCHANGED <<tables, num, row, pin, edit, histVars>>

(* The rows of n change: whoever read them before has an old copy. *)
Moved(n) == moved' = [x \in Ops |-> moved[x] \/ num[x] = n]

(* The request has read what it needs and goes on to its writing statement. *)
Read(o, to, n) ==
    /\ Then(o, to)
    /\ num' = [num EXCEPT ![o] = n]
    /\ moved' = [moved EXCEPT ![o] = FALSE]
    /\ UNCHANGED <<tables, reply, told>>

NumberUsed(n) ==
    IF exts[n] # NoRow THEN "extension"
    ELSE IF rooms[n] # NoRow THEN "room" ELSE "none"

(* Mutant: no look at the rooms. *)
ExtensionRefused_Unchecked(n) == n \notin ValidNumbers

(* Store.CreateExtension refuses a number that is not valid or is a room. *)
ExtensionRefused(n) == n \notin ValidNumbers \/ NumberUsed(n) = "room"

(* Store.CreateRoom refuses a number in any use. *)
RoomRefused(n, p) ==
    n \notin ValidNumbers \/ p \notin ValidPins \/ NumberUsed(n) # "none"

CreateExtension(o, n, secret) ==
    /\ op[o] = "idle"
    /\ IF ExtensionRefused(n)
       THEN Turned(o, "refused")
       ELSE /\ Read(o, "insertExt", n)
            /\ row' = [row EXCEPT ![o] = [secret |-> secret, settings |-> Fresh]]
            /\ UNCHANGED <<pin, edit>>

(* The INSERT; the primary key refuses a second row of the number. *)
InsertExtension(o) ==
    LET n == num[o] IN
    /\ op[o] = "insertExt"
    /\ IF exts[n] # NoRow
       THEN Turned(o, "exists")
       ELSE /\ exts' = [exts EXCEPT ![n] = row[o]]
            /\ told' = [told EXCEPT ![n] = row[o].secret]
            /\ Moved(n) /\ Reply(o, "ok")
            /\ UNCHANGED <<rooms, num, row, pin, edit>>

-----------------------------------------------------------------------------
(* updateExtension, resetSecret and "ext set": read the row, put in what   *)
(* the form or the flags say, and write the whole row back.                *)
Edited(old, e) ==
    [secret   |-> IF e.secret = Keep THEN old.secret ELSE e.secret,
     settings |-> IF e.settings = Keep THEN old.settings ELSE e.settings]

(* Mutant: a row made from the form alone, its password generated anew. *)
EditExtension_Blank(o, n, e) ==
    /\ op[o] = "idle" /\ n \in ValidNumbers
    /\ IF exts[n] = NoRow
       THEN Turned(o, "notfound")
       ELSE /\ Read(o, "saveExt", n)
            /\ \E s \in Secrets : row' = [row EXCEPT ![o] =
                   Edited([secret |-> s, settings |-> Fresh], e)]
            /\ edit' = [edit EXCEPT ![o] = e]
            /\ UNCHANGED pin

EditExtension(o, n, e) ==
    /\ op[o] = "idle" /\ n \in ValidNumbers
    /\ IF exts[n] = NoRow
       THEN Turned(o, "notfound")
       ELSE /\ Read(o, "saveExt", n)
            /\ row' = [row EXCEPT ![o] = Edited(exts[n], e)]
            /\ edit' = [edit EXCEPT ![o] = e]
            /\ UNCHANGED pin

UpdateExtension(o) ==
    LET n == num[o] IN
    /\ op[o] = "saveExt"
    /\ IF exts[n] = NoRow
       THEN Turned(o, "notfound")
       ELSE /\ exts' = [exts EXCEPT ![n] = row[o]]
            /\ told' = [told EXCEPT ![n] =
                   IF edit[o].secret = Keep THEN @ ELSE edit[o].secret]
            /\ Moved(n) /\ Reply(o, "ok")
            /\ UNCHANGED <<rooms, num, row, pin, edit>>

DeleteExtension(o, n) ==
    /\ op[o] = "idle" /\ n \in ValidNumbers
    /\ IF exts[n] = NoRow
       THEN Turned(o, "notfound")
       ELSE /\ exts' = [exts EXCEPT ![n] = NoRow]
            /\ told' = [told EXCEPT ![n] = NoRow]
            /\ Moved(n) /\ Reply(o, "ok")
            /\ UNCHANGED <<rooms, num, row, pin, edit>>

-----------------------------------------------------------------------------
CreateRoom(o, n, p) ==
    /\ op[o] = "idle"
    /\ IF RoomRefused(n, p)
       THEN Turned(o, "refused")
       ELSE /\ Read(o, "insertRoom", n)
            /\ pin' = [pin EXCEPT ![o] = p]
            /\ UNCHANGED <<row, edit>>

InsertRoom(o) ==
    LET n == num[o] IN
    /\ op[o] = "insertRoom"
    /\ IF rooms[n] # NoRow
       THEN Turned(o, "exists")
       ELSE /\ rooms' = [rooms EXCEPT ![n] = pin[o]]
            /\ Moved(n) /\ Reply(o, "ok")
            /\ UNCHANGED <<exts, num, row, pin, edit, told>>

(* "room set" without a PIN keeps the one it read; the page always sends one. *)
RoomEdited(old, p) == IF p = Keep THEN old ELSE p

EditRoom(o, n, p) ==
    /\ op[o] = "idle" /\ n \in ValidNumbers
    /\ IF rooms[n] = NoRow
       THEN Turned(o, "notfound")
       ELSE /\ Read(o, "saveRoom", n)
            /\ pin' = [pin EXCEPT ![o] = RoomEdited(rooms[n], p)]
            /\ UNCHANGED <<row, edit>>

SaveRoom(o) ==
    LET n == num[o] IN
    /\ rooms' = [rooms EXCEPT ![n] = pin[o]]
    /\ Moved(n) /\ Reply(o, "ok")
    /\ UNCHANGED <<exts, num, row, pin, edit, told>>

UpdateRoom(o) ==
    /\ op[o] = "saveRoom"
    /\ IF pin[o] \notin ValidPins THEN Turned(o, "refused")
       ELSE IF rooms[num[o]] = NoRow THEN Turned(o, "notfound") ELSE SaveRoom(o)

DeleteRoom(o, n) ==
    /\ op[o] = "idle" /\ n \in ValidNumbers
    /\ IF rooms[n] = NoRow
       THEN Turned(o, "notfound")
       ELSE /\ rooms' = [rooms EXCEPT ![n] = NoRow]
            /\ Moved(n) /\ Reply(o, "ok")
            /\ UNCHANGED <<exts, num, row, pin, edit, told>>

(* A statement fails: the database is locked, or the request was abandoned. *)
StatementFails(o) ==
    op[o] \in {"insertExt", "saveExt", "insertRoom", "saveRoom"} /\ Turned(o, "error")

-----------------------------------------------------------------------------
Request(o) ==
    \/ \E n \in Numbers :
           \/ \E s \in Secrets : CreateExtension(o, n, s)
           \/ \E p \in Pins : CreateRoom(o, n, p)
    \/ \E n \in ValidNumbers :
           \/ \E e \in Edits : EditExtension(o, n, e)
           \/ \E p \in Pins \cup {Keep} : EditRoom(o, n, p)
           \/ DeleteExtension(o, n) \/ DeleteRoom(o, n)

Write(o) ==
    InsertExtension(o) \/ UpdateExtension(o) \/ InsertRoom(o) \/ UpdateRoom(o)

Next == \E o \in Ops : Request(o) \/ Write(o) \/ StatementFails(o)

Spec == Init /\ [][Next]_vars

-----------------------------------------------------------------------------
Shared(n) == exts[n] # NoRow /\ rooms[n] # NoRow

(* A number becomes both an extension and a room only through a creation   *)
(* that overlapped another change of that number: numberUsed catches every *)
(* other case.                                                             *)
SharedOnlyByOverlap ==
    [][\A n \in ValidNumbers : Shared(n)' /\ ~Shared(n) =>
           \E o \in Ops : /\ op[o] \in {"insertExt", "insertRoom"}
                          /\ op'[o] = "done" /\ num[o] = n /\ moved[o]]_vars

Forgotten(n) == exts[n] # NoRow /\ exts[n].secret # told[n]

(* A password that was reported as set is replaced, without anybody asking *)
(* for it, only by an update that read the row before it changed.          *)
LostOnlyByOverlap ==
    [][\A n \in ValidNumbers : Forgotten(n)' /\ ~Forgotten(n) =>
           \E o \in Ops : /\ op[o] = "saveExt" /\ op'[o] = "done"
                          /\ num[o] = n /\ moved[o]]_vars

(* README: extension and room numbers share one number space.  The check   *)
(* of numberUsed and the INSERT are two statements, so two administrators  *)
(* can each be told that the number is theirs.                             *)
OneNumberSpace == \A n \in ValidNumbers : ~Shared(n)

(* The page after resetSecret: "New password set. Update the phone, or it  *)
(* will stop registering within a few minutes."  An update that read the   *)
(* row earlier writes the old password back.                               *)
SecretKept == \A n \in ValidNumbers : ~Forgotten(n)
=============================================================================
