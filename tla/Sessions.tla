------------------------------ MODULE Sessions ------------------------------
(***************************************************************************)
(* Administrators and their sessions (internal/store/admins.go,            *)
(* internal/web/auth.go, the account page and the "admin" command), beside *)
(* the requests of module Directory that a session admits.  The requests   *)
(* are the same Ops: each runs once, one SQL statement per step, and any   *)
(* two overlap.                                                            *)
(*                                                                         *)
(* There is one user name; the name of nobody is the case of no row.  A    *)
(* session's token is known by the request that made it.  Foreign keys are *)
(* on: a session needs its administrator and goes with it.                 *)
(***************************************************************************)
EXTENDS Directory

CONSTANTS
    Passwords, ValidPasswords,  \* those typed in, and those of 10 to 72 bytes
    AdminRow,                   \* the row of the table admins, as a "number"
    First,                      \* token of the session there may be at the start
    LockAt                      \* wrong passwords that lock an address out

ASSUME PasswordsAssumption == ValidPasswords \subseteq Passwords /\ NoRow \notin Passwords
ASSUME SessionsAssumption ==
    AdminRow \notin Numbers /\ First \notin Ops /\ LockAt \in Nat \ {0}

VARIABLES
    hash,           \* the administrator's password, NoRow if there is none
    sessions,       \* by token: password it was opened with, expired, late
    letIn,          \* requests requireLogin has let through
    given,          \* per request: the password it was given
    fails, locked,  \* loginLimit, for the one address the logins come from
    toldPw,         \* the password last reported as set
    unwiped         \* a password was changed and the sign-out after it failed

adminVars == <<hash, sessions, letIn, given, fails, locked, toldPw, unwiped>>
allVars == <<vars, adminVars>>

Tokens == Ops \cup {First}
Session(p, late) == [pw |-> p, expired |-> FALSE, late |-> late]
Alive(t) == sessions[t] # NoRow /\ ~sessions[t].expired

AdminInit ==
    /\ Init
    /\ hash \in ValidPasswords \cup {NoRow}
    /\ sessions \in {[t \in Tokens |-> IF t = First THEN s ELSE NoRow] :
                         s \in {NoRow} \cup (IF hash = NoRow THEN {} ELSE {Session(hash, FALSE)})}
    /\ letIn = {} /\ given = [o \in Ops |-> NoRow]
    /\ fails = 0 /\ locked = FALSE
    /\ toldPw = hash /\ unwiped = FALSE

-----------------------------------------------------------------------------
RefusedAs(o, text) == Turned(o, text) /\ UNCHANGED adminVars

(* requireLogin: SessionUser finds the token and it has not expired. *)
RequireLogin(o, t) ==
    /\ op[o] = "idle" /\ o \notin letIn
    /\ IF Alive(t)
       THEN /\ letIn' = letIn \cup {o}
            /\ UNCHANGED <<vars, hash, sessions, given, fails, locked, toldPw, unwiped>>
       ELSE RefusedAs(o, "login")

(* The pages of module Directory behind requireLogin, and the commands,    *)
(* which need none.                                                        *)
DirectoryStep(o) ==
    /\ Request(o) \/ Write(o) \/ StatementFails(o)
    /\ UNCHANGED adminVars

-----------------------------------------------------------------------------
(* login: the lock-out, then the password, then the session. *)
Login(o, p) ==
    /\ op[o] = "idle" /\ o \notin letIn
    /\ IF locked
       THEN RefusedAs(o, "locked")
       ELSE /\ Then(o, "check") /\ num' = [num EXCEPT ![o] = AdminRow]
            /\ given' = [given EXCEPT ![o] = p]
            /\ UNCHANGED <<tables, row, pin, edit, reply, histVars,
                           hash, sessions, letIn, fails, locked, toldPw, unwiped>>

(* CheckAdminPassword; a wrong one counts, a right one clears the count. *)
CheckLogin(o) ==
    /\ op[o] = "check"
    /\ IF hash = given[o]
       THEN /\ Read(o, "newSession", AdminRow) /\ fails' = 0
            /\ UNCHANGED <<row, pin, edit, locked>>
       ELSE /\ Turned(o, "badlogin")
            /\ fails' = IF fails + 1 >= LockAt THEN 0 ELSE fails + 1
            /\ locked' = (locked \/ fails + 1 >= LockAt)
    /\ UNCHANGED <<hash, sessions, letIn, given, toldPw, unwiped>>

(* DeleteSession's error is ignored: the page says signed out either way.  *)
Logout(o, t) ==
    /\ op[o] = "idle" /\ o \notin letIn
    /\ Reply(o, "ok")
    /\ \/ sessions' = [sessions EXCEPT ![t] = NoRow]
       \/ UNCHANGED sessions
    /\ UNCHANGED <<tables, num, row, pin, edit, histVars,
                   hash, letIn, given, fails, locked, toldPw, unwiped>>

(* changePassword up to SetAdminPassword: the current password, the new    *)
(* one typed twice, its length.                                            *)
ChangePassword(o, current, new, confirm) ==
    /\ op[o] = "idle" /\ o \in letIn
    /\ IF hash # current THEN RefusedAs(o, "badlogin")
       ELSE IF new # confirm \/ new \notin ValidPasswords THEN RefusedAs(o, "refused")
       ELSE /\ Read(o, "setPassword", AdminRow)
            /\ given' = [given EXCEPT ![o] = new]
            /\ UNCHANGED <<row, pin, edit, hash, sessions, letIn, fails, locked, toldPw, unwiped>>

(* The row of the administrator changes; o itself knows. *)
MovedBy(o) == moved' = [x \in Ops |-> x # o /\ (moved[x] \/ num[x] = AdminRow)]

(* Mutant: an UPDATE that finds no row passes for a change. *)
SetPassword_NoRow(o, p) ==
    /\ hash' = IF hash = NoRow THEN NoRow ELSE p
    /\ given' = [given EXCEPT ![o] = p]
    /\ Then(o, "wipe") /\ MovedBy(o) /\ num' = [num EXCEPT ![o] = AdminRow]
    /\ UNCHANGED <<tables, row, pin, edit, reply, told,
                   sessions, letIn, fails, locked, toldPw, unwiped>>

(* SetAdminPassword: the UPDATE. *)
SetPassword(o, p) ==
    IF hash = NoRow THEN RefusedAs(o, "notfound")
    ELSE /\ hash' = p /\ given' = [given EXCEPT ![o] = p]
         /\ Then(o, "wipe") /\ MovedBy(o) /\ num' = [num EXCEPT ![o] = AdminRow]
         /\ UNCHANGED <<tables, row, pin, edit, reply, told,
                        sessions, letIn, fails, locked, toldPw, unwiped>>

(* "admin passwd", or the page's change. *)
UpdatePassword(o, p) ==
    \/ op[o] = "setPassword" /\ p = given[o] /\ SetPassword(o, p)
    \/ /\ op[o] = "idle" /\ o \notin letIn
       /\ IF p \notin ValidPasswords THEN RefusedAs(o, "refused") ELSE SetPassword(o, p)

(* Mutant: only sessions that have expired go. *)
Wiped_Expired == [t \in Tokens |-> IF Alive(t) THEN sessions[t] ELSE NoRow]
Wiped == [t \in Tokens |-> NoRow]

(* SetAdminPassword: the DELETE.  The page then opens a new session. *)
WipeSessions(o) ==
    /\ op[o] = "wipe"
    /\ sessions' = Wiped
    /\ unwiped' = FALSE
    /\ IF o \in letIn
       THEN Then(o, "keepSession") /\ UNCHANGED <<reply, toldPw>>
       ELSE Reply(o, "ok") /\ toldPw' = given[o]
    /\ UNCHANGED <<tables, num, row, pin, edit, histVars, hash, letIn, given, fails, locked>>

(* CreateSession, for a login or after a change of password. *)
CreateSession(o) ==
    /\ op[o] \in {"newSession", "keepSession"}
    /\ IF hash = NoRow
       THEN RefusedAs(o, "error")
       ELSE /\ sessions' = [sessions EXCEPT ![o] = Session(given[o], moved[o])]
            /\ toldPw' = IF op[o] = "keepSession" THEN given[o] ELSE toldPw
            /\ Reply(o, "ok")
            /\ UNCHANGED <<tables, num, row, pin, edit, histVars,
                           hash, letIn, given, fails, locked, unwiped>>

-----------------------------------------------------------------------------
(* "admin add" and "admin del". *)
CreateAdmin(o, p) ==
    /\ op[o] = "idle" /\ o \notin letIn
    /\ IF p \notin ValidPasswords THEN RefusedAs(o, "refused")
       ELSE IF hash # NoRow THEN RefusedAs(o, "exists")
       ELSE /\ hash' = p /\ toldPw' = p
            /\ Reply(o, "ok") /\ MovedBy(o)
            /\ UNCHANGED <<tables, num, row, pin, edit, told,
                           sessions, letIn, given, fails, locked, unwiped>>

DeleteAdmin(o) ==
    /\ op[o] = "idle" /\ o \notin letIn
    /\ IF hash = NoRow THEN RefusedAs(o, "notfound")
       ELSE /\ hash' = NoRow /\ toldPw' = NoRow
            /\ sessions' = [t \in Tokens |-> NoRow]
            /\ Reply(o, "ok") /\ MovedBy(o)
            /\ UNCHANGED <<tables, num, row, pin, edit, told,
                           letIn, given, fails, locked, unwiped>>

(* A statement fails, or the process stops before it. *)
AdminStatementFails(o) ==
    /\ op[o] \in {"check", "setPassword", "wipe", "newSession", "keepSession"}
    /\ Turned(o, "error")
    /\ unwiped' = (unwiped \/ op[o] = "wipe")
    /\ UNCHANGED <<hash, sessions, letIn, given, fails, locked, toldPw>>

(* A week passes; the hourly purge; fifteen minutes of lock-out end. *)
Expire(t) ==
    /\ Alive(t)
    /\ sessions' = [sessions EXCEPT ![t].expired = TRUE]
    /\ UNCHANGED <<vars, hash, letIn, given, fails, locked, toldPw, unwiped>>

PurgeExpiredSessions ==
    /\ \E t \in Tokens : sessions[t] # NoRow /\ sessions[t].expired
    /\ sessions' = [t \in Tokens |-> IF Alive(t) THEN sessions[t] ELSE NoRow]
    /\ UNCHANGED <<vars, hash, letIn, given, fails, locked, toldPw, unwiped>>

Unlock ==
    /\ locked /\ locked' = FALSE
    /\ UNCHANGED <<vars, hash, sessions, letIn, given, fails, toldPw, unwiped>>

-----------------------------------------------------------------------------
AdminRequest(o) ==
    \/ \E t \in Tokens : RequireLogin(o, t) \/ Logout(o, t)
    \/ \E p \in Passwords : Login(o, p) \/ CreateAdmin(o, p)
    \/ \E p, q, r \in Passwords : ChangePassword(o, p, q, r)
    \/ DeleteAdmin(o)

AdminWrite(o) ==
    \/ CheckLogin(o) \/ WipeSessions(o) \/ CreateSession(o)
    \/ \E p \in Passwords : UpdatePassword(o, p)

AdminNext ==
    \/ \E o \in Ops : DirectoryStep(o) \/ AdminRequest(o) \/ AdminWrite(o)
                      \/ AdminStatementFails(o)
    \/ \E t \in Tokens : Expire(t)
    \/ PurgeExpiredSessions \/ Unlock

AdminSpec == AdminInit /\ [][AdminNext]_allVars

-----------------------------------------------------------------------------
Changing == \E o \in Ops : op[o] = "wipe"

(* A session that was opened with another password than today's, or for an *)
(* administrator since deleted, is gone ("signs out that admin's           *)
(* sessions"), except while SetAdminPassword is between its two            *)
(* statements, after the second one failed, or if the login that opened it *)
(* had read the password before it changed.                                *)
SignedOutUnlessOverlap ==
    \A t \in Tokens :
        Alive(t) /\ sessions[t].pw # hash => sessions[t].late \/ Changing \/ unwiped

Mistold == hash # toldPw /\ \A o \in Ops : op[o] \notin {"wipe", "keepSession"}

(* The password in force is the one last reported as set, unless a change  *)
(* failed after its UPDATE, and was reported as an error though it holds,  *)
(* or overlapped another change of that administrator.                     *)
PasswordAsTold ==
    [][Mistold' /\ ~Mistold =>
          \E o \in Ops : /\ op[o] \in {"wipe", "keepSession"} /\ op'[o] = "done"
                         /\ moved[o] \/ reply'[o] # "ok"]_allVars

(* README.md:318: changing a password "signs that admin out".  Refuted: a  *)
(* login that has read the old hash opens its session after the DELETE.    *)
OldPasswordSignedOut ==
    \A t \in Tokens : Alive(t) /\ sessions[t].pw # hash => Changing
=============================================================================
