----------------------------- MODULE Registrar -----------------------------
(***************************************************************************)
(* REGISTER (internal/registrar), the registrations table and its foreign  *)
(* key to extensions (internal/store), the housekeeping that purges it,    *)
(* and the first reads of HandleInvite (internal/b2bua), which decide what *)
(* phones to ring.  One extension.  Every REGISTER and every INVITE runs   *)
(* in a goroutine of its own; each SQL statement is one step, so that an   *)
(* administrator, the clock and other requests come in between.            *)
(***************************************************************************)
EXTENDS Integers, Sequences, FiniteSets

CONSTANTS
    Contacts,       \* contact URIs
    Handlers,       \* REGISTER goroutines
    Invites,        \* INVITE goroutines that route a call
    Requests,       \* REGISTER requests
    MinExpires, MaxExpires, DefaultExpires,
    MaxTime         \* the clock stops here

Absent == -1        \* no expires parameter, or no usable Expires header
Bad == -2           \* an expires parameter that is no natural number

ContactHeaders == [uri : Contacts, expires : {Absent, Bad} \cup Nat]

(* own: To names the extension that authenticated. *)
RequestFacts ==
    [tls : BOOLEAN, own : BOOLEAN, header : {Absent} \cup Nat, wildcard : BOOLEAN,
     contacts : Seq(ContactHeaders)]

ASSUME ExpiresAssumption ==
    /\ MinExpires \in Nat \ {0} /\ MaxExpires \in Nat /\ MinExpires <= MaxExpires
    /\ DefaultExpires \in Nat /\ MaxTime \in Nat \ {0}
ASSUME RequestsAssumption == Requests \subseteq RequestFacts

VARIABLES
    ext,        \* the extension's row
    regs,       \* the registrations table
    clock,
    at,         \* per handler: where it is
    msg, now, todo, \* its request, r.now(), bindings not applied yet
    answer,     \* its response
    disturbed,  \* somebody else, or the clock, changed what it reads back
    listed,     \* contacts its 200 lists
    route,      \* per INVITE: where it is
    callee,     \* the row GetExtension returned
    rung        \* the registrations it rings

regVars == <<at, msg, now, todo, answer, listed>>
invVars == <<route, callee, rung>>
vars == <<ext, regs, clock, regVars, disturbed, invVars>>

Rows == [exists : BOOLEAN, enabled : BOOLEAN, requireTLS : BOOLEAN]
Bindings == [uri : Contacts, expires : Nat]
Registrations == [uri : Contacts, expiresAt : Nat, tls : BOOLEAN]
NoMsg == [tls |-> FALSE, own |-> FALSE, header |-> Absent, wildcard |-> FALSE,
          contacts |-> <<>>]
NewRow == [exists |-> TRUE, enabled |-> TRUE, requireTLS |-> FALSE]

TypeOK ==
    /\ ext \in Rows /\ clock \in 1..MaxTime
    /\ regs \subseteq Registrations
    /\ \A a, b \in regs : a.uri = b.uri => a = b
    /\ at \in [Handlers -> {"idle", "wipe", "now", "known", "apply", "done"}]
    /\ \A h \in Handlers : msg[h] \in Requests \cup {NoMsg}
    /\ now \in [Handlers -> 0..MaxTime]
    /\ \A h \in Handlers : todo[h] \in Seq(Bindings)
    /\ answer \in [Handlers -> {"none", "refused", "error", "ok"}]
    /\ disturbed \in [Handlers -> BOOLEAN]
    /\ listed \in [Handlers -> SUBSET Contacts]
    /\ route \in [Invites -> {"idle", "read", "done"}]
    /\ callee \in [Invites -> Rows]
    /\ rung \in [Invites -> SUBSET Registrations]

Init ==
    /\ ext = NewRow /\ regs = {} /\ clock = 1
    /\ at = [h \in Handlers |-> "idle"] /\ msg = [h \in Handlers |-> NoMsg]
    /\ now = [h \in Handlers |-> 0] /\ todo = [h \in Handlers |-> <<>>]
    /\ answer = [h \in Handlers |-> "none"]
    /\ disturbed = [h \in Handlers |-> FALSE]
    /\ listed = [h \in Handlers |-> {}]
    /\ route = [i \in Invites |-> "idle"] /\ callee = [i \in Invites |-> NewRow]
    /\ rung = [i \in Invites |-> {}]

(* ListRegistrations: what has not expired. *)
Live(table, t) == {b \in table : b.expiresAt > t}
Uris(table) == {b.uri : b \in table}

(* A write to the table, or time that passes, while other handlers run. *)
Disturb(but) ==
    disturbed' = [h \in Handlers |-> disturbed[h] \/ (h # but /\ at[h] # "idle")]

-----------------------------------------------------------------------------
HeaderExpires(m) == IF m.header = Absent THEN DefaultExpires ELSE m.header

(* Mutant: the Expires header wins over the contact's own parameter. *)
Lifetime_HeaderFirst(m, c) ==
    IF m.header # Absent THEN m.header
    ELSE IF c.expires = Absent THEN DefaultExpires ELSE c.expires

(* How long a contact asks to be bound. *)
Lifetime(m, c) == IF c.expires = Absent THEN HeaderExpires(m) ELSE c.expires

Clamped(seconds) == IF seconds > MaxExpires THEN MaxExpires ELSE seconds

BadContact(m, c) ==
    \/ c.expires = Bad                                           \* 400
    \/ Lifetime(m, c) > 0 /\ Lifetime(m, c) < MinExpires         \* 423

(* Everything that is refused before anything changes: 403, 400 or 423. *)
Refuses(m, row) ==
    \/ row.requireTLS /\ ~m.tls
    \/ ~m.own
    \/ \E i \in 1..Len(m.contacts) : BadContact(m, m.contacts[i])
    \/ m.wildcard /\ (m.contacts # <<>> \/ HeaderExpires(m) # 0)

BindingsOf(m) ==
    [i \in 1..Len(m.contacts) |->
        [uri |-> m.contacts[i].uri, expires |-> Clamped(Lifetime(m, m.contacts[i]))]]

(* Authorize reads the extension's row; then come the checks. *)
HandleRegister(h, m) ==
    /\ at[h] = "idle" /\ answer[h] = "none"
    /\ msg' = [msg EXCEPT ![h] = m]
    /\ IF ~ext.exists \/ ~ext.enabled \/ Refuses(m, ext)
       THEN /\ at' = [at EXCEPT ![h] = "done"]
            /\ answer' = [answer EXCEPT ![h] = "refused"]
            /\ UNCHANGED todo
       ELSE /\ at' = [at EXCEPT ![h] = IF m.wildcard THEN "wipe" ELSE "now"]
            /\ todo' = [todo EXCEPT ![h] = BindingsOf(m)]
            /\ UNCHANGED answer
    /\ UNCHANGED <<ext, regs, clock, now, listed, disturbed, invVars>>

(* Contact: * with Expires: 0. *)
Wipe(h) ==
    /\ at[h] = "wipe"
    /\ regs' = {}
    /\ Disturb(h)
    /\ at' = [at EXCEPT ![h] = "now"]
    /\ UNCHANGED <<ext, clock, msg, now, todo, answer, listed, invVars>>

(* r.now(); the bindings it will write are known already. *)
ReadClock(h) ==
    /\ at[h] = "now"
    /\ now' = [now EXCEPT ![h] = clock]
    /\ at' = [at EXCEPT ![h] = IF todo[h] = <<>> THEN "apply" ELSE "known"]
    /\ UNCHANGED <<ext, regs, clock, msg, todo, answer, listed, disturbed, invVars>>

(* The bindings there are, read only to choose a log level. *)
ReadKnown(h) ==
    /\ at[h] = "known"
    /\ at' = [at EXCEPT ![h] = "apply"]
    /\ UNCHANGED <<ext, regs, clock, msg, now, todo, answer, listed, disturbed,
                   invVars>>

ServerError(h) ==
    /\ at' = [at EXCEPT ![h] = "done"]
    /\ answer' = [answer EXCEPT ![h] = "error"]
    /\ UNCHANGED <<ext, regs, clock, msg, now, todo, listed, disturbed, invVars>>

Without(uri) == {b \in regs : b.uri # uri}

(* Mutant: the table has no foreign key. *)
SaveRegistration_NoForeignKey(h, b) ==
    regs' = Without(b.uri) \cup
            {[uri |-> b.uri, expiresAt |-> now[h] + b.expires, tls |-> msg[h].tls]}

(* The upsert; the foreign key refuses it once the extension is gone. *)
SaveRegistration(h, b) ==
    /\ ext.exists
    /\ regs' = Without(b.uri) \cup
               {[uri |-> b.uri, expiresAt |-> now[h] + b.expires, tls |-> msg[h].tls]}

(* One binding of the request is removed or saved. *)
ApplyBinding(h) ==
    LET b == Head(todo[h]) IN
    /\ at[h] = "apply" /\ todo[h] # <<>>
    /\ IF b.expires = 0 THEN regs' = Without(b.uri) ELSE SaveRegistration(h, b)
    /\ todo' = [todo EXCEPT ![h] = Tail(@)]
    /\ Disturb(h)
    /\ UNCHANGED <<ext, clock, at, msg, now, answer, listed, invVars>>

(* A statement failed: the foreign key, or the database itself. *)
StatementFails(h) ==
    /\ at[h] \in {"wipe", "known", "apply"}
    /\ ServerError(h)

(* 200 OK with every current binding. *)
ListBindings(h) ==
    /\ at[h] = "apply" /\ todo[h] = <<>>
    /\ listed' = [listed EXCEPT ![h] = Uris(Live(regs, clock))]
    /\ answer' = [answer EXCEPT ![h] = "ok"]
    /\ at' = [at EXCEPT ![h] = "done"]
    /\ UNCHANGED <<ext, regs, clock, msg, now, todo, disturbed, invVars>>

-----------------------------------------------------------------------------

(* PurgeExpiredRegistrations, called by housekeeping. *)
Purge ==
    /\ regs' = Live(regs, clock)
    /\ UNCHANGED <<ext, clock, regVars, disturbed, invVars>>

Tick ==
    /\ clock < MaxTime /\ clock' = clock + 1
    /\ disturbed' = [h \in Handlers |-> disturbed[h] \/ at[h] # "idle"]
    /\ UNCHANGED <<ext, regs, regVars, invVars>>

(* The administrator, by web page or command line. *)
UpdateExtension(enabled, requireTLS) ==
    /\ ext.exists
    /\ ext' = [ext EXCEPT !.enabled = enabled, !.requireTLS = requireTLS]
    /\ UNCHANGED <<regs, clock, regVars, disturbed, invVars>>

DeleteExtension ==      \* ON DELETE CASCADE
    /\ ext.exists
    /\ ext' = [ext EXCEPT !.exists = FALSE]
    /\ regs' = {}
    /\ disturbed' = [h \in Handlers |-> disturbed[h] \/ at[h] # "idle"]
    /\ UNCHANGED <<clock, regVars, invVars>>

CreateExtension ==
    /\ ~ext.exists /\ ext' = NewRow
    /\ UNCHANGED <<regs, clock, regVars, disturbed, invVars>>

-----------------------------------------------------------------------------
(* HandleInvite's reads: the callee's row first ... *)
GetExtension(i) ==
    /\ route[i] = "idle"
    /\ callee' = [callee EXCEPT ![i] = ext]
    /\ route' = [route EXCEPT ![i] = IF ext.exists /\ ext.enabled THEN "read" ELSE "done"]
    /\ UNCHANGED <<ext, regs, clock, regVars, disturbed, rung>>

(* Mutant: registrations left over from before TLS was required are rung. *)
Ringable_All(row, table) == table

(* ... then its registrations, without the plain ones if it requires TLS. *)
Ringable(row, table) == IF row.requireTLS THEN {b \in table : b.tls} ELSE table

ListRegistrations(i) ==
    /\ route[i] = "read"
    /\ rung' = [rung EXCEPT ![i] = Ringable(callee[i], Live(regs, clock))]
    /\ route' = [route EXCEPT ![i] = "done"]
    /\ UNCHANGED <<ext, regs, clock, regVars, disturbed, callee>>

HandlerStep(h) ==
    \/ Wipe(h) \/ ReadClock(h) \/ ReadKnown(h) \/ ApplyBinding(h)
    \/ StatementFails(h) \/ ListBindings(h)

Next ==
    \/ \E h \in Handlers : HandlerStep(h) \/ \E m \in Requests : HandleRegister(h, m)
    \/ \E i \in Invites : GetExtension(i) \/ ListRegistrations(i)
    \/ Purge \/ Tick \/ DeleteExtension \/ CreateExtension
    \/ \E enabled, requireTLS \in BOOLEAN : UpdateExtension(enabled, requireTLS)

Spec == Init /\ [][Next]_vars

-----------------------------------------------------------------------------
(***************************************************************************)
(* No binding outlives its extension, even if a REGISTER that was          *)
(* authorized before the deletion writes after it (the foreign key).       *)
(***************************************************************************)
NoOrphanBinding == regs # {} => ext.exists

(* What a request asks for one contact: its last word counts. *)
LastWord(m, uri) ==
    LET places == {i \in 1..Len(m.contacts) : m.contacts[i].uri = uri}
        c == m.contacts[CHOOSE i \in places : \A j \in places : j <= i] IN
    IF c.expires # Absent THEN c.expires
    ELSE IF m.header # Absent THEN m.header ELSE DefaultExpires

(***************************************************************************)
(* A 200 tells the phone the truth about what it asked for: unless         *)
(* somebody else or the clock intervened, the contacts it bound are        *)
(* listed, the ones it unbound are not, and after "Contact: *" none is.    *)
(***************************************************************************)
OkMeansDone ==
    \A h \in Handlers :
        answer[h] = "ok" /\ ~disturbed[h] =>
            /\ \A i \in 1..Len(msg[h].contacts) :
                   LET uri == msg[h].contacts[i].uri IN
                   uri \in listed[h] <=> LastWord(msg[h], uri) > 0
            /\ msg[h].wildcard => listed[h] = {}

(***************************************************************************)
(* A call to an extension that required TLS when the call came rings no    *)
(* phone that registered without TLS, although such bindings may still be  *)
(* saved by a REGISTER that was authorized before TLS was required.        *)
(***************************************************************************)
TlsOnlyRung ==
    \A i \in Invites : callee[i].requireTLS => \A b \in rung[i] : b.tls
=============================================================================
