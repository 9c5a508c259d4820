------------------------------ MODULE BanList -------------------------------
(***************************************************************************)
(* Who is kept out: the BanList and the guarded TCP/TLS connections of     *)
(* internal/security, with the Guard of internal/sipauth that feeds them.  *)
(* Requests run concurrently: one passes Drop, and its credentials are     *)
(* judged later, when its source may have been banned or cleared.          *)
(*                                                                         *)
(* Time is a counter.  Credentials are the facts Authorize asks about.     *)
(***************************************************************************)
EXTENDS Integers, Sequences, Lists

CONSTANTS
    IPs,        \* source addresses
    TrustedIPs, \* those in Trusted prefixes
    HonestIPs,  \* those where only phones with the right password are
    Threshold, Window, Duration,  \* the ban policy
    MaxClock,    \* bound on the clock
    Reqs,       \* requests in progress at once
    Conns,      \* TCP connections
    None

ASSUME PolicyAssumption ==
    /\ TrustedIPs \subseteq IPs /\ HonestIPs \subseteq IPs /\ None \notin IPs
    /\ Threshold \in Nat /\ Window \in Nat /\ Duration \in Nat \ {0}
    /\ MaxClock \in Nat

Never == 0   \* not banned; a ban's end is at least Duration
Times == 0..MaxClock

Credentials ==
    [header : {"none", "malformed", "digest"},
     user : {"known", "unknown", "disabled", "dberror"},
     realm : BOOLEAN, password : BOOLEAN,
     nonce : {"good", "stale", "bad"}]

(* What phones with the right password send, if with any nonce. *)
HonestCredentials ==
    {c \in Credentials : /\ c.header \in {"none", "digest"}
                         /\ c.user \in {"known", "dberror"}
                         /\ c.realm /\ c.password}

VARIABLES
    time,
    failures, \* BanList.failures: ip -> times
    banned,   \* BanList.banned: ip -> until, or Never
    request,  \* requests past Drop: their source, or None
    conn,     \* connections: [ip, got, sent, reported]
    history   \* ip -> every failure since it was last cleared or banned

banVars == <<failures, banned, history>>
banAllVars == <<time, banVars, request, conn>>

NoConn == [ip |-> None, got |-> FALSE, sent |-> FALSE, reported |-> FALSE]

BanTypeOK ==
    /\ time \in Times
    /\ failures \in [IPs -> Seq(Times)] /\ history \in [IPs -> Seq(Times)]
    /\ banned \in [IPs -> {Never} \cup Duration..(MaxClock + Duration)]
    /\ request \in [Reqs -> IPs \cup {None}]
    /\ conn \in [Conns -> [ip : IPs \cup {None}, got : BOOLEAN, sent : BOOLEAN,
                           reported : BOOLEAN]]

BanInit ==
    /\ time = 0
    /\ failures = [ip \in IPs |-> <<>>] /\ history = [ip \in IPs |-> <<>>]
    /\ banned = [ip \in IPs |-> Never]
    /\ request = [r \in Reqs |-> None]
    /\ conn = [c \in Conns |-> NoConn]

-----------------------------------------------------------------------------
ClockTick ==
    /\ time < MaxClock /\ time' = time + 1
    /\ UNCHANGED <<banVars, request, conn>>

IsTrusted(ip) == ip \in TrustedIPs

(* IsBanned: a ban past its end is deleted by whoever asks. *)
Expired(ip) == banned[ip] # Never /\ time > banned[ip]
IsBanned(ip) == banned[ip] # Never /\ ~Expired(ip)
Forget(ip) == banned' = IF Expired(ip) THEN [banned EXCEPT ![ip] = Never] ELSE banned

Recent(times) == Kept(times, {t \in Times : t > time - Window})

Cleared(f, ip) == [f EXCEPT ![ip] = <<>>]

(* Fail: failures older than the window are dropped, the new one is        *)
(* counted, and the threshold bans and starts a new count.                 *)
Fail(ip) ==
    IF Threshold <= 0 \/ IsTrusted(ip) THEN UNCHANGED banVars
    ELSE LET kept == Append(Recent(failures[ip]), time) IN
         IF Len(kept) >= Threshold
         THEN /\ failures' = Cleared(failures, ip)
              /\ history' = Cleared(history, ip)
              /\ banned' = [banned EXCEPT ![ip] = time + Duration]
         ELSE /\ failures' = [failures EXCEPT ![ip] = kept]
              /\ history' = [history EXCEPT ![ip] = Append(@, time)]
              /\ UNCHANGED banned

(* Mutant: a success also lifts a ban. *)
Succeed_LiftsBan(ip) ==
    /\ failures' = Cleared(failures, ip) /\ history' = Cleared(history, ip)
    /\ banned' = [banned EXCEPT ![ip] = Never]
Succeed(ip) ==
    /\ failures' = Cleared(failures, ip) /\ history' = Cleared(history, ip)
    /\ UNCHANGED banned

(* BanNow; FALSE for a trusted address. *)
BanNow(ip) ==
    /\ ~IsTrusted(ip)
    /\ banned' = [banned EXCEPT ![ip] = time + Duration]
    /\ UNCHANGED <<failures, history>>

Unban(ip) ==
    /\ banned' = [banned EXCEPT ![ip] = Never]
    /\ failures' = Cleared(failures, ip) /\ history' = Cleared(history, ip)
    /\ UNCHANGED <<time, request, conn>>

(* Mutant: the list is dropped when its first entry is out of the window. *)
Stale_First(times) == times # <<>> /\ times[1] <= time - Window
Stale(times) == times # <<>> /\ times[Len(times)] < time - Window

(* housekeeping's Sweep. *)
Sweep ==
    /\ banned' = [ip \in IPs |-> IF Expired(ip) THEN Never ELSE banned[ip]]
    /\ failures' = [ip \in IPs |->
                       IF Stale(failures[ip]) THEN <<>> ELSE failures[ip]]
    /\ UNCHANGED <<time, history, request, conn>>

-----------------------------------------------------------------------------
(* Mutant: the nonce's age is looked at like a password. *)
Verify_StaleFails(c) ==
    IF ~c.realm THEN "fail"
    ELSE IF ~c.password THEN IF c.nonce = "bad" THEN "challenge" ELSE "fail"
    ELSE IF c.nonce = "good" THEN "accept" ELSE "fail"

(* Authenticator.Verify: the password before the nonce's age. *)
Verify(c) ==
    IF ~c.realm THEN "fail"
    ELSE IF ~c.password THEN IF c.nonce = "bad" THEN "challenge" ELSE "fail"
    ELSE IF c.nonce = "good" THEN "accept" ELSE "challenge"

(* Guard.Authorize. *)
Authorize(c) ==
    IF c.header = "none" THEN "challenge"
    ELSE IF c.header = "malformed" THEN "fail"
    ELSE IF c.user = "dberror" THEN "error"
    ELSE IF c.user \in {"unknown", "disabled"} THEN "fail"
    ELSE Verify(c)

(* Drop, run by guarded before any handler.  A scanner's User-Agent bans   *)
(* its source, unless that is trusted.                                     *)
Drop(r, ip) ==
    /\ request[r] = None
    /\ \/ /\ IsBanned(ip)
          /\ UNCHANGED <<banVars, request>>
       \/ /\ ~IsBanned(ip)
          /\ Forget(ip)
          /\ request' = [request EXCEPT ![r] = ip]
          /\ UNCHANGED <<failures, history>>
       \/ /\ ~IsBanned(ip) /\ ip \notin HonestIPs
          /\ BanNow(ip)
          /\ UNCHANGED request
    /\ UNCHANGED <<time, conn>>

(* The handler gets to the credentials of a request that was not dropped. *)
HandlerAuthorizes(r) ==
    LET ip == request[r] IN
    /\ ip # None
    /\ \E c \in IF ip \in HonestIPs THEN HonestCredentials ELSE Credentials :
           CASE Authorize(c) = "fail"   -> Fail(ip)
             [] Authorize(c) = "accept" -> Succeed(ip)
             [] OTHER -> UNCHANGED banVars
    /\ request' = [request EXCEPT ![r] = None]
    /\ UNCHANGED <<time, conn>>

-----------------------------------------------------------------------------
(* Listener.Accept closes connections from banned addresses. *)
Accept(c, ip) ==
    /\ conn[c] = NoConn
    /\ Forget(ip)
    /\ conn' = IF IsBanned(ip) THEN conn ELSE [conn EXCEPT ![c].ip = ip]
    /\ UNCHANGED <<time, failures, history, request>>

(* A Read that returns data, and a Write of an answer. *)
ConnReads(c) ==
    /\ conn[c].ip # None /\ conn' = [conn EXCEPT ![c].got = TRUE]
    /\ UNCHANGED <<time, banVars, request>>
ConnWrites(c) ==
    /\ conn[c].ip # None /\ conn' = [conn EXCEPT ![c].sent = TRUE]
    /\ UNCHANGED <<time, banVars, request>>

(* A Read that fails because the peer went away: charged once, and only if *)
(* it asked something and nothing was written back.  Phones with the right *)
(* password wait for their answers.                                        *)
ConnFails(c) ==
    /\ conn[c].ip # None
    /\ conn[c].ip \in HonestIPs => conn[c].sent
    /\ IF conn[c].got /\ ~conn[c].sent /\ ~conn[c].reported
       THEN /\ Fail(conn[c].ip)
            /\ conn' = [conn EXCEPT ![c].reported = TRUE]
       ELSE UNCHANGED <<banVars, conn>>
    /\ UNCHANGED <<time, request>>

BanNext ==
    \/ ClockTick \/ Sweep
    \/ \E ip \in IPs :
           \/ Unban(ip)
           \/ \E r \in Reqs : Drop(r, ip)
           \/ \E c \in Conns : Accept(c, ip)
    \/ \E r \in Reqs : HandlerAuthorizes(r)
    \/ \E c \in Conns : ConnReads(c) \/ ConnWrites(c) \/ ConnFails(c)

BanSpec == BanInit /\ [][BanNext]_banAllVars

-----------------------------------------------------------------------------
(***************************************************************************)
(* The pruned list counts what the full history does: Sweep and Fail drop  *)
(* no failure that is still in the window, and an address that reached the *)
(* threshold within the window was banned.                                 *)
(***************************************************************************)
CountExact ==
    \A ip \in IPs :
        /\ Recent(failures[ip]) = Recent(history[ip])
        /\ Threshold > 0 => Len(Recent(history[ip])) < Threshold

(* Phones with the right password never get their address banned, whatever *)
(* nonces restarts and delays leave them with, and whatever the database   *)
(* does (Authorize, Verify and Read charge nothing for these).             *)
HonestNeverBanned ==
    \A ip \in HonestIPs : banned[ip] = Never /\ failures[ip] = <<>>

(* A ban lasts: before its end it is never lifted or shortened, except by  *)
(* an administrator, whatever requests were still being judged.            *)
BanKept ==
    [][\A ip \in IPs :
           IsBanned(ip) => banned'[ip] >= banned[ip] \/ Unban(ip)]_banAllVars
=============================================================================
