------------------------------- MODULE Server -------------------------------
(***************************************************************************)
(* The life of the program: cmd/sipbxgo serve, internal/config Load,       *)
(* internal/pbx New, Listen and Serve, internal/web Run, with the          *)
(* certificate loader of module CertWatch, whose first load is part of New *)
(* and whose Watch runs while Serve does.                                  *)
(*                                                                         *)
(* Goroutines: main, one per SIP transport, the web server, the loader.    *)
(* HangupAll is one step here; module CallEngine has what it does.  A      *)
(* process that ends gives back its sockets, so a start that fails with    *)
(* some open loses nothing.                                                *)
(***************************************************************************)
EXTENDS CertWatch, FiniteSets

CONSTANTS
    Envs,        \* environments the program may be started in
    MaxSignals,  \* bound: SIGINT and SIGTERM
    MaxEnds      \* bound: transports that end by themselves

ASSUME BoundsAssumption == MaxSignals \in Nat /\ MaxEnds \in Nat

VARIABLES
    env,      \* the environment variables
    main,     \* the main goroutine
    socks,    \* open listening sockets
    store,    \* the database is open
    ctx,      \* the signal context is done
    running,  \* how many SIP transports are in their Serve loops
    errc,     \* what came to Serve's channel from transports: "nil", "err"
    calls,    \* calls may be up
    web,      \* the web server: none, listen, serving, ended
    webDone,  \* its channel: empty, nil or err
    ret,      \* the error serve returns: nil or err
    signals,  \* signals still to come
    failures  \* "web", "start": what else has failed

serverVars == <<env, main, socks, store, ctx, running, errc, calls, web, webDone,
                ret, signals, failures>>
programVars == <<certVars, serverVars>>

-----------------------------------------------------------------------------
(* config.Load: pairs of settings that go together, and ranges. *)
PortRangeOK(lo, hi) == lo >= 1024 /\ hi <= 65535 /\ hi - lo >= 3
ExpiresOK(lo, hi) == lo >= 1 /\ hi >= lo

Load(e) ==
    /\ e.cert = e.key
    /\ e.acme => e.domain
    /\ ExpiresOK(e.minExpires, e.maxExpires)
    /\ PortRangeOK(e.rtp[1], e.rtp[2])
    /\ e.parses

TLSEnabled(e) == e.tlsAddr /\ (e.cert \/ e.acme)

Transports == {"udp", "tcp"} \cup (IF TLSEnabled(env) THEN {"tls"} ELSE {})

ServerInit ==
    /\ CertInit
    /\ env \in Envs /\ main = "config"
    /\ socks = {} /\ store = FALSE /\ ctx = FALSE
    /\ running = 0 /\ errc = {} /\ calls = FALSE
    /\ web = "none" /\ webDone = "empty" /\ ret = "nil"
    /\ signals = MaxSignals /\ failures = {}

-----------------------------------------------------------------------------
(* main, up to Serve.  An error closes the store (a deferred call). *)
Goto(from, to) == main = from /\ main' = to

Fail(from) ==
    /\ Goto(from, "exited")
    /\ ret' = "err" /\ failures' = failures \cup {"start"} /\ store' = FALSE

LoadConfig ==
    /\ \/ Load(env) /\ Goto("config", "store") /\ UNCHANGED <<ret, failures, store>>
       \/ ~Load(env) /\ Fail("config")
    /\ UNCHANGED <<certVars, env, socks, ctx, running, errc, calls, web, webDone, signals>>

OpenStore ==
    /\ \/ Goto("store", "new") /\ store' = TRUE /\ UNCHANGED <<ret, failures>>
       \/ Fail("store")
    /\ UNCHANGED <<certVars, env, socks, ctx, running, errc, calls, web, webDone, signals>>

(* New: the hold music, then the certificate if TLS is on. *)
New ==
    /\ \/ env.music /\ ~TLSEnabled(env) /\ Goto("new", "udp")
          /\ UNCHANGED <<certVars, ret, failures, store>>
       \/ env.music /\ TLSEnabled(env) /\ Goto("new", "cert") /\ StartLoad
          /\ UNCHANGED <<ret, failures, store>>
       \/ ~env.music /\ Fail("new") /\ UNCHANGED certVars
    /\ UNCHANGED <<env, socks, ctx, running, errc, calls, web, webDone, signals>>

CertLoaded ==
    /\ \/ pc = "tick" /\ Goto("cert", "udp") /\ UNCHANGED <<ret, failures, store>>
       \/ pc = "failed" /\ Fail("cert")
    /\ UNCHANGED <<certVars, env, socks, ctx, running, errc, calls, web, webDone, signals>>

(* Listen: each socket in turn, those before it closed on an error. *)
AfterListen(t) ==
    CASE t = "udp" -> "tcp"
      [] t = "tcp" -> IF TLSEnabled(env) THEN "tls" ELSE "web"
      [] OTHER -> "web"

Listen(t) ==
    /\ \/ Goto(t, AfterListen(t)) /\ socks' = socks \cup {t}
          /\ UNCHANGED <<ret, failures, store>>
       \/ Fail(t) /\ socks' = {}
    /\ UNCHANGED <<certVars, env, ctx, running, errc, calls, web, webDone, signals>>

(* NotifyContext, and the web server unless it is off. *)
StartWeb ==
    /\ \/ /\ Goto("web", "serve")
          /\ web' = IF env.http THEN "listen" ELSE "none"
          /\ webDone' = IF env.http THEN "empty" ELSE "nil"
          /\ UNCHANGED <<ret, failures, store>>
       \/ env.http /\ Fail("web") /\ UNCHANGED <<web, webDone>>
    /\ UNCHANGED <<certVars, env, socks, ctx, running, errc, calls, signals>>

(* Serve: the transports and the loader's Watch start ... *)
StartServe ==
    /\ Goto("serve", "select")
    /\ running' = Cardinality(Transports) /\ calls' = TRUE
    /\ UNCHANGED <<certVars, env, socks, store, ctx, errc, web, webDone, ret, signals, failures>>

(* ... and main waits for a signal or the end of a transport, whose error  *)
(* may be nil.  It receives once, so errc keeps what it took, ...          *)
Select ==
    /\ Goto("select", "hangup")
    /\ \/ ctx /\ UNCHANGED ret
       \/ ret' \in errc
    /\ UNCHANGED <<certVars, env, socks, store, ctx, running, errc, calls, web, webDone,
                   signals, failures>>

(* ... hangs up while it can still send, and closes the sockets, which     *)
(* ends the transports: the channel has room for the errors of all three.  *)
HangupAll ==
    /\ Goto("hangup", "close") /\ calls' = FALSE
    /\ UNCHANGED <<certVars, env, socks, store, ctx, running, errc, web, webDone, ret, signals,
                   failures>>

CloseSockets ==
    /\ Goto("close", "stop")
    /\ socks' = socks \ Transports /\ running' = 0
    /\ UNCHANGED <<certVars, env, store, ctx, errc, calls, web, webDone, ret, signals, failures>>

(* Mutant: stop is only deferred, to the return that waits for the web. *)
Stop_Deferred ==
    /\ Goto("stop", "wait")
    /\ UNCHANGED <<certVars, env, socks, store, ctx, running, errc, calls, web, webDone, ret,
                   signals, failures>>

(* stop() cancels the context, which also ends the web server. *)
Stop ==
    /\ Goto("stop", "wait") /\ ctx' = TRUE
    /\ UNCHANGED <<certVars, env, socks, store, running, errc, calls, web, webDone, ret,
                   signals, failures>>

(* Mutant: the web server's error is not looked at. *)
Wait_Ignores ==
    /\ Goto("wait", "exited") /\ webDone # "empty"
    /\ webDone' = "empty" /\ store' = FALSE /\ UNCHANGED ret
    /\ UNCHANGED <<certVars, env, socks, ctx, running, errc, calls, web, signals, failures>>

Wait ==
    /\ Goto("wait", "exited") /\ webDone # "empty"
    /\ webDone' = "empty" /\ store' = FALSE
    /\ ret' = IF webDone = "err" THEN "err" ELSE ret
    /\ UNCHANGED <<certVars, env, socks, ctx, running, errc, calls, web, signals, failures>>

Main ==
    \/ LoadConfig \/ OpenStore \/ New \/ CertLoaded
    \/ \E t \in {"udp", "tcp", "tls"} : Listen(t)
    \/ StartWeb \/ StartServe \/ Select \/ HangupAll \/ CloseSockets \/ Stop \/ Wait

-----------------------------------------------------------------------------
ProgramAlive == main \notin {"exited", "killed"}

(* A signal: outside NotifyContext and stop it kills the process. *)
Signal ==
    /\ ProgramAlive /\ signals > 0 /\ signals' = signals - 1
    /\ IF main \in {"serve", "select", "hangup", "close", "stop"}
       THEN ctx' = TRUE /\ UNCHANGED <<main, socks, store>>
       ELSE main' = "killed" /\ socks' = {} /\ store' = FALSE /\ UNCHANGED ctx
    /\ UNCHANGED <<certVars, env, running, errc, calls, web, webDone, ret, failures>>

(* A transport's loop ends by itself, with an error or without. *)
TransportEnds ==
    /\ ProgramAlive /\ running > 0
    /\ Cardinality(Transports) - running < MaxEnds
    /\ running' = running - 1
    /\ \E e \in {"nil", "err"} : errc' = errc \cup {e}
    /\ UNCHANGED <<certVars, env, main, socks, store, ctx, calls, web, webDone, ret, signals,
                   failures>>

(* web.Server.Run: it listens and serves until the context is done. *)
WebListens ==
    /\ ProgramAlive /\ web = "listen"
    /\ \/ web' = "serving" /\ socks' = socks \cup {"http"} /\ UNCHANGED <<webDone, failures>>
       \/ /\ web' = "ended" /\ webDone' = "err" /\ failures' = failures \cup {"web"}
          /\ UNCHANGED socks
    /\ UNCHANGED <<certVars, env, main, store, ctx, running, errc, calls, ret, signals>>

WebEnds ==
    /\ ProgramAlive /\ web = "serving" /\ web' = "ended"
    /\ socks' = socks \ {"http"}
    /\ \/ ctx /\ webDone' = "nil" /\ UNCHANGED failures
       \/ webDone' = "err" /\ failures' = failures \cup {"web"}
    /\ UNCHANGED <<certVars, env, main, store, ctx, running, errc, calls, ret, signals>>

-----------------------------------------------------------------------------
(* The first load is New's; Watch ends when Serve's context does.  What a  *)
(* load still under way then finds serves nobody.                          *)
LoaderRuns ==
    /\ main \in {"cert", "select"}
    /\ \/ main = "select" /\ ~ctx /\ Watch
       \/ LoadStat \/ ReadCert \/ ReadKey \/ Store \/ LoadFails
    /\ UNCHANGED serverVars

(* Whoever renews the certificate: what it does while nobody looks at the  *)
(* files, it may as well do when somebody does.                            *)
Renewer ==
    /\ main \in {"new", "cert", "select"}
    /\ Renew \/ \E f \in Files : Truncate(f) \/ Fill(f)
    /\ UNCHANGED serverVars

Ended == ~ProgramAlive /\ UNCHANGED programVars

ServerNext ==
    \/ Main \/ Signal \/ TransportEnds
    \/ WebListens \/ WebEnds \/ LoaderRuns \/ Renewer \/ Ended

(* Every goroutine that can go on does, and a renewal that began is        *)
(* finished; nothing fails or is signalled of necessity.                   *)
ServerSpec ==
    /\ ServerInit /\ [][ServerNext]_programVars
    /\ WF_programVars(Main) /\ WF_programVars(LoaderRuns)
    /\ WF_programVars(WebListens) /\ WF_programVars(ctx /\ WebEnds)
    /\ WF_programVars(Renewer /\ renewal' = renewal)

-----------------------------------------------------------------------------
(* A signal, or the end of a transport, stops the program: its calls hung  *)
(* up, every socket closed and the store with them, and it does not wait   *)
(* for a web server that nobody has told to stop.                          *)
ServerStops ==
    (main = "select" /\ (ctx \/ errc # {})) ~>
        \/ main = "killed"
        \/ main = "exited" /\ socks = {} /\ ~calls /\ ~store

(* The program ends without an error only if nothing failed, but for a     *)
(* transport that failed when Serve's select had something else to take: a *)
(* signal, or another transport's end without an error.  A web server that *)
(* could not listen is reported, though only at the end.                   *)
FailureReported ==
    main = "exited" /\ ret = "nil" =>
        /\ failures = {}
        /\ "err" \in errc => signals < MaxSignals \/ "nil" \in errc

(* While the server runs with TLS, it ends up serving the last renewal,    *)
(* whatever its reads caught halfway: a failed load is tried again.        *)
RenewalServed ==
    <>[](main = "select" /\ ~ctx /\ TLSEnabled(env) =>
            cert = content["cert"] /\ cert = renewal)

(***************************************************************************)
(* What Serve's comment says of its end ("until ctx is cancelled or a      *)
(* transport fails"): without either the program does not end.  Checked,   *)
(* and refuted: a transport's loop that returns nil ends it, exit status 0.*)
(***************************************************************************)
EndsForCause ==
    main = "exited" /\ ret = "nil" => signals < MaxSignals
=============================================================================
