------------------------------ MODULE MCServer ------------------------------
(* Instances of Server for TLC. *)
EXTENDS Server

Base == [cert |-> TRUE, key |-> TRUE, acme |-> FALSE, domain |-> FALSE,
         tlsAddr |-> TRUE, http |-> TRUE, music |-> TRUE, parses |-> TRUE,
         minExpires |-> 60, maxExpires |-> 300, rtp |-> <<10000, 10999>>]

(* The defaults with a certificate; TLS off, the web off too; and one      *)
(* setting wrong each time.                                                *)
MCEnvs ==
    {Base, [Base EXCEPT !.tlsAddr = FALSE], [Base EXCEPT !.tlsAddr = FALSE, !.http = FALSE],
     [Base EXCEPT !.cert = FALSE, !.key = FALSE, !.acme = TRUE, !.domain = TRUE, !.music = FALSE],
     [Base EXCEPT !.key = FALSE], [Base EXCEPT !.acme = TRUE], [Base EXCEPT !.parses = FALSE],
     [Base EXCEPT !.minExpires = 0], [Base EXCEPT !.maxExpires = 59],
     [Base EXCEPT !.rtp = <<10000, 10002>>]}
=============================================================================
