-------------------------------- MODULE Sdp --------------------------------
(***************************************************************************)
(* internal/sdp: reading a phone's session description and rewriting it so *)
(* that audio flows through the relay.  The code edits text line by line;  *)
(* a body is here the sequence of its lines, and a line a record with what *)
(* the code reads from it:                                                 *)
(*   "o" version and address     "c" address (Bad: not an IP address)      *)
(*   "m" media, port, profile, payload types     "dir" a=sendrecv etc.     *)
(*   "rtcp" port     "crypto" tag, suite, key (Bad: not usable)            *)
(*   "event" payload type of a=rtpmap telephone-event                      *)
(*   "ice" one of the attributes the relay drops     "text" anything else  *)
(* A profile is whether it is SRTP and whether it has feedback (AVPF).  A  *)
(* port with a count ("m=audio 0/2 ...") is left out.                      *)
(***************************************************************************)
EXTENDS Naturals, Sequences, FiniteSets, SequencesExt, Lists

CONSTANTS
    Bad,            \* a field of a line that does not parse
    Zero,           \* the address 0.0.0.0, old-style hold
    None,           \* no key, no description
    VersionModulus  \* 2^64: the session version is a uint64

ASSUME SdpAssumption ==
    /\ VersionModulus \in Nat \ {0}
    /\ Bad \notin Nat /\ Bad # Zero
    /\ None \notin [tag : Nat, suite : Nat, key : Nat \cup {Bad}]

Directions == {"sendrecv", "sendonly", "recvonly", "inactive"}

NoLine == [k |-> "none"]
Lines(b, k) == {i \in DOMAIN b : b[i].k = k}

(* The first audio stream: its m= line and the lines up to the next m=. *)
AudioLines(b) == {i \in Lines(b, "m") : b[i].media = "audio"}
Audio(b) == Min(AudioLines(b))
AudioEnd(b) ==
    LET first == Audio(b) IN
    Min({i \in first + 1 .. Len(b) : b[i].k = "m"} \cup {Len(b) + 1}) - 1
InAudio(b) == IF AudioLines(b) = {} THEN {} ELSE Audio(b) + 1 .. AudioEnd(b)
InSession(b) == 1 .. Min(Lines(b, "m") \cup {Len(b) + 1}) - 1

LastOf(b, I) == IF I = {} THEN NoLine ELSE b[Max(I)]

(* A setting (the lines I) of the audio stream, or else of the session. *)
Effective(b, audio, I) ==
    LET media == LastOf(b, I \cap audio) IN
    IF media # NoLine THEN media ELSE LastOf(b, I \cap InSession(b))

NoInfo == [ok |-> FALSE]

(* parseCrypto drops what the relay cannot use: other suites, keys with an *)
(* MKI, keys of the wrong length.                                          *)
Cryptos(b) ==
    LET usable == Kept(SubSeq(b, Audio(b), AudioEnd(b)),
                       {l \in ToSet(b) : l.k = "crypto" /\ l.key # Bad}) IN
    [i \in DOMAIN usable |->
        [tag |-> usable[i].tag, suite |-> usable[i].suite, key |-> usable[i].key]]

Parse(b) ==
    LET m == b[Audio(b)]
        audio == InAudio(b)
        conn == Effective(b, audio, {i \in Lines(b, "c") : b[i].addr # Bad})
        dir == Effective(b, audio, Lines(b, "dir"))
        rtcp == LastOf(b, Lines(b, "rtcp") \cap audio)
        event == LastOf(b, Lines(b, "event") \cap audio) IN
    IF AudioLines(b) = {} \/ m.fmts = <<>> \/ conn = NoLine
    THEN NoInfo
    ELSE [ok |-> TRUE, addr |-> conn.addr, port |-> m.port,
          rtcp |-> IF rtcp # NoLine /\ rtcp.port # 0 THEN rtcp.port
                   ELSE IF m.port # 0 THEN m.port + 1 ELSE 0,
          dir |-> IF dir = NoLine THEN "sendrecv" ELSE dir.dir,
          secure |-> m.srtp, cryptos |-> Cryptos(b), fmts |-> m.fmts,
          dtmf |-> IF event = NoLine THEN None ELSE event.pt]

(* Info.G711: the codec for audio the PBX makes itself. *)
G711(info) ==
    LET g == Kept(info.fmts, {0, 8}) IN
    IF g = <<>> THEN 0 ELSE Head(g)

OnHold(info) == info.addr = Zero \/ info.dir \in {"sendonly", "inactive"}

AnswerDirection(dir) ==
    CASE dir = "sendonly" -> "recvonly"
      [] dir = "recvonly" -> "sendonly"
      [] OTHER -> dir

-----------------------------------------------------------------------------
(* Each line becomes the lines edited has for it, none or one; extra goes  *)
(* to the end of the first audio stream.                                   *)
EditLines(b, edited, extra) ==
    LET end == IF AudioLines(b) = {} THEN 0 ELSE AudioEnd(b) IN
    FlattenSeq([i \in DOMAIN b |-> edited[i] \o (IF i = end THEN extra ELSE <<>>)])

KeyAttr(c) == [k |-> "crypto", tag |-> c.tag, suite |-> c.suite, key |-> c.key]
CryptoLine(c) == IF c = None THEN <<>> ELSE <<KeyAttr(c)>>

(* ICE, DTLS and ZRTP attributes, rtcp-mux, and the phone's keys. *)
Dropped == {"crypto", "ice"}

RewriteLine(l, first, inAudio, ip, port, crypto) ==
    CASE l.k = "o" -> <<[l EXCEPT !.addr = ip]>>
      [] l.k = "c" -> <<[l EXCEPT !.addr = IF @ \in {Bad, Zero} THEN @ ELSE ip]>>
      [] l.k = "m" /\ first ->
             <<[l EXCEPT !.port = IF @ = 0 THEN 0 ELSE port, !.srtp = crypto # None]>>
      [] l.k = "m" /\ ~first -> <<[l EXCEPT !.port = 0]>>
      [] l.k = "rtcp" -> IF inAudio THEN <<[l EXCEPT !.port = port + 1]>> ELSE <<>>
      [] l.k \in Dropped -> <<>>
      [] OTHER -> <<l>>

(* Rewrite: audio goes to ip and port, keyed with crypto (None: plain).    *)
(* The caller has checked that the body parses.                            *)
Rewrite(b, ip, port, crypto) ==
    LET first == Audio(b)
        audio == InAudio(b) IN
    EditLines(b, [i \in DOMAIN b |->
                     RewriteLine(b[i], i = first, i \in audio, ip, port, crypto)],
              CryptoLine(crypto))

SetDirection(b, dir) ==
    EditLines(b, [i \in DOMAIN b |-> IF b[i].k = "dir" THEN <<>> ELSE <<b[i]>>],
              <<[k |-> "dir", dir |-> dir]>>)

BumpVersion(b) ==
    [i \in DOMAIN b |->
        IF b[i].k = "o" THEN [b[i] EXCEPT !.ver = (@ + 1) % VersionModulus] ELSE b[i]]

(* Build: the description of audio the PBX itself terminates. *)
Build(l) ==
    <<[k |-> "o", ver |-> l.ver, addr |-> l.ip], [k |-> "c", addr |-> l.ip],
      [k |-> "m", media |-> "audio", port |-> l.port, srtp |-> l.crypto # None,
       feedback |-> FALSE,
       fmts |-> IF l.dtmf = None THEN <<l.pt>> ELSE <<l.pt, l.dtmf>>]>>
    \o (IF l.dtmf = None THEN <<>> ELSE <<[k |-> "event", pt |-> l.dtmf]>>)
    \o <<[k |-> "dir", dir |-> l.dir]>> \o CryptoLine(l.crypto)

-----------------------------------------------------------------------------
(* What the rewriting is for, said of what the two sides read: the relay's *)
(* address (an old-style hold stays one), port and key, and for the rest   *)
(* what the phone said.                                                    *)
Redirected(info, ip, port, crypto) ==
    [info EXCEPT !.addr = IF @ = Zero THEN Zero ELSE ip,
                 !.port = IF @ = 0 THEN 0 ELSE port,
                 !.rtcp = IF @ = 0 THEN 0 ELSE port + 1,
                 !.secure = crypto # None,
                 !.cryptos = IF crypto = None THEN <<>> ELSE <<crypto>>]

(* Reading a rewritten body gives the redirected description, whatever     *)
(* lines it has, and a body that was rewritten before (handleHold rewrites *)
(* what the phone was last sent) comes out as if it had not been.          *)
RewriteRedirects(b, ip, port, crypto) ==
    LET r == Rewrite(b, ip, port, crypto) IN
    /\ Parse(r) = Redirected(Parse(b), ip, port, crypto)
    /\ \A i \in Lines(r, "m") : r[i].port # 0 => i = Audio(r)
    /\ \A old \in {None, [tag |-> 7, suite |-> 32, key |-> 999]} :
           Rewrite(Rewrite(b, ip, port, old), ip, port, crypto) = r

(* Setting the direction sets it and nothing else, wherever the phone had  *)
(* written one.                                                            *)
DirectionSet(b, dir) == Parse(SetDirection(b, dir)) = [Parse(b) EXCEPT !.dir = dir]

(* Bumping the version leaves everything the phones read alone. *)
BumpInvisible(b) == Parse(BumpVersion(b)) = Parse(b)
=============================================================================
