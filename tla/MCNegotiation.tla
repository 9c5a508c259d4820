--------------------------- MODULE MCNegotiation ---------------------------
EXTENDS Negotiation

Key(tag, suite, key) == [tag |-> tag, suite |-> suite, key |-> key]
PhoneOffer(port, cryptos, dir) ==
    [port |-> port, srtp |-> cryptos # <<>>, cryptos |-> cryptos, dir |-> dir,
     zero |-> FALSE, video |-> FALSE, fmts |-> <<0, 8>>]

(* Plain; SRTP; SRTP with the other suite and a key to skip, in a body     *)
(* with a video stream; SRTP on hold, without G.711; old-style hold; keys  *)
(* of no use; no payload types.                                            *)
MCOffers ==
    {PhoneOffer(3, <<>>, "sendrecv"),
     PhoneOffer(4, <<Key(1, 80, 101)>>, "sendrecv"),
     [PhoneOffer(5, <<Key(1, 80, Bad), Key(2, 32, 102), Key(3, 80, 103)>>, "sendrecv")
         EXCEPT !.video = TRUE, !.fmts = <<8, 18>>],
     [PhoneOffer(4, <<Key(4, 80, 104)>>, "sendonly") EXCEPT !.fmts = <<18>>],
     [PhoneOffer(3, <<>>, "inactive") EXCEPT !.zero = TRUE],
     PhoneOffer(4, <<Key(1, 80, Bad)>>, "sendrecv"),
     [PhoneOffer(3, <<>>, "sendrecv") EXCEPT !.fmts = <<>>]}

(* The lines of the bodies over which the rewriting is checked. *)
Alphabet ==
    {[k |-> "o", ver |-> VersionModulus - 1, addr |-> PhoneAddr],
     [k |-> "c", addr |-> PhoneAddr], [k |-> "c", addr |-> Zero], [k |-> "c", addr |-> Bad],
     [k |-> "m", media |-> "audio", port |-> 4, srtp |-> TRUE, feedback |-> TRUE, fmts |-> <<0>>],
     [k |-> "m", media |-> "audio", port |-> 0, srtp |-> FALSE, feedback |-> FALSE, fmts |-> <<8>>],
     [k |-> "m", media |-> "video", port |-> 9, srtp |-> FALSE, feedback |-> FALSE,
      fmts |-> <<99>>],
     [k |-> "dir", dir |-> "sendonly"], [k |-> "rtcp", port |-> 5],
     [k |-> "crypto", tag |-> 1, suite |-> 80, key |-> 101], [k |-> "ice"],
     [k |-> "event", pt |-> 96]}
Bodies == {b \in UNION {[1..n -> Alphabet] : n \in 2..4} : Parse(b).ok}

(* The reference statements of module Sdp, for every body of up to four    *)
(* lines with an audio stream and an address.                              *)
ASSUME RewriteCorrect ==
    \A b \in Bodies :
        /\ \A c \in {None, Key(2, 32, 1)} : RewriteRedirects(b, Pbx, 20, c)
        /\ \A dir \in {"recvonly", "inactive"} : DirectionSet(b, dir)
        /\ BumpInvisible(b)
=============================================================================
