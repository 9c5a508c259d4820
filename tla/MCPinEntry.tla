----------------------------- MODULE MCPinEntry -----------------------------
(* Instances of PinEntry for TLC. *)
EXTENDS PinEntry, TLC

TwoDigits == <<"1", "2">>
AllKeys   == {"1", "2", "#"}
=============================================================================
