------------------------------ MODULE PinEntry ------------------------------
(***************************************************************************)
(* A conference participant keying the PIN (internal/conference): keypad   *)
(* digits as RFC 4733 packets or SIP INFO, dtmfEvent, digit, the delayed   *)
(* kick after too many tries, and the mixer's tick that gives up on a      *)
(* phone that enters no PIN.  The participant has joined its room.         *)
(*                                                                         *)
(* A key press is known by its number, which stands for its RTP timestamp. *)
(***************************************************************************)
EXTENDS Naturals, Sequences, SequencesExt

CONSTANTS
    Pin,        \* the room's PIN, a sequence of keys
    Keys,       \* keys the user presses; "#" among them
    MaxTries,   \* maxTries
    MaxPresses, \* bound on the keys pressed
    EndPackets  \* packets with the end bit per key press

ASSUME PinAssumption ==
    /\ Pin \in Seq(Keys \ {"#"}) /\ Pin # <<>>
    /\ MaxTries \in Nat \ {0} /\ MaxPresses \in Nat /\ EndPackets \in Nat

VARIABLES
    pressed,   \* the keys pressed so far
    net,       \* end packets on their way: numbers of key presses
    arrived,   \* history: the end packets that came in, in order of arrival
    lastDTMF,  \* timestamp of the last end packet, 0 for none
    counted,   \* the key presses that digit saw, in order
    entered, tries, admitted, \* Participant fields
    timer,     \* the delayed kick is scheduled
    late,      \* more than pinTimeout since waitingSince
    tick,      \* the mixer found the phone late and is about to kick it
    kicked     \* "no", or the reason

pinVars == <<entered, tries, admitted, timer, counted>>
pinAllVars == <<pressed, net, arrived, lastDTMF, pinVars, late, tick, kicked>>

Reasons == {"wrong PIN", "no PIN entered"}

PinTypeOK ==
    /\ pressed \in Seq(Keys) /\ net \in Seq(1..MaxPresses)
    /\ arrived \in Seq(1..MaxPresses)
    /\ lastDTMF \in 0..MaxPresses /\ counted \in Seq(1..MaxPresses)
    /\ entered \in Seq(Keys \ {"#"}) /\ Len(entered) < Len(Pin)
    /\ tries \in Nat /\ admitted \in BOOLEAN
    /\ timer \in BOOLEAN /\ late \in BOOLEAN /\ tick \in BOOLEAN
    /\ kicked \in {"no"} \cup Reasons

PinInit ==
    /\ pressed = <<>> /\ net = <<>> /\ arrived = <<>>
    /\ lastDTMF = 0 /\ counted = <<>>
    /\ entered = <<>> /\ tries = 0 /\ admitted = FALSE
    /\ timer = FALSE /\ late = FALSE /\ tick = FALSE /\ kicked = "no"

-----------------------------------------------------------------------------
(* A complete entry: the PIN, or one try more. *)
Judge(entry) ==
    /\ entered' = <<>>
    /\ IF entry = Pin
       THEN admitted' = TRUE /\ UNCHANGED <<tries, timer>>
       ELSE /\ tries' = tries + 1
            /\ timer' = (timer \/ tries + 1 >= MaxTries)
            /\ UNCHANGED admitted

(* Mutant: only the first digit of an entry is compared. *)
Digit_PrefixOnly(press, key) ==
    /\ counted' = Append(counted, press)
    /\ IF admitted \/ kicked # "no"
       THEN UNCHANGED <<entered, tries, admitted, timer>>
       ELSE LET entry == IF key = "#" THEN entered ELSE Append(entered, key) IN
            IF key # "#" /\ Len(entry) < Len(Pin)
            THEN entered' = entry /\ UNCHANGED <<tries, admitted, timer>>
            ELSE /\ entered' = <<>>
                 /\ admitted' = (Len(entry) = Len(Pin) /\ entry[1] = Pin[1])
                 /\ UNCHANGED <<tries, timer>>

(* Participant.digit, under the participant's lock: a digit is judged when *)
(* it completes the PIN's length, "#" judges what was entered so far.      *)
Digit(press, key) ==
    /\ counted' = Append(counted, press)
    /\ IF admitted \/ kicked # "no"
       THEN UNCHANGED <<entered, tries, admitted, timer>>
       ELSE LET entry == IF key = "#" THEN entered ELSE Append(entered, key) IN
            IF key # "#" /\ Len(entry) < Len(Pin)
            THEN entered' = entry /\ UNCHANGED <<tries, admitted, timer>>
            ELSE Judge(entry)

(* Mutant: only the packets of the very first press are recognised. *)
IsDup_First(press) == lastDTMF # 0 /\ press = 1
IsDup(press) == lastDTMF = press

(* An end packet comes in, in any order: it counts unless the last one had *)
(* its timestamp.                                                          *)
DtmfEvent(i) ==
    /\ net' = RemoveAt(net, i)
    /\ arrived' = Append(arrived, net[i])
    /\ lastDTMF' = net[i]
    /\ IF IsDup(net[i]) THEN UNCHANGED pinVars ELSE Digit(net[i], pressed[net[i]])
    /\ UNCHANGED <<pressed, late, tick, kicked>>

(* The user presses a key; any of its end packets may be lost. *)
PressRTP(key) ==
    /\ Len(pressed) < MaxPresses
    /\ pressed' = Append(pressed, key)
    /\ \E n \in 0..EndPackets : net' = net \o [i \in 1..n |-> Len(pressed')]
    /\ UNCHANGED <<arrived, lastDTMF, pinVars, late, tick, kicked>>

(* The same, by SIP INFO. *)
PressInfo(key) ==
    /\ Len(pressed) < MaxPresses
    /\ pressed' = Append(pressed, key)
    /\ Digit(Len(pressed'), key)
    /\ UNCHANGED <<net, arrived, lastDTMF, late, tick, kicked>>

-----------------------------------------------------------------------------
(* kick does nothing for a phone that was kicked before. *)
Kick(reason) == kicked' = IF kicked = "no" THEN reason ELSE kicked

TimerKick ==
    /\ timer /\ timer' = FALSE
    /\ Kick("wrong PIN")
    /\ UNCHANGED <<pressed, net, arrived, lastDTMF, entered, tries, admitted, counted,
                   late, tick>>

PinTimeout ==
    /\ ~late /\ late' = TRUE
    /\ UNCHANGED <<pressed, net, arrived, lastDTMF, pinVars, tick, kicked>>

(* Mutant: a phone in the middle of an entry is left alone. *)
TickSees_SparesTyping ==
    /\ late /\ ~admitted /\ kicked = "no" /\ ~tick /\ entered = <<>>
    /\ tick' = TRUE
    /\ UNCHANGED <<pressed, net, arrived, lastDTMF, pinVars, late, kicked>>

(* tick looks at the participant under its lock, unlocks, and kicks. *)
TickSees ==
    /\ late /\ ~admitted /\ kicked = "no" /\ ~tick
    /\ tick' = TRUE
    /\ UNCHANGED <<pressed, net, arrived, lastDTMF, pinVars, late, kicked>>
TickKick ==
    /\ tick /\ tick' = FALSE
    /\ Kick("no PIN entered")
    /\ UNCHANGED <<pressed, net, arrived, lastDTMF, pinVars, late>>

(* A tick when nothing is due. *)
IdleTick == UNCHANGED pinAllVars

PinNext ==
    \/ \E key \in Keys : PressRTP(key) \/ PressInfo(key)
    \/ \E i \in 1..Len(net) : DtmfEvent(i)
    \/ TimerKick \/ PinTimeout \/ TickSees \/ TickKick \/ IdleTick

PinSpec == PinInit /\ [][PinNext]_pinAllVars

(* Timers and the mixer run; packets and presses are up to the phone. *)
PinFairSpec ==
    /\ PinSpec
    /\ WF_pinAllVars(TimerKick) /\ WF_pinAllVars(PinTimeout)
    /\ WF_pinAllVars(TickSees) /\ WF_pinAllVars(TickKick)

-----------------------------------------------------------------------------
Key(press) == pressed[press]
KeysCounted == [i \in 1..Len(counted) |-> Key(counted[i])]

(* Whatever is lost, repeated or overtaken, a key press counts a second    *)
(* time only if the end packet of another press came in between two of its *)
(* own (dtmfEvent's timestamp comparison); a press by INFO never does.     *)
Interrupted(seq, press) ==
    \E a, b, c \in 1..Len(seq) :
        a < b /\ b < c /\ seq[a] = press /\ seq[b] # press /\ seq[c] = press
EachPressOnce ==
    \A i, j \in 1..Len(counted) :
        i # j /\ counted[i] = counted[j] => Interrupted(arrived, counted[i])

(***************************************************************************)
(* What dtmfEvent's comment says: the first end packet of a key press      *)
(* counts the digit.  Checked, and refuted: one timestamp is remembered,   *)
(* and a packet overtaken by the next press counts again.                  *)
(***************************************************************************)
PressCountedOnce ==
    \A i, j \in 1..Len(counted) : counted[i] = counted[j] => i = j

(* Who is admitted has keyed the PIN: its keys follow one another in what  *)
(* digit saw, with nothing of another entry in between.                    *)
AdmittedByPin ==
    admitted => \E i \in 1..(Len(counted) + 1 - Len(Pin)) :
                    SubSeq(KeysCounted, i, i + Len(Pin) - 1) = Pin

(* Nobody waits for the PIN forever, whatever keys come in. *)
PinWaitEnds == <>(admitted \/ kicked # "no")

(***************************************************************************)
(* What the user guide says: three wrong PINs end the call.  A wrong PIN   *)
(* is keyed as the guide says, its digits and then "#".  Checked, and      *)
(* refuted: "#" after a full-length wrong PIN is judged as another entry.  *)
(***************************************************************************)
WrongPinsKeyed ==
    Len(SelectSeq(KeysCounted, LAMBDA key : key # "#")) \div Len(Pin)
ByTheBook ==  \* no key is lost, every entry has the PIN's length and a "#"
    /\ Len(counted) = Len(pressed)
    /\ \A i \in 1..Len(pressed) : (pressed[i] = "#") <=> (i % (Len(Pin) + 1) = 0)
ThreeWrongPins == timer /\ ByTheBook => WrongPinsKeyed >= 3

(***************************************************************************)
(* What the user guide says: only 30 seconds without a PIN, or wrong PINs, *)
(* end the call.  Checked, and refuted: the right PIN may arrive between   *)
(* the tick's look at the participant and its kick.                        *)
(***************************************************************************)
RightPinStays == ~(kicked = "no PIN entered" /\ admitted)
=============================================================================
