# A verification project for SIPBXGO

SIPBXGO is a small SIP telephone exchange in Go: phones register, call each
other, hold calls and meet in conference rooms; the PBX is a back-to-back user
agent that stands in the middle of every call and relays its audio. This
directory holds TLA+ models of its core, the TLC runs that check them on small
instances, and TLAPS proofs of the properties that matter most.

`PROJECT.json` lists the components, the runs, the map from definitions to
source lines, the mutants that show each property can fail, the theorems and
the hazards. A module is checked with `tlc -config <run>.cfg <module>` and a
proof module with `tlapm <module>.tla`.

## 1. The system: inventory

| Component | State | Operations | Interacts with |
|---|---|---|---|
| Call engine (`b2bua/engine.go`, `call.go`, `crypto.go`) | calls by dialog, per call: forks, winner, keys, `endOnce` | HandleInvite, setup, connect, HandleBye, Monitor, HangupAll | store, relay, sipgo |
| In-dialog requests (`call.go`, `media/relay.go`, `player.go`) | `reinvite`, `holdBy`, `sdpTo`, players | forward, handleHold, Hold, Resume, Close | both phones |
| Conference legs (`b2bua/conference.go`) | `confByA`, per leg `endOnce` | joinConference, endConference, confInDialog | rooms, store |
| Conference rooms (`conference/conference.go`) | rooms, participants, PIN entry, mixer goroutine | Join, Leave, digit, kick, tick | endpoints, legs |
| Media endpoint (`media/endpoint.go`) | peer, latch, allowed addresses, keys | SetRemote, read, Start, Close | port pool |
| Port pool (`media/pool.go`) | free list, sockets | allocate, release | the operating system |
| Ban list and guard (`security`, `sipauth`) | failures and bans per address, nonces | Drop, Authorize, Fail, Succeed, BanNow, Sweep | registrar, engine, listeners |
| Registrar (`registrar`, `store/registrations.go`) | registrations table | HandleRegister, purge | store, engine |
| Keys and descriptions (`b2bua/crypto.go`, `call.go`, `sdp`) | per side: the PBX's key, whether SRTP is on, the last body sent; the endpoints' keys and ports | acceptOffer, acceptAnswer, offerKey, applyOffer; Parse, Rewrite, SetDirection, BumpVersion, Build | both phones, endpoints |
| Number directory (`store/extensions.go`, `rooms.go`, `web`, `cmd`) | extensions and rooms | create, update, delete by page or command | registrar, engine |
| Certificate loader (`tlscert`) | certificate and its modification time | Load, Watch, GetCertificate | files another program renews |
| Server (`pbx/server.go`, `main.go`, `web/server.go`, `config`) | sockets, the signal context, the transports' error channel, the web server's channel | Load, New, Listen, Serve, Run, stop | all |
| Administrators and sessions (`store/admins.go`, `web/auth.go`) | accounts, sessions, the login lock-out | login, logout, add, passwd, del, the account page, expiry, purge | web pages, command line |
| Audio (`audio`) | none | codecs, tones, music | rooms, relay |
| Web pages, command line output, notices tool | none of their own | rendering, reading | all |

What is hard here. Each SIP request, each ringing phone, each media socket, the
mixer of each room, the periodic monitor and each web request runs in a goroutine
of its own. A call can be ended from six sides. Answers, early media, CANCEL
and the ring time-out race. Ports are few and must come back. The database is
used statement by statement and closed at shutdown. RTP is lost, repeated and
reordered. `PROJECT.json` lists the hazards at their lines; the properties
below are aimed at them.

Per component, what makes it correct: a call leaves one truthful record, no
phone off the hook and no port behind; whoever is in a room is heard and a room
without members goes away; both ends of a call agree on who holds; only the PIN
admits; media goes where the phone really is and to nobody else; a port pair
has one owner; honest phones are not banned; a REGISTER is applied as a whole
or refused as a whole; a number means one thing; a renewed certificate is
served; the relay uses the keys and addresses the phones use, and no phone
learns another's; a changed password signs out who had the old one; the program
stops when it is told to and says what failed.

## 2. Modules

One module per component. `MC*` modules only define the small sets of the runs.
A proof module states and proves the theorems about one component or a few that
belong together; definitions of components that share one have different names
(`Init` of `Endpoint`, `PoolInit` of `PortPool`).

| Module | Models | Run with | Proofs |
|---|---|---|---|
| `CallEngine` | call setup, forking, hangup, records, ports, shutdown | `MCCallEngine` | `CallEngineProofs` |
| `Conference` | legs and rooms | `MCConference` | `DialogProofs` |
| `Reinvite` | in-dialog requests, hold, music | `MCReinvite` | `DialogProofs` |
| `PinEntry` | the keypad, the PIN and its time-outs | `MCPinEntry` | `MediaProofs` |
| `Endpoint` | address learning and Close of one endpoint | `MCEndpoint` | `MediaProofs` |
| `PortPool`, `PortSet` | the pool and what it promises | `MCPortPool` | `MediaProofs` |
| `BanList` | ban list, connection guard, digest check | `MCBanList` | `AccessProofs` |
| `Registrar` | REGISTER and the registrations table | `MCRegistrar` | `AccessProofs` |
| `Lists` | the loop that keeps the elements of a list it wants | `MCBanList`, `MCNegotiation` | `ListTheorems` |
| `Sdp` | parsing and rewriting session descriptions | `MCNegotiation` | `SdpProofs` |
| `Negotiation` | SRTP keys, addresses and bodies of a call or a conference leg | `MCNegotiation` | `NegotiationProofs` |
| `Directory` | extensions and rooms under concurrent edits | `MCSessions` | `OperationsProofs` |
| `Sessions` | administrators, logins and sessions, beside the requests of `Directory` | `MCSessions` | `OperationsProofs` |
| `CertWatch` | the certificate loader | `MCServer` | |
| `Server` | the program from its configuration to its exit, running `CertWatch` | `MCServer` | `OperationsProofs` |

How they fit. `CallEngine` and `Conference` take port pairs from a plain set;
`PortSet` states that interface and `PortPool`, with its queue, mutex and sockets,
is shown to implement it; `Conference` is shown to use pairs as it says.
`Conference` leaves what a digit does to the PIN open; `PinEntry` settles it.
`Reinvite` is an established call of `CallEngine` seen closer, `Endpoint` one leg of
its relay. `Registrar` takes the extension's row as given and changing; `Directory`
is how it changes. `Negotiation` EXTENDS `Sdp` and is the data of what `CallEngine`,
`Reinvite` and `Conference` do with offers and answers. `Sessions` EXTENDS
`Directory`: its requests and those of the pages are the same processes on one
database. `Server` EXTENDS `CertWatch`: the first load is a step of New, and Watch
lives as long as Serve; its HangupAll is the one `CallEngine` and `Conference` have
in full.

### State and actions against the code

*CallEngine.* `pc` is the INVITE goroutine of a call (HandleInvite, setup,
connect in order), `fork` its WaitAnswer goroutines, `results` the channel they
write, `end` whoever entered `endOnce`. One action per step between two points
where another goroutine can see a difference: `HandleInvite` (with every refusal
in its order), `NewRelay`, `AcceptOffer`, `ForkPhone`, `Receive`, `NobodyAnswered`,
`Connect`, `HangupByes`, `HangupClose`, `HangupRecord`, `Unregister`; for a call that
fails, `FailRespond`, `FailClose`, `FailRecord`. CANCEL is accepted until the final
response is sent; `lateCancel`, a history variable, remembers one that came after setup
had decided. `Save` may fail, which the code only logs: a record says whether its row
was written. Shutdown
is `HangupAll` (the snapshot), `HangupAllOne`, `HangupAllWaited`, `CloseStore`.
sipgo is external: what a phone answers, whether a send fails and when CANCEL
ends the dialog's context are choices.

*Conference.* `pc` is the leg's INVITE goroutine, `end` the progress of
endConference, `rooms`, `parts` and `stops` the room table, members and closed
stop channels. `panicked` records the use of a nil room. Join sets the phone's
room (`Join`) and adds it (`AddToRoom`) under the manager's lock, which keeps a room
from being shut in between, but not the phone from leaving. Saving a record may fail.

*Reinvite.* One process per in-dialog request. `seen`, a history variable, is the
SDP a phone really has, `sdpTo` the one the call takes it to have. An SDP is its
origin's version and a direction. A forwarded request always comes back, with an
answer or a refusal; a lost request is sipgo's time-out and comes back as a refusal.
The SDP of a refusal is kept in `sdpTo` like an answer's, though the phone takes none.

*PinEntry.* A press is its number, which stands for the RTP timestamp; `net`
holds its end packets, which are lost, repeated and come in any order. `arrived`, a
history variable, is the order in which they came.

*Endpoint.* `peer` and `latched` are separate, each store is a step. The RTCP
port is taken to follow the RTP port; RTP and RTCP readers run the same steps.

*PortPool.* Each bind, each close and each critical section is a step; other
programs bind and close ports of the range in between.

*BanList.* A request passes `Drop`, and `Authorize` judges it later; time is a
counter and credentials are the facts Authorize asks about.

*Registrar.* One step per SQL statement of HandleRegister and of the reads of
HandleInvite; the administrator's changes, the clock and purges come between.

*Directory.* One step per SQL statement of each page or command. `moved` and
`told` are history variables: they remember that a request's copy of a row is old
and what an administrator was told, and no action reads them to decide anything.

*Sdp.* A body is a sequence of lines, a line a record of what the code reads
from it. `Rewrite` and `SetDirection` edit each line and put one more at the end
of the audio stream. `MCNegotiation` holds an ASSUME that TLC evaluates before
the run: over every body of up to four lines from twelve, reading a rewritten
body gives the redirected description, rewriting twice is rewriting once, and
setting the direction or bumping the version changes nothing else
(`RewriteRedirects`, `DirectionSet`, `BumpInvisible`).

*Negotiation.* `phone` is what each phone uses after the last exchange, by the
rules of SDES (external); `leg` is what the relay's endpoints hold. Keys are
numbers: 1..`made` are the PBX's. Offers are answered one after the other;
`Reinvite` has the overlaps. `spoiled` and `stale` are history variables that
name the known ways in which relay and phone come apart. A refused re-offer comes back
without a description (`ForwardRefused`) or with one (`ForwardRefusedWith`), which
forward reads as an answer whatever the response's status.

*Sessions.* Requests are those of `Directory`, with steps for each statement of
login, changePassword, SetAdminPassword and CreateSession. `letIn` are the
requests requireLogin has passed: they act after their session may be gone. There
is one user name, as requests for two administrators touch different rows.
`toldPw`, `unwiped` and the session's `late` are history variables.

*Server.* `main` is the main goroutine, a value per step of serve, New, Listen
and Serve; `errc` holds what the transports' goroutines sent when they ended, an error
or nil; `webDone` is the web server's channel; `ctx` the context of
NotifyContext. A signal outside NotifyContext and stop kills the process. The
environment is a record of the settings Load compares; whether the numbers,
durations and networks parse is one flag.

*CertWatch.* A file is its modification time and the renewal it holds, or
Partial while it is being rewritten.

## 3. Runs

| Run | Checks |
|---|---|
| `CallSetup` | one record per call, whose status is what had happened when setup decided; no phone that answered is left without a partner or a BYE; every call and the shutdown come to an end |
| `CallShutdown` | port pairs add up; an answered call is findable until recorded; HangupAll returns after what it found is recorded |
| `ConfRooms` | a room is open, mixed and in the table exactly while it has members; ports come back; the legs HangupAll found are recorded before it returns; a failed PIN ends the call; every end finishes |
| `Keys` | the relay decrypts, encrypts and sends as each phone expects, except after the cases `KeysAgree` names; what the PBX sends on names the relay and its own keys only |
| `Hold` | both ends agree on hold, every player can be stopped; every in-dialog request is answered |
| `PinKeys` | a press counts again only if another's packet came in between its own; only the PIN admits; the wait ends |
| `Server` | a signal or a transport that ended stops the program with calls, sockets and store closed; it exits without an error only if nothing failed, and loses a transport's error only to a signal or to another transport's end without one; a renewal is served in the end |
| `Bans` | the count is exact; phones with the right password are not banned; a ban lasts |
| `Registers` | no binding without its extension, a 200 lists what was asked, TLS-only extensions ring TLS phones only |
| `Endpoint` | strangers do not move the peer, no packet after the ports are back, the peer follows the phone |
| `PortPool` | sockets stay in the range, ErrNoPorts is honest, the pool implements `PortSet` |
| `Admin` | sessions opened with an old password are gone, except in the cases the property names; the password in force is the one last reported, unless a change failed half-way or overlapped another; a shared number or a lost phone password takes an overlap of two requests |

Each property has a mutant in `PROJECT.json`: a definition `X_Y`, next to the
definition `X` it stands in for, that changes `X` as a plausible bug would and
makes TLC report the property.

### Bounds

- `CallSetup`: one call and two phones, one over TLS: the smallest set with a
  loser of the race to answer; every refusal of HandleInvite is an input.
- `CallShutdown`: two calls and three port pairs. The second call finds one pair
  left, so a relay fails half-way; one call can be found by HangupAll while the
  other is set up. No phone sends 183 here (`Announcing`): early media has no part in
  ports and records, and `CallSetup` has it.
- `ConfRooms`: two legs in one room with a PIN: one joins while the other leaves.
- `Hold`: two in-dialog requests at a time, glare takes two. The caller makes two
  offers and the callee one, so that one phone can hold and resume around
  the other's hold; the model treats the sides alike. The old-style hold
  (`c=0.0.0.0`) takes the same path as `sendonly` and is left out of the run's offers.
- `PinKeys`: three presses for a two-digit PIN with `#`, two end packets each, in any
  order: a wrong entry of one digit and `#` or of two digits, the PIN after a `#`, three
  tries with `#`, and a press overtaken by another and by two.
- `Bans`: a threshold of three, a window and a ban of two units in five: failures
  leave the window, bans end and begin again.
- `Server`: two renewals, one can overtake the load of the other; one signal
  and two transports that end, so that they can be ready together at Serve's select and
  one end can hide the other's error; environments
  with and without TLS, with the web server off, and each kind Load refuses.
- `Keys`: two re-offers, holds or refreshes after the answer: one that spoils what
  the relay holds and one that must mend it, or a hold and its resume. Offers vary in
  SRTP or not, suite, tag, unusable keys, direction, old-style hold, a second
  stream, codecs, and do not parse; answers are plain, fitting, with a wrong tag, or
  broken. `VersionModulus` is 2, so the version wraps.
- `Registers`: two REGISTERs, one INVITE and a clock of three with a minimum of two
  and a maximum of three: each bound of the expiry is met and bindings expire.
- `PortPool`: three owners, ports 3 to 8: odd bounds, two pairs, the last one just
  inside, and one owner always without.
- `Admin`: three requests on one number and one administrator: a login or an edit
  that has read, a change between its read and its write, and a third request that
  finds the result. `LockAt` is 2 for the code's 10. (The requests of `Directory`
  alone were checked with four before they joined this run.)

`MaxTime`, `MaxClock`, `MaxVer`, `MaxPresses`, `MaxOffers`, `MaxSignals`, `MaxEnds`
and `Renewals` are the only caps; they are guards of the actions that count.

Symmetry is used in runs without liveness properties, over sets whose members
no action tells apart. `Admin` and `Keys` run with `CHECK_DEADLOCK FALSE`: each
request is made once and offers are counted, and when all are answered the system
rests. Other modules have an explicit final step where the program has ended.

### Fairness

Fairness is given to the program's own goroutines and timers, never to phones,
administrators or other programs. In `CallEngine` and `Conference`: the INVITE
goroutine, forks (WaitAnswer returns when its context ends), hangup (each BYE has
a 5 s deadline), the ring timer, the delayed kick, the goroutines of HangupAll, and
closing the store. Nothing makes an operator shut down or a phone answer. In
`Reinvite`: request goroutines, whose forwarded request ends within sipgo's 32 s. In
`PinEntry`: the PIN timer, the kick timer and the mixer's 20 ms tick. In `Endpoint`:
the goroutines, and the phone keeps sending, which is what FollowsPhone is
about. In `Server`: the main goroutine, the loader's ticker and its reads, the web
server's start and its end once the context is done; and whoever began to renew a
certificate finishes. No transport fails and no signal comes of necessity.

## 4. Where the code and its words disagree

While modelling, these statements of comments or of the user guide were written
down as properties and refuted by TLC. They are definitions at the end of their
modules; to see the counterexample, make the named definition the only property
of the run's cfg (an INVARIANT, or a PROPERTY for the two action properties of
`Reinvite`), with the change given.

| Definition | Run | What the code does | What it contradicts |
|---|---|---|---|
| `NoCloseUnderLegRecord` | `ConfRooms` | endConference forgets the leg at `b2bua/conference.go:166`, before it is recorded at 175; a shutdown in between does not wait | `b2bua/conference.go:183`: "Forget the leg last, so a concurrent shutdown (HangupAll) still finds it" |
| `CancelRecorded` | `CallSetup` | setup decides (`call.go:165`) before fail responds (`call.go:325`): a CANCEL in between is answered 487, and the call is recorded as no-answer or busy | `README.md:49`: "no-answer and cancel all behave properly" |
| `NoRowLost` | `CallSetup` | SaveCall's error is logged and the row is gone (`call.go:375`) | `README.md:52`: "Call history" |
| `NoCloseUnderRecord` | `CallSetup` | a call set up during HangupAll's snapshot (`engine.go:379`) registers later and is recorded after the store closed | `b2bua/call.go:360`: "shutdown never closes the database under a call being recorded" |
| `SettledOnAnswer` | `CallSetup` | a losing fork's 183 (`call.go:248`) sets address and keys after another phone answered | `b2bua/call.go:97`: "which one applies is settled on answer" |
| `LeftMeansGone` | `ConfRooms` | a BYE before Join finds no room to leave; Join then adds the participant for good | `conference/conference.go:136`: "Leave removes p from its room" |
| `DigitsDelivered` | `ConfRooms` | an INFO digit before Join completes the PIN while `p.room` is nil (`conference.go:276`) | `conference/conference.go:154`: "Digit delivers a keypad digit" |
| `NoMusicAfterClose` | `Hold` | a hold being handled starts its player after `Relay.Close` has run Resume | `media/relay.go:120`: "Close stops forwarding" |
| `RefreshUnchanged` | `Hold` | an UPDATE changes what a phone has but not `sdpTo`; a refresh gets the older SDP (`call.go:411`) | `b2bua/call.go:409`: "answer with the SDP this phone already has" |
| `VersionsIncrease` | `Hold` | the PBX's bumped versions and the other phone's own versions alternate in one dialog | `sdp/sdp.go:316`: "as RFC 3264 requires whenever a party changes its session description" |
| `ThreeWrongPins` | `PinKeys`, `MaxPresses = 5` | a full-length wrong PIN is judged at once and its `#` again (`conference.go:257`): two mistakes count three | `README.md:275`, `278`: "Key the PIN, then `#`", "Three wrong PINs" |
| `PressCountedOnce` | `PinKeys` | one timestamp is remembered: an end packet overtaken by the next press counts again (`conference.go:239`) | `conference/conference.go:231`: "the first end packet counts the digit" |
| `RightPinStays` | `PinKeys` | the right PIN between the mixer's look and its kick (`conference.go:408`) admits, and the call is ended | `README.md:278`: "30 seconds without one, ends the call" |
| `LatchedIsReal` | `Endpoint`, `Homes <- OneHome` | the reader's two stores (`endpoint.go:227`) interleave with SetRemote's: a guessed address counts as latched | `media/endpoint.go:64`: "peer came from real traffic, not SDP" |
| `RealAddressWins` | `Endpoint`, `Homes <- OneHome` | SetRemote checks the latch (`endpoint.go:103`) and overwrites what a packet latched meanwhile | `media/endpoint.go:91`: "Once the phone has sent media its real address wins" |
| `OneNumberSpace` | `Admin` | numberUsed and the INSERT are two statements, keys are per table (`store/rooms.go:45`) | `README.md:324`: "share one number space" |
| `SecretKept` | `Admin` | an edit writes the whole row back (`web/pages.go:291`), a password set meanwhile is undone | `web/render.go:42`: "New password set." |
| `OldPasswordSignedOut` | `Admin` | a login that has checked the old password (`web/auth.go:74`) opens its session after SetAdminPassword deleted the others; or the DELETE (`store/admins.go:78`) fails after the UPDATE | `store/admins.go:62`: "changes a password and signs out that admin's sessions" |
| `EndsForCause` | `Server` | a transport's loop that returns nil ends Serve too (`pbx/server.go:340`), with exit status 0 | `pbx/server.go:312`: "until ctx is cancelled or a transport fails" |
| `TlsMeansSrtp` | `Keys` | the requirement is checked on the first offer only: a plain re-offer (`b2bua/call.go:423`) or a plain answer (`crypto.go:55`) makes the leg plain | `store/extensions.go:22`: "so the phone's signaling and audio are always encrypted" |

Two smaller ones need no model: parsePortRange (`config/config.go:154`) asks for "at
least 4 ports", of which an odd lower bound leaves one pair, too few for a call; and
Load accepts a ban threshold, time-outs and a ban duration of zero or below.

## 5. Proofs

TLAPS proves the following for every value of the constants that satisfies the
named assumptions of the module. Few of the properties are inductive alone; each
inductive invariant below was first checked by TLC on the component's run. The
invariance theorem of a component (`Invariance`, `Truths`, `PoolInvariance`,
`BanInvariance`, `ReinviteInvariance`, `NegotiationCorrect`) shows that `Init`
establishes the invariant and each action keeps it, one step or lemma per action
and below it one step per conjunct the action can disturb.

| Module | Of | Theorem | Property |
|---|---|---|---|
| `CallEngineProofs` | `CallEngine` | `TypeCorrect` | `TypeOK` |
| | | `OneRecordPerCall` | `ExactlyOneRecord` |
| | | `PortsNeverLost` | `PortsConserved` |
| | | `FindableCalls` | `FindableUntilRecorded` |
| | | `ShutdownRecords` | `SnapshotRecorded` |
| | | `TruthfulRecords` | `RecordTruthful` |
| | | `NoPhoneOrphaned` | `NoOrphanPhone` |
| `DialogProofs` | `Conference` | `TypeCorrect` | `TypeOK` |
| | | `UsedRoomsOpen` | `RoomsOpenWhileUsed` |
| | | `LegPortsNeverLost` | `LegPortsConserved` |
| | | `LegsUsePortSet` | `UsesPortSet` (refinement, needs no run of its own) |
| | | `ShutdownRecordsLegs` | `SnapshotLegsRecorded` |
| | `Reinvite` | `ReinviteTypeCorrect` | `ReinviteTypeOK` |
| | | `RelayFollowsHolds` | `HoldAgrees` |
| | | `NoLostPlayer` | `PlayersKnown` |
| `MediaProofs` | `Endpoint` | `EndpointTypeCorrect` | `TypeOK` |
| | | `StrangersNeverLatched` | `StrangersIgnored` |
| | | `QuietAfterRelease` | `NoPacketAfterRelease` |
| | `PortPool` | `PoolTypeCorrect` | `PoolTypeOK` |
| | | `PairsNeverLost` | `EachPairOnce` (needs no run of its own) |
| | | `FreePairsClosed` | `FreeMeansClosed` (needs no run of its own) |
| | | `RefusalsHonest` | `RefusedAfterAll` (action property) |
| | | `PoolImplementsPortSet` | `ImplementsPortSet` (refinement) |
| | `PinEntry` | `PinTypeCorrect` | `PinTypeOK` |
| | | `AdmissionByPin` | `AdmittedByPin` |
| | | `PressesOnce` | `EachPressOnce` |
| `AccessProofs` | `Registrar` | `RegistrarTypeCorrect` | `TypeOK` |
| | | `BindingsDieWithExtension` | `NoOrphanBinding` |
| | | `OkIsTrue` | `OkMeansDone` |
| | | `PlainPhonesNotRung` | `TlsOnlyRung` |
| | `BanList` | `BanTypeCorrect` | `BanTypeOK` |
| | | `HonestSafe` | `HonestNeverBanned` |
| | | `BansLast` | `BanKept` (action property) |
| | | `CountsExact` | `CountExact` |
| `OperationsProofs` | `Sessions`, `Directory` | `SignedOut` | `SignedOutUnlessOverlap` |
| | | `PasswordToldTruly` | `PasswordAsTold` (action property) |
| | | `SharedByOverlap` | `SharedOnlyByOverlap` (action property) |
| | | `LostByOverlap` | `LostOnlyByOverlap` (action property) |
| | `Server` | `FailuresReported` | `FailureReported` |
| `SdpProofs` | `Sdp` | `RewritingRedirects` | `RewriteRedirects` but for rewriting twice, of any body that parses |
| | | `DirectionIsSet` | `DirectionSet`, of any body that parses |
| | | `BumpIsInvisible` | `BumpInvisible`, of any body that parses |
| `NegotiationProofs` | `Negotiation` | `NegotiationCorrect` | `NegInv` |
| | | `KeysAlwaysAgree` | `KeysAgree` |
| | | `SentAlwaysNamesRelay` | `SentNamesRelay` |

**Lists** (`ListTheorems`). The loops of the code over lists are functions on
0..n, so what they compute takes induction. A set of naturals has a smallest
element (`Smallest`, from the library's theorem on the finite subsets of the
naturals); applied to the numbers where a claim fails it gives `BoundedInduction`, which
takes the claim as a set. From it: `KeptLoop` and what follows about `Kept`
(what it keeps, of a longer list, of a kept list), and `FlattenLoop`, which says
where the elements of each list are in the lists joined one after the other.

**Call engine** (`PhonesAssumption`, `InvitesAssumption`). To the types it adds

- `LedgerInv`: where a call's goroutines are decides how many records there
  are. In particular the verdict, the answer and `endOnce` exclude each other, so that
  a second way of ending finds the first;
- `PoolInv`: each pair is free or in exactly one relay leg, and which legs a
  call has follows from `pc` and `end`;
- `DownInv`: what HangupAll's snapshot holds is registered or recorded, by stage;
- `VerdictInv` and `SavedInv`: what the verdict rests on (who hung up, the ring
  time-out, the answer codes) cannot change once the verdict is made, but for a CANCEL
  that `lateCancel` remembers, and the record repeats the verdict;
- `CountInv`: `left` is the number of forks that wait plus the results nobody has
  received. It is what lets setup stop receiving when it is 0;
- `PhoneInv`: a phone that took the call has its answer in the channel, or is
  being connected, or talks. A loser of the race must pass through the first.

**Conferences** (`NumbersAssumption`, `NoneAssumption`). `ProgressInv`: what
the INVITE goroutine has reached bounds what kicks, timers, BYEs and endConference
may have done to the leg. `PortInv` is `PoolInv` for legs. `RoomInv`: members know
their room and the table maps its number to it; an open room is named after a leg
that joined it; an empty room in the table has a leg between `remove` and `shut`,
which is what a join racing the last leave runs into. Between `Join` and `AddToRoom` a
leg's room is open and cannot be shut, as the manager is locked (`AddInv`): the leg may
be leaving, but no room goes away under it. `WaitedInv`: HangupAll is
not past its wait before the legs it found are over. The steps of the legs are Takes
and Gives of `PortSet`, or none of its steps: together with the port pool's
refinement, the pool may stand in for the plain set of this model.

**In-dialog requests** (`OffersAssumption`). `LockInv`: the flag `reinvite` is a lock,
with one re-INVITE at most past it, although BYEs and other requests go on.
`HoldInv`: while nobody is in the steps of a hold the relay does what `holdBy`
says (`Agreed`); inside them, each step knows what the earlier ones did
(`Underway`).

**Endpoints** (`AddrsAssumption`). `MutexInv`: SetRemote's stores are under
`e.mu`. `SourceInv`: the address a reader is about to store is one it accepted,
and under SRTP it accepts the phone's only. This holds with `peer` and `latched`
written by the readers without the lock.

**Port pool** (`RangeAssumption`, `NoneAssumption`). `HandInv`: what an owner has
goes with where it is, and whoever is in allocate holds the mutex. `QueueInv`: the
pairs not tried yet are the first `triesLeft` of the queue, the others were found
taken; it makes ErrNoPorts honest while the queue turns. `SocketInv`: each open
socket is some owner's. The refinement maps a pair to taken when its RTCP port
is bound and to given back at `release`; the failed tries are stutters. The
lemmas on `Members`, `Append` and `Tail` carry the argument about the queue.

**PIN entry** (`PinAssumption`). `EnteredInv`: what `digit` has collected are the
last keys it counted; when they are the PIN, `AdmittedByPin` follows, and later keys
do not undo it. `ArrivedInv`: the timestamp remembered is that of the last packet that
came in, and a counted press that still has packets on their way was counted for one
that came before. So when a packet counts its press again, the press is not the
last to have come in, and another's packet did since: `EachPressOnce`, for packets in
any order. A press whose packets are not interrupted thus counts once; that each does,
whatever the order, is false (section 4).

**Registrar** (`ExpiresAssumption`, `RequestsAssumption`). `HandlerInv`:
as long as nobody else has come between, each contact already applied has a last
place among those applied (`Told`) and the table says what was asked there; this
is how a request that lists one contact twice still ends with its last word.
`KeyInv`: one row per contact. `OutsideStep` shows that what comes between marks
the handlers it disturbs. The proof needed `MaxTime` to be positive, which
`ExpiresAssumption` now says, and `LastWord` to be defined without overlapping cases.

**Ban list** (`PolicyAssumption`). `SourceInv` ties requests and connections to
their address; `BanInv`: no ban ends later than one that would begin now, so a new
ban never shortens one. `FailLocal` and `ClearedLocal` say whose entries `Fail` and
a reset touch. `CountInv`: the list of an address, which `Fail` and `Sweep` cut, has
in the window of now exactly the failures that the whole history has there, and
fewer than the threshold; it is in order of time, so that its last failure tells
`Sweep` about all of them. The window only moves on, so that cutting twice is
cutting once (`KeptTwice`).

**Administration** (`InputsAssumption`, `MarkersAssumption`, `PasswordsAssumption`,
`SessionsAssumption`), on `Sessions` and with it `Directory`. `Knows`: what a
request about to write has read is still so, or `moved` says it was changed in
between. A step of one request leaves the others' variables alone (`Alone`) and
marks those whose rows it changes (`Marked`), so that one request at a time is
enough for the proof. `SessionInv`: no session without its administrator, and
each was opened with today's password but for the overlaps the property names.

**Server** (`BoundsAssumption`). `FailureInv`: a web server that failed has left its
error in the channel or main has taken it; a start that failed ended with the error;
and main leaves its select with an error, with a transport's nil or after a signal, and
the last two are what hides another transport's error.

**Descriptions** (`SdpAssumption`). Rewrite, SetDirection and BumpVersion are edits:
`Edited` says of a result which line each line became, where it is, and
where the one extra line went. Lines that an edit keeps stay in order, so that the last
line of a kind, the first audio stream and its end move with them (`EffectiveMoved`,
`StreamKept`), and what Parse reads from the result is read from the line that
became of the one it was read from (`EffectiveCarried`). The theorems hold for
bodies of any length, with any lines in any order. Two faults of the
model came to light: two cases of `RewriteLine` overlapped, and an `a=rtcp` with port 0
counts as none.

**Negotiation** (`OffersAssumption`, `MaxOffersAssumption`, `SdpAssumption`).
`Heard`: what the PBX hears of the body of any offer is what the phone meant.
`Relayed`: what a body that the PBX may send says, namely the relay's port, one
stream and at most one key. On them rests `NegInv`:

- `CallInv`: the relay encrypts for a phone with the key that the PBX would offer it
  now (`OfferKey`), and decrypts only if it encrypts. So an offer in the other
  direction cannot name a key that the relay has dropped;
- `RingInv` and `FwdInv`: while an offer is with the other phone, the relay has
  already taken its key and address although its phone has no answer yet. This is
  the state in which the sides differ for a time, and a refusal leaves it so: the
  side is then marked in `spoiled`. A refusal with a description changes the other side
  as well, which is marked too;
- `UpInv`: `KeysAgree`, kept while an offer is on its way too, and for each side that is not `stale` the key in `sdpTo` is
  the one the relay encrypts with, which a refresh depends on;
- `RoomInv`: the description of a conference leg carries its endpoint's key;
- `NameInv`: every body sent, and every body kept for a hold or a refresh, is
  `Relayed`: an answer to a hold is made from a body of the PBX, and rewriting it with
  a new key, setting its direction and bumping its version leave it so;
- `OwnInv`: the numbers of the keys in use, sent and kept for the two sides are made
  by the PBX and apart. This is why no phone has the key of the other.

`KeysAgree` is weaker than it sounds where a side is `spoiled`, and `FwdInv` shows
why: one refused offer is enough, until the next that is accepted.

### Only model-checked

- Liveness under fairness, and ENABLED: this prover does neither.
- That rewriting twice is rewriting once: `RewriteCorrect` of `MCNegotiation`, over
  bodies of bounded length.
- `CertWatch`: what is checked of it (`RenewalServed`) is liveness.

No module is recursive, in order that any can be proved about.

## 6. Not modelled, and why

- sipgo (transactions, retransmission, dialog state): external, its outcomes are
  choices. Lost SIP messages appear as its time-outs.
- The samples of audio, MD5, bcrypt and the SRTP ciphers, the mixer's arithmetic: data
  the properties do not tell apart. Of SDP, how a line splits into fields.
- Two re-offers at once and their keys: `Reinvite` has the overlap, `Negotiation` the
  keys; their product is beyond the time a run has.
- The callee's BYE before its call is registered (answered 481; the silence monitor
  ends the call): the phone's side of the dialog is sipgo's.
- Web rendering, call lists, CLI output, notices tool: no state of their own.
- Call id collisions: ids are distinct in the models.
- Password length rules of the pages: they refuse before anything is read.

## 7. Plan

Done: the call engine with its proofs; conferences; hold; PIN entry; endpoints; the
port pool with its refinement; bans; registrar; directory; SDP; keys and addresses;
administrators and sessions; the server's life with its certificates.

Done as theorems: the safety properties that the runs check, and that the port pool implements
`PortSet` and the conference legs use it.

Left, in this order:

1. The port pairs of `CallEngine` as a refinement of `PortSet`. A call holds two
   pairs and gives them back in one step of its model, where `PortSet` has two.
2. The product of `Reinvite` and `Negotiation`: two re-offers at once and their
   keys, for which `NegInv` would take `RingInv` and `FwdInv` per request.
3. That rewriting is idempotent, from `Edited`.
