-------------------------- MODULE CallEngineProofs --------------------------
(* Theorems about CallEngine, for every set of calls, phones and ports. *)
EXTENDS CallEngine, TLAPS, FiniteSetTheorems

(* A receive from the channel yields one of the forks' results. *)
LEMMA ReceiveTypes ==
    ASSUME ResultTypes, NEW c \in Calls, left[c] > 0, Receive(c)
    PROVE  ResultTypes' /\ Head(results[c]) \in ForkResults
<1>1. results[c] \in Seq(ForkResults) /\ results[c] # <<>>
  BY DEF ResultTypes, Receive
<1>2. Head(results[c]) \in ForkResults /\ Tail(results[c]) \in Seq(ForkResults)
  BY <1>1
<1>3. left[c] - 1 \in Nat
  BY DEF ResultTypes
<1> QED
  BY <1>2, <1>3 DEF ResultTypes, Receive

(* A fork that reports its result keeps the types. *)
LEMMA ResultStepTypes ==
    ASSUME TypeOK, NEW c \in Calls, NEW p \in Phones, NEW outcome \in Outcomes,
           Result(c, p, outcome)
    PROVE  TypeOK'
<1> USE DEF TypeOK
<1>1. [phone |-> p, outcome |-> outcome] \in ForkResults
  BY DEF ForkResults
<1>2. ResultTypes'
  BY <1>1 DEF Result, ResultTypes
<1>3. ForkTypes'
  BY DEF Result, ForkTypes
<1>4. PhoneTypes'
  BY DEF Result, PhoneTypes
<1>5. CallTypes' /\ SetupTypes' /\ MediaTypes' /\ EndTypes' /\ PoolTypes'
      /\ SavedTypes' /\ DownTypes'
  BY ZenonT(60) DEF Result, callVars, cancelVars, mediaVars, endVars, poolVars, downVars, CallTypes,
         SetupTypes, MediaTypes, EndTypes, PoolTypes, SavedTypes, DownTypes
<1> QED
  BY <1>2, <1>3, <1>4, <1>5

(* Every step keeps the types: one case per action, and under it one step  *)
(* per part of the state that the action writes.                           *)
LEMMA TypeStep == TypeOK /\ [Next]_vars => TypeOK'
<1> SUFFICES ASSUME TypeOK, [Next]_vars PROVE TypeOK'
  OBVIOUS
<1> USE DEF callVars, setupVars, cancelVars, mediaVars, endVars, poolVars, downVars
<1>0. CallTypes /\ SetupTypes /\ ForkTypes /\ PhoneTypes /\ ResultTypes
      /\ MediaTypes /\ EndTypes /\ PoolTypes /\ SavedTypes /\ DownTypes
  BY DEF TypeOK
<1>1. ASSUME NEW c \in Calls, CallStep(c) PROVE TypeOK'
  <2>1. CASE HandleInvite(c)
    <3>1. CallTypes'
      BY <1>0, <2>1 DEF HandleInvite, Admit, Go, Fail, Kept, Verdict, CallTypes, Statuses, Sides
    <3>2. SetupTypes'
      BY InvitesAssumption, <1>0, <2>1 DEF HandleInvite, Admit, Go, Fail, Kept, Verdict,
           SetupTypes, Outcomes, InviteFacts
    <3>3. ForkTypes' /\ PhoneTypes' /\ ResultTypes' /\ MediaTypes' /\ EndTypes' /\ PoolTypes'
            /\ SavedTypes' /\ DownTypes'
      BY <1>0, <2>1 DEF HandleInvite, Admit, Go, Fail, Kept, Verdict, ForkTypes, PhoneTypes,
           ResultTypes, MediaTypes, EndTypes, PoolTypes, SavedTypes, DownTypes
    <3> QED
      BY <3>1, <3>2, <3>3 DEF TypeOK
  <2>2. CASE ReadInvite(c)
    <3>1. CallTypes'
      BY <1>0, <2>2 DEF ReadInvite, Go, CallTypes, Statuses, Sides
    <3>2. SetupTypes' /\ ForkTypes' /\ PhoneTypes' /\ ResultTypes' /\ MediaTypes'
            /\ EndTypes' /\ PoolTypes' /\ SavedTypes' /\ DownTypes'
      BY <1>0, <2>2 DEF ReadInvite, Go, SetupTypes, ForkTypes, PhoneTypes, ResultTypes,
           MediaTypes, EndTypes, PoolTypes, SavedTypes, DownTypes
    <3> QED
      BY <3>1, <3>2 DEF TypeOK
  <2>3. CASE NewRelay(c)
    <3>1. CallTypes'
      BY <1>0, <2>3 DEF NewRelay, Go, CallTypes, Statuses, Sides
    <3>2. PoolTypes'
      BY <1>0, <2>3 DEF NewRelay, Go, PoolTypes
    <3>3. SetupTypes' /\ ForkTypes' /\ PhoneTypes' /\ ResultTypes' /\ MediaTypes'
            /\ EndTypes' /\ SavedTypes' /\ DownTypes'
      BY <1>0, <2>3 DEF NewRelay, Go, SetupTypes, ForkTypes, PhoneTypes, ResultTypes,
           MediaTypes, EndTypes, SavedTypes, DownTypes
    <3> QED
      BY <3>1, <3>2, <3>3 DEF TypeOK
  <2>4. CASE NewRelayFails(c)
    <3>1. CallTypes'
      BY <1>0, <2>4 DEF NewRelayFails, ReleasePorts, Fail, Go, Verdict, CallTypes, Statuses, Sides
    <3>2. PoolTypes'
      BY <1>0, <2>4 DEF NewRelayFails, ReleasePorts, Fail, Go, Verdict, PoolTypes
    <3>3. SetupTypes' /\ ForkTypes' /\ PhoneTypes' /\ ResultTypes' /\ MediaTypes'
            /\ EndTypes' /\ SavedTypes' /\ DownTypes'
      BY <1>0, <2>4 DEF NewRelayFails, ReleasePorts, Fail, Go, Verdict, SetupTypes, ForkTypes,
           PhoneTypes, ResultTypes, MediaTypes, EndTypes, SavedTypes, DownTypes
    <3> QED
      BY <3>1, <3>2, <3>3 DEF TypeOK
  <2>5. CASE AcceptOffer(c)
    <3>1. CallTypes'
      BY <1>0, <2>5 DEF AcceptOffer, Fail, Go, Verdict, CallTypes, Statuses, Sides
    <3>2. SetupTypes'
      BY <1>0, <2>5 DEF AcceptOffer, Fail, Go, Verdict, SetupTypes, Outcomes
    <3>3. ForkTypes' /\ PhoneTypes' /\ ResultTypes' /\ MediaTypes' /\ EndTypes' /\ PoolTypes'
            /\ SavedTypes' /\ DownTypes'
      BY <1>0, <2>5 DEF AcceptOffer, Fail, Go, Verdict, ForkTypes, PhoneTypes, ResultTypes,
           MediaTypes, EndTypes, PoolTypes, SavedTypes, DownTypes
    <3> QED
      BY <3>1, <3>2, <3>3 DEF TypeOK
  <2>6. CASE ForksStarted(c)
    <3>1. CallTypes'
      BY SMTT(30), <1>0, <2>6 DEF ForksStarted, Fail, Go, Verdict, StopRinging, CallTypes,
           Statuses, Sides
    <3>2. SetupTypes'
      BY <1>0, <2>6 DEF ForksStarted, Fail, Go, Verdict, StopRinging, SetupTypes, Outcomes
    <3>3. ForkTypes' /\ PhoneTypes' /\ ResultTypes' /\ MediaTypes' /\ EndTypes' /\ PoolTypes'
            /\ SavedTypes' /\ DownTypes'
      BY <1>0, <2>6 DEF ForksStarted, Fail, Go, Verdict, StopRinging, ForkTypes, PhoneTypes,
           ResultTypes, MediaTypes, EndTypes, PoolTypes, SavedTypes, DownTypes
    <3> QED
      BY <3>1, <3>2, <3>3 DEF TypeOK
  <2>7. CASE RingTimeout(c)
    <3>1. SetupTypes'
      BY <1>0, <2>7 DEF RingTimeout, SetupTypes, Outcomes
    <3>2. CallTypes' /\ ForkTypes' /\ PhoneTypes' /\ ResultTypes' /\ MediaTypes' /\ EndTypes'
            /\ PoolTypes' /\ SavedTypes' /\ DownTypes'
      BY ZenonT(60), <1>0, <2>7 DEF RingTimeout, CallTypes, ForkTypes, PhoneTypes, ResultTypes,
           MediaTypes, EndTypes, PoolTypes, SavedTypes, DownTypes
    <3> QED
      BY <3>1, <3>2 DEF TypeOK
  <2>8. CASE Cancel(c)
    <3>1. SetupTypes'
      BY <1>0, <2>8 DEF Cancel, SetupTypes, Outcomes
    <3>2. MediaTypes'
      BY <1>0, <2>8 DEF Cancel, MediaTypes
    <3>3. CallTypes' /\ ForkTypes' /\ PhoneTypes' /\ ResultTypes' /\ EndTypes' /\ PoolTypes'
            /\ SavedTypes' /\ DownTypes'
      BY <1>0, <2>8 DEF Cancel, CallTypes, ForkTypes, PhoneTypes, ResultTypes, EndTypes,
           PoolTypes, SavedTypes, DownTypes
    <3> QED
      BY <3>1, <3>2, <3>3 DEF TypeOK
  <2>9. CASE AwaitAnswer(c)
    <3>1. CallTypes'
      BY <1>0, <2>9 DEF AwaitAnswer, Receive, StopRinging, Go, CallTypes, Statuses, Sides
    <3>2. SetupTypes'
      <4>1. Head(results[c]) \in ForkResults
        BY <1>0, <2>9, ReceiveTypes DEF AwaitAnswer
      <4>2. Head(results[c]).phone \in Phones /\ Head(results[c]).outcome \in Outcomes
        BY <4>1 DEF ForkResults
      <4> QED
        BY <1>0, <2>9, <4>2 DEF AwaitAnswer, StopRinging, SetupTypes
    <3>3. ResultTypes'
      BY <1>0, <2>9, ReceiveTypes DEF AwaitAnswer
    <3>4. ForkTypes' /\ PhoneTypes' /\ MediaTypes' /\ EndTypes' /\ PoolTypes' /\ SavedTypes'
            /\ DownTypes'
      BY <1>0, <2>9 DEF AwaitAnswer, Receive, StopRinging, Go, ForkTypes, PhoneTypes,
           MediaTypes, EndTypes, PoolTypes, SavedTypes, DownTypes
    <3> QED
      BY <3>1, <3>2, <3>3, <3>4 DEF TypeOK
  <2>10. CASE NobodyAnswered(c)
    <3>1. CallTypes'
      BY <1>0, <2>10 DEF NobodyAnswered, Go, StopRinging, NoAnswerVerdict, Verdict, CallTypes,
           Statuses, Sides
    <3>2. SetupTypes'
      BY <1>0, <2>10 DEF NobodyAnswered, Go, StopRinging, NoAnswerVerdict, Verdict, SetupTypes,
           Outcomes
    <3>3. ForkTypes' /\ PhoneTypes' /\ ResultTypes' /\ MediaTypes' /\ EndTypes' /\ PoolTypes'
            /\ SavedTypes' /\ DownTypes'
      BY <1>0, <2>10 DEF NobodyAnswered, Go, StopRinging, NoAnswerVerdict, Verdict, ForkTypes,
           PhoneTypes, ResultTypes, MediaTypes, EndTypes, PoolTypes, SavedTypes, DownTypes
    <3> QED
      BY <3>1, <3>2, <3>3 DEF TypeOK
  <2>11. CASE DropLateAnswer(c)
    <3>1. PhoneTypes'
      BY <1>0, <2>11 DEF DropLateAnswer, Receive, PhoneTypes
    <3>2. ResultTypes'
      BY <1>0, <2>11, ReceiveTypes DEF DropLateAnswer
    <3>3. CallTypes' /\ SetupTypes' /\ ForkTypes' /\ MediaTypes' /\ EndTypes' /\ PoolTypes'
            /\ SavedTypes' /\ DownTypes'
      BY ZenonT(60), <1>0, <2>11 DEF DropLateAnswer, Receive, CallTypes, SetupTypes, ForkTypes,
           MediaTypes, EndTypes, PoolTypes, SavedTypes, DownTypes
    <3> QED
      BY <3>1, <3>2, <3>3 DEF TypeOK
  <2>12. CASE Connect(c)
    <3>1. CallTypes'
      BY <1>0, <2>12 DEF Connect, ConnectFails, Fail, Go, Verdict, CallTypes, Statuses, Sides
    <3>2. PhoneTypes'
      BY <1>0, <2>12 DEF Connect, ConnectFails, Fail, Go, Verdict, PhoneTypes
    <3>3. MediaTypes'
      BY <1>0, <2>12 DEF Connect, ConnectFails, Fail, Go, Verdict, MediaTypes, SetupTypes,
           Outcomes
    <3>4. EndTypes'
      BY <1>0, <2>12 DEF Connect, ConnectFails, Fail, Go, Verdict, EndTypes, Sides
    <3>5. SetupTypes' /\ ForkTypes' /\ ResultTypes' /\ PoolTypes' /\ SavedTypes' /\ DownTypes'
      BY <1>0, <2>12 DEF Connect, ConnectFails, Fail, Go, Verdict, SetupTypes, ForkTypes,
           ResultTypes, PoolTypes, SavedTypes, DownTypes
    <3> QED
      BY <3>1, <3>2, <3>3, <3>4, <3>5 DEF TypeOK
  <2>13. CASE ConnectKeys(c)
    <3>1. CallTypes'
      BY SMTT(30), <1>0, <2>13 DEF ConnectKeys, ConnectFails, Fail, Go, Verdict, CallTypes,
           Statuses, Sides
    <3>2. PhoneTypes'
      BY <1>0, <2>13 DEF ConnectKeys, ConnectFails, Fail, Go, Verdict, PhoneTypes
    <3>3. MediaTypes'
      BY <1>0, <2>13 DEF ConnectKeys, ConnectFails, Fail, Go, Verdict, MediaTypes, SetupTypes,
           Outcomes
    <3>4. EndTypes'
      BY <1>0, <2>13 DEF ConnectKeys, ConnectFails, Fail, Go, Verdict, EndTypes, Sides
    <3>5. SetupTypes' /\ ForkTypes' /\ ResultTypes' /\ PoolTypes' /\ SavedTypes' /\ DownTypes'
      BY <1>0, <2>13 DEF ConnectKeys, ConnectFails, Fail, Go, Verdict, SetupTypes, ForkTypes,
           ResultTypes, PoolTypes, SavedTypes, DownTypes
    <3> QED
      BY <3>1, <3>2, <3>3, <3>4, <3>5 DEF TypeOK
  <2>14. CASE HandleAck(c)
    <3>1. CallTypes'
      BY <1>0, <2>14 DEF HandleAck, Go, CallTypes, Statuses, Sides
    <3>2. SetupTypes' /\ ForkTypes' /\ PhoneTypes' /\ ResultTypes' /\ MediaTypes'
            /\ EndTypes' /\ PoolTypes' /\ SavedTypes' /\ DownTypes'
      BY <1>0, <2>14 DEF HandleAck, Go, SetupTypes, ForkTypes, PhoneTypes, ResultTypes,
           MediaTypes, EndTypes, PoolTypes, SavedTypes, DownTypes
    <3> QED
      BY <3>1, <3>2 DEF TypeOK
  <2>15. CASE AnswerLost(c)
    <3>1. CallTypes'
      BY <1>0, <2>15 DEF AnswerLost, BeginHangup, Go, CallTypes, Statuses, Sides
    <3>2. EndTypes'
      BY <1>0, <2>15 DEF AnswerLost, BeginHangup, Go, EndTypes, Sides
    <3>3. SetupTypes' /\ ForkTypes' /\ PhoneTypes' /\ ResultTypes' /\ MediaTypes'
            /\ PoolTypes' /\ SavedTypes' /\ DownTypes'
      BY <1>0, <2>15 DEF AnswerLost, BeginHangup, Go, SetupTypes, ForkTypes, PhoneTypes,
           ResultTypes, MediaTypes, PoolTypes, SavedTypes, DownTypes
    <3> QED
      BY <3>1, <3>2, <3>3 DEF TypeOK
  <2>16. CASE Monitor(c)
    <3>1. EndTypes'
      BY <1>0, <2>16 DEF Monitor, BeginHangup, EndTypes, Sides
    <3>2. CallTypes' /\ SetupTypes' /\ ForkTypes' /\ PhoneTypes' /\ ResultTypes'
            /\ MediaTypes' /\ PoolTypes' /\ SavedTypes' /\ DownTypes'
      BY ZenonT(60), <1>0, <2>16 DEF Monitor, BeginHangup, CallTypes, SetupTypes, ForkTypes,
           PhoneTypes, ResultTypes, MediaTypes, PoolTypes, SavedTypes, DownTypes
    <3> QED
      BY <3>1, <3>2 DEF TypeOK
  <2>17. CASE HangupAllOne(c)
    <3>1. EndTypes'
      BY <1>0, <2>17 DEF HangupAllOne, BeginHangup, EndTypes, Sides
    <3>2. CallTypes' /\ SetupTypes' /\ ForkTypes' /\ PhoneTypes' /\ ResultTypes'
            /\ MediaTypes' /\ PoolTypes' /\ SavedTypes' /\ DownTypes'
      BY ZenonT(60), <1>0, <2>17 DEF HangupAllOne, BeginHangup, CallTypes, SetupTypes,
           ForkTypes, PhoneTypes, ResultTypes, MediaTypes, PoolTypes, SavedTypes, DownTypes
    <3> QED
      BY <3>1, <3>2 DEF TypeOK
  <2>18. CASE HangupByes(c)
    <3>1. EndTypes'
      BY <1>0, <2>18 DEF HangupByes, EndTypes, Sides
    <3>2. PhoneTypes'
      BY <1>0, <2>18 DEF HangupByes, PhoneTypes
    <3>3. CallTypes' /\ SetupTypes' /\ ForkTypes' /\ ResultTypes' /\ MediaTypes'
            /\ PoolTypes' /\ SavedTypes' /\ DownTypes'
      BY ZenonT(60), <1>0, <2>18 DEF HangupByes, CallTypes, SetupTypes, ForkTypes, ResultTypes,
           MediaTypes, PoolTypes, SavedTypes, DownTypes
    <3> QED
      BY <3>1, <3>2, <3>3 DEF TypeOK
  <2>19. CASE HangupClose(c)
    <3>1. EndTypes'
      BY <1>0, <2>19 DEF HangupClose, ReleasePorts, EndTypes, Sides
    <3>2. PoolTypes'
      BY <1>0, <2>19 DEF HangupClose, ReleasePorts, PoolTypes
    <3>3. CallTypes' /\ SetupTypes' /\ ForkTypes' /\ PhoneTypes' /\ ResultTypes'
            /\ MediaTypes' /\ SavedTypes' /\ DownTypes'
      BY <1>0, <2>19 DEF HangupClose, ReleasePorts, CallTypes, SetupTypes, ForkTypes,
           PhoneTypes, ResultTypes, MediaTypes, SavedTypes, DownTypes
    <3> QED
      BY <3>1, <3>2, <3>3 DEF TypeOK
  <2>20. CASE HangupRecord(c)
    <3>1. EndTypes'
      BY <1>0, <2>20 DEF HangupRecord, Save, EndTypes, Sides
    <3>2. SavedTypes'
      BY <1>0, <2>20 DEF HangupRecord, Save, SavedTypes, Saves, EndTypes, Sides, Statuses
    <3>3. CallTypes' /\ SetupTypes' /\ ForkTypes' /\ PhoneTypes' /\ ResultTypes'
            /\ MediaTypes' /\ PoolTypes' /\ DownTypes'
      BY <1>0, <2>20 DEF HangupRecord, Save, CallTypes, SetupTypes, ForkTypes, PhoneTypes,
           ResultTypes, MediaTypes, PoolTypes, DownTypes
    <3> QED
      BY <3>1, <3>2, <3>3 DEF TypeOK
  <2>21. CASE Unregister(c)
    <3>1. EndTypes'
      BY <1>0, <2>21 DEF Unregister, EndTypes, Sides
    <3>2. CallTypes' /\ SetupTypes' /\ ForkTypes' /\ PhoneTypes' /\ ResultTypes'
            /\ MediaTypes' /\ PoolTypes' /\ SavedTypes' /\ DownTypes'
      BY ZenonT(60), <1>0, <2>21 DEF Unregister, CallTypes, SetupTypes, ForkTypes, PhoneTypes,
           ResultTypes, MediaTypes, PoolTypes, SavedTypes, DownTypes
    <3> QED
      BY <3>1, <3>2 DEF TypeOK
  <2>22. CASE FailClose(c)
    <3>1. CallTypes'
      BY <1>0, <2>22 DEF FailClose, ReleasePorts, Go, CallTypes, Statuses, Sides
    <3>2. PoolTypes'
      BY <1>0, <2>22 DEF FailClose, ReleasePorts, Go, PoolTypes
    <3>3. SetupTypes' /\ ForkTypes' /\ PhoneTypes' /\ ResultTypes' /\ MediaTypes'
            /\ EndTypes' /\ SavedTypes' /\ DownTypes'
      BY <1>0, <2>22 DEF FailClose, ReleasePorts, Go, SetupTypes, ForkTypes, PhoneTypes,
           ResultTypes, MediaTypes, EndTypes, SavedTypes, DownTypes
    <3> QED
      BY <3>1, <3>2, <3>3 DEF TypeOK
  <2>31. CASE FailRespond(c)
    <3>1. CallTypes'
      BY <1>0, <2>31 DEF FailRespond, Go, CallTypes, Statuses, Sides
    <3>2. SetupTypes' /\ ForkTypes' /\ PhoneTypes' /\ ResultTypes' /\ MediaTypes'
            /\ EndTypes' /\ PoolTypes' /\ SavedTypes' /\ DownTypes'
      BY <1>0, <2>31 DEF FailRespond, Go, SetupTypes, ForkTypes, PhoneTypes, ResultTypes,
           MediaTypes, EndTypes, PoolTypes, SavedTypes, DownTypes
    <3> QED
      BY <3>1, <3>2 DEF TypeOK
  <2>23. CASE FailRecord(c)
    <3>1. CallTypes'
      BY <1>0, <2>23 DEF FailRecord, Save, Go, CallTypes, Statuses, Sides
    <3>2. SavedTypes'
      BY <1>0, <2>23 DEF FailRecord, Save, Go, SavedTypes, Saves, CallTypes, Statuses, Sides
    <3>3. SetupTypes' /\ ForkTypes' /\ PhoneTypes' /\ ResultTypes' /\ MediaTypes'
            /\ EndTypes' /\ PoolTypes' /\ DownTypes'
      BY <1>0, <2>23 DEF FailRecord, Save, Go, SetupTypes, ForkTypes, PhoneTypes, ResultTypes,
           MediaTypes, EndTypes, PoolTypes, DownTypes
    <3> QED
      BY <3>1, <3>2, <3>3 DEF TypeOK
  <2>24. ASSUME NEW side \in {"caller", "callee"}, HandleBye(c, side) PROVE TypeOK'
    <3>1. EndTypes'
      BY <1>0, <2>24 DEF HandleBye, BeginHangup, EndTypes, Sides
    <3>2. PhoneTypes'
      BY <1>0, <2>24 DEF HandleBye, BeginHangup, PhoneTypes
    <3>3. CallTypes' /\ SetupTypes' /\ ForkTypes' /\ ResultTypes' /\ MediaTypes'
            /\ PoolTypes' /\ SavedTypes' /\ DownTypes'
      BY ZenonT(60), <1>0, <2>24 DEF HandleBye, BeginHangup, CallTypes, SetupTypes, ForkTypes,
           ResultTypes, MediaTypes, PoolTypes, SavedTypes, DownTypes
    <3> QED
      BY <3>1, <3>2, <3>3 DEF TypeOK
  <2>25. ASSUME NEW p \in Phones, ForkPhone(c, p) PROVE TypeOK'
    <3>1. SetupTypes'
      BY <1>0, <2>25 DEF ForkPhone, SetupTypes, Outcomes
    <3>2. ForkTypes'
      BY <1>0, <2>25 DEF ForkPhone, ForkTypes
    <3>3. PhoneTypes'
      BY <1>0, <2>25 DEF ForkPhone, PhoneTypes
    <3>4. ResultTypes'
      <4>1. left[c] + 1 \in Nat
        BY <1>0 DEF ResultTypes
      <4>2. left' = left \/ left' = [left EXCEPT ![c] = left[c] + 1]
        BY <2>25 DEF ForkPhone
      <4>3. results' = results
        BY <2>25 DEF ForkPhone
      <4> QED
        BY <1>0, <4>1, <4>2, <4>3 DEF ResultTypes
    <3>5. CallTypes' /\ MediaTypes' /\ EndTypes' /\ PoolTypes' /\ SavedTypes' /\ DownTypes'
      BY ZenonT(60), <1>0, <2>25 DEF ForkPhone, CallTypes, MediaTypes, EndTypes, PoolTypes,
           SavedTypes, DownTypes
    <3> QED
      BY <3>1, <3>2, <3>3, <3>4, <3>5 DEF TypeOK
  <2>26. ASSUME NEW p \in Phones, PhoneAnswers(c, p) PROVE TypeOK'
    BY <2>26, ResultStepTypes DEF PhoneAnswers, Outcomes
  <2>27. ASSUME NEW p \in Phones, PhoneRefuses(c, p) PROVE TypeOK'
    BY <2>27, ResultStepTypes DEF PhoneRefuses, Outcomes
  <2>28. ASSUME NEW p \in Phones, ForkCancelled(c, p) PROVE TypeOK'
    BY <2>28, ResultStepTypes DEF ForkCancelled, Outcomes
  <2>29. ASSUME NEW p \in Phones, Provisional(c, p) PROVE TypeOK'
    <3>1. ForkTypes'
      BY <1>0, <2>29 DEF Provisional, ForkTypes
    <3>2. MediaTypes'
      BY <1>0, <2>29 DEF Provisional, MediaTypes
    <3>3. CallTypes' /\ SetupTypes' /\ PhoneTypes' /\ ResultTypes' /\ EndTypes' /\ PoolTypes'
            /\ SavedTypes' /\ DownTypes'
      BY ZenonT(60), <1>0, <2>29 DEF Provisional, CallTypes, SetupTypes, PhoneTypes,
           ResultTypes, EndTypes, PoolTypes, SavedTypes, DownTypes
    <3> QED
      BY <3>1, <3>2, <3>3 DEF TypeOK
  <2>30. ASSUME NEW p \in Phones, EarlyMediaAnswer(c, p) PROVE TypeOK'
    <3>1. ForkTypes'
      BY <1>0, <2>30 DEF EarlyMediaAnswer, ForkTypes
    <3>2. MediaTypes'
      BY <1>0, <2>30 DEF EarlyMediaAnswer, MediaTypes
    <3>3. CallTypes' /\ SetupTypes' /\ PhoneTypes' /\ ResultTypes' /\ EndTypes' /\ PoolTypes'
            /\ SavedTypes' /\ DownTypes'
      BY ZenonT(60), <1>0, <2>30 DEF EarlyMediaAnswer, CallTypes, SetupTypes, PhoneTypes,
           ResultTypes, EndTypes, PoolTypes, SavedTypes, DownTypes
    <3> QED
      BY <3>1, <3>2, <3>3 DEF TypeOK
  <2> QED
    BY <1>1, <2>1, <2>2, <2>3, <2>4, <2>5, <2>6, <2>7, <2>8, <2>9, <2>10, <2>11, <2>12, <2>13,
         <2>14, <2>15, <2>16, <2>17, <2>18, <2>19, <2>20, <2>21, <2>22, <2>23, <2>24, <2>25,
         <2>26, <2>27, <2>28, <2>29, <2>30, <2>31
       DEF CallStep, InviteStep, HangupStep, PhoneStep, ForkStep
<1> USE DEF TypeOK, CallTypes, SetupTypes, ForkTypes, PhoneTypes, ResultTypes, MediaTypes,
EndTypes, PoolTypes, SavedTypes, DownTypes
<1>2. CASE HangupAll
  BY ZenonT(60), <1>0, <1>2 DEF HangupAll
<1>3. CASE HangupAllWaited
  BY ZenonT(60), <1>0, <1>3 DEF HangupAllWaited
<1>4. CASE CloseStore
  BY ZenonT(60), <1>0, <1>4 DEF CloseStore
<1>5. CASE UNCHANGED vars
  BY ZenonT(60), <1>0, <1>5 DEF vars
<1> QED
  BY ZenonT(60), <1>1, <1>2, <1>3, <1>4, <1>5 DEF Next, Stopped

(* Every reachable state of CallEngine is well typed. *)
THEOREM TypeCorrect == Spec => []TypeOK
<1>1. Init => TypeOK
  BY DEF Init, TypeOK, CallTypes, SetupTypes, ForkTypes, PhoneTypes, ResultTypes, MediaTypes,
       EndTypes, PoolTypes, SavedTypes, DownTypes, NoVerdict, Verdict, Outcomes, Sides, Statuses
<1> QED
  BY <1>1, TypeStep, PTL DEF Spec

-----------------------------------------------------------------------------
(***************************************************************************)
(* What relates a call's goroutine, its hangup, the registry, its ports    *)
(* and its record.  ExactlyOneRecord alone is not inductive: that hangup   *)
(* never meets fail rests on hangup being reached through the registry     *)
(* (or from connect) only, and on the registry holding exactly the calls   *)
(* that connect finished and hangup did not.                               *)
(***************************************************************************)
Ledger(c) ==
    /\ Len(saved[c]) = IF \/ pc[c] = "done" /\ Failed(c)
                          \/ end[c] \in {"forget", "over"}
                       THEN 1 ELSE 0
    /\ pc[c] \in {"respond", "close", "record"} => Failed(c)
    /\ pc[c] \notin {"respond", "close", "record", "done"} => ~Failed(c)
    /\ end[c] # "no" => Established(c)
    /\ c \in active <=> Established(c) /\ end[c] # "over"
    /\ \/ pc[c] \in {"idle", "refused", "conference", "read", "relay", "record"}
       \/ pc[c] = "done" /\ Failed(c)
       \/ end[c] \in {"record", "forget", "over"}
       => ports[c] = {}

LedgerInv == \A c \in Calls : Ledger(c)

(* Every pair is in the pool or in exactly one call. *)
PoolInv ==
    /\ \A q \in Pairs : q \in free \/ \E c \in Calls : q \in ports[c]
    /\ \A c \in Calls : ports[c] \cap free = {}
    /\ \A c, d \in Calls : c # d => ports[c] \cap ports[d] = {}

(* HangupAll only waits for established calls, and until they are over. *)
DownInv ==
    /\ \A c \in snapshot : Established(c)
    /\ stage \in {"closing", "stopped"} => \A c \in snapshot : end[c] = "over"

(* What most steps leave alone. *)
coreVars == <<pc, verdict, end, active, ports, free, saved, stage, snapshot>>

(* The steps of phones and forks that touch none of it. *)
LEMMA QuietSteps ==
    ASSUME NEW c \in Calls,
           \/ RingTimeout(c) \/ Cancel(c) \/ DropLateAnswer(c)
           \/ \E p \in Phones :
                  \/ ForkPhone(c, p) \/ PhoneAnswers(c, p) \/ PhoneRefuses(c, p)
                  \/ ForkCancelled(c, p) \/ Provisional(c, p) \/ EarlyMediaAnswer(c, p)
    PROVE  UNCHANGED coreVars
  BY DEF coreVars, RingTimeout, Cancel, DropLateAnswer, ForkPhone, PhoneAnswers,
         PhoneRefuses, ForkCancelled, Result, Provisional, EarlyMediaAnswer,
         callVars, endVars, poolVars, downVars

(* Each step keeps every call's ledger. *)
LEMMA LedgerStep == TypeOK /\ LedgerInv /\ DownInv /\ [Next]_vars => LedgerInv'
<1> SUFFICES ASSUME TypeOK, LedgerInv, DownInv, [Next]_vars, NEW d \in Calls
             PROVE  Ledger(d)'
  BY DEF LedgerInv
<1> USE DEF callVars, setupVars, endVars, poolVars, downVars, LedgerInv, Ledger, Established,
Failed,
           CallTypes, EndTypes, PoolTypes, SavedTypes
<1>0. CallTypes /\ EndTypes /\ PoolTypes /\ SavedTypes
  BY ZenonT(60) DEF TypeOK
<1>1. ASSUME NEW c \in Calls, CallStep(c) PROVE Ledger(d)'
  <2>1. CASE HandleInvite(c)
    BY <1>0, <2>1 DEF HandleInvite, Admit, Go, Fail, Verdict
  <2>2. CASE ReadInvite(c)
    BY <1>0, <2>2 DEF ReadInvite, Go
  <2>3. CASE NewRelay(c)
    BY <1>0, <2>3 DEF NewRelay, Go
  <2>4. CASE NewRelayFails(c)
    BY <1>0, <2>4 DEF NewRelayFails, ReleasePorts, Fail, Go, Verdict
  <2>5. CASE AcceptOffer(c)
    BY <1>0, <2>5 DEF AcceptOffer, Fail, Go, Verdict
  <2>6. CASE ForksStarted(c)
    <3>1. CASE left[c] = 0
      BY <1>0, <2>6, <3>1 DEF ForksStarted, Fail, Go, Verdict
    <3>2. CASE left[c] # 0
      BY <1>0, <2>6, <3>2 DEF ForksStarted, Fail, Go, Verdict
    <3> QED
      BY <2>6, <3>1, <3>2 DEF ForksStarted
  <2>7. CASE AwaitAnswer(c)
    BY <1>0, <2>7 DEF AwaitAnswer, Go
  <2>8. CASE NobodyAnswered(c)
    BY <1>0, <2>8 DEF NobodyAnswered, Go, NoAnswerVerdict, Verdict
  <2>9. CASE Connect(c)
    <3>1. CASE ConnectFails(c)
      BY <1>0, <2>9, <3>1 DEF Connect, ConnectFails, Fail, Go, Verdict
    <3>2. CASE Go(c, "key") /\ UNCHANGED <<verdict, active>>
      BY <1>0, <2>9, <3>2 DEF Connect, ConnectFails, Fail, Go, Verdict
    <3> QED
      BY <2>9, <3>1, <3>2 DEF Connect
  <2>10. CASE ConnectKeys(c)
    BY <1>0, <2>10 DEF ConnectKeys, ConnectFails, Fail, Go, Verdict
  <2>11. CASE HandleAck(c)
    BY <1>0, <2>11 DEF HandleAck, Go
  <2>12. CASE AnswerLost(c)
    BY <1>0, <2>12 DEF AnswerLost, BeginHangup, Go
  <2>13. CASE Monitor(c)
    BY <1>0, <2>13 DEF Monitor, BeginHangup
  <2>14. CASE HangupAllOne(c)
    BY <1>0, <2>14 DEF HangupAllOne, BeginHangup, DownInv
  <2>15. CASE HangupByes(c)
    BY <1>0, <2>15 DEF HangupByes
  <2>16. CASE HangupClose(c)
    BY <1>0, <2>16 DEF HangupClose, ReleasePorts
  <2>17. CASE HangupRecord(c)
    BY <1>0, <2>17 DEF HangupRecord, Save
  <2>18. CASE Unregister(c)
    BY <1>0, <2>18 DEF Unregister
  <2>19. CASE FailClose(c)
    BY <1>0, <2>19 DEF FailClose, ReleasePorts, Go
  <2>20. CASE FailRecord(c)
    BY <1>0, <2>20 DEF FailRecord, Save, Go
  <2>21. ASSUME NEW side \in {"caller", "callee"}, HandleBye(c, side) PROVE Ledger(d)'
    BY <1>0, <2>21 DEF HandleBye, BeginHangup
  <2>23. CASE FailRespond(c)
    BY <1>0, <2>23 DEF FailRespond, Go
  <2>22. CASE UNCHANGED coreVars
    BY <1>0, <2>22 DEF coreVars
  <2> QED
    BY <1>1, QuietSteps, <2>1, <2>2, <2>3, <2>4, <2>5, <2>6, <2>7, <2>8, <2>9, <2>10, <2>11,
         <2>12, <2>13, <2>14, <2>15, <2>16, <2>17, <2>18, <2>19, <2>20, <2>21, <2>22, <2>23
       DEF CallStep, InviteStep, HangupStep, PhoneStep, ForkStep
<1>2. CASE HangupAll
  BY <1>0, <1>2 DEF HangupAll
<1>3. CASE HangupAllWaited
  BY <1>0, <1>3 DEF HangupAllWaited
<1>4. CASE CloseStore
  BY <1>0, <1>4 DEF CloseStore
<1>5. CASE UNCHANGED vars
  BY <1>0, <1>5 DEF vars
<1> QED
  BY <1>1, <1>2, <1>3, <1>4, <1>5 DEF Next, Stopped

(* Each step keeps the pairs partitioned. *)
LEMMA PoolStep == TypeOK /\ PoolInv /\ [Next]_vars => PoolInv'
<1> SUFFICES ASSUME TypeOK, PoolInv, [Next]_vars PROVE PoolInv'
  OBVIOUS
<1> USE DEF callVars, setupVars, endVars, poolVars, downVars, PoolInv, PoolTypes
<1>0. PoolTypes
  BY DEF TypeOK
<1>1. ASSUME NEW c \in Calls, CallStep(c) PROVE PoolInv'
  <2>1. CASE HandleInvite(c)
    BY <1>0, <2>1 DEF HandleInvite, Admit, Go, Fail, Verdict
  <2>2. CASE ReadInvite(c)
    BY <1>0, <2>2 DEF ReadInvite, Go
  <2>3. CASE NewRelay(c)
    BY <1>0, <2>3 DEF NewRelay, Go
  <2>4. CASE NewRelayFails(c)
    BY <1>0, <2>4 DEF NewRelayFails, ReleasePorts, Fail, Go, Verdict
  <2>5. CASE AcceptOffer(c)
    BY <1>0, <2>5 DEF AcceptOffer, Fail, Go, Verdict
  <2>6. CASE ForksStarted(c)
    BY <1>0, <2>6 DEF ForksStarted, Fail, Go, Verdict
  <2>7. CASE AwaitAnswer(c)
    BY <1>0, <2>7 DEF AwaitAnswer, Go
  <2>8. CASE NobodyAnswered(c)
    BY <1>0, <2>8 DEF NobodyAnswered, Go, NoAnswerVerdict, Verdict
  <2>9. CASE Connect(c)
    BY <1>0, <2>9 DEF Connect, ConnectFails, Fail, Go, Verdict
  <2>10. CASE ConnectKeys(c)
    BY <1>0, <2>10 DEF ConnectKeys, ConnectFails, Fail, Go, Verdict
  <2>11. CASE HandleAck(c)
    BY <1>0, <2>11 DEF HandleAck, Go
  <2>12. CASE AnswerLost(c)
    BY <1>0, <2>12 DEF AnswerLost, BeginHangup, Go
  <2>13. CASE Monitor(c)
    BY <1>0, <2>13 DEF Monitor, BeginHangup
  <2>14. CASE HangupAllOne(c)
    BY <1>0, <2>14 DEF HangupAllOne, BeginHangup
  <2>15. CASE HangupByes(c)
    BY <1>0, <2>15 DEF HangupByes
  <2>16. CASE HangupClose(c)
    BY <1>0, <2>16 DEF HangupClose, ReleasePorts
  <2>17. CASE HangupRecord(c)
    BY <1>0, <2>17 DEF HangupRecord, Save
  <2>18. CASE Unregister(c)
    BY <1>0, <2>18 DEF Unregister
  <2>19. CASE FailClose(c)
    BY <1>0, <2>19 DEF FailClose, ReleasePorts, Go
  <2>20. CASE FailRecord(c)
    BY <1>0, <2>20 DEF FailRecord, Save, Go
  <2>21. ASSUME NEW side \in {"caller", "callee"}, HandleBye(c, side) PROVE PoolInv'
    BY <1>0, <2>21 DEF HandleBye, BeginHangup
  <2>23. CASE FailRespond(c)
    BY <1>0, <2>23 DEF FailRespond, Go
  <2>22. CASE UNCHANGED coreVars
    BY <1>0, <2>22 DEF coreVars
  <2> QED
    BY <1>1, QuietSteps, <2>1, <2>2, <2>3, <2>4, <2>5, <2>6, <2>7, <2>8, <2>9, <2>10, <2>11,
         <2>12, <2>13, <2>14, <2>15, <2>16, <2>17, <2>18, <2>19, <2>20, <2>21, <2>22, <2>23
       DEF CallStep, InviteStep, HangupStep, PhoneStep, ForkStep
<1>2. CASE HangupAll
  BY <1>0, <1>2 DEF HangupAll
<1>3. CASE HangupAllWaited
  BY <1>0, <1>3 DEF HangupAllWaited
<1>4. CASE CloseStore
  BY <1>0, <1>4 DEF CloseStore
<1>5. CASE UNCHANGED vars
  BY <1>0, <1>5 DEF vars
<1> QED
  BY <1>1, <1>2, <1>3, <1>4, <1>5 DEF Next, Stopped

(* Each step keeps what HangupAll knows of its snapshot. *)
LEMMA DownStep == TypeOK /\ LedgerInv /\ DownInv /\ [Next]_vars => DownInv'
<1> SUFFICES ASSUME TypeOK, LedgerInv, DownInv, [Next]_vars PROVE DownInv'
  OBVIOUS
<1> USE DEF callVars, setupVars, endVars, poolVars, downVars, LedgerInv, Ledger, DownInv,
           Established, Failed, CallTypes, EndTypes, DownTypes
<1>0. CallTypes /\ EndTypes /\ DownTypes
  BY DEF TypeOK
<1>1. ASSUME NEW c \in Calls, CallStep(c) PROVE DownInv'
  <2>1. CASE HandleInvite(c)
    BY <1>0, <2>1 DEF HandleInvite, Admit, Go, Fail, Verdict
  <2>2. CASE ReadInvite(c)
    BY <1>0, <2>2 DEF ReadInvite, Go
  <2>3. CASE NewRelay(c)
    BY <1>0, <2>3 DEF NewRelay, Go
  <2>4. CASE NewRelayFails(c)
    BY <1>0, <2>4 DEF NewRelayFails, ReleasePorts, Fail, Go, Verdict
  <2>5. CASE AcceptOffer(c)
    <3>1. ASSUME NEW code \in {488, 500}, Fail(c, "respond", code, "failed", "system")
          PROVE DownInv'
      BY <1>0, <2>5, <3>1 DEF AcceptOffer, Fail, Go, Verdict
    <3>2. CASE Go(c, "setup") /\ UNCHANGED verdict
      BY <1>0, <2>5, <3>2 DEF AcceptOffer, Fail, Go, Verdict
    <3> QED
      BY <2>5, <3>1, <3>2 DEF AcceptOffer
  <2>6. CASE ForksStarted(c)
    BY <1>0, <2>6 DEF ForksStarted, Fail, Go, Verdict
  <2>7. CASE AwaitAnswer(c)
    BY <1>0, <2>7 DEF AwaitAnswer, Go
  <2>8. CASE NobodyAnswered(c)
    BY <1>0, <2>8 DEF NobodyAnswered, Go, NoAnswerVerdict, Verdict
  <2>9. CASE Connect(c)
    <3>1. CASE ConnectFails(c)
      BY <1>0, <2>9, <3>1 DEF Connect, ConnectFails, Fail, Go, Verdict
    <3>2. CASE Go(c, "key") /\ UNCHANGED <<verdict, active>>
      BY <1>0, <2>9, <3>2 DEF Connect, ConnectFails, Fail, Go, Verdict
    <3> QED
      BY <2>9, <3>1, <3>2 DEF Connect
  <2>10. CASE ConnectKeys(c)
    BY <1>0, <2>10 DEF ConnectKeys, ConnectFails, Fail, Go, Verdict
  <2>11. CASE HandleAck(c)
    BY <1>0, <2>11 DEF HandleAck, Go
  <2>12. CASE AnswerLost(c)
    BY <1>0, <2>12 DEF AnswerLost, BeginHangup, Go
  <2>13. CASE Monitor(c)
    BY <1>0, <2>13 DEF Monitor, BeginHangup
  <2>14. CASE HangupAllOne(c)
    BY <1>0, <2>14 DEF HangupAllOne, BeginHangup
  <2>15. CASE HangupByes(c)
    BY <1>0, <2>15 DEF HangupByes
  <2>16. CASE HangupClose(c)
    BY <1>0, <2>16 DEF HangupClose, ReleasePorts
  <2>17. CASE HangupRecord(c)
    BY <1>0, <2>17 DEF HangupRecord, Save
  <2>18. CASE Unregister(c)
    BY <1>0, <2>18 DEF Unregister
  <2>19. CASE FailClose(c)
    BY <1>0, <2>19 DEF FailClose, ReleasePorts, Go
  <2>20. CASE FailRecord(c)
    BY <1>0, <2>20 DEF FailRecord, Save, Go
  <2>21. ASSUME NEW side \in {"caller", "callee"}, HandleBye(c, side) PROVE DownInv'
    BY <1>0, <2>21 DEF HandleBye, BeginHangup
  <2>23. CASE FailRespond(c)
    BY <1>0, <2>23 DEF FailRespond, Go
  <2>22. CASE UNCHANGED coreVars
    BY <1>0, <2>22 DEF coreVars
  <2> QED
    BY <1>1, QuietSteps, <2>1, <2>2, <2>3, <2>4, <2>5, <2>6, <2>7, <2>8, <2>9, <2>10, <2>11,
         <2>12, <2>13, <2>14, <2>15, <2>16, <2>17, <2>18, <2>19, <2>20, <2>21, <2>22, <2>23
       DEF CallStep, InviteStep, HangupStep, PhoneStep, ForkStep
<1>2. CASE HangupAll
  BY <1>0, <1>2 DEF HangupAll
<1>3. CASE HangupAllWaited
  BY <1>0, <1>3 DEF HangupAllWaited
<1>4. CASE CloseStore
  BY <1>0, <1>4 DEF CloseStore
<1>5. CASE UNCHANGED vars
  BY <1>0, <1>5 DEF vars
<1> QED
  BY <1>1, <1>2, <1>3, <1>4, <1>5 DEF Next, Stopped

(* New establishes the three parts. *)
LEMMA InitInv == Init => LedgerInv /\ PoolInv /\ DownInv
  BY DEF Init, LedgerInv, Ledger, PoolInv, DownInv, Established, Failed, NoVerdict,
         Verdict

(* The inductive invariant holds in every reachable state. *)
THEOREM Invariance == Spec => [](TypeOK /\ LedgerInv /\ PoolInv /\ DownInv)
  BY TypeCorrect, InitInv, LedgerStep, PoolStep, DownStep, PTL DEF Spec

(* hangup, fail, and the early exits of HandleInvite write one record per  *)
(* call between them, whatever the number of calls and phones.             *)
THEOREM OneRecordPerCall == Spec => []ExactlyOneRecord
<1>1. LedgerInv => ExactlyOneRecord
  BY DEF LedgerInv, Ledger, ExactlyOneRecord
<1> QED
  BY <1>1, Invariance, PTL

(* No interleaving of NewRelay, fail and hangup loses a port pair, or      *)
(* gives one to two calls; a recorded call holds none.                     *)
THEOREM PortsNeverLost == Spec => []PortsConserved
<1>1. TypeOK /\ LedgerInv /\ PoolInv => PortsConserved
  <2> SUFFICES ASSUME TypeOK, LedgerInv, PoolInv PROVE PortsConserved
    OBVIOUS
  <2>1. free \cup UNION {ports[c] : c \in Calls} = Pairs
    BY DEF TypeOK, PoolTypes, PoolInv
  <2>2. ASSUME NEW c \in Calls, saved[c] # <<>> PROVE ports[c] = {}
    <3>1. Len(saved[c]) # 0
      BY <2>2 DEF TypeOK, SavedTypes
    <3> QED
      BY <3>1 DEF LedgerInv, Ledger
  <2> QED
    BY <2>1, <2>2 DEF PortsConserved, PoolInv
<1> QED
  BY <1>1, Invariance, PTL

(* An answered call leaves the registry only after it was recorded. *)
THEOREM FindableCalls == Spec => []FindableUntilRecorded
<1>1. LedgerInv => FindableUntilRecorded
  BY DEF LedgerInv, Ledger, FindableUntilRecorded
<1> QED
  BY <1>1, Invariance, PTL

(* Every call HangupAll found is recorded before the store is closed. *)
THEOREM ShutdownRecords == Spec => []SnapshotRecorded
<1>1. TypeOK /\ LedgerInv /\ DownInv => SnapshotRecorded
  BY DEF TypeOK, DownTypes, LedgerInv, Ledger, DownInv, SnapshotRecorded
<1> QED
  BY <1>1, Invariance, PTL

-----------------------------------------------------------------------------
(***************************************************************************)
(* What the verdict says is true from the moment it is made (what it rests *)
(* on does not change once setup is over), and the record repeats it.      *)
(***************************************************************************)
VerdictInv ==
    \A c \in Calls :
        /\ ~Failed(c) => ~lateCancel[c]
        /\ Failed(c) =>
               LET status == verdict[c].status
                   gaveUp == callerGone[c] /\ ~lateCancel[c]
               IN
               /\ status # "answered"
               /\ status = "cancelled" => gaveUp
               /\ status = "no-answer" => ringCtx[c] = "deadline" /\ ~gaveUp
               /\ status = "busy" => codes[c] \cap {"busy", "decline"} # {} /\ ~gaveUp
               /\ status \in {"cancelled", "no-answer", "busy", "unavailable"} =>
                      winner[c] = None

WinnerInv ==
    \A c \in Calls :
        pc[c] \in {"idle", "read", "relay", "relay2", "offer", "setup", "ring"} =>
            winner[c] = None

SavedInv ==
    \A c \in Calls : saved[c] # <<>> =>
        saved[c][1].status = IF Failed(c) THEN verdict[c].status ELSE "answered"

(***************************************************************************)
(* left counts what is still to come of the forks: those that wait and the *)
(* results that nobody has received.                                       *)
(***************************************************************************)
Waiting(c) == {p \in Phones : fork[c][p] \notin {"none", "done"}}

Count(c) ==
    /\ IsFiniteSet(Waiting(c))
    /\ left[c] = Cardinality(Waiting(c)) + Len(results[c])
    /\ pc[c] = "idle" => \A p \in Phones : fork[c][p] = "none"
    /\ \A p \in todo[c] : fork[c][p] = "none"

CountInv == \A c \in Calls : Count(c)

(* Why a phone believes what it does: its fork waits, its answer is in the *)
(* channel or is being connected, or it talks.                             *)
AnswerComes(c, p) ==
    \/ \E i \in 1..Len(results[c]) : results[c][i] = [phone |-> p, outcome |-> "ok"]
    \/ winner[c] = p /\ pc[c] = "connect"
Talks(c, p) ==
    /\ winner[c] = p /\ pc[c] \in {"key", "answer", "done"} /\ ~Failed(c)
    /\ \/ end[c] = "no"
       \/ end[c] = "bye" /\ endBy[c] # "callee"

Belief(c) ==
    \A p \in Phones :
        /\ phone[c][p] = "ringing" => p \in Waiting(c)
        /\ phone[c][p] = "answered" => AnswerComes(c, p)
        /\ phone[c][p] = "up" => Talks(c, p)

PhoneInv == \A c \in Calls : Belief(c)

(* The parts of the state that the verdict rests on, and who leaves them.  *)
verdictVars == <<verdict, callerGone, lateCancel, ringCtx, codes, winner>>

LEMMA VerdictFrame ==
    ASSUME NEW c \in Calls,
           \/ ReadInvite(c) \/ NewRelay(c) \/ HandleAck(c) \/ AnswerLost(c)
           \/ Monitor(c) \/ HangupAllOne(c) \/ HangupStep(c)
           \/ FailRespond(c) \/ FailClose(c) \/ FailRecord(c) \/ DropLateAnswer(c)
           \/ \E side \in {"caller", "callee"} : HandleBye(c, side)
           \/ \E p \in Phones :
                  \/ ForkPhone(c, p) \/ PhoneAnswers(c, p) \/ PhoneRefuses(c, p)
                  \/ ForkCancelled(c, p) \/ Provisional(c, p) \/ EarlyMediaAnswer(c, p)
    PROVE  UNCHANGED verdictVars
  BY DEF verdictVars, ReadInvite, NewRelay, HandleAck, AnswerLost, Monitor,
         HangupAllOne, HangupStep, HangupByes, HangupClose, HangupRecord, Unregister,
         FailRespond, FailClose, FailRecord, DropLateAnswer, HandleBye, ForkPhone,
         PhoneAnswers, PhoneRefuses, ForkCancelled, Result, Provisional,
         EarlyMediaAnswer, callVars, setupVars, cancelVars

(* No step changes what a verdict rests on after it was made. *)
LEMMA VerdictStep ==
    TypeOK /\ LedgerInv /\ WinnerInv /\ VerdictInv /\ [Next]_vars => VerdictInv'
<1> SUFFICES ASSUME TypeOK, LedgerInv, WinnerInv, VerdictInv, [Next]_vars
             PROVE  VerdictInv'
  OBVIOUS
<1> USE DEF VerdictInv, Failed, callVars, setupVars, cancelVars
<1>0. CallTypes /\ SetupTypes /\ MediaTypes
  BY DEF TypeOK
<1>1. \A c \in Calls : pc[c] \notin {"respond", "close", "record", "done"} => ~Failed(c)
  BY DEF LedgerInv, Ledger
<1>2. ASSUME NEW c \in Calls, CallStep(c) PROVE VerdictInv'
  <2>1. CASE UNCHANGED verdictVars
    BY <2>1 DEF verdictVars
  <2>2. CASE HandleInvite(c)
    BY <1>0, <1>1, <2>2 DEF HandleInvite, Admit, Go, Fail, Verdict, WinnerInv, CallTypes
  <2>3. CASE NewRelayFails(c)
    BY <1>0, <2>3 DEF NewRelayFails, Fail, Go, Verdict, CallTypes
  <2>4. CASE AcceptOffer(c)
    BY <1>0, <1>1, <2>4 DEF AcceptOffer, Fail, Go, Verdict, CallTypes, SetupTypes
  <2>5. CASE ForksStarted(c)
    BY <1>0, <1>1, <2>5 DEF ForksStarted, Fail, Go, Verdict, StopRinging, WinnerInv,
                        CallTypes, SetupTypes
  <2>6. CASE RingTimeout(c)
    BY <1>0, <2>6 DEF RingTimeout, SetupTypes
  <2>7. CASE Cancel(c)
    <3>1. /\ UNCHANGED <<verdict, codes, winner>>
          /\ \A d \in Calls \ {c} : /\ callerGone'[d] = callerGone[d]
                                    /\ lateCancel'[d] = lateCancel[d]
                                    /\ ringCtx'[d] = ringCtx[d]
      BY <1>0, <2>7 DEF Cancel, SetupTypes, MediaTypes
    <3>2. /\ ~callerGone[c] /\ callerGone'[c] /\ lateCancel'[c] = (pc[c] = "respond")
          /\ ringCtx[c] = "deadline" => ringCtx'[c] = "deadline"
      BY <1>0, <2>7 DEF Cancel, SetupTypes, MediaTypes
    <3>3. Failed(c) => pc[c] = "respond"
      BY <2>7 DEF Cancel, LedgerInv, Ledger
    <3>4. ~Failed(c) => pc[c] # "respond"
      BY DEF LedgerInv, Ledger
    <3> QED
      BY <3>1, <3>2, <3>3, <3>4
  <2>8. CASE AwaitAnswer(c)
    BY <1>0, <1>1, <2>8 DEF AwaitAnswer, Go, StopRinging, SetupTypes
  <2>9. CASE NobodyAnswered(c)
    <3>1. /\ UNCHANGED <<callerGone, lateCancel, codes, winner>>
          /\ verdict' = [verdict EXCEPT ![c] = NoAnswerVerdict(c)]
          /\ \A d \in Calls : ringCtx[d] = "deadline" => ringCtx'[d] = "deadline"
      BY <1>0, <2>9 DEF NobodyAnswered, StopRinging, SetupTypes
    <3>2. ~lateCancel[c] /\ winner[c] = None
      BY <1>1, <2>9 DEF NobodyAnswered, WinnerInv
    <3>3. /\ verdict'[c] = NoAnswerVerdict(c)
          /\ \A d \in Calls \ {c} : verdict'[d] = verdict[d]
      BY <1>0, <3>1 DEF CallTypes
    <3> QED
      BY <3>1, <3>2, <3>3 DEF NoAnswerVerdict, Verdict
  <2>10. CASE Connect(c)
    BY <1>0, <2>10 DEF Connect, ConnectFails, Fail, Go, Verdict, CallTypes
  <2>11. CASE ConnectKeys(c)
    BY <1>0, <2>11 DEF ConnectKeys, ConnectFails, Fail, Go, Verdict, CallTypes
  <2> QED
    BY <1>2, VerdictFrame, <2>1, <2>2, <2>3, <2>4, <2>5, <2>6, <2>7, <2>8, <2>9, <2>10, <2>11
       DEF CallStep, InviteStep, PhoneStep, ForkStep
<1>3. CASE UNCHANGED verdictVars
  BY <1>3 DEF verdictVars
<1> QED
  BY <1>2, <1>3 DEF Next, HangupAll, HangupAllWaited, CloseStore, Stopped, vars, verdictVars


(* Only AwaitAnswer names a winner, and it leaves "ring" with it. *)
LEMMA WinnerStep == TypeOK /\ WinnerInv /\ [Next]_vars => WinnerInv'
<1> SUFFICES ASSUME TypeOK, WinnerInv, [Next]_vars PROVE WinnerInv'
  OBVIOUS
<1> USE DEF WinnerInv, callVars, setupVars
<1>0. CallTypes /\ SetupTypes
  BY DEF TypeOK
<1>1. ASSUME NEW c \in Calls, CallStep(c) PROVE WinnerInv'
  <2>1. CASE UNCHANGED <<pc, winner>>
    BY <2>1
  <2>2. CASE HandleInvite(c)
    BY <1>0, <2>2 DEF HandleInvite, Admit, Go, Fail, CallTypes
  <2>3. CASE ReadInvite(c) \/ NewRelay(c) \/ NewRelayFails(c) \/ AcceptOffer(c)
    BY <1>0, <2>3 DEF ReadInvite, NewRelay, NewRelayFails, AcceptOffer, Go, Fail, CallTypes
  <2>4. CASE ForksStarted(c)
    BY <1>0, <2>4 DEF ForksStarted, Go, Fail, CallTypes
  <2>5. CASE AwaitAnswer(c)
    BY <1>0, <2>5 DEF AwaitAnswer, Go, CallTypes, SetupTypes
  <2>6. CASE \/ NobodyAnswered(c) \/ HandleAck(c) \/ AnswerLost(c)
            \/ FailRespond(c) \/ FailClose(c) \/ FailRecord(c)
    BY <1>0, <2>6 DEF NobodyAnswered, HandleAck, AnswerLost, FailRespond, FailClose, FailRecord,
                       Go, CallTypes
  <2>7. CASE Connect(c) \/ ConnectKeys(c)
    BY <1>0, <2>7 DEF Connect, ConnectKeys, ConnectFails, Go, Fail, CallTypes
  <2>8. CASE HangupStep(c)
    BY <2>1, <2>8 DEF HangupStep, HangupByes, HangupClose, HangupRecord, Unregister
  <2>9. CASE \E side \in {"caller", "callee"} : HandleBye(c, side)
    BY <2>1, <2>9 DEF HandleBye
  <2>10. CASE RingTimeout(c) \/ Cancel(c) \/ Monitor(c) \/ HangupAllOne(c) \/ DropLateAnswer(c)
    BY <2>1, <2>10 DEF RingTimeout, Cancel, Monitor, HangupAllOne, DropLateAnswer
  <2>11. CASE \E p \in Phones :
                 \/ ForkPhone(c, p) \/ PhoneAnswers(c, p) \/ PhoneRefuses(c, p)
                 \/ ForkCancelled(c, p) \/ Provisional(c, p) \/ EarlyMediaAnswer(c, p)
    BY <2>1, <2>11 DEF ForkPhone, PhoneAnswers, PhoneRefuses, ForkCancelled, Result,
                       Provisional, EarlyMediaAnswer
  <2> QED
    BY <1>1, <2>2, <2>3, <2>4, <2>5, <2>6, <2>7, <2>8, <2>9, <2>10, <2>11
       DEF CallStep, InviteStep, PhoneStep, ForkStep
<1> QED
  BY <1>1 DEF Next, HangupAll, HangupAllWaited, CloseStore, Stopped, vars

(* A record repeats the verdict, or says that the call was answered. *)
LEMMA SavedStep == TypeOK /\ LedgerInv /\ SavedInv /\ [Next]_vars => SavedInv'
<1> SUFFICES ASSUME TypeOK, LedgerInv, SavedInv, [Next]_vars PROVE SavedInv'
  OBVIOUS
<1> USE DEF SavedInv, Failed, callVars
<1>0. CallTypes /\ SavedTypes
  BY DEF TypeOK
<1>1. ASSUME NEW c \in Calls PROVE saved[c] = <<>> <=> Len(saved[c]) = 0
  BY <1>0 DEF SavedTypes
<1>2. ASSUME NEW c \in Calls, pc[c] # "done", end[c] \notin {"forget", "over"}
      PROVE  saved[c] = <<>>
  BY <1>1, <1>2 DEF LedgerInv, Ledger
<1>3. ASSUME NEW c \in Calls, CallStep(c) PROVE SavedInv'
  <2>1. CASE UNCHANGED <<saved, verdict>>
    BY <2>1
  <2>2. CASE FailRecord(c)
    <3>1. saved[c] = <<>> /\ Failed(c)
      BY <1>1, <2>2 DEF FailRecord, LedgerInv, Ledger, Established
    <3>2. \A status, by, ok :
              Append(saved[c], [status |-> status, by |-> by, ok |-> ok])[1].status = status
      BY <3>1
    <3> QED
      BY <1>0, <2>2, <3>1, <3>2 DEF FailRecord, Save, SavedTypes
  <2>3. CASE HangupRecord(c)
    <3>1. saved[c] = <<>> /\ ~Failed(c)
      BY <1>1, <2>3 DEF HangupRecord, LedgerInv, Ledger, Established
    <3>2. \A status, by, ok :
              Append(saved[c], [status |-> status, by |-> by, ok |-> ok])[1].status = status
      BY <3>1
    <3> QED
      BY <1>0, <2>3, <3>1, <3>2 DEF HangupRecord, Save, SavedTypes
  <2>4. CASE saved' = saved /\ saved[c] = <<>> /\ \A d \in Calls \ {c} : verdict'[d] = verdict[d]
    BY <2>4
  <2>5. CASE \/ HandleInvite(c) \/ NewRelayFails(c) \/ AcceptOffer(c) \/ ForksStarted(c)
             \/ NobodyAnswered(c) \/ Connect(c) \/ ConnectKeys(c)
    <3>1. pc[c] \notin {"done", "answer"}
      BY <2>5 DEF HandleInvite, NewRelayFails, AcceptOffer, ForksStarted, NobodyAnswered,
                  Connect, ConnectKeys
    <3>2. saved[c] = <<>>
      BY <1>2, <3>1 DEF LedgerInv, Ledger, Established
    <3>3. saved' = saved /\ \A d \in Calls \ {c} : verdict'[d] = verdict[d]
      BY <1>0, <2>5 DEF HandleInvite, Admit, NewRelayFails, AcceptOffer, ForksStarted,
                NobodyAnswered, Connect, ConnectKeys, ConnectFails, Fail, Go, CallTypes
    <3> QED
      BY <2>4, <3>2, <3>3
  <2>6. CASE \/ ReadInvite(c) \/ NewRelay(c) \/ AwaitAnswer(c) \/ HandleAck(c)
             \/ AnswerLost(c) \/ FailRespond(c) \/ FailClose(c) \/ RingTimeout(c)
             \/ Cancel(c) \/ Monitor(c) \/ HangupAllOne(c) \/ DropLateAnswer(c)
             \/ HangupByes(c) \/ HangupClose(c) \/ Unregister(c)
    BY <2>1, <2>6 DEF ReadInvite, NewRelay, AwaitAnswer, HandleAck, AnswerLost, FailRespond,
                      FailClose, RingTimeout, Cancel, Monitor, HangupAllOne, DropLateAnswer,
                      HangupByes, HangupClose, Unregister
  <2>7. CASE \/ \E side \in {"caller", "callee"} : HandleBye(c, side)
             \/ \E p \in Phones :
                    \/ ForkPhone(c, p) \/ PhoneAnswers(c, p) \/ PhoneRefuses(c, p)
                    \/ ForkCancelled(c, p) \/ Provisional(c, p) \/ EarlyMediaAnswer(c, p)
    BY <2>1, <2>7 DEF HandleBye, ForkPhone, PhoneAnswers, PhoneRefuses, ForkCancelled,
                      Result, Provisional, EarlyMediaAnswer
  <2> QED
    BY <1>3, <2>2, <2>3, <2>5, <2>6, <2>7
       DEF CallStep, InviteStep, PhoneStep, ForkStep, HangupStep
<1> QED
  BY <1>3 DEF Next, HangupAll, HangupAllWaited, CloseStore, Stopped, vars

(* A step of one call leaves the other calls alone. *)
LEMMA OthersKept ==
    ASSUME TypeOK, NEW c \in Calls, CallStep(c), NEW d \in Calls, d # c
    PROVE  /\ pc'[d] = pc[d] /\ verdict'[d] = verdict[d] /\ todo'[d] = todo[d]
           /\ fork'[d] = fork[d] /\ results'[d] = results[d] /\ left'[d] = left[d]
           /\ winner'[d] = winner[d] /\ phone'[d] = phone[d]
           /\ end'[d] = end[d] /\ endBy'[d] = endBy[d]
<1> USE DEF callVars, setupVars, endVars
<1>0. CallTypes /\ SetupTypes /\ ForkTypes /\ PhoneTypes /\ ResultTypes /\ EndTypes
  BY DEF TypeOK
<1> USE <1>0 DEF CallTypes, SetupTypes, ForkTypes, PhoneTypes, ResultTypes, EndTypes
<1>1. CASE \/ HandleInvite(c) \/ ReadInvite(c) \/ NewRelay(c) \/ NewRelayFails(c)
           \/ AcceptOffer(c) \/ ForksStarted(c) \/ NobodyAnswered(c)
  BY <1>1 DEF HandleInvite, Admit, ReadInvite, NewRelay, NewRelayFails, AcceptOffer,
              ForksStarted, NobodyAnswered, Fail, Go
<1>2. CASE AwaitAnswer(c) \/ DropLateAnswer(c)
  BY <1>2 DEF AwaitAnswer, DropLateAnswer, Receive, Go
<1>3. CASE Connect(c) \/ ConnectKeys(c)
  BY <1>3 DEF Connect, ConnectKeys, ConnectFails, Fail, Go
<1>4. CASE \/ HandleAck(c) \/ AnswerLost(c) \/ Monitor(c) \/ HangupAllOne(c)
           \/ \E side \in {"caller", "callee"} : HandleBye(c, side)
  BY <1>4 DEF HandleAck, AnswerLost, Monitor, HangupAllOne, HandleBye, BeginHangup, Go
<1>5. CASE FailRespond(c) \/ FailClose(c) \/ FailRecord(c) \/ HangupStep(c)
  BY <1>5 DEF FailRespond, FailClose, FailRecord, HangupStep, HangupByes, HangupClose, HangupRecord,
              Unregister, Go
<1>6. CASE \/ RingTimeout(c) \/ Cancel(c)
           \/ \E p \in Phones : Provisional(c, p) \/ EarlyMediaAnswer(c, p)
  BY <1>6 DEF RingTimeout, Cancel, Provisional, EarlyMediaAnswer
<1>7. CASE \E p \in Phones :
               \/ ForkPhone(c, p) \/ PhoneAnswers(c, p) \/ PhoneRefuses(c, p)
               \/ ForkCancelled(c, p)
  BY <1>7 DEF ForkPhone, PhoneAnswers, PhoneRefuses, ForkCancelled, Result
<1> QED
  BY <1>1, <1>2, <1>3, <1>4, <1>5, <1>6, <1>7
     DEF CallStep, InviteStep, PhoneStep, ForkStep

(* What a fork does to the set of those that wait: nothing, or it joins or *)
(* leaves it.                                                              *)
LEMMA WaitingSet ==
    ASSUME ForkTypes, NEW c \in Calls, NEW p \in Phones, NEW state,
           fork' = [fork EXCEPT ![c][p] = state]
    PROVE  Waiting(c)' = IF state \in {"none", "done"} THEN Waiting(c) \ {p}
                         ELSE Waiting(c) \cup {p}
  BY DEF Waiting, ForkTypes

(* Every start and every end of a fork is counted once.                    *)
LEMMA CountStep == TypeOK /\ CountInv /\ [Next]_vars => CountInv'
<1> SUFFICES ASSUME TypeOK, CountInv, [Next]_vars PROVE CountInv'
  OBVIOUS
<1> USE DEF callVars, setupVars
<1>0. CallTypes /\ SetupTypes /\ ForkTypes /\ ResultTypes
  BY DEF TypeOK
<1>1. ASSUME NEW c \in Calls, CallStep(c) PROVE CountInv'
  <2>0. Count(c)
    BY DEF CountInv
  <2>1. SUFFICES Count(c)'
    <3>1. ASSUME NEW d \in Calls, d # c PROVE Count(d)'
      <4>1. Count(d)
        BY DEF CountInv
      <4>2. /\ fork'[d] = fork[d] /\ results'[d] = results[d] /\ left'[d] = left[d]
            /\ pc'[d] = pc[d] /\ todo'[d] = todo[d]
        BY <1>1, <3>1, OthersKept
      <4> QED
        BY <4>1, <4>2 DEF Count, Waiting
    <3> QED
      BY <3>1 DEF CountInv
  <2>2. CASE /\ UNCHANGED <<fork, results, left>> /\ pc'[c] # "idle"
             /\ todo'[c] \subseteq todo[c] \/ (pc[c] = "idle" /\ todo'[c] \subseteq Phones)
    BY <2>0, <2>2 DEF Count, Waiting
  <2>3. CASE HandleInvite(c)
    <3>1. \A inv \in Invites : Kept(inv) \subseteq Phones
      BY InvitesAssumption DEF InviteFacts, Kept
    <3>2. /\ pc'[c] # "idle"
          /\ todo'[c] \subseteq todo[c] \/ (pc[c] = "idle" /\ todo'[c] \subseteq Phones)
      BY <1>0, <2>3, <3>1 DEF HandleInvite, Admit, Fail, Go, CallTypes, SetupTypes
    <3> QED
      BY <2>2, <2>3, <3>2 DEF HandleInvite
  <2>4. CASE \/ ReadInvite(c) \/ NewRelay(c) \/ NewRelayFails(c) \/ AcceptOffer(c)
             \/ ForksStarted(c) \/ NobodyAnswered(c) \/ Connect(c) \/ ConnectKeys(c)
             \/ HandleAck(c) \/ AnswerLost(c)
             \/ FailRespond(c) \/ FailClose(c) \/ FailRecord(c)
    <3>1. pc'[c] # "idle"
      BY <1>0, <2>4 DEF ReadInvite, NewRelay, NewRelayFails, AcceptOffer, ForksStarted,
             NobodyAnswered, Connect, ConnectKeys, ConnectFails, HandleAck, AnswerLost,
             FailRespond, FailClose, FailRecord, Fail, Go, CallTypes
    <3>2. UNCHANGED <<fork, results, left>> /\ todo'[c] \subseteq todo[c]
      BY <2>4 DEF ReadInvite, NewRelay, NewRelayFails, AcceptOffer, ForksStarted,
             NobodyAnswered, Connect, ConnectKeys, HandleAck, AnswerLost,
             FailRespond, FailClose, FailRecord
    <3> QED
      BY <2>2, <3>1, <3>2
  <2>5. CASE \/ HangupStep(c) \/ RingTimeout(c) \/ Cancel(c) \/ Monitor(c)
             \/ HangupAllOne(c) \/ \E side \in {"caller", "callee"} : HandleBye(c, side)
    <3>1. UNCHANGED <<fork, results, left, todo, pc>>
      BY <2>5 DEF HangupStep, HangupByes, HangupClose, HangupRecord, Unregister,
             RingTimeout, Cancel, Monitor, HangupAllOne, HandleBye
    <3> QED
      BY <2>0, <3>1 DEF Count, Waiting
  <2>6. CASE AwaitAnswer(c) \/ DropLateAnswer(c)
    <3>1. /\ UNCHANGED <<fork, todo>> /\ Receive(c)
          /\ pc'[c] = "idle" => pc[c] = "idle"
      BY <1>0, <2>6 DEF AwaitAnswer, DropLateAnswer, Go, CallTypes
    <3>2. Len(results'[c]) = Len(results[c]) - 1 /\ left'[c] = left[c] - 1
      BY <1>0, <3>1 DEF Receive, ResultTypes
    <3>3. Len(results[c]) \in Nat /\ Cardinality(Waiting(c)) \in Nat
      BY <1>0, <2>0, FS_CardinalityType DEF ResultTypes, Count
    <3> QED
      BY <2>0, <3>1, <3>2, <3>3 DEF Count, Waiting
  <2>7. ASSUME NEW p \in Phones, ForkPhone(c, p) PROVE Count(c)'
    <3>1. CASE UNCHANGED <<fork, left, phone>>
      BY <1>0, <2>0, <2>7, <3>1 DEF ForkPhone, Count, Waiting, SetupTypes
    <3>2. CASE fork' = [fork EXCEPT ![c][p] = "wait"] /\ left' = [left EXCEPT ![c] = @ + 1]
      <4>1. fork[c][p] = "none" /\ p \notin Waiting(c)
        BY <2>0, <2>7 DEF ForkPhone, Count, Waiting
      <4>2. Waiting(c)' = Waiting(c) \cup {p}
        BY <1>0, <3>2, WaitingSet
      <4>3. IsFiniteSet(Waiting(c)') /\ Cardinality(Waiting(c)') = Cardinality(Waiting(c)) + 1
        BY <2>0, <4>1, <4>2, FS_AddElement DEF Count
      <4>4. Len(results[c]) \in Nat /\ Cardinality(Waiting(c)) \in Nat
        BY <1>0, <2>0, FS_CardinalityType DEF ResultTypes, Count
      <4>5. left'[c] = Cardinality(Waiting(c)') + Len(results'[c])
        BY <1>0, <2>0, <2>7, <3>2, <4>3, <4>4 DEF ForkPhone, Count, ResultTypes
      <4> QED
        BY <1>0, <2>0, <2>7, <3>2, <4>3, <4>5
           DEF ForkPhone, Count, SetupTypes, ForkTypes, CallTypes
    <3> QED
      BY <2>7, <3>1, <3>2 DEF ForkPhone
  <2>8. ASSUME NEW p \in Phones, NEW outcome, Result(c, p, outcome) PROVE Count(c)'
    <3>1. p \in Waiting(c) /\ p \notin todo[c] /\ pc[c] # "idle"
      BY <2>0, <2>8 DEF Result, Count, Waiting
    <3>2. Waiting(c)' = Waiting(c) \ {p}
      BY <1>0, <2>8, WaitingSet DEF Result
    <3>3. IsFiniteSet(Waiting(c)') /\ Cardinality(Waiting(c)') = Cardinality(Waiting(c)) - 1
      BY <2>0, <3>1, <3>2, FS_RemoveElement DEF Count
    <3>4. Len(results'[c]) = Len(results[c]) + 1
      BY <1>0, <2>8 DEF Result, ResultTypes
    <3>5. Len(results[c]) \in Nat /\ Cardinality(Waiting(c)) \in Nat
      BY <1>0, <2>0, FS_CardinalityType DEF ResultTypes, Count
    <3>6. left'[c] = Cardinality(Waiting(c)') + Len(results'[c])
      BY <2>0, <2>8, <3>3, <3>4, <3>5 DEF Result, Count
    <3> QED
      BY <1>0, <2>0, <2>8, <3>1, <3>3, <3>6 DEF Result, Count, ForkTypes, SetupTypes
  <2>9. ASSUME NEW p \in Phones, Provisional(c, p) \/ EarlyMediaAnswer(c, p) PROVE Count(c)'
    <3>1. UNCHANGED <<pc, todo, results, left>>
      BY <2>9 DEF Provisional, EarlyMediaAnswer
    <3>2. \/ UNCHANGED fork
          \/ /\ fork[c][p] \notin {"none", "done"}
             /\ \E state \in {"wait", "claimed", "keying", "ringback"} :
                    fork' = [fork EXCEPT ![c][p] = state]
      BY <2>9 DEF Provisional, EarlyMediaAnswer
    <3>3. CASE UNCHANGED fork
      BY <2>0, <3>1, <3>3 DEF Count, Waiting
    <3>4. ASSUME NEW state \in {"wait", "claimed", "keying", "ringback"},
                 fork[c][p] \notin {"none", "done"},
                 fork' = [fork EXCEPT ![c][p] = state]
          PROVE  Count(c)'
      <4>1. Waiting(c)' = Waiting(c) /\ p \in Waiting(c) /\ p \notin todo[c]
        BY <1>0, <2>0, <3>4, WaitingSet DEF Waiting, Count
      <4> QED
        BY <1>0, <2>0, <3>1, <3>4, <4>1 DEF Count, ForkTypes, SetupTypes
    <3> QED
      BY <3>2, <3>3, <3>4
  <2> QED
    BY <1>1, <2>3, <2>4, <2>5, <2>6, <2>7, <2>8, <2>9
       DEF CallStep, InviteStep, PhoneStep, ForkStep, PhoneAnswers, PhoneRefuses,
           ForkCancelled
<1>2. CASE UNCHANGED <<callVars, setupVars>>
  BY <1>2 DEF CountInv, Count, Waiting
<1> QED
  BY <1>1, <1>2 DEF Next, HangupAll, HangupAllWaited, CloseStore, Stopped, vars

(* A receive from the channel keeps the answers behind its head, and takes *)
(* the head.                                                               *)
LEMMA ReceiveAnswers ==
    ASSUME ResultTypes, NEW c \in Calls, Receive(c), NEW i \in 1..Len(results[c])
    PROVE  i = 1 \/ (i - 1 \in 1..Len(results'[c]) /\ results'[c][i - 1] = results[c][i])
<1>1. results[c] \in Seq(ForkResults) /\ results[c] # <<>> /\ results'[c] = Tail(results[c])
  BY DEF ResultTypes, Receive
<1> QED
  BY <1>1

(* A fork's result keeps the answers in the channel, and is the last.      *)
LEMMA ResultAnswers ==
    ASSUME ResultTypes, NEW c \in Calls, NEW p \in Phones, NEW outcome,
           Result(c, p, outcome)
    PROVE  /\ \A i \in 1..Len(results[c]) :
                  i \in 1..Len(results'[c]) /\ results'[c][i] = results[c][i]
           /\ \E i \in 1..Len(results'[c]) :
                  results'[c][i] = [phone |-> p, outcome |-> outcome]
<1>1. /\ results[c] \in Seq(ForkResults)
      /\ results'[c] = Append(results[c], [phone |-> p, outcome |-> outcome])
  BY DEF ResultTypes, Result
<1>2. Len(results'[c]) = Len(results[c]) + 1 /\ Len(results[c]) \in Nat
  BY <1>1
<1>3. results'[c][Len(results[c]) + 1] = [phone |-> p, outcome |-> outcome]
  BY <1>1
<1> QED
  BY <1>1, <1>2, <1>3

(* A phone only rings, waits for its ACK or talks while somebody is there  *)
(* to answer, ACK or hang it up.                                           *)
LEMMA BeliefStep ==
    TypeOK /\ LedgerInv /\ WinnerInv /\ PhoneInv /\ [Next]_vars => PhoneInv'
<1> SUFFICES ASSUME TypeOK, LedgerInv, WinnerInv, PhoneInv, [Next]_vars
             PROVE  PhoneInv'
  OBVIOUS
<1> USE DEF callVars, setupVars, endVars
<1>0. CallTypes /\ SetupTypes /\ ForkTypes /\ PhoneTypes /\ ResultTypes /\ EndTypes
  BY DEF TypeOK
<1>1. ASSUME NEW c \in Calls, CallStep(c) PROVE PhoneInv'
  <2>0. Belief(c) /\ Ledger(c)
    BY DEF PhoneInv, LedgerInv
  <2>1. SUFFICES Belief(c)'
    <3>1. ASSUME NEW d \in Calls, d # c PROVE Belief(d)'
      <4>1. Belief(d)
        BY DEF PhoneInv
      <4>2. /\ fork'[d] = fork[d] /\ results'[d] = results[d] /\ winner'[d] = winner[d]
            /\ pc'[d] = pc[d] /\ phone'[d] = phone[d] /\ verdict'[d] = verdict[d]
            /\ end'[d] = end[d] /\ endBy'[d] = endBy[d]
        BY <1>1, <3>1, OthersKept
      <4> QED
        BY <4>1, <4>2 DEF Belief, Waiting, AnswerComes, Talks, Failed
    <3> QED
      BY <3>1 DEF PhoneInv
  (* Nobody talks yet: only the channel and the forks matter. *)
  <2>2. CASE /\ UNCHANGED <<fork, results, phone>>
             /\ \/ pc[c] \notin {"connect", "key", "answer", "done"}
                \/ UNCHANGED <<pc, winner, verdict, end, endBy>>
    BY <2>0, <2>2 DEF Belief, Waiting, AnswerComes, Talks, Failed
  <2>3. CASE \/ HandleInvite(c) \/ ReadInvite(c) \/ NewRelay(c) \/ NewRelayFails(c)
             \/ AcceptOffer(c) \/ ForksStarted(c) \/ NobodyAnswered(c)
             \/ FailRespond(c) \/ FailClose(c) \/ FailRecord(c) \/ RingTimeout(c)
             \/ Cancel(c)
    BY <2>2, <2>3 DEF HandleInvite, ReadInvite, NewRelay, NewRelayFails, AcceptOffer,
           ForksStarted, NobodyAnswered, FailRespond, FailClose, FailRecord, RingTimeout, Cancel
  <2>4. CASE AwaitAnswer(c)
    <3>1. /\ UNCHANGED <<fork, phone, verdict, end, endBy>> /\ Receive(c)
          /\ pc[c] = "ring" /\ results[c] # <<>>
          /\ Head(results[c]).outcome = "ok" =>
                 winner'[c] = Head(results[c]).phone /\ pc'[c] = "connect"
      BY <1>0, <2>4 DEF AwaitAnswer, Receive, Go, CallTypes, SetupTypes
    <3>2. ASSUME NEW p \in Phones, AnswerComes(c, p) PROVE AnswerComes(c, p)'
      <4>1. PICK i \in 1..Len(results[c]) :
                results[c][i] = [phone |-> p, outcome |-> "ok"]
        BY <3>1, <3>2 DEF AnswerComes
      <4>2. CASE i = 1
        BY <1>0, <3>1, <4>1, <4>2 DEF AnswerComes, ResultTypes
      <4>3. CASE i # 1
        BY <1>0, <3>1, <4>1, <4>3, ReceiveAnswers DEF AnswerComes
      <4> QED
        BY <4>2, <4>3
    <3>3. ASSUME NEW p \in Phones, phone[c][p] = "up" PROVE FALSE
      BY <2>0, <3>1, <3>3 DEF Belief, Talks
    <3> QED
      BY <2>0, <3>1, <3>2, <3>3 DEF Belief, Waiting
  <2>5. CASE DropLateAnswer(c)
    <3>1. /\ UNCHANGED <<fork, pc, winner, verdict, end, endBy>> /\ Receive(c)
          /\ results[c] # <<>>
          /\ phone' = IF Head(results[c]).outcome = "ok"
                      THEN [phone EXCEPT ![c][Head(results[c]).phone] = "bye"]
                      ELSE phone
      BY <2>5 DEF DropLateAnswer, Receive
    <3>2. ASSUME NEW p \in Phones, AnswerComes(c, p), phone'[c][p] # "bye"
          PROVE  AnswerComes(c, p)'
      <4>1. CASE winner[c] = p /\ pc[c] = "connect"
        BY <3>1, <4>1 DEF AnswerComes
      <4>2. ASSUME NEW i \in 1..Len(results[c]),
                   results[c][i] = [phone |-> p, outcome |-> "ok"]
            PROVE  AnswerComes(c, p)'
        <5>1. CASE i = 1
          BY <1>0, <3>1, <3>2, <4>2, <5>1 DEF ResultTypes, PhoneTypes
        <5>2. CASE i # 1
          BY <1>0, <3>1, <4>2, <5>2, ReceiveAnswers DEF AnswerComes
        <5> QED
          BY <5>1, <5>2
      <4> QED
        BY <3>2, <4>1, <4>2 DEF AnswerComes
    <3>3. \A p \in Phones : phone'[c][p] \in {"bye", phone[c][p]}
      BY <1>0, <3>1 DEF PhoneTypes
    <3> QED
      BY <2>0, <3>1, <3>2, <3>3 DEF Belief, Waiting, Talks, Failed
  <2>6. CASE Connect(c)
    <3>1. /\ pc[c] = "connect" /\ ~Failed(c) /\ end[c] = "no"
          /\ UNCHANGED <<fork, results, winner, end, endBy>>
      BY <2>0, <2>6 DEF Connect, Ledger, Established
    <3>2. \A p \in Phones : p # winner[c] => phone'[c][p] = phone[c][p]
      BY <1>0, <2>6 DEF Connect, ConnectFails, PhoneTypes, SetupTypes
    <3>3. \A p \in Phones : phone[c][p] # "up"
      BY <2>0, <3>1 DEF Belief, Talks
    <3>4. ASSUME NEW p \in Phones, p = winner[c]
          PROVE  phone'[c][p] = "bye" \/ (phone'[c][p] = "up" /\ Talks(c, p)')
      <4>1. CASE ConnectFails(c)
        <5>1. phone' = [phone EXCEPT ![c][p] = "bye"]
          BY <3>4, <4>1 DEF ConnectFails
        <5> QED
          BY <1>0, <5>1 DEF PhoneTypes
      <4>2. CASE UNCHANGED verdict /\ Go(c, "key")
              /\ phone' = [phone EXCEPT ![c][winner[c]] = "up"]
        BY <1>0, <3>1, <3>4, <4>2 DEF Go, Talks, Failed, PhoneTypes, CallTypes
      <4> QED
        BY <2>6, <4>1, <4>2 DEF Connect
    <3> QED
      BY <2>0, <3>1, <3>2, <3>3, <3>4 DEF Belief, Waiting, AnswerComes
  <2>7. CASE ConnectKeys(c)
    <3>1. /\ pc[c] = "key" /\ ~Failed(c) /\ end[c] = "no"
          /\ UNCHANGED <<fork, results, winner, end, endBy>>
      BY <2>0, <2>7 DEF ConnectKeys, Ledger, Established
    <3>2. CASE ConnectFails(c)
      <4>1. \A p \in Phones : phone'[c][p] = IF p = winner[c] THEN "bye" ELSE phone[c][p]
        BY <1>0, <3>2 DEF ConnectFails, PhoneTypes, SetupTypes
      <4> QED
        BY <2>0, <3>1, <4>1 DEF Belief, Waiting, AnswerComes, Talks
    <3>3. CASE UNCHANGED <<verdict, phone>> /\ Go(c, "answer")
      BY <1>0, <2>0, <3>1, <3>3 DEF Belief, Waiting, AnswerComes, Talks, Failed, Go, CallTypes
    <3> QED
      BY <2>7, <3>2, <3>3 DEF ConnectKeys
  <2>8. CASE HandleAck(c) \/ AnswerLost(c)
    <3>1. /\ pc[c] = "answer" /\ pc'[c] = "done"
          /\ UNCHANGED <<fork, results, winner, phone, verdict>>
          /\ \/ end'[c] = end[c] /\ endBy'[c] = endBy[c]
             \/ end'[c] = "bye" /\ endBy'[c] = "system"
      BY <1>0, <2>8 DEF HandleAck, AnswerLost, BeginHangup, Go, CallTypes, EndTypes
    <3> QED
      BY <2>0, <3>1 DEF Belief, Waiting, AnswerComes, Talks, Failed
  <2>9. CASE Monitor(c) \/ HangupAllOne(c)
    <3>1. /\ UNCHANGED <<fork, results, winner, phone, verdict, pc>>
          /\ end'[c] = "bye" /\ endBy'[c] = "system" /\ end[c] = "no"
      BY <1>0, <2>9 DEF Monitor, HangupAllOne, BeginHangup, EndTypes
    <3> QED
      BY <2>0, <3>1 DEF Belief, Waiting, AnswerComes, Talks, Failed
  <2>10. ASSUME NEW side \in {"caller", "callee"}, HandleBye(c, side) PROVE Belief(c)'
    <3>1. /\ UNCHANGED <<fork, results, winner, verdict, pc>>
          /\ end'[c] = "bye" /\ endBy'[c] = side /\ end[c] = "no"
      BY <1>0, <2>10 DEF HandleBye, BeginHangup, EndTypes
    <3>2. CASE side = "caller"
      BY <2>0, <2>10, <3>1, <3>2 DEF HandleBye, Belief, Waiting, AnswerComes, Talks, Failed
    <3>3. CASE side = "callee"
      <4>1. \A p \in Phones : phone'[c][p] = IF p = winner[c] THEN "bye" ELSE phone[c][p]
        BY <1>0, <2>10, <3>3 DEF HandleBye, PhoneTypes, SetupTypes
      <4> QED
        BY <2>0, <3>1, <4>1 DEF Belief, Waiting, AnswerComes, Talks
    <3> QED
      BY <3>2, <3>3
  <2>11. CASE HangupByes(c)
    <3>1. UNCHANGED <<fork, results, winner, verdict, pc>> /\ end[c] = "bye"
      BY <2>11 DEF HangupByes
    <3>2. CASE endBy[c] = "callee"
      BY <2>0, <2>11, <3>1, <3>2 DEF HangupByes, Belief, Waiting, AnswerComes, Talks
    <3>3. CASE endBy[c] # "callee"
      <4>1. \A p \in Phones : phone'[c][p] = IF p = winner[c] THEN "bye" ELSE phone[c][p]
        BY <1>0, <2>11, <3>3 DEF HangupByes, PhoneTypes, SetupTypes
      <4> QED
        BY <2>0, <3>1, <4>1 DEF Belief, Waiting, AnswerComes, Talks
    <3> QED
      BY <3>2, <3>3
  <2>12. CASE HangupClose(c) \/ HangupRecord(c) \/ Unregister(c)
    <3>1. UNCHANGED <<fork, results, winner, verdict, pc, phone>> /\ end[c] \notin {"no", "bye"}
      BY <2>12 DEF HangupClose, HangupRecord, Unregister
    <3> QED
      BY <2>0, <3>1 DEF Belief, Waiting, AnswerComes, Talks
  <2>13. ASSUME NEW q \in Phones, ForkPhone(c, q) PROVE Belief(c)'
    <3>1. CASE UNCHANGED <<fork, left, phone>>
      BY <2>2, <2>13, <3>1 DEF ForkPhone
    <3>2. CASE /\ fork' = [fork EXCEPT ![c][q] = "wait"]
               /\ phone' = [phone EXCEPT ![c][q] = "ringing"]
      <4>1. UNCHANGED <<pc, results, winner, verdict, end, endBy>>
        BY <2>13 DEF ForkPhone
      <4>2. Waiting(c)' = Waiting(c) \cup {q}
        BY <1>0, <3>2, WaitingSet
      <4>3. \A p \in Phones : phone'[c][p] = IF p = q THEN "ringing" ELSE phone[c][p]
        BY <1>0, <3>2 DEF PhoneTypes
      <4> QED
        BY <2>0, <4>1, <4>2, <4>3 DEF Belief, AnswerComes, Talks, Failed
    <3> QED
      BY <2>13, <3>1, <3>2 DEF ForkPhone
  <2>14. ASSUME NEW q \in Phones, NEW outcome, Result(c, q, outcome) PROVE Belief(c)'
    <3>1. UNCHANGED <<pc, winner, verdict, end, endBy>>
      BY <2>14 DEF Result
    <3>2. Waiting(c)' = Waiting(c) \ {q}
      BY <1>0, <2>14, WaitingSet DEF Result
    <3>3. \A p \in Phones : phone'[c][p] = IF p # q THEN phone[c][p]
                                           ELSE IF outcome = "ok" THEN "answered" ELSE "idle"
      BY <1>0, <2>14 DEF Result, PhoneTypes
    <3>4. \A p \in Phones : AnswerComes(c, p) => AnswerComes(c, p)'
      BY <1>0, <2>14, <3>1, ResultAnswers DEF AnswerComes
    <3>5. outcome = "ok" => AnswerComes(c, q)'
      BY <1>0, <2>14, ResultAnswers DEF AnswerComes
    <3> QED
      BY <2>0, <3>1, <3>2, <3>3, <3>4, <3>5 DEF Belief, Talks, Failed
  <2>15. ASSUME NEW q \in Phones, Provisional(c, q) \/ EarlyMediaAnswer(c, q)
         PROVE  Belief(c)'
    <3>1. UNCHANGED <<pc, winner, verdict, end, endBy, phone, results>>
      BY <2>15 DEF Provisional, EarlyMediaAnswer
    <3>2. \/ UNCHANGED fork
          \/ \E state \in {"wait", "claimed", "keying", "ringback"} :
                 fork' = [fork EXCEPT ![c][q] = state]
      BY <2>15 DEF Provisional, EarlyMediaAnswer
    <3>3. Waiting(c) \subseteq Waiting(c)'
      <4>1. CASE UNCHANGED fork
        BY <4>1 DEF Waiting
      <4>2. ASSUME NEW state \in {"wait", "claimed", "keying", "ringback"},
                   fork' = [fork EXCEPT ![c][q] = state]
            PROVE  Waiting(c) \subseteq Waiting(c)'
        BY <1>0, <4>2 DEF Waiting, ForkTypes
      <4> QED
        BY <3>2, <4>1, <4>2
    <3> QED
      BY <2>0, <3>1, <3>3 DEF Belief, AnswerComes, Talks, Failed
  <2> QED
    BY <1>1, <2>3, <2>4, <2>5, <2>6, <2>7, <2>8, <2>9, <2>10, <2>11, <2>12, <2>13,
       <2>14, <2>15
       DEF CallStep, InviteStep, PhoneStep, ForkStep, HangupStep, PhoneAnswers,
           PhoneRefuses, ForkCancelled
<1>2. CASE UNCHANGED <<callVars, setupVars, end, endBy>>
  BY <1>2 DEF PhoneInv, Belief, Waiting, AnswerComes, Talks, Failed
<1> QED
  BY <1>1, <1>2 DEF Next, HangupAll, HangupAllWaited, CloseStore, Stopped, vars

(* All of it holds initially. *)
LEMMA InitTruths ==
    Init => VerdictInv /\ WinnerInv /\ SavedInv /\ CountInv /\ PhoneInv
<1> SUFFICES ASSUME Init
             PROVE  VerdictInv /\ WinnerInv /\ SavedInv /\ CountInv /\ PhoneInv
  OBVIOUS
<1>1. VerdictInv /\ WinnerInv /\ SavedInv
  BY DEF Init, VerdictInv, WinnerInv, SavedInv, Failed, NoVerdict, Verdict
<1>2. \A c \in Calls : Waiting(c) = {}
  BY DEF Init, Waiting
<1>3. CountInv
  <2>1. IsFiniteSet({}) /\ Cardinality({}) = 0
    BY FS_EmptySet
  <2>2. ASSUME NEW c \in Calls PROVE Count(c)
    <3>1. left[c] = 0 /\ results[c] = <<>> /\ todo[c] = {}
          /\ \A p \in Phones : fork[c][p] = "none"
      BY DEF Init
    <3>2. Waiting(c) = {} /\ Len(results[c]) = 0
      BY <1>2, <3>1
    <3> QED
      BY <2>1, <3>1, <3>2 DEF Count
  <2> QED
    BY <2>2 DEF CountInv
<1>4. PhoneInv
  BY DEF Init, PhoneInv, Belief
<1> QED
  BY <1>1, <1>3, <1>4

(* The inductive invariants of what a call tells of itself. *)
THEOREM Truths == Spec => [](VerdictInv /\ WinnerInv /\ SavedInv /\ CountInv /\ PhoneInv)
<1>1. TypeOK /\ LedgerInv /\ VerdictInv /\ WinnerInv /\ SavedInv /\ CountInv /\ PhoneInv
      /\ [Next]_vars
      => (VerdictInv /\ WinnerInv /\ SavedInv /\ CountInv /\ PhoneInv)'
  BY VerdictStep, WinnerStep, SavedStep, CountStep, BeliefStep
<1> QED
  BY Invariance, InitTruths, <1>1, PTL DEF Spec

(***************************************************************************)
(* RecordTruthful: whatever the record says of a call happened.  The       *)
(* record repeats fail's verdict or says "answered", there is at most one, *)
(* and what the verdict rests on is settled when setup ends.               *)
(***************************************************************************)
THEOREM TruthfulRecords == Spec => []RecordTruthful
<1>1. TypeOK /\ LedgerInv /\ VerdictInv /\ SavedInv => RecordTruthful
  <2> SUFFICES ASSUME TypeOK, LedgerInv, VerdictInv, SavedInv,
                      NEW c \in Calls, NEW i \in 1..Len(saved[c])
               PROVE  LET status == saved[c][i].status
                          gaveUp == callerGone[c] /\ ~lateCancel[c]
                      IN
                      /\ status = "cancelled" => gaveUp
                      /\ status = "no-answer" => ringCtx[c] = "deadline" /\ ~gaveUp
                      /\ status = "busy" => codes[c] \cap {"busy", "decline"} # {} /\ ~gaveUp
                      /\ status = "answered" <=> Established(c)
                      /\ status \in {"cancelled", "no-answer", "busy", "unavailable"} =>
                             winner[c] = None
    BY DEF RecordTruthful
  <2>1. saved[c] \in Seq(Saves)
    BY DEF TypeOK, SavedTypes
  <2>2. Len(saved[c]) = 1 /\ i = 1 /\ saved[c] # <<>>
    <3>1. Len(saved[c]) \in Nat /\ Len(saved[c]) >= 1
      BY <2>1
    <3>2. Len(saved[c]) \in {0, 1}
      BY DEF LedgerInv, Ledger
    <3>3. Len(saved[c]) = 1
      BY <3>1, <3>2
    <3>4. i = 1
      BY <3>3
    <3>5. saved[c] # <<>>
      BY <2>1, <3>3 DEF Saves
    <3> QED
      BY <3>3, <3>4, <3>5
  <2>3. saved[c][1].status = IF Failed(c) THEN verdict[c].status ELSE "answered"
    BY <2>2 DEF SavedInv
  <2>4. CASE Failed(c)
    BY <2>2, <2>3, <2>4 DEF VerdictInv, Established
  <2>5. CASE ~Failed(c)
    <3>1. Established(c)
      BY <2>2, <2>5 DEF LedgerInv, Ledger
    <3> QED
      BY <2>2, <2>3, <2>5, <3>1
  <2> QED
    BY <2>4, <2>5
<1> QED
  BY Invariance, Truths, <1>1, PTL

(***************************************************************************)
(* NoOrphanPhone: when a call is recorded and its forks are counted out,   *)
(* no phone rings or talks.  That left is zero means that no fork waits    *)
(* and that the channel is empty, whatever order the results came in.      *)
(***************************************************************************)
THEOREM NoPhoneOrphaned == Spec => []NoOrphanPhone
<1>1. TypeOK /\ LedgerInv /\ CountInv /\ PhoneInv => NoOrphanPhone
  <2> SUFFICES ASSUME TypeOK, LedgerInv, CountInv, PhoneInv,
                      NEW c \in Calls, saved[c] # <<>>, left[c] = 0, NEW p \in Phones
               PROVE  phone[c][p] \in {"idle", "bye"}
    BY DEF NoOrphanPhone
  <2>1. /\ saved[c] \in Seq(Saves)
        /\ results[c] \in Seq(ForkResults)
        /\ phone[c][p] \in {"idle", "ringing", "answered", "up", "bye"}
    BY DEF TypeOK, SavedTypes, ResultTypes, PhoneTypes
  <2>2. Len(saved[c]) # 0
    BY <2>1
  <2>3. (pc[c] = "done" /\ Failed(c)) \/ end[c] \in {"forget", "over"}
    BY <2>2 DEF LedgerInv, Ledger
  <2>4. Cardinality(Waiting(c)) = 0 /\ Len(results[c]) = 0
    BY <2>1, FS_CardinalityType DEF CountInv, Count
  <2>5. Waiting(c) = {}
    BY <2>4, FS_EmptySet DEF CountInv, Count
  <2>6. phone[c][p] # "ringing"
    BY <2>5 DEF PhoneInv, Belief
  <2>7. phone[c][p] # "answered"
    <3>1. ~ \E j \in 1..Len(results[c]) : TRUE
      BY <2>4
    <3>2. pc[c] # "connect"
      BY <2>3 DEF LedgerInv, Ledger, Established
    <3> QED
      BY <3>1, <3>2 DEF PhoneInv, Belief, AnswerComes
  <2>8. phone[c][p] # "up"
    BY <2>3 DEF PhoneInv, Belief, Talks
  <2> QED
    BY <2>1, <2>6, <2>7, <2>8
<1> QED
  BY Invariance, Truths, <1>1, PTL
=============================================================================
