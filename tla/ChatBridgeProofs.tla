-------------------------- MODULE ChatBridgeProofs --------------------------
(***************************************************************************)
(* Proofs about ChatBridge, for any connections and number of messages.    *)
(***************************************************************************)
EXTENDS ChatBridge, TLAPS

LEMMA CurrentIsMessage ==
  ASSUME BridgeInv, NEW k \in Sockets, pc[k] \notin {"recv", "end"} \/ chat[k] = "running"
  PROVE  current(k) \in Msgs
  BY BridgeAssumption DEF BridgeInv, TypeOK, RunningInv, DoneInv, current, Msgs

\* Whatever becomes of an event, the types of the wire and of the labels are kept.
LEMMA WireTypes ==
  ASSUME TypeOK, NEW k \in Sockets, NEW kind, Sends(k, kind) \/ SendRaises(k)
  PROVE  /\ conn' \in [Sockets -> {"open", "gone", "closed"}]
         /\ cycle' \in [Sockets -> SUBSET Outcomes]
         /\ dones' \in [Sockets -> Nat]
  <1>1. conn' \in [Sockets -> {"open", "gone", "closed"}]
    BY DEF TypeOK, Sends, SendRaises
  <1>2. cycle' \in [Sockets -> SUBSET Outcomes]
    BY DEF TypeOK, Sends, SendRaises
  <1>3. dones' \in [Sockets -> Nat]
    BY DEF TypeOK, Sends, SendRaises
  <1> QED
    BY <1>1, <1>2, <1>3

LEMMA SendThenTypes ==
  ASSUME TypeOK, NEW k \in Sockets, NEW kind, NEW next \in HandlerStates, NEW caught \in HandlerStates,
         SendThen(k, kind, next, caught)
  PROVE  /\ conn' \in [Sockets -> {"open", "gone", "closed"}]
         /\ cycle' \in [Sockets -> SUBSET Outcomes]
         /\ dones' \in [Sockets -> Nat]
         /\ pc' \in [Sockets -> HandlerStates]
  <1>1. Sends(k, kind) \/ SendRaises(k)
    BY DEF SendThen
  <1>2. goto(k, next) \/ goto(k, caught)
    BY DEF SendThen
  <1>3. pc' \in [Sockets -> HandlerStates]
    BY <1>2 DEF goto, TypeOK
  <1> QED
    BY <1>1, <1>3, WireTypes

LEMMA TypeStep == BridgeInv /\ [Next]_vars => TypeOK'
  <1> SUFFICES ASSUME BridgeInv, [Next]_vars PROVE TypeOK'
    OBVIOUS
  <1>a. TypeOK
    BY DEF BridgeInv
  <1>b. \A k \in Sockets : pc[k] \notin {"recv", "end"} \/ chat[k] = "running" => current(k) \in Msgs
    BY CurrentIsMessage
  <1> USE BridgeAssumption, <1>a, <1>b DEF wire, db, TypeOK, HandlerStates, Outcomes
  <1>1. ASSUME NEW k \in Sockets, AdmitRaises(k) PROVE TypeOK'
    BY <1>1 DEF AdmitRaises, EndHandler, goto
  <1>2. ASSUME NEW k \in Sockets, Refuse(k) PROVE TypeOK'
    BY <1>2, SendThenTypes DEF Refuse
  <1>3. ASSUME NEW k \in Sockets, Admit(k) PROVE TypeOK'
    BY <1>3 DEF Admit, SendThen, Sends, SendRaises, goto
  <1>4. ASSUME NEW k \in Sockets, SaveUser(k) PROVE TypeOK'
    BY <1>4 DEF SaveUser, goto
  <1>5. ASSUME NEW k \in Sockets, CommitUser(k) PROVE TypeOK'
    BY <1>5 DEF CommitUser, goto
  <1>6. ASSUME NEW k \in Sockets, Start(k) PROVE TypeOK'
    BY <1>6, WireTypes DEF Start, goto
  <1>7. ASSUME NEW k \in Sockets, PollEnds(k) PROVE TypeOK'
    BY <1>7 DEF PollEnds, goto
  <1>8. ASSUME NEW k \in Sockets, FinalDrain(k) PROVE TypeOK'
    <2>1. /\ conn' \in [Sockets -> {"open", "gone", "closed"}]
          /\ cycle' \in [Sockets -> SUBSET Outcomes]
          /\ dones' \in [Sockets -> Nat]
      BY <1>8 DEF FinalDrain, SendRaises
    <2>2. pc' \in [Sockets -> HandlerStates]
      BY <1>8 DEF FinalDrain, goto
    <2>3. /\ trace' \in [Sockets -> SUBSET Msgs] /\ traceQ' \in SUBSET Msgs
          /\ drained' \in SUBSET Msgs
          /\ UNCHANGED <<received, chat, messageCount, wantsTitle, db, before>>
      BY <1>8 DEF FinalDrain, TakeTraces
    <2> QED
      BY <2>1, <2>2, <2>3
  <1>9. ASSUME NEW k \in Sockets, NoReply(k) PROVE TypeOK'
    BY <1>9, SendThenTypes DEF NoReply
  <1>10. ASSUME NEW k \in Sockets, Persist(k) PROVE TypeOK'
    <2>1. [msg |-> current(k), isError |-> FALSE] \in [msg : Msgs, isError : BOOLEAN]
      BY <1>10 DEF Persist
    <2>2. requestLog' \in SUBSET [msg : Msgs, isError : BOOLEAN]
      BY <1>10, <2>1 DEF Persist
    <2>3. pc' \in [Sockets -> HandlerStates] /\ answers' \in SUBSET Msgs
      BY <1>10 DEF Persist, goto
    <2> QED
      BY <1>10, <2>2, <2>3 DEF Persist
  <1>11. ASSUME NEW k \in Sockets, Emit(k) PROVE TypeOK'
    BY <1>11, SendThenTypes DEF Emit
  <1>12. ASSUME NEW k \in Sockets, EmitWidget(k) PROVE TypeOK'
    BY <1>12, SendThenTypes DEF EmitWidget
  <1>13. ASSUME NEW k \in Sockets, ReportError(k) PROVE TypeOK'
    BY <1>13, SendThenTypes DEF ReportError
  <1>14. ASSUME NEW k \in Sockets, LogError(k) PROVE TypeOK'
    <2>1. [msg |-> current(k), isError |-> TRUE] \in [msg : Msgs, isError : BOOLEAN]
      BY <1>14 DEF LogError
    <2>2. requestLog' \in SUBSET [msg : Msgs, isError : BOOLEAN]
      <3>1. CASE requestLog' = requestLog \cup {[msg |-> current(k), isError |-> TRUE]}
        BY <2>1, <3>1, Zenon
      <3>2. CASE requestLog' = requestLog
        BY <3>2
      <3> QED
        BY <1>14, <3>1, <3>2, Zenon DEF LogError
    <2>3. pc' \in [Sockets -> HandlerStates] /\ answers' \in SUBSET Msgs
      BY <1>14 DEF LogError, goto
    <2> QED
      BY <1>14, <2>2, <2>3 DEF LogError
  <1>15. ASSUME NEW k \in Sockets, Done(k) PROVE TypeOK'
    <2>1. dones' \in [Sockets -> Nat] /\ conn' \in [Sockets -> {"open", "gone", "closed"}]
      BY <1>15 DEF Done, SendRaises
    <2>2. pc' \in [Sockets -> HandlerStates] /\ cycle' \in [Sockets -> SUBSET Outcomes]
      BY <1>15 DEF Done, SendRaises, goto
    <2>3. trace' \in [Sockets -> SUBSET Msgs]
      BY <1>15 DEF Done
    <2> QED
      BY <1>15, <2>1, <2>2, <2>3 DEF Done
  <1>16. ASSUME NEW k \in Sockets, Receive(k) PROVE TypeOK'
    BY <1>16 DEF Receive, goto
  <1>17. ASSUME NEW k \in Sockets, ReceiveRaises(k) PROVE TypeOK'
    BY <1>17 DEF ReceiveRaises, EndHandler, goto
  <1>18. ASSUME NEW k \in Sockets, Disconnect(k) PROVE TypeOK'
    BY <1>18 DEF Disconnect
  <1>19. ASSUME NEW k \in Sockets, Poll(k) PROVE TypeOK'
    BY <1>19 DEF Poll, SendThen, Sends, SendRaises, goto, TakeTraces
  <1>20. ASSUME NEW k \in Sockets, AgentSpeaks(k) PROVE TypeOK'
    BY <1>20 DEF AgentSpeaks
  <1>21. ASSUME NEW k \in Sockets, ChatReturns(k) PROVE TypeOK'
    BY <1>21 DEF ChatReturns
  <1>22. ASSUME NEW k \in Sockets, ChatRaises(k) PROVE TypeOK'
    BY <1>22 DEF ChatRaises
  <1>23. CASE UNCHANGED vars
    BY <1>23 DEF vars
  <1> QED
    BY <1>1, <1>2, <1>3, <1>4, <1>5, <1>6, <1>7, <1>8, <1>9, <1>10, <1>11, <1>12, <1>13, <1>14, <1>15, <1>16, <1>17, <1>18, <1>19, <1>20, <1>21, <1>22, <1>23 DEF Next, Handler

LEMMA CycleStep == BridgeInv /\ [Next]_vars => CycleInv'
  <1> SUFFICES ASSUME BridgeInv, [Next]_vars PROVE CycleInv'
    OBVIOUS
  <1> USE BridgeAssumption DEF wire, db, current, Msgs, BridgeInv, TypeOK, CycleInv, HandlerStates, Unanswered, Outcomes
  <1>1. ASSUME NEW k \in Sockets, AdmitRaises(k) PROVE CycleInv'
    BY <1>1 DEF AdmitRaises, EndHandler, goto
  <1>2. ASSUME NEW k \in Sockets, Refuse(k) PROVE CycleInv'
    BY <1>2 DEF Refuse, SendThen, Sends, SendRaises, goto
  <1>3. ASSUME NEW k \in Sockets, Admit(k) PROVE CycleInv'
    BY <1>3 DEF Admit, SendThen, Sends, SendRaises, goto
  <1>4. ASSUME NEW k \in Sockets, SaveUser(k) PROVE CycleInv'
    BY <1>4 DEF SaveUser, goto
  <1>5. ASSUME NEW k \in Sockets, CommitUser(k) PROVE CycleInv'
    BY <1>5 DEF CommitUser, goto
  <1>6. ASSUME NEW k \in Sockets, Start(k) PROVE CycleInv'
    BY <1>6 DEF Start, Sends, SendRaises, goto
  <1>7. ASSUME NEW k \in Sockets, PollEnds(k) PROVE CycleInv'
    BY <1>7 DEF PollEnds, goto
  <1>8. ASSUME NEW k \in Sockets, FinalDrain(k) PROVE CycleInv'
    BY <1>8 DEF FinalDrain, SendRaises, goto, TakeTraces
  <1>9. ASSUME NEW k \in Sockets, NoReply(k) PROVE CycleInv'
    BY <1>9 DEF NoReply, SendThen, Sends, SendRaises, goto
  <1>10. ASSUME NEW k \in Sockets, Persist(k) PROVE CycleInv'
    BY <1>10 DEF Persist, goto
  <1>11. ASSUME NEW k \in Sockets, Emit(k) PROVE CycleInv'
    BY <1>11 DEF Emit, SendThen, Sends, SendRaises, goto
  <1>12. ASSUME NEW k \in Sockets, EmitWidget(k) PROVE CycleInv'
    BY <1>12 DEF EmitWidget, SendThen, Sends, SendRaises, goto
  <1>13. ASSUME NEW k \in Sockets, ReportError(k) PROVE CycleInv'
    BY <1>13 DEF ReportError, SendThen, Sends, SendRaises, goto
  <1>14. ASSUME NEW k \in Sockets, LogError(k) PROVE CycleInv'
    BY <1>14 DEF LogError, goto
  <1>15. ASSUME NEW k \in Sockets, Done(k) PROVE CycleInv'
    BY <1>15 DEF Done, SendRaises, goto
  <1>16. ASSUME NEW k \in Sockets, Receive(k) PROVE CycleInv'
    BY <1>16 DEF Receive, goto
  <1>17. ASSUME NEW k \in Sockets, ReceiveRaises(k) PROVE CycleInv'
    BY <1>17 DEF ReceiveRaises, EndHandler, goto
  <1>18. ASSUME NEW k \in Sockets, Disconnect(k) PROVE CycleInv'
    BY <1>18 DEF Disconnect
  <1>19. ASSUME NEW k \in Sockets, Poll(k) PROVE CycleInv'
    BY <1>19 DEF Poll, SendThen, Sends, SendRaises, goto, TakeTraces
  <1>20. ASSUME NEW k \in Sockets, AgentSpeaks(k) PROVE CycleInv'
    BY <1>20 DEF AgentSpeaks
  <1>21. ASSUME NEW k \in Sockets, ChatReturns(k) PROVE CycleInv'
    BY <1>21 DEF ChatReturns
  <1>22. ASSUME NEW k \in Sockets, ChatRaises(k) PROVE CycleInv'
    BY <1>22 DEF ChatRaises
  <1>23. CASE UNCHANGED vars
    BY <1>23 DEF vars
  <1> QED
    BY <1>1, <1>2, <1>3, <1>4, <1>5, <1>6, <1>7, <1>8, <1>9, <1>10, <1>11, <1>12, <1>13, <1>14, <1>15, <1>16, <1>17, <1>18, <1>19, <1>20, <1>21, <1>22, <1>23 DEF Next, Handler

LEMMA LogStep == BridgeInv /\ [Next]_vars => LogInv'
  <1> SUFFICES ASSUME TypeOK, DoneInv, LogInv, [Next]_vars PROVE LogInv'
    BY DEF BridgeInv
  <1> USE BridgeAssumption DEF wire, db, TypeOK, HandlerStates, current, LogInv, Unanswered
  <1>a. ASSUME UNCHANGED <<answers, requestLog>>
        PROVE  \A m : (Succeeded(m)' <=> Succeeded(m)) /\ (Failed(m)' <=> Failed(m))
    BY <1>a DEF Succeeded, Failed
  <1>1. ASSUME NEW k \in Sockets, AdmitRaises(k) PROVE LogInv'
    BY <1>1, <1>a DEF AdmitRaises, EndHandler, goto
  <1>2. ASSUME NEW k \in Sockets, Refuse(k) PROVE LogInv'
    BY <1>2, <1>a DEF Refuse, SendThen, Sends, SendRaises, goto
  <1>3. ASSUME NEW k \in Sockets, Admit(k) PROVE LogInv'
    BY <1>3, <1>a DEF Admit, SendThen, Sends, SendRaises, goto
  <1>4. ASSUME NEW k \in Sockets, SaveUser(k) PROVE LogInv'
    BY <1>4, <1>a DEF SaveUser, goto
  <1>5. ASSUME NEW k \in Sockets, CommitUser(k) PROVE LogInv'
    BY <1>5, <1>a DEF CommitUser, goto
  <1>6. ASSUME NEW k \in Sockets, Start(k) PROVE LogInv'
    BY <1>6, <1>a DEF Start, Sends, SendRaises, goto
  <1>7. ASSUME NEW k \in Sockets, PollEnds(k) PROVE LogInv'
    BY <1>7, <1>a DEF PollEnds, goto
  <1>8. ASSUME NEW k \in Sockets, FinalDrain(k) PROVE LogInv'
    BY <1>8, <1>a DEF FinalDrain, SendRaises, goto, TakeTraces
  <1>9. ASSUME NEW k \in Sockets, NoReply(k) PROVE LogInv'
    BY <1>9, <1>a DEF NoReply, SendThen, Sends, SendRaises, goto
  <1>10. ASSUME NEW k \in Sockets, Persist(k) PROVE LogInv'
    <2>1. \A m : m # current(k) => (Succeeded(m)' <=> Succeeded(m))
      BY <1>10 DEF Persist, Succeeded
    <2>2. \A m : Failed(m)' <=> Failed(m)
      BY <1>10 DEF Persist, Failed
    <2>3. \A j \in Sockets : j # k => current(j) # current(k)
      OBVIOUS
    <2> QED
      BY <1>10, <2>1, <2>2, <2>3 DEF Persist, goto
  <1>11. ASSUME NEW k \in Sockets, Emit(k) PROVE LogInv'
    BY <1>11, <1>a DEF Emit, SendThen, Sends, SendRaises, goto
  <1>12. ASSUME NEW k \in Sockets, EmitWidget(k) PROVE LogInv'
    BY <1>12, <1>a DEF EmitWidget, SendThen, Sends, SendRaises, goto
  <1>13. ASSUME NEW k \in Sockets, ReportError(k) PROVE LogInv'
    BY <1>13, <1>a DEF ReportError, SendThen, Sends, SendRaises, goto
  <1>14. ASSUME NEW k \in Sockets, LogError(k) PROVE LogInv'
    <2>1. \A m : m # current(k) => (Failed(m)' <=> Failed(m))
      BY <1>14 DEF LogError, Failed
    <2>2. \A m : Succeeded(m)' <=> Succeeded(m)
      BY <1>14 DEF LogError, Succeeded
    <2> QED
      BY <1>14, <2>1, <2>2 DEF LogError, goto
  <1>15. ASSUME NEW k \in Sockets, Done(k) PROVE LogInv'
    BY <1>15, <1>a DEF Done, SendRaises, goto
  <1>16. ASSUME NEW k \in Sockets, Receive(k) PROVE LogInv'
    BY <1>16, <1>a DEF Receive, goto
  <1>17. ASSUME NEW k \in Sockets, ReceiveRaises(k) PROVE LogInv'
    BY <1>17, <1>a DEF ReceiveRaises, EndHandler, goto
  <1>18. ASSUME NEW k \in Sockets, Disconnect(k) PROVE LogInv'
    BY <1>18, <1>a DEF Disconnect
  <1>19. ASSUME NEW k \in Sockets, Poll(k) PROVE LogInv'
    BY <1>19, <1>a DEF Poll, SendThen, Sends, SendRaises, goto, TakeTraces
  <1>20. ASSUME NEW k \in Sockets, AgentSpeaks(k) PROVE LogInv'
    BY <1>20, <1>a DEF AgentSpeaks
  <1>21. ASSUME NEW k \in Sockets, ChatReturns(k) PROVE LogInv'
    BY <1>21, <1>a DEF ChatReturns
  <1>22. ASSUME NEW k \in Sockets, ChatRaises(k) PROVE LogInv'
    BY <1>22, <1>a DEF ChatRaises
  <1>23. CASE UNCHANGED vars
    BY <1>23, <1>a DEF vars
  <1> QED
    BY <1>1, <1>2, <1>3, <1>4, <1>5, <1>6, <1>7, <1>8, <1>9, <1>10, <1>11, <1>12, <1>13, <1>14, <1>15, <1>16, <1>17, <1>18, <1>19, <1>20, <1>21, <1>22, <1>23, <1>a DEF Next, Handler

LEMMA RunningStep == BridgeInv /\ [Next]_vars => RunningInv'
  <1> SUFFICES ASSUME TypeOK, DoneInv, RunningInv, [Next]_vars PROVE RunningInv'
    BY DEF BridgeInv
  <1> USE BridgeAssumption DEF wire, db, TypeOK, HandlerStates, RunningInv, DoneInv
  <1>1. ASSUME NEW k \in Sockets, AdmitRaises(k) PROVE RunningInv'
    BY <1>1 DEF AdmitRaises, EndHandler, goto
  <1>2. ASSUME NEW k \in Sockets, Refuse(k) PROVE RunningInv'
    BY <1>2 DEF Refuse, SendThen, Sends, SendRaises, goto
  <1>3. ASSUME NEW k \in Sockets, Admit(k) PROVE RunningInv'
    BY <1>3 DEF Admit, SendThen, Sends, SendRaises, goto
  <1>4. ASSUME NEW k \in Sockets, SaveUser(k) PROVE RunningInv'
    BY <1>4 DEF SaveUser, goto
  <1>5. ASSUME NEW k \in Sockets, CommitUser(k) PROVE RunningInv'
    BY <1>5 DEF CommitUser, goto
  <1>6. ASSUME NEW k \in Sockets, Start(k) PROVE RunningInv'
    BY <1>6 DEF Start, Sends, SendRaises, goto
  <1>7. ASSUME NEW k \in Sockets, PollEnds(k) PROVE RunningInv'
    BY <1>7 DEF PollEnds, goto
  <1>8. ASSUME NEW k \in Sockets, FinalDrain(k) PROVE RunningInv'
    BY <1>8 DEF FinalDrain, SendRaises, goto, TakeTraces
  <1>9. ASSUME NEW k \in Sockets, NoReply(k) PROVE RunningInv'
    BY <1>9 DEF NoReply, SendThen, Sends, SendRaises, goto
  <1>10. ASSUME NEW k \in Sockets, Persist(k) PROVE RunningInv'
    BY <1>10 DEF Persist, goto
  <1>11. ASSUME NEW k \in Sockets, Emit(k) PROVE RunningInv'
    BY <1>11 DEF Emit, SendThen, Sends, SendRaises, goto
  <1>12. ASSUME NEW k \in Sockets, EmitWidget(k) PROVE RunningInv'
    BY <1>12 DEF EmitWidget, SendThen, Sends, SendRaises, goto
  <1>13. ASSUME NEW k \in Sockets, ReportError(k) PROVE RunningInv'
    BY <1>13 DEF ReportError, SendThen, Sends, SendRaises, goto
  <1>14. ASSUME NEW k \in Sockets, LogError(k) PROVE RunningInv'
    BY <1>14 DEF LogError, goto
  <1>15. ASSUME NEW k \in Sockets, Done(k) PROVE RunningInv'
    BY <1>15 DEF Done, SendRaises, goto
  <1>16. ASSUME NEW k \in Sockets, Receive(k) PROVE RunningInv'
    BY <1>16 DEF Receive, goto
  <1>17. ASSUME NEW k \in Sockets, ReceiveRaises(k) PROVE RunningInv'
    BY <1>17 DEF ReceiveRaises, EndHandler, goto
  <1>18. ASSUME NEW k \in Sockets, Disconnect(k) PROVE RunningInv'
    BY <1>18 DEF Disconnect
  <1>19. ASSUME NEW k \in Sockets, Poll(k) PROVE RunningInv'
    BY <1>19 DEF Poll, SendThen, Sends, SendRaises, goto, TakeTraces
  <1>20. ASSUME NEW k \in Sockets, AgentSpeaks(k) PROVE RunningInv'
    BY <1>20 DEF AgentSpeaks
  <1>21. ASSUME NEW k \in Sockets, ChatReturns(k) PROVE RunningInv'
    BY <1>21 DEF ChatReturns
  <1>22. ASSUME NEW k \in Sockets, ChatRaises(k) PROVE RunningInv'
    BY <1>22 DEF ChatRaises
  <1>23. CASE UNCHANGED vars
    BY <1>23 DEF vars
  <1> QED
    BY <1>1, <1>2, <1>3, <1>4, <1>5, <1>6, <1>7, <1>8, <1>9, <1>10, <1>11, <1>12, <1>13, <1>14, <1>15, <1>16, <1>17, <1>18, <1>19, <1>20, <1>21, <1>22, <1>23 DEF Next, Handler

LEMMA DrainStep == BridgeInv /\ [Next]_vars => DrainInv'
  <1> SUFFICES ASSUME TypeOK, RunningInv, DrainInv, [Next]_vars PROVE DrainInv'
    BY DEF BridgeInv
  <1> USE BridgeAssumption DEF wire, db, TypeOK, HandlerStates, current, Msgs, RunningInv, DrainInv
  <1>1. ASSUME NEW k \in Sockets, AdmitRaises(k) PROVE DrainInv'
    BY <1>1 DEF AdmitRaises, EndHandler, goto
  <1>2. ASSUME NEW k \in Sockets, Refuse(k) PROVE DrainInv'
    BY <1>2 DEF Refuse, SendThen, Sends, SendRaises, goto
  <1>3. ASSUME NEW k \in Sockets, Admit(k) PROVE DrainInv'
    BY <1>3 DEF Admit, SendThen, Sends, SendRaises, goto
  <1>4. ASSUME NEW k \in Sockets, SaveUser(k) PROVE DrainInv'
    BY <1>4 DEF SaveUser, goto
  <1>5. ASSUME NEW k \in Sockets, CommitUser(k) PROVE DrainInv'
    BY <1>5 DEF CommitUser, goto
  <1>6. ASSUME NEW k \in Sockets, Start(k) PROVE DrainInv'
    BY <1>6 DEF Start, Sends, SendRaises, goto
  <1>7. ASSUME NEW k \in Sockets, PollEnds(k) PROVE DrainInv'
    BY <1>7 DEF PollEnds, goto
  <1>8. ASSUME NEW k \in Sockets, FinalDrain(k) PROVE DrainInv'
    BY <1>8 DEF FinalDrain, SendRaises, goto, TakeTraces
  <1>9. ASSUME NEW k \in Sockets, NoReply(k) PROVE DrainInv'
    BY <1>9 DEF NoReply, SendThen, Sends, SendRaises, goto
  <1>10. ASSUME NEW k \in Sockets, Persist(k) PROVE DrainInv'
    BY <1>10 DEF Persist, goto
  <1>11. ASSUME NEW k \in Sockets, Emit(k) PROVE DrainInv'
    BY <1>11 DEF Emit, SendThen, Sends, SendRaises, goto
  <1>12. ASSUME NEW k \in Sockets, EmitWidget(k) PROVE DrainInv'
    BY <1>12 DEF EmitWidget, SendThen, Sends, SendRaises, goto
  <1>13. ASSUME NEW k \in Sockets, ReportError(k) PROVE DrainInv'
    BY <1>13 DEF ReportError, SendThen, Sends, SendRaises, goto
  <1>14. ASSUME NEW k \in Sockets, LogError(k) PROVE DrainInv'
    BY <1>14 DEF LogError, goto
  <1>15. ASSUME NEW k \in Sockets, Done(k) PROVE DrainInv'
    BY <1>15 DEF Done, SendRaises, goto
  <1>16. ASSUME NEW k \in Sockets, Receive(k) PROVE DrainInv'
    BY <1>16 DEF Receive, goto
  <1>17. ASSUME NEW k \in Sockets, ReceiveRaises(k) PROVE DrainInv'
    BY <1>17 DEF ReceiveRaises, EndHandler, goto
  <1>18. ASSUME NEW k \in Sockets, Disconnect(k) PROVE DrainInv'
    BY <1>18 DEF Disconnect
  <1>19. ASSUME NEW k \in Sockets, Poll(k) PROVE DrainInv'
    BY <1>19 DEF Poll, SendThen, Sends, SendRaises, goto, TakeTraces
  <1>20. ASSUME NEW k \in Sockets, AgentSpeaks(k) PROVE DrainInv'
    BY <1>20 DEF AgentSpeaks
  <1>21. ASSUME NEW k \in Sockets, ChatReturns(k) PROVE DrainInv'
    BY <1>21 DEF ChatReturns
  <1>22. ASSUME NEW k \in Sockets, ChatRaises(k) PROVE DrainInv'
    BY <1>22 DEF ChatRaises
  <1>23. CASE UNCHANGED vars
    BY <1>23 DEF vars
  <1> QED
    BY <1>1, <1>2, <1>3, <1>4, <1>5, <1>6, <1>7, <1>8, <1>9, <1>10, <1>11, <1>12, <1>13, <1>14, <1>15, <1>16, <1>17, <1>18, <1>19, <1>20, <1>21, <1>22, <1>23 DEF Next, Handler

LEMMA CountStep == BridgeInv /\ [Next]_vars => CountInv'
  <1> SUFFICES ASSUME TypeOK, CountInv, [Next]_vars PROVE CountInv'
    BY DEF BridgeInv
  <1> USE BridgeAssumption DEF wire, db, TypeOK, HandlerStates, CountInv
  <1>1. ASSUME NEW k \in Sockets, AdmitRaises(k) PROVE CountInv'
    BY <1>1 DEF AdmitRaises, EndHandler, goto
  <1>2. ASSUME NEW k \in Sockets, Refuse(k) PROVE CountInv'
    BY <1>2 DEF Refuse, SendThen, Sends, SendRaises, goto
  <1>3. ASSUME NEW k \in Sockets, Admit(k) PROVE CountInv'
    BY <1>3 DEF Admit, SendThen, Sends, SendRaises, goto
  <1>4. ASSUME NEW k \in Sockets, SaveUser(k) PROVE CountInv'
    <2>1. \A j \in Sockets \ {k} : wantsTitle'[j] = wantsTitle[j] /\ pc'[j] = pc[j]
      BY <1>4, Zenon DEF SaveUser, goto
    <2>2. pc'[k] = "title"
      BY <1>4 DEF SaveUser, goto
    <2>3. UNCHANGED <<before, messageCount>>
      BY <1>4 DEF SaveUser
    <2>4. \A j \in Sockets : wantsTitle'[j] => pc'[j] = "title"
      BY <2>1, <2>2, Zenon DEF CountInv
    <2>5. \A j \in Sockets : before'[j].count <= messageCount'
      BY <2>3
    <2> QED
      BY <2>4, <2>5, Zenon DEF CountInv
  <1>5. ASSUME NEW k \in Sockets, CommitUser(k) PROVE CountInv'
    BY <1>5 DEF CommitUser, goto
  <1>6. ASSUME NEW k \in Sockets, Start(k) PROVE CountInv'
    BY <1>6 DEF Start, Sends, SendRaises, goto
  <1>7. ASSUME NEW k \in Sockets, PollEnds(k) PROVE CountInv'
    BY <1>7 DEF PollEnds, goto
  <1>8. ASSUME NEW k \in Sockets, FinalDrain(k) PROVE CountInv'
    BY <1>8 DEF FinalDrain, SendRaises, goto, TakeTraces
  <1>9. ASSUME NEW k \in Sockets, NoReply(k) PROVE CountInv'
    BY <1>9 DEF NoReply, SendThen, Sends, SendRaises, goto
  <1>10. ASSUME NEW k \in Sockets, Persist(k) PROVE CountInv'
    BY <1>10 DEF Persist, goto
  <1>11. ASSUME NEW k \in Sockets, Emit(k) PROVE CountInv'
    BY <1>11 DEF Emit, SendThen, Sends, SendRaises, goto
  <1>12. ASSUME NEW k \in Sockets, EmitWidget(k) PROVE CountInv'
    BY <1>12 DEF EmitWidget, SendThen, Sends, SendRaises, goto
  <1>13. ASSUME NEW k \in Sockets, ReportError(k) PROVE CountInv'
    BY <1>13 DEF ReportError, SendThen, Sends, SendRaises, goto
  <1>14. ASSUME NEW k \in Sockets, LogError(k) PROVE CountInv'
    BY <1>14 DEF LogError, goto
  <1>15. ASSUME NEW k \in Sockets, Done(k) PROVE CountInv'
    BY <1>15 DEF Done, SendRaises, goto
  <1>16. ASSUME NEW k \in Sockets, Receive(k) PROVE CountInv'
    BY <1>16 DEF Receive, goto
  <1>17. ASSUME NEW k \in Sockets, ReceiveRaises(k) PROVE CountInv'
    BY <1>17 DEF ReceiveRaises, EndHandler, goto
  <1>18. ASSUME NEW k \in Sockets, Disconnect(k) PROVE CountInv'
    BY <1>18 DEF Disconnect
  <1>19. ASSUME NEW k \in Sockets, Poll(k) PROVE CountInv'
    BY <1>19 DEF Poll, SendThen, Sends, SendRaises, goto, TakeTraces
  <1>20. ASSUME NEW k \in Sockets, AgentSpeaks(k) PROVE CountInv'
    BY <1>20 DEF AgentSpeaks
  <1>21. ASSUME NEW k \in Sockets, ChatReturns(k) PROVE CountInv'
    BY <1>21 DEF ChatReturns
  <1>22. ASSUME NEW k \in Sockets, ChatRaises(k) PROVE CountInv'
    BY <1>22 DEF ChatRaises
  <1>23. CASE UNCHANGED vars
    BY <1>23 DEF vars
  <1> QED
    BY <1>1, <1>2, <1>3, <1>4, <1>5, <1>6, <1>7, <1>8, <1>9, <1>10, <1>11, <1>12, <1>13, <1>14, <1>15, <1>16, <1>17, <1>18, <1>19, <1>20, <1>21, <1>22, <1>23 DEF Next, Handler

LEMMA DoneStep == BridgeInv /\ [Next]_vars => DoneInv'
  <1> SUFFICES ASSUME TypeOK, DoneInv, [Next]_vars PROVE DoneInv'
    BY DEF BridgeInv
  <1> USE BridgeAssumption DEF wire, db, TypeOK, HandlerStates, DoneInv
  <1>1. ASSUME NEW k \in Sockets, AdmitRaises(k) PROVE DoneInv'
    BY <1>1 DEF AdmitRaises, EndHandler, goto
  <1>2. ASSUME NEW k \in Sockets, Refuse(k) PROVE DoneInv'
    BY <1>2 DEF Refuse, SendThen, Sends, SendRaises, goto
  <1>3. ASSUME NEW k \in Sockets, Admit(k) PROVE DoneInv'
    BY <1>3 DEF Admit, SendThen, Sends, SendRaises, goto
  <1>4. ASSUME NEW k \in Sockets, SaveUser(k) PROVE DoneInv'
    BY <1>4 DEF SaveUser, goto
  <1>5. ASSUME NEW k \in Sockets, CommitUser(k) PROVE DoneInv'
    BY <1>5 DEF CommitUser, goto
  <1>6. ASSUME NEW k \in Sockets, Start(k) PROVE DoneInv'
    BY <1>6 DEF Start, Sends, SendRaises, goto
  <1>7. ASSUME NEW k \in Sockets, PollEnds(k) PROVE DoneInv'
    BY <1>7 DEF PollEnds, goto
  <1>8. ASSUME NEW k \in Sockets, FinalDrain(k) PROVE DoneInv'
    BY <1>8 DEF FinalDrain, SendRaises, goto, TakeTraces
  <1>9. ASSUME NEW k \in Sockets, NoReply(k) PROVE DoneInv'
    BY <1>9 DEF NoReply, SendThen, Sends, SendRaises, goto
  <1>10. ASSUME NEW k \in Sockets, Persist(k) PROVE DoneInv'
    BY <1>10 DEF Persist, goto
  <1>11. ASSUME NEW k \in Sockets, Emit(k) PROVE DoneInv'
    BY <1>11 DEF Emit, SendThen, Sends, SendRaises, goto
  <1>12. ASSUME NEW k \in Sockets, EmitWidget(k) PROVE DoneInv'
    BY <1>12 DEF EmitWidget, SendThen, Sends, SendRaises, goto
  <1>13. ASSUME NEW k \in Sockets, ReportError(k) PROVE DoneInv'
    BY <1>13 DEF ReportError, SendThen, Sends, SendRaises, goto
  <1>14. ASSUME NEW k \in Sockets, LogError(k) PROVE DoneInv'
    BY <1>14 DEF LogError, goto
  <1>15. ASSUME NEW k \in Sockets, Done(k) PROVE DoneInv'
    BY <1>15 DEF Done, SendRaises, goto
  <1>16. ASSUME NEW k \in Sockets, Receive(k) PROVE DoneInv'
    BY <1>16 DEF Receive, goto
  <1>17. ASSUME NEW k \in Sockets, ReceiveRaises(k) PROVE DoneInv'
    BY <1>17 DEF ReceiveRaises, EndHandler, goto
  <1>18. ASSUME NEW k \in Sockets, Disconnect(k) PROVE DoneInv'
    BY <1>18 DEF Disconnect
  <1>19. ASSUME NEW k \in Sockets, Poll(k) PROVE DoneInv'
    BY <1>19 DEF Poll, SendThen, Sends, SendRaises, goto, TakeTraces
  <1>20. ASSUME NEW k \in Sockets, AgentSpeaks(k) PROVE DoneInv'
    BY <1>20 DEF AgentSpeaks
  <1>21. ASSUME NEW k \in Sockets, ChatReturns(k) PROVE DoneInv'
    BY <1>21 DEF ChatReturns
  <1>22. ASSUME NEW k \in Sockets, ChatRaises(k) PROVE DoneInv'
    BY <1>22 DEF ChatRaises
  <1>23. CASE UNCHANGED vars
    BY <1>23 DEF vars
  <1> QED
    BY <1>1, <1>2, <1>3, <1>4, <1>5, <1>6, <1>7, <1>8, <1>9, <1>10, <1>11, <1>12, <1>13, <1>14, <1>15, <1>16, <1>17, <1>18, <1>19, <1>20, <1>21, <1>22, <1>23 DEF Next, Handler

LEMMA OutcomeStep == BridgeInv /\ [Next]_vars => ErrorExcludesAnswer'
  <1> SUFFICES ASSUME TypeOK, CycleInv, ErrorExcludesAnswer, [Next]_vars PROVE ErrorExcludesAnswer'
    BY DEF BridgeInv, OutcomeAgrees
  <1> USE BridgeAssumption DEF wire, db, TypeOK, HandlerStates, CycleInv, Unanswered, Outcomes, ErrorExcludesAnswer
  <1>1. ASSUME NEW k \in Sockets, AdmitRaises(k) PROVE ErrorExcludesAnswer'
    BY <1>1 DEF AdmitRaises, EndHandler, goto
  <1>2. ASSUME NEW k \in Sockets, Refuse(k) PROVE ErrorExcludesAnswer'
    BY <1>2 DEF Refuse, SendThen, Sends, SendRaises, goto
  <1>3. ASSUME NEW k \in Sockets, Admit(k) PROVE ErrorExcludesAnswer'
    BY <1>3 DEF Admit, SendThen, Sends, SendRaises, goto
  <1>4. ASSUME NEW k \in Sockets, SaveUser(k) PROVE ErrorExcludesAnswer'
    BY <1>4 DEF SaveUser, goto
  <1>5. ASSUME NEW k \in Sockets, CommitUser(k) PROVE ErrorExcludesAnswer'
    BY <1>5 DEF CommitUser, goto
  <1>6. ASSUME NEW k \in Sockets, Start(k) PROVE ErrorExcludesAnswer'
    BY <1>6 DEF Start, Sends, SendRaises, goto
  <1>7. ASSUME NEW k \in Sockets, PollEnds(k) PROVE ErrorExcludesAnswer'
    BY <1>7 DEF PollEnds, goto
  <1>8. ASSUME NEW k \in Sockets, FinalDrain(k) PROVE ErrorExcludesAnswer'
    BY <1>8 DEF FinalDrain, SendRaises, goto, TakeTraces
  <1>9. ASSUME NEW k \in Sockets, NoReply(k) PROVE ErrorExcludesAnswer'
    BY <1>9 DEF NoReply, SendThen, Sends, SendRaises, goto
  <1>10. ASSUME NEW k \in Sockets, Persist(k) PROVE ErrorExcludesAnswer'
    BY <1>10 DEF Persist, goto
  <1>11. ASSUME NEW k \in Sockets, Emit(k) PROVE ErrorExcludesAnswer'
    BY <1>11 DEF Emit, SendThen, Sends, SendRaises, goto
  <1>12. ASSUME NEW k \in Sockets, EmitWidget(k) PROVE ErrorExcludesAnswer'
    BY <1>12 DEF EmitWidget, SendThen, Sends, SendRaises, goto
  <1>13. ASSUME NEW k \in Sockets, ReportError(k) PROVE ErrorExcludesAnswer'
    BY <1>13 DEF ReportError, SendThen, Sends, SendRaises, goto
  <1>14. ASSUME NEW k \in Sockets, LogError(k) PROVE ErrorExcludesAnswer'
    BY <1>14 DEF LogError, goto
  <1>15. ASSUME NEW k \in Sockets, Done(k) PROVE ErrorExcludesAnswer'
    BY <1>15 DEF Done, SendRaises, goto
  <1>16. ASSUME NEW k \in Sockets, Receive(k) PROVE ErrorExcludesAnswer'
    BY <1>16 DEF Receive, goto
  <1>17. ASSUME NEW k \in Sockets, ReceiveRaises(k) PROVE ErrorExcludesAnswer'
    BY <1>17 DEF ReceiveRaises, EndHandler, goto
  <1>18. ASSUME NEW k \in Sockets, Disconnect(k) PROVE ErrorExcludesAnswer'
    BY <1>18 DEF Disconnect
  <1>19. ASSUME NEW k \in Sockets, Poll(k) PROVE ErrorExcludesAnswer'
    BY <1>19 DEF Poll, SendThen, Sends, SendRaises, goto, TakeTraces
  <1>20. ASSUME NEW k \in Sockets, AgentSpeaks(k) PROVE ErrorExcludesAnswer'
    BY <1>20 DEF AgentSpeaks
  <1>21. ASSUME NEW k \in Sockets, ChatReturns(k) PROVE ErrorExcludesAnswer'
    BY <1>21 DEF ChatReturns
  <1>22. ASSUME NEW k \in Sockets, ChatRaises(k) PROVE ErrorExcludesAnswer'
    BY <1>22 DEF ChatRaises
  <1>23. CASE UNCHANGED vars
    BY <1>23 DEF vars
  <1> QED
    BY <1>1, <1>2, <1>3, <1>4, <1>5, <1>6, <1>7, <1>8, <1>9, <1>10, <1>11, <1>12, <1>13, <1>14, <1>15, <1>16, <1>17, <1>18, <1>19, <1>20, <1>21, <1>22, <1>23 DEF Next, Handler

LEMMA FailureStep == BridgeInv /\ [Next]_vars => FailureLoggedAlone'
  <1> SUFFICES ASSUME BridgeInv, [Next]_vars PROVE FailureLoggedAlone'
    OBVIOUS
  <1> USE DEF wire, db
  <1>a. \A m \in Msgs : Failed(m) => ~Succeeded(m)
    BY DEF BridgeInv, OutcomeAgrees, FailureLoggedAlone, Failed, Succeeded
  <1>b. SUFFICES \A m \in Msgs : Failed(m)' => ~Succeeded(m)'
    BY DEF FailureLoggedAlone, Failed, Succeeded, Msgs
  <1>1. CASE UNCHANGED <<answers, requestLog>>
    BY <1>a, <1>1 DEF Failed, Succeeded
  <1>2. ASSUME NEW k \in Sockets, Persist(k) PROVE \A m \in Msgs : Failed(m)' => ~Succeeded(m)'
    <2>1. \A m : Failed(m)' <=> Failed(m)
      BY <1>2 DEF Persist, Failed
    <2>2. \A m : m # current(k) => (Succeeded(m)' <=> Succeeded(m))
      BY <1>2 DEF Persist, Succeeded
    <2>3. ~Failed(current(k))
      BY <1>2 DEF Persist, BridgeInv, LogInv, Unanswered
    <2> QED
      BY <1>a, <2>1, <2>2, <2>3
  <1>3. ASSUME NEW k \in Sockets, LogError(k) PROVE \A m \in Msgs : Failed(m)' => ~Succeeded(m)'
    <2>1. \A m : m # current(k) => (Failed(m)' <=> Failed(m))
      BY <1>3 DEF LogError, Failed
    <2>2. \A m : Succeeded(m)' <=> Succeeded(m)
      BY <1>3 DEF LogError, Succeeded
    <2>3. ~Succeeded(current(k))
      BY <1>3 DEF LogError, BridgeInv, LogInv
    <2> QED
      BY <1>a, <2>1, <2>2, <2>3
  <1>4. UNCHANGED <<answers, requestLog>> \/ \E k \in Sockets : Persist(k) \/ LogError(k)
    BY DEF Next, Handler, vars, AdmitRaises, Refuse, Admit, SaveUser, CommitUser, Start, PollEnds,
           FinalDrain, NoReply, Emit, EmitWidget, ReportError, Done, Receive, ReceiveRaises,
           Disconnect, Poll, AgentSpeaks, ChatReturns, ChatRaises
  <1> QED
    BY <1>1, <1>2, <1>3, <1>4

LEMMA TraceStep == BridgeInv /\ [Next]_vars => TraceNotStale'
  <1> SUFFICES ASSUME TypeOK, DrainInv, TraceNotStale, [Next]_vars PROVE TraceNotStale'
    BY DEF BridgeInv
  <1> USE BridgeAssumption DEF wire, db, TypeOK, HandlerStates, DrainInv, TraceNotStale
  <1>1. ASSUME NEW k \in Sockets, AdmitRaises(k) PROVE TraceNotStale'
    BY <1>1 DEF AdmitRaises, EndHandler, goto
  <1>2. ASSUME NEW k \in Sockets, Refuse(k) PROVE TraceNotStale'
    BY <1>2 DEF Refuse, SendThen, Sends, SendRaises, goto
  <1>3. ASSUME NEW k \in Sockets, Admit(k) PROVE TraceNotStale'
    BY <1>3 DEF Admit, SendThen, Sends, SendRaises, goto
  <1>4. ASSUME NEW k \in Sockets, SaveUser(k) PROVE TraceNotStale'
    BY <1>4 DEF SaveUser, goto
  <1>5. ASSUME NEW k \in Sockets, CommitUser(k) PROVE TraceNotStale'
    BY <1>5 DEF CommitUser, goto
  <1>6. ASSUME NEW k \in Sockets, Start(k) PROVE TraceNotStale'
    BY <1>6 DEF Start, Sends, SendRaises, goto
  <1>7. ASSUME NEW k \in Sockets, PollEnds(k) PROVE TraceNotStale'
    BY <1>7 DEF PollEnds, goto
  <1>8. ASSUME NEW k \in Sockets, FinalDrain(k) PROVE TraceNotStale'
    BY <1>8 DEF FinalDrain, SendRaises, goto, TakeTraces
  <1>9. ASSUME NEW k \in Sockets, NoReply(k) PROVE TraceNotStale'
    BY <1>9 DEF NoReply, SendThen, Sends, SendRaises, goto
  <1>10. ASSUME NEW k \in Sockets, Persist(k) PROVE TraceNotStale'
    BY <1>10 DEF Persist, goto
  <1>11. ASSUME NEW k \in Sockets, Emit(k) PROVE TraceNotStale'
    BY <1>11 DEF Emit, SendThen, Sends, SendRaises, goto
  <1>12. ASSUME NEW k \in Sockets, EmitWidget(k) PROVE TraceNotStale'
    BY <1>12 DEF EmitWidget, SendThen, Sends, SendRaises, goto
  <1>13. ASSUME NEW k \in Sockets, ReportError(k) PROVE TraceNotStale'
    BY <1>13 DEF ReportError, SendThen, Sends, SendRaises, goto
  <1>14. ASSUME NEW k \in Sockets, LogError(k) PROVE TraceNotStale'
    BY <1>14 DEF LogError, goto
  <1>15. ASSUME NEW k \in Sockets, Done(k) PROVE TraceNotStale'
    BY <1>15 DEF Done, SendRaises, goto
  <1>16. ASSUME NEW k \in Sockets, Receive(k) PROVE TraceNotStale'
    BY <1>16 DEF Receive, goto
  <1>17. ASSUME NEW k \in Sockets, ReceiveRaises(k) PROVE TraceNotStale'
    BY <1>17 DEF ReceiveRaises, EndHandler, goto
  <1>18. ASSUME NEW k \in Sockets, Disconnect(k) PROVE TraceNotStale'
    BY <1>18 DEF Disconnect
  <1>19. ASSUME NEW k \in Sockets, Poll(k) PROVE TraceNotStale'
    BY <1>19 DEF Poll, SendThen, Sends, SendRaises, goto, TakeTraces
  <1>20. ASSUME NEW k \in Sockets, AgentSpeaks(k) PROVE TraceNotStale'
    BY <1>20 DEF AgentSpeaks
  <1>21. ASSUME NEW k \in Sockets, ChatReturns(k) PROVE TraceNotStale'
    BY <1>21 DEF ChatReturns
  <1>22. ASSUME NEW k \in Sockets, ChatRaises(k) PROVE TraceNotStale'
    BY <1>22 DEF ChatRaises
  <1>23. CASE UNCHANGED vars
    BY <1>23 DEF vars
  <1> QED
    BY <1>1, <1>2, <1>3, <1>4, <1>5, <1>6, <1>7, <1>8, <1>9, <1>10, <1>11, <1>12, <1>13, <1>14, <1>15, <1>16, <1>17, <1>18, <1>19, <1>20, <1>21, <1>22, <1>23 DEF Next, Handler

LEMMA TitleStep == BridgeInv /\ [Next]_vars => TitleNotLate'
  <1> SUFFICES ASSUME TypeOK, CountInv, TitleNotLate, [Next]_vars PROVE TitleNotLate'
    BY DEF BridgeInv
  <1> USE BridgeAssumption DEF wire, db, TypeOK, HandlerStates, CountInv, TitleNotLate
  <1>1. ASSUME NEW k \in Sockets, AdmitRaises(k) PROVE TitleNotLate'
    BY <1>1 DEF AdmitRaises, EndHandler, goto
  <1>2. ASSUME NEW k \in Sockets, Refuse(k) PROVE TitleNotLate'
    BY <1>2 DEF Refuse, SendThen, Sends, SendRaises, goto
  <1>3. ASSUME NEW k \in Sockets, Admit(k) PROVE TitleNotLate'
    BY <1>3 DEF Admit, SendThen, Sends, SendRaises, goto
  <1>4. ASSUME NEW k \in Sockets, SaveUser(k) PROVE TitleNotLate'
    <2>1. \A j \in Sockets \ {k} : wantsTitle'[j] = wantsTitle[j]
      BY <1>4, Zenon DEF SaveUser
    <2>2. wantsTitle'[k] => before[k].count = 0
      <3>1. wantsTitle'[k] = (messageCount = 0)
        BY <1>4, Zenon DEF SaveUser
      <3>2. messageCount = 0 => before[k].count = 0
        OBVIOUS
      <3> QED
        BY <3>1, <3>2, Zenon
    <2>3. UNCHANGED <<title, saved, before>>
      BY <1>4 DEF SaveUser
    <2>4. \A j \in Sockets : wantsTitle'[j] => before'[j].count = 0
      BY <2>1, <2>2, <2>3, Zenon DEF TitleNotLate
    <2> QED
      BY <2>3, <2>4
  <1>5. ASSUME NEW k \in Sockets, CommitUser(k) PROVE TitleNotLate'
    BY <1>5 DEF CommitUser, goto
  <1>6. ASSUME NEW k \in Sockets, Start(k) PROVE TitleNotLate'
    BY <1>6 DEF Start, Sends, SendRaises, goto
  <1>7. ASSUME NEW k \in Sockets, PollEnds(k) PROVE TitleNotLate'
    BY <1>7 DEF PollEnds, goto
  <1>8. ASSUME NEW k \in Sockets, FinalDrain(k) PROVE TitleNotLate'
    BY <1>8 DEF FinalDrain, SendRaises, goto, TakeTraces
  <1>9. ASSUME NEW k \in Sockets, NoReply(k) PROVE TitleNotLate'
    BY <1>9 DEF NoReply, SendThen, Sends, SendRaises, goto
  <1>10. ASSUME NEW k \in Sockets, Persist(k) PROVE TitleNotLate'
    BY <1>10 DEF Persist, goto
  <1>11. ASSUME NEW k \in Sockets, Emit(k) PROVE TitleNotLate'
    BY <1>11 DEF Emit, SendThen, Sends, SendRaises, goto
  <1>12. ASSUME NEW k \in Sockets, EmitWidget(k) PROVE TitleNotLate'
    BY <1>12 DEF EmitWidget, SendThen, Sends, SendRaises, goto
  <1>13. ASSUME NEW k \in Sockets, ReportError(k) PROVE TitleNotLate'
    BY <1>13 DEF ReportError, SendThen, Sends, SendRaises, goto
  <1>14. ASSUME NEW k \in Sockets, LogError(k) PROVE TitleNotLate'
    BY <1>14 DEF LogError, goto
  <1>15. ASSUME NEW k \in Sockets, Done(k) PROVE TitleNotLate'
    BY <1>15 DEF Done, SendRaises, goto
  <1>16. ASSUME NEW k \in Sockets, Receive(k) PROVE TitleNotLate'
    BY <1>16 DEF Receive, goto
  <1>17. ASSUME NEW k \in Sockets, ReceiveRaises(k) PROVE TitleNotLate'
    BY <1>17 DEF ReceiveRaises, EndHandler, goto
  <1>18. ASSUME NEW k \in Sockets, Disconnect(k) PROVE TitleNotLate'
    BY <1>18 DEF Disconnect
  <1>19. ASSUME NEW k \in Sockets, Poll(k) PROVE TitleNotLate'
    BY <1>19 DEF Poll, SendThen, Sends, SendRaises, goto, TakeTraces
  <1>20. ASSUME NEW k \in Sockets, AgentSpeaks(k) PROVE TitleNotLate'
    BY <1>20 DEF AgentSpeaks
  <1>21. ASSUME NEW k \in Sockets, ChatReturns(k) PROVE TitleNotLate'
    BY <1>21 DEF ChatReturns
  <1>22. ASSUME NEW k \in Sockets, ChatRaises(k) PROVE TitleNotLate'
    BY <1>22 DEF ChatRaises
  <1>23. CASE UNCHANGED vars
    BY <1>23 DEF vars
  <1> QED
    BY <1>1, <1>2, <1>3, <1>4, <1>5, <1>6, <1>7, <1>8, <1>9, <1>10, <1>11, <1>12, <1>13, <1>14, <1>15, <1>16, <1>17, <1>18, <1>19, <1>20, <1>21, <1>22, <1>23 DEF Next, Handler

LEMMA InitInv == Init => BridgeInv
  <1> SUFFICES ASSUME Init PROVE BridgeInv
    OBVIOUS
  <1> USE BridgeAssumption DEF Init
  <1>1. TypeOK
    BY DEF TypeOK, HandlerStates
  <1>2. CycleInv /\ RunningInv
    BY DEF CycleInv, RunningInv, Unanswered
  <1>3. LogInv
    BY DEF LogInv, Unanswered, Succeeded, Failed
  <1>4. DrainInv /\ CountInv /\ DoneInv
    BY DEF DrainInv, CountInv, DoneInv
  <1>5. OutcomeAgrees
    BY DEF OutcomeAgrees, ErrorExcludesAnswer, FailureLoggedAlone
  <1>6. TraceNotStale /\ TitleNotLate
    BY DEF TraceNotStale, TitleNotLate
  <1> QED
    BY <1>1, <1>2, <1>3, <1>4, <1>5, <1>6 DEF BridgeInv

LEMMA BridgeInvariant == Spec => []BridgeInv
  <1>1. BridgeInv /\ [Next]_vars => BridgeInv'
    BY TypeStep, CycleStep, LogStep, RunningStep, DrainStep, CountStep, DoneStep, OutcomeStep,
       FailureStep, TraceStep, TitleStep DEF BridgeInv, OutcomeAgrees
  <1> QED
    BY InitInv, <1>1, PTL DEF Spec

-----------------------------------------------------------------------------
\* Types: handlers, chats, rows and queues are always what the code can make of them.
THEOREM TypeCorrect == Spec => []TypeOK
  <1>1. BridgeInv => TypeOK
    BY DEF BridgeInv
  <1> QED
    BY <1>1, BridgeInvariant, PTL

\* The client, the database and the log are told the same of a message, whatever sends
\* and transactions fail: the order of persist, send and except in process_chat_message.
THEOREM OutcomeTold == Spec => []OutcomeAgrees
  <1>1. BridgeInv => OutcomeAgrees
    BY DEF BridgeInv
  <1> QED
    BY <1>1, BridgeInvariant, PTL

\* The queue the chats of a session share does not carry what one message left behind
\* into what is stored with a later one (_drain_debug_events).
THEOREM TracesFresh == Spec => []TraceNotStale
  <1>1. BridgeInv => TraceNotStale
    BY DEF BridgeInv
  <1> QED
    BY <1>1, BridgeInvariant, PTL

\* A conversation is named by a message that was sent before it had an answer, although
\* message_count is read in one transaction and counted in a thread.
THEOREM TitleEarly == Spec => []TitleNotLate
  <1>1. BridgeInv => TitleNotLate
    BY DEF BridgeInv
  <1> QED
    BY <1>1, BridgeInvariant, PTL

\* The safe half of EachMessageClosed: no message is closed twice, and a handler that
\* waits for the next one has closed all before it.
THEOREM ClosedOnce ==
  Spec => [](\A k \in Sockets : /\ dones[k] <= received[k]
                                /\ pc[k] = "recv" /\ conn[k] = "open" => dones[k] = received[k])
  <1>1. BridgeInv => \A k \in Sockets : /\ dones[k] <= received[k]
                                        /\ pc[k] = "recv" /\ conn[k] = "open" => dones[k] = received[k]
    BY DEF BridgeInv, DoneInv
  <1> QED
    BY <1>1, BridgeInvariant, PTL
=============================================================================
