----------------------- MODULE SessionLifecycleProofs -----------------------
(***************************************************************************)
(* Proofs about SessionLifecycle, for every set of sessions and of         *)
(* connections, every timeout and every bound on the messages.             *)
(***************************************************************************)
EXTENDS SessionLifecycle, TLAPS

\* The initial state satisfies the inductive invariant.
LEMMA InitInv == Init => SessionInv
  <1> USE ThreadsAssumption, BoundsAssumption
  <1> SUFFICES ASSUME Init PROVE SessionInv
    OBVIOUS
  <1>1. TypeOK
    BY DEF Init, TypeOK, Threads, Idle
  <1>2. SockInv /\ EagerInv /\ RunInv
    BY DEF Init, SockInv, EagerInv, RunInv, Threads
  <1>3. LockInv /\ MadeInv /\ ErrorInv /\ CountInv
    BY DEF Init, LockInv, MadeInv, ErrorInv, CountInv, Threads
  <1>4. TornDownOnce /\ Reapable
    BY DEF Init, TornDownOnce, Reapable
  <1> QED
    BY <1>1, <1>2, <1>3, <1>4 DEF SessionInv

\* What destroying a set of sessions, once or in a round, does.
LEMMA DestroyEffect ==
  ASSUME TypeOK, NEW S, DestroyAll(S)
  PROVE  /\ sessions' = sessions \ S
         /\ torn' \in [Sessions -> Nat]
         /\ \A s \in Sessions : torn'[s] = IF s \in S \cap sessions /\ made[s] > 0
                                          THEN torn[s] + 1 ELSE torn[s]
  BY DEF TypeOK, DestroyAll, Close

\* Every step keeps every variable in its type.
LEMMA TypeStep == TypeOK /\ SockInv /\ [Next]_vars => TypeOK'
  <1> USE ThreadsAssumption, BoundsAssumption DEF TypeOK, Threads, Idle, Target, fields
  <1> SUFFICES ASSUME TypeOK, SockInv, [Next]_vars PROVE TypeOK'
    OBVIOUS
  <1>0. \A t \in Threads : pc[t] # "idle" => Target(t) \in Sessions
    BY DEF SockInv
  <1>1. ASSUME NEW s \in Sessions, Create(s) PROVE TypeOK'
    BY <1>1 DEF Create
  <1>2. ASSUME NEW s \in Sessions, Destroy(s) PROVE TypeOK'
    BY <1>2, DestroyEffect DEF Destroy
  <1>3. CASE Tick
    BY <1>3 DEF Tick
  <1>4. CASE Sweep
    BY <1>4, DestroyEffect DEF Sweep
  <1>5. CASE Shutdown
    BY <1>5, DestroyEffect DEF Shutdown
  <1>6. ASSUME NEW k \in Sockets, NEW s \in Sessions, Connect(k, s) PROVE TypeOK'
    BY <1>6 DEF Connect
  <1>7. ASSUME NEW k \in Sockets, Receive(k) PROVE TypeOK'
    BY <1>7 DEF Receive, SockInv
  <1>8. ASSUME NEW k \in Sockets, Refuse(k) \/ Dispatch(k) \/ Disconnect(k) PROVE TypeOK'
    BY <1>8 DEF Refuse, Dispatch, Disconnect
  <1>9. ASSUME NEW t \in Threads, FindReady(t) \/ StartBuild(t) PROVE TypeOK'
    BY <1>9, <1>0 DEF FindReady, StartBuild
  <1>10. ASSUME NEW t \in Threads, Build(t) PROVE TypeOK'
    BY <1>10, <1>0 DEF Build
  <1>11. ASSUME NEW t \in Threads, BuildFails(t) PROVE TypeOK'
    <2>1. initError' \in [Sessions -> BOOLEAN]
      BY <1>11, <1>0 DEF BuildFails
    <2> QED
      BY <1>11, <1>0, <2>1 DEF BuildFails
  <1>12. ASSUME NEW t \in Threads, Publish(t) PROVE TypeOK'
    BY <1>12, <1>0 DEF Publish
  <1>13. ASSUME NEW k \in Sockets, ChatStep(k) PROVE TypeOK'
    BY <1>13 DEF ChatStep, FastPath, FindBroken, Answer, ChatFails, SockInv
  <1>14. CASE UNCHANGED vars
    BY <1>14 DEF vars
  <1> QED
    BY <1>1, <1>2, <1>3, <1>4, <1>5, <1>6, <1>7, <1>8, <1>9, <1>10, <1>11, <1>12,
       <1>13, <1>14
    DEF Next, InitStep

\* The inductive invariant is preserved by every step.
LEMMA InvStep == SessionInv /\ [Next]_vars => SessionInv'
  <1> USE ThreadsAssumption, BoundsAssumption DEF Threads, Target, fields
  <1> SUFFICES ASSUME SessionInv, [Next]_vars PROVE SessionInv'
    OBVIOUS
  <1> USE DEF SessionInv
  <1>0. TypeOK'
    BY TypeStep
  <1>a. \A t \in Threads : pc[t] # "idle" => Target(t) \in created
    BY DEF SockInv, EagerInv, TypeOK
  <1>b. \A s \in Sessions : torn[s] >= 0 /\ made[s] >= 0
    BY DEF TypeOK
  <1>1. ASSUME NEW s \in Sessions, Create(s) PROVE SessionInv'
    <2>1. SockInv'
      BY <1>1, <1>a
      DEF Create, TypeOK, SockInv
    <2>2. EagerInv'
      BY <1>1
      DEF Create, TypeOK, EagerInv
    <2>3. LockInv'
      BY <1>1, <1>a
      DEF Create, TypeOK, LockInv, SockInv, EagerInv
    <2>4. MadeInv'
      BY <1>1, <1>a
      DEF Create, TypeOK, MadeInv, LockInv, SockInv, EagerInv
    <2>5. ErrorInv'
      BY <1>1, <1>a
      DEF Create, TypeOK, ErrorInv, LockInv, MadeInv, EagerInv, SockInv
    <2>6. RunInv'
      BY <1>1
      DEF Create, TypeOK, RunInv, SockInv, ErrorInv, LockInv
    <2>7. TornDownOnce'
      BY <1>1, <1>b
      DEF Create, TypeOK, TornDownOnce, MadeInv, SockInv
    <2>8. Reapable'
      BY <1>1
      DEF Create, TypeOK, Reapable, SockInv
    <2>9. CountInv'
      BY <1>1 DEF Create, CountInv
    <2> QED
      BY <1>0, <2>1, <2>2, <2>3, <2>4, <2>5, <2>6, <2>7, <2>8, <2>9
  <1>2. ASSUME NEW s \in Sessions, Destroy(s) PROVE SessionInv'
    <2>1. TornDownOnce'
      BY <1>2, <1>b, DestroyEffect
      DEF Destroy, TypeOK, TornDownOnce, MadeInv, SockInv
    <2>2. Reapable'
      BY <1>2, DestroyEffect
      DEF Destroy, TypeOK, Reapable, SockInv
    <2>3. SockInv' /\ EagerInv' /\ LockInv' /\ MadeInv' /\ ErrorInv' /\ RunInv' /\ CountInv'
      BY <1>2 DEF Destroy, SockInv, EagerInv, LockInv, MadeInv, ErrorInv, RunInv, CountInv
    <2> QED
      BY <1>0, <2>1, <2>2, <2>3
  <1>3. CASE Tick
    <2>1. Reapable'
      BY <1>3
      DEF Tick, TypeOK, Reapable, SockInv
    <2>2. SockInv' /\ EagerInv' /\ LockInv' /\ MadeInv' /\ ErrorInv' /\ RunInv' /\ CountInv' /\ TornDownOnce'
      BY <1>3 DEF Tick, SockInv, EagerInv, LockInv, MadeInv, ErrorInv, RunInv, CountInv, TornDownOnce
    <2> QED
      BY <1>0, <2>1, <2>2
  <1>4. CASE Sweep
    <2>1. TornDownOnce'
      <3>1. DestroyAll(Expired) /\ made' = made
        BY <1>4 DEF Sweep
      <3>2. /\ sessions' = sessions \ Expired
            /\ \A s \in Sessions : torn'[s] = IF s \in Expired \cap sessions /\ made[s] > 0
                                              THEN torn[s] + 1 ELSE torn[s]
        BY <3>1, DestroyEffect
      <3>3. \A s \in Sessions : torn[s] \in Nat /\ made[s] \in Nat
        BY DEF TypeOK
      <3> QED
        BY <3>1, <3>2, <3>3 DEF TornDownOnce, MadeInv
    <2>2. Reapable'
      <3> SUFFICES ASSUME NEW s \in sessions' PROVE lastActivity'[s] # Untracked
        BY DEF Reapable
      <3>1. s \in sessions /\ s \notin Expired
        BY <1>4, DestroyEffect DEF Sweep
      <3>2. lastActivity'[s] = lastActivity[s]
        BY <1>4, <3>1 DEF Sweep, TypeOK
      <3> QED
        BY <3>1, <3>2 DEF Reapable
    <2>3. SockInv' /\ EagerInv' /\ LockInv' /\ MadeInv' /\ ErrorInv' /\ RunInv' /\ CountInv'
      BY <1>4 DEF Sweep, SockInv, EagerInv, LockInv, MadeInv, ErrorInv, RunInv, CountInv
    <2> QED
      BY <1>0, <2>1, <2>2, <2>3
  <1>5. CASE Shutdown
    <2>1. SockInv'
      BY <1>5, DestroyEffect
      DEF Shutdown, TypeOK, SockInv
    <2>2. TornDownOnce'
      BY <1>5, <1>b, DestroyEffect
      DEF Shutdown, TypeOK, TornDownOnce, MadeInv, SockInv
    <2>3. Reapable'
      BY <1>5, DestroyEffect
      DEF Shutdown, TypeOK, Reapable, SockInv
    <2>4. EagerInv' /\ LockInv' /\ MadeInv' /\ ErrorInv' /\ RunInv' /\ CountInv'
      BY <1>5 DEF Shutdown, EagerInv, LockInv, MadeInv, ErrorInv, RunInv, CountInv
    <2> QED
      BY <1>0, <2>1, <2>2, <2>3, <2>4
  <1>6. ASSUME NEW k \in Sockets, NEW s \in Sessions, Connect(k, s) PROVE SessionInv'
    <2>1. SockInv'
      BY <1>6, <1>a
      DEF Connect, TypeOK, SockInv
    <2>2. LockInv'
      BY <1>6, <1>a
      DEF Connect, TypeOK, LockInv, SockInv, EagerInv
    <2>3. RunInv'
      BY <1>6
      DEF Connect, TypeOK, RunInv, SockInv, ErrorInv, LockInv
    <2>4. EagerInv' /\ MadeInv' /\ ErrorInv' /\ CountInv' /\ TornDownOnce' /\ Reapable'
      BY <1>6 DEF Connect, EagerInv, MadeInv, ErrorInv, CountInv, TornDownOnce, Reapable
    <2> QED
      BY <1>0, <2>1, <2>2, <2>3, <2>4
  <1>7. ASSUME NEW k \in Sockets, Receive(k) PROVE SessionInv'
    <2>1. SockInv'
      BY <1>7, <1>a
      DEF Receive, TypeOK, SockInv
    <2>2. EagerInv'
      BY <1>7
      DEF Receive, TypeOK, EagerInv
    <2>3. LockInv'
      BY <1>7, <1>a
      DEF Receive, TypeOK, LockInv, SockInv, EagerInv
    <2>4. MadeInv'
      BY <1>7, <1>a
      DEF Receive, TypeOK, MadeInv, LockInv, SockInv, EagerInv
    <2>5. ErrorInv'
      BY <1>7, <1>a
      DEF Receive, TypeOK, ErrorInv, LockInv, MadeInv, EagerInv, SockInv
    <2>6. RunInv'
      BY <1>7
      DEF Receive, TypeOK, RunInv, SockInv, ErrorInv, LockInv
    <2>7. Reapable'
      BY <1>7
      DEF Receive, TypeOK, Reapable, SockInv
    <2>8. CountInv' /\ TornDownOnce'
      BY <1>7 DEF Receive, CountInv, TornDownOnce
    <2> QED
      BY <1>0, <2>1, <2>2, <2>3, <2>4, <2>5, <2>6, <2>7, <2>8
  <1>8. ASSUME NEW k \in Sockets, Refuse(k) PROVE SessionInv'
    <2>1. SockInv'
      BY <1>8, <1>a
      DEF Refuse, TypeOK, SockInv
    <2>2. EagerInv'
      BY <1>8
      DEF Refuse, TypeOK, EagerInv
    <2>3. LockInv'
      BY <1>8, <1>a
      DEF Refuse, TypeOK, LockInv, SockInv, EagerInv
    <2>4. MadeInv'
      BY <1>8, <1>a
      DEF Refuse, TypeOK, MadeInv, LockInv, SockInv, EagerInv
    <2>5. ErrorInv'
      BY <1>8, <1>a
      DEF Refuse, TypeOK, ErrorInv, LockInv, MadeInv, EagerInv, SockInv
    <2>6. RunInv'
      BY <1>8
      DEF Refuse, TypeOK, RunInv, SockInv, ErrorInv, LockInv
    <2>7. CountInv' /\ TornDownOnce' /\ Reapable'
      BY <1>8 DEF Refuse, CountInv, TornDownOnce, Reapable
    <2> QED
      BY <1>0, <2>1, <2>2, <2>3, <2>4, <2>5, <2>6, <2>7
  <1>9. ASSUME NEW k \in Sockets, Dispatch(k) PROVE SessionInv'
    <2>1. SockInv'
      BY <1>9, <1>a
      DEF Dispatch, TypeOK, SockInv
    <2>2. EagerInv'
      BY <1>9
      DEF Dispatch, TypeOK, EagerInv
    <2>3. LockInv'
      BY <1>9, <1>a
      DEF Dispatch, TypeOK, LockInv, SockInv, EagerInv
    <2>4. MadeInv'
      BY <1>9, <1>a
      DEF Dispatch, TypeOK, MadeInv, LockInv, SockInv, EagerInv
    <2>5. ErrorInv'
      BY <1>9, <1>a
      DEF Dispatch, TypeOK, ErrorInv, LockInv, MadeInv, EagerInv, SockInv
    <2>6. RunInv'
      BY <1>9
      DEF Dispatch, TypeOK, RunInv, SockInv, ErrorInv, LockInv
    <2>7. CountInv' /\ TornDownOnce' /\ Reapable'
      BY <1>9 DEF Dispatch, CountInv, TornDownOnce, Reapable
    <2> QED
      BY <1>0, <2>1, <2>2, <2>3, <2>4, <2>5, <2>6, <2>7
  <1>10. ASSUME NEW k \in Sockets, Disconnect(k) PROVE SessionInv'
    <2>1. SockInv'
      BY <1>10, <1>a
      DEF Disconnect, TypeOK, SockInv
    <2>2. EagerInv' /\ LockInv' /\ MadeInv' /\ ErrorInv' /\ RunInv' /\ CountInv' /\ TornDownOnce' /\ Reapable'
      BY <1>10 DEF Disconnect, EagerInv, LockInv, MadeInv, ErrorInv, RunInv, CountInv, TornDownOnce, Reapable
    <2> QED
      BY <1>0, <2>1, <2>2
  <1>11. ASSUME NEW t \in Threads, FindReady(t) PROVE SessionInv'
    <2>1. SockInv'
      BY <1>11, <1>a
      DEF FindReady, TypeOK, SockInv
    <2>2. EagerInv'
      BY <1>11
      DEF FindReady, TypeOK, EagerInv
    <2>3. LockInv'
      BY <1>11, <1>a
      DEF FindReady, TypeOK, LockInv, SockInv, EagerInv
    <2>4. MadeInv'
      BY <1>11, <1>a
      DEF FindReady, TypeOK, MadeInv, LockInv, SockInv, EagerInv
    <2>5. ErrorInv'
      BY <1>11, <1>a
      DEF FindReady, TypeOK, ErrorInv, LockInv, MadeInv, EagerInv, SockInv
    <2>6. RunInv'
      BY <1>11
      DEF FindReady, TypeOK, RunInv, SockInv, ErrorInv, LockInv
    <2>7. CountInv' /\ TornDownOnce' /\ Reapable'
      BY <1>11 DEF FindReady, CountInv, TornDownOnce, Reapable
    <2> QED
      BY <1>0, <2>1, <2>2, <2>3, <2>4, <2>5, <2>6, <2>7
  <1>12. ASSUME NEW t \in Threads, StartBuild(t) PROVE SessionInv'
    <2>1. SockInv'
      BY <1>12, <1>a
      DEF StartBuild, TypeOK, SockInv
    <2>2. EagerInv'
      BY <1>12
      DEF StartBuild, TypeOK, EagerInv
    <2>3. LockInv'
      BY <1>12, <1>a
      DEF StartBuild, TypeOK, LockInv, SockInv, EagerInv
    <2>4. MadeInv'
      BY <1>12, <1>a
      DEF StartBuild, TypeOK, MadeInv, LockInv, SockInv, EagerInv
    <2>5. ErrorInv'
      BY <1>12, <1>a
      DEF StartBuild, TypeOK, ErrorInv, LockInv, MadeInv, EagerInv, SockInv
    <2>6. RunInv'
      BY <1>12
      DEF StartBuild, TypeOK, RunInv, SockInv, ErrorInv, LockInv
    <2>7. CountInv' /\ TornDownOnce' /\ Reapable'
      BY <1>12 DEF StartBuild, CountInv, TornDownOnce, Reapable
    <2> QED
      BY <1>0, <2>1, <2>2, <2>3, <2>4, <2>5, <2>6, <2>7
  <1>13. ASSUME NEW t \in Threads, Build(t) PROVE SessionInv'
    <2>1. SockInv'
      BY <1>13, <1>a
      DEF Build, TypeOK, SockInv
    <2>2. EagerInv'
      BY <1>13
      DEF Build, TypeOK, EagerInv
    <2>3. LockInv'
      BY <1>13, <1>a
      DEF Build, TypeOK, LockInv, SockInv, EagerInv
    <2>4. MadeInv'
      BY <1>13, <1>a, <1>b
      DEF Build, TypeOK, MadeInv, LockInv, SockInv, EagerInv
    <2>5. ErrorInv'
      BY <1>13, <1>a
      DEF Build, TypeOK, ErrorInv, LockInv, MadeInv, EagerInv, SockInv
    <2>6. RunInv'
      BY <1>13
      DEF Build, TypeOK, RunInv, SockInv, ErrorInv, LockInv
    <2>7. TornDownOnce'
      BY <1>13, <1>b
      DEF Build, TypeOK, TornDownOnce, MadeInv, SockInv
    <2>8. CountInv' /\ Reapable'
      BY <1>13 DEF Build, CountInv, Reapable
    <2> QED
      BY <1>0, <2>1, <2>2, <2>3, <2>4, <2>5, <2>6, <2>7, <2>8
  <1>14. ASSUME NEW t \in Threads, BuildFails(t) PROVE SessionInv'
    <2>1. SockInv'
      BY <1>14, <1>a
      DEF BuildFails, TypeOK, SockInv
    <2>2. EagerInv'
      BY <1>14
      DEF BuildFails, TypeOK, EagerInv
    <2>3. LockInv'
      BY <1>14, <1>a
      DEF BuildFails, TypeOK, LockInv, SockInv, EagerInv
    <2>4. MadeInv'
      BY <1>14, <1>a
      DEF BuildFails, TypeOK, MadeInv, LockInv, SockInv, EagerInv
    <2>5. ErrorInv'
      BY <1>14, <1>a
      DEF BuildFails, TypeOK, ErrorInv, LockInv, MadeInv, EagerInv, SockInv
    <2>6. RunInv'
      BY <1>14
      DEF BuildFails, TypeOK, RunInv, SockInv, ErrorInv, LockInv
    <2>7. CountInv' /\ TornDownOnce' /\ Reapable'
      BY <1>14 DEF BuildFails, CountInv, TornDownOnce, Reapable
    <2> QED
      BY <1>0, <2>1, <2>2, <2>3, <2>4, <2>5, <2>6, <2>7
  <1>15. ASSUME NEW t \in Threads, Publish(t) PROVE SessionInv'
    <2>1. SockInv'
      BY <1>15, <1>a
      DEF Publish, TypeOK, SockInv
    <2>2. EagerInv'
      BY <1>15
      DEF Publish, TypeOK, EagerInv
    <2>3. LockInv'
      BY <1>15, <1>a
      DEF Publish, TypeOK, LockInv, SockInv, EagerInv
    <2>4. MadeInv'
      BY <1>15, <1>a
      DEF Publish, TypeOK, MadeInv, LockInv, SockInv, EagerInv
    <2>5. ErrorInv'
      BY <1>15, <1>a
      DEF Publish, TypeOK, ErrorInv, LockInv, MadeInv, EagerInv, SockInv
    <2>6. RunInv'
      BY <1>15
      DEF Publish, TypeOK, RunInv, SockInv, ErrorInv, LockInv
    <2>7. CountInv'
      BY <1>15
      DEF Publish, TypeOK, CountInv, RunInv, SockInv
    <2>8. TornDownOnce' /\ Reapable'
      BY <1>15 DEF Publish, TornDownOnce, Reapable
    <2> QED
      BY <1>0, <2>1, <2>2, <2>3, <2>4, <2>5, <2>6, <2>7, <2>8
  <1>16. ASSUME NEW k \in Sockets, FastPath(k) PROVE SessionInv'
    <2>1. SockInv'
      BY <1>16, <1>a
      DEF FastPath, TypeOK, SockInv
    <2>2. EagerInv'
      BY <1>16
      DEF FastPath, TypeOK, EagerInv
    <2>3. LockInv'
      BY <1>16, <1>a
      DEF FastPath, TypeOK, LockInv, SockInv, EagerInv
    <2>4. MadeInv'
      BY <1>16, <1>a
      DEF FastPath, TypeOK, MadeInv, LockInv, SockInv, EagerInv
    <2>5. ErrorInv'
      BY <1>16, <1>a
      DEF FastPath, TypeOK, ErrorInv, LockInv, MadeInv, EagerInv, SockInv
    <2>6. RunInv'
      BY <1>16
      DEF FastPath, TypeOK, RunInv, SockInv, ErrorInv, LockInv
    <2>7. CountInv' /\ TornDownOnce' /\ Reapable'
      BY <1>16 DEF FastPath, CountInv, TornDownOnce, Reapable
    <2> QED
      BY <1>0, <2>1, <2>2, <2>3, <2>4, <2>5, <2>6, <2>7
  <1>17. ASSUME NEW k \in Sockets, FindBroken(k) PROVE SessionInv'
    <2>1. SockInv'
      BY <1>17, <1>a
      DEF FindBroken, TypeOK, SockInv
    <2>2. EagerInv'
      BY <1>17
      DEF FindBroken, TypeOK, EagerInv
    <2>3. LockInv'
      BY <1>17, <1>a
      DEF FindBroken, TypeOK, LockInv, SockInv, EagerInv
    <2>4. MadeInv'
      BY <1>17, <1>a
      DEF FindBroken, TypeOK, MadeInv, LockInv, SockInv, EagerInv
    <2>5. ErrorInv'
      BY <1>17, <1>a
      DEF FindBroken, TypeOK, ErrorInv, LockInv, MadeInv, EagerInv, SockInv
    <2>6. RunInv'
      BY <1>17
      DEF FindBroken, TypeOK, RunInv, SockInv, ErrorInv, LockInv
    <2>7. CountInv' /\ TornDownOnce' /\ Reapable'
      BY <1>17 DEF FindBroken, CountInv, TornDownOnce, Reapable
    <2> QED
      BY <1>0, <2>1, <2>2, <2>3, <2>4, <2>5, <2>6, <2>7
  <1>18. ASSUME NEW k \in Sockets, Answer(k) PROVE SessionInv'
    <2>1. SockInv'
      BY <1>18, <1>a
      DEF Answer, TypeOK, SockInv
    <2>2. EagerInv'
      BY <1>18
      DEF Answer, TypeOK, EagerInv
    <2>3. LockInv'
      BY <1>18, <1>a
      DEF Answer, TypeOK, LockInv, SockInv, EagerInv
    <2>4. MadeInv'
      BY <1>18, <1>a
      DEF Answer, TypeOK, MadeInv, LockInv, SockInv, EagerInv
    <2>5. ErrorInv'
      BY <1>18, <1>a
      DEF Answer, TypeOK, ErrorInv, LockInv, MadeInv, EagerInv, SockInv
    <2>6. RunInv'
      BY <1>18
      DEF Answer, TypeOK, RunInv, SockInv, ErrorInv, LockInv
    <2>7. CountInv'
      BY <1>18
      DEF Answer, TypeOK, CountInv, RunInv, SockInv
    <2>8. TornDownOnce' /\ Reapable'
      BY <1>18 DEF Answer, TornDownOnce, Reapable
    <2> QED
      BY <1>0, <2>1, <2>2, <2>3, <2>4, <2>5, <2>6, <2>7, <2>8
  <1>19. ASSUME NEW k \in Sockets, ChatFails(k) PROVE SessionInv'
    <2>1. SockInv'
      BY <1>19, <1>a
      DEF ChatFails, TypeOK, SockInv
    <2>2. EagerInv'
      BY <1>19
      DEF ChatFails, TypeOK, EagerInv
    <2>3. LockInv'
      BY <1>19, <1>a
      DEF ChatFails, TypeOK, LockInv, SockInv, EagerInv
    <2>4. MadeInv'
      BY <1>19, <1>a
      DEF ChatFails, TypeOK, MadeInv, LockInv, SockInv, EagerInv
    <2>5. ErrorInv'
      BY <1>19, <1>a
      DEF ChatFails, TypeOK, ErrorInv, LockInv, MadeInv, EagerInv, SockInv
    <2>6. RunInv'
      BY <1>19
      DEF ChatFails, TypeOK, RunInv, SockInv, ErrorInv, LockInv
    <2>7. CountInv' /\ TornDownOnce' /\ Reapable'
      BY <1>19 DEF ChatFails, CountInv, TornDownOnce, Reapable
    <2> QED
      BY <1>0, <2>1, <2>2, <2>3, <2>4, <2>5, <2>6, <2>7
  <1>20. CASE UNCHANGED vars
    BY <1>20 DEF vars, TypeOK, SockInv, EagerInv, LockInv, MadeInv, ErrorInv, RunInv, CountInv, TornDownOnce, Reapable, Idle
  <1> QED
    BY <1>1, <1>2, <1>3, <1>4, <1>5, <1>6, <1>7, <1>8, <1>9, <1>10, <1>11,
       <1>12, <1>13, <1>14, <1>15, <1>16, <1>17, <1>18, <1>19, <1>20
    DEF Next, InitStep, ChatStep

(***************************************************************************)
(* The inductive invariant of the specification.  Everything below follows *)
(* from it.                                                                *)
(***************************************************************************)
THEOREM Invariant == Spec => []SessionInv
  <1>1. SessionInv /\ [Next]_vars => SessionInv'
    BY InvStep
  <1> QED
    BY InitInv, <1>1, PTL DEF Spec

\* Type correctness of the session manager's state.
THEOREM TypeCorrect == Spec => []TypeOK
  <1>1. SessionInv => TypeOK
    BY DEF SessionInv
  <1> QED
    BY Invariant, <1>1, PTL

\* However the eager-init thread, the fallback of any number of chats and the
\* unlocked fast path interleave, a chat session gets one agent session at most.
THEOREM OneAgent == Spec => []AtMostOneAgent
  <1>1. SessionInv => AtMostOneAgent
    BY DEF SessionInv, MadeInv, AtMostOneAgent
  <1> QED
    BY Invariant, <1>1, PTL

\* No chat runs on a session whose agent session was not assigned before.
THEOREM ChatOnAgent == Spec => []ChatHasAgent
  <1>1. SessionInv => ChatHasAgent
    <2> SUFFICES ASSUME SessionInv, NEW k \in Sockets, pc[k] = "run"
                 PROVE  made[sock[k]] = 1
      BY DEF ChatHasAgent
    <2>1. sock[k] \in Sessions /\ initialized[sock[k]]
      BY DEF SessionInv, TypeOK, SockInv, RunInv
    <2> QED
      BY <2>1 DEF SessionInv, MadeInv
  <1> QED
    BY Invariant, <1>1, PTL

\* A failed eager initialization leaves a session that never gets an agent and
\* never answers.
THEOREM FailureFinal == Spec => []FailedInitIsFinal
  <1>1. SessionInv => FailedInitIsFinal
    <2> SUFFICES ASSUME SessionInv, NEW s \in Sessions, initError[s]
                 PROVE  ~initialized[s] /\ made[s] = 0 /\ messageCount[s] = 0
      BY DEF FailedInitIsFinal
    <2>1. ~initialized[s] /\ initLock[s] = NoThread
      BY DEF SessionInv, ErrorInv
    <2>2. made[s] = 0
      BY <2>1 DEF SessionInv, MadeInv, TypeOK
    <2>3. messageCount[s] = 0
      BY <2>1 DEF SessionInv, CountInv, TypeOK
    <2> QED
      BY <2>1, <2>2, <2>3
  <1> QED
    BY Invariant, <1>1, PTL

\* No race of user, admin, cleanup loop and shutdown tears an agent down twice.
THEOREM TearDownOnce == Spec => []TornDownOnce
  <1>1. SessionInv => TornDownOnce
    BY DEF SessionInv
  <1> QED
    BY Invariant, <1>1, PTL

\* The cleanup loop sees every registered session.
THEOREM AlwaysReapable == Spec => []Reapable
  <1>1. SessionInv => Reapable
    BY DEF SessionInv
  <1> QED
    BY Invariant, <1>1, PTL

-----------------------------------------------------------------------------
(* The refinement.  What AgentService sees of a step is what it does to the *)
(* agent of one session, or to one call.                                    *)

\* The call of a connection whose thread is at p with session s.
CallOf(p, s) == IF p \in {"idle", "admit"} THEN [at |-> "idle"]
                ELSE [at |-> IF p = "run" THEN "running" ELSE "waiting", on |-> s]

\* The calls after one connection's thread has moved to p.
LEMMA CallMoves ==
  ASSUME TypeOK, NEW k \in Sockets, NEW p, pc' = [pc EXCEPT ![k] = p], UNCHANGED sock
  PROVE  callState' = [callState EXCEPT ![k] = CallOf(p, sock[k])]
  <1>1. \A j \in Sockets : pc'[j] = IF j = k THEN p ELSE pc[j]
    BY DEF TypeOK, Threads
  <1>2. callState = [j \in Sockets |-> CallOf(pc[j], sock[j])]
    BY DEF callState, CallOf
  <1>3. callState' = [j \in Sockets |-> CallOf(pc'[j], sock[j])]
    BY DEF callState, CallOf
  <1> QED
    BY <1>1, <1>2, <1>3

\* The eager thread of a session is no call.
LEMMA CallStays ==
  ASSUME TypeOK, NEW s \in Sessions, NEW p, pc' = [pc EXCEPT ![s] = p], UNCHANGED sock
  PROVE  callState' = callState
  <1>1. \A j \in Sockets : pc'[j] = pc[j]
    BY ThreadsAssumption DEF TypeOK, Threads
  <1> QED
    BY <1>1 DEF callState

LEMMA AgentStays ==
  ASSUME UNCHANGED <<made, torn, initError>>
  PROVE  agentState' = agentState
  BY DEF agentState

\* What a session's agent is, by the lock and the flags.
LEMMA AgentOf ==
  ASSUME SessionInv, NEW s \in Sessions
  PROVE  /\ initialized[s] => agentState[s] \in {"up", "down"}
         /\ initLock[s] # NoThread /\ pc[initLock[s]] = "publish"
              => agentState[s] \in {"up", "down"}
         /\ initLock[s] # NoThread /\ pc[initLock[s]] = "build"
              => made[s] = 0 /\ torn[s] = 0 /\ ~initError[s]
  <1>1. /\ made[s] \in Nat /\ torn[s] \in Nat
        /\ made[s] = 1 <=> \/ initialized[s]
                           \/ initLock[s] # NoThread /\ pc[initLock[s]] = "publish"
        /\ made[s] <= 1
        /\ initialized[s] => initLock[s] = NoThread
    BY DEF SessionInv, TypeOK, MadeInv
  <1>2. torn[s] <= made[s]
    BY DEF SessionInv, TornDownOnce
  <1>3. initError[s] => initLock[s] = NoThread
    BY DEF SessionInv, ErrorInv
  <1> QED
    BY <1>1, <1>2, <1>3 DEF agentState

\* A thread inside _create_cruse_session holds the lock of its session.
LEMMA Builder ==
  ASSUME SessionInv, NEW t \in Threads, pc[t] \in {"build", "publish"}
  PROVE  /\ Target(t) \in Sessions
         /\ initLock[Target(t)] = t
         /\ t # NoThread
  <1>1. Target(t) \in Sessions
    BY DEF SessionInv, TypeOK, SockInv, Target, Threads
  <1> QED
    BY <1>1, ThreadsAssumption DEF SessionInv, LockInv, Threads

\* Destroying sessions retires the agents among them that came up.
LEMMA DestroyRetires ==
  ASSUME SessionInv, NEW S, DestroyAll(S), UNCHANGED <<made, initError, pc>>,
         callState' = callState
  PROVE  Service!SNext
  <1> DEFINE R == {s \in S \cap sessions : made[s] > 0}
  <1>1. R \in SUBSET Sessions
    BY DEF SessionInv, TypeOK
  <1>2. \A s \in R : made[s] = 1 /\ torn[s] = 0
    <2> SUFFICES ASSUME NEW s \in R PROVE made[s] = 1 /\ torn[s] = 0
      OBVIOUS
    <2>1. made[s] \in Nat /\ made[s] <= 1 /\ made[s] > 0 /\ torn[s] \in Nat
      BY <1>1 DEF SessionInv, TypeOK, MadeInv
    <2>2. torn[s] <= 1 /\ torn[s] # 1
      BY <1>1 DEF SessionInv, TornDownOnce
    <2> QED
      BY <2>1, <2>2
  <1>3. \A s \in R : agentState[s] = "up"
    BY <1>1, <1>2 DEF agentState
  <1>4. agentState' = [s \in Sessions |-> IF s \in R THEN "down" ELSE agentState[s]]
    <2>1. \A s \in Sessions : torn'[s] = IF s \in R THEN torn[s] + 1 ELSE torn[s]
      BY DestroyEffect DEF SessionInv
    <2>2. \A s \in R : made[s] = 1 /\ torn'[s] = 1
      BY <1>1, <1>2, <2>1
    <2> QED
      BY <2>1, <2>2 DEF agentState
  <1>5. Service!Retire(R)
    BY <1>3, <1>4 DEF Service!Retire
  <1> QED
    BY <1>1, <1>5 DEF Service!SNext

\* A call that waits for a session whose agent came up is served.
LEMMA CallServed ==
  ASSUME SessionInv, NEW k \in Sockets, pc[k] \in {"check", "lock", "publish"},
         pc' = [pc EXCEPT ![k] = "run"], UNCHANGED <<sock, made, torn, initError>>,
         sock[k] \in Sessions, agentState[sock[k]] \in {"up", "down"}
  PROVE  Service!SNext
  <1>1. callState[k] = Service!Waiting(sock[k])
    BY DEF callState, Service!Waiting
  <1>2. callState' = [callState EXCEPT ![k] = Service!Running(sock[k])]
    BY CallMoves DEF CallOf, Service!Running, SessionInv
  <1>3. agentState' = agentState
    BY AgentStays
  <1>4. Service!Serve(k)
    BY <1>1, <1>2, <1>3 DEF Service!Serve
  <1> QED
    BY <1>4 DEF Service!SNext

\* A call that ends, however it does.
LEMMA CallEnded ==
  ASSUME SessionInv, NEW k \in Sockets, pc[k] \notin {"idle", "admit"},
         pc' = [pc EXCEPT ![k] = "idle"], UNCHANGED <<sock, made, torn, initError>>
  PROVE  Service!SNext
  <1>1. callState[k] # Service!Idle
    <2>1. callState[k].at # "idle"
      BY DEF callState
    <2> QED
      BY <2>1 DEF Service!Idle
  <1>2. callState' = [callState EXCEPT ![k] = Service!Idle]
    BY CallMoves DEF CallOf, Service!Idle, SessionInv
  <1>3. agentState' = agentState
    BY AgentStays
  <1>4. Service!Finish(k)
    BY <1>1, <1>2, <1>3 DEF Service!Finish
  <1> QED
    BY <1>4 DEF Service!SNext


\* Creating an agent session provides it; failing to, in the eager thread, breaks
\* it for good.
LEMMA BuildRefines ==
  ASSUME SessionInv, NEW t \in Threads, Build(t) \/ BuildFails(t)
  PROVE  Service!SNext
  <1> DEFINE s == Target(t)
  <1>1. pc[t] = "build" /\ s \in Sessions /\ initLock[s] = t /\ t # NoThread
    BY Builder DEF Build, BuildFails
  <1>2. made[s] = 0 /\ torn[s] = 0 /\ ~initError[s]
    BY <1>1, AgentOf
  <1>3. agentState[s] = "none"
    BY <1>1, <1>2 DEF agentState
  <1>4. CASE Build(t)
    <2>1. agentState' = [agentState EXCEPT ![s] = "up"]
      <3>1. \A x \in Sessions : made'[x] = IF x = s THEN 1 ELSE made[x]
        BY <1>1, <1>2, <1>4 DEF Build, SessionInv, TypeOK
      <3> HIDE DEF s
      <3>2. torn' = torn /\ initError' = initError
        BY <1>4 DEF Build
      <3>3. agentState'[s] = "up"
        BY <1>1, <1>2, <3>1, <3>2 DEF agentState
      <3>4. \A x \in Sessions : x # s => agentState'[x] = agentState[x]
        BY <3>1, <3>2 DEF agentState
      <3> QED
        BY <1>1, <3>3, <3>4 DEF agentState
    <2>2. \A k \in Sockets : pc[k] \in {"idle", "admit"} <=> pc'[k] \in {"idle", "admit"}
      BY <1>1, <1>4 DEF Build, SessionInv, TypeOK, Threads
    <2>3. \A k \in Sockets : pc[k] = "run" <=> pc'[k] = "run"
      BY <1>1, <1>4 DEF Build, SessionInv, TypeOK, Threads
    <2>4. callState' = callState
      BY <1>4, <2>2, <2>3 DEF Build, callState
    <2>5. Service!Provide(s)
      BY <1>3, <2>1, <2>4 DEF Service!Provide
    <2> QED
      BY <1>1, <2>5 DEF Service!SNext
  <1>5. CASE BuildFails(t) /\ t \in Sessions
    <2>0. s = t
      BY <1>5 DEF Target
    <2>1. agentState' = [agentState EXCEPT ![s] = "broken"]
      <3>1. \A x \in Sessions : initError'[x] = IF x = s THEN TRUE ELSE initError[x]
        BY <1>1, <1>5 DEF BuildFails, SessionInv, TypeOK
      <3>2. UNCHANGED <<made, torn>>
        BY <1>5 DEF BuildFails
      <3> HIDE DEF s
      <3> QED
        BY <1>1, <1>2, <3>1, <3>2 DEF agentState
    <2>2. callState' = callState
      BY <1>5, CallStays DEF BuildFails, SessionInv
    <2>3. Service!Break(s)
      BY <1>3, <2>1, <2>2 DEF Service!Break
    <2> QED
      BY <1>1, <2>3 DEF Service!SNext
  <1>6. CASE BuildFails(t) /\ t \in Sockets
    <2>1. t \notin Sessions
      BY <1>6, ThreadsAssumption
    <2>2. UNCHANGED initError
      BY <1>6, <2>1 DEF BuildFails, SessionInv, TypeOK
    <2> QED
      BY <1>1, <1>6, <2>2, CallEnded DEF BuildFails
  <1> QED
    BY <1>4, <1>5, <1>6 DEF Build, BuildFails, Threads

\* Threads that find the session initialized, or make it so.
LEMMA ReadyRefines ==
  ASSUME SessionInv, NEW t \in Threads, FindReady(t) \/ Publish(t)
  PROVE  [Service!SNext]_(Service!svars)
  <1> DEFINE s == Target(t)
  <1>0. UNCHANGED <<sock, made, torn, initError>>
    BY DEF FindReady, Publish, fields
  <1>1. CASE t \in Sessions
    <2>1. pc' = [pc EXCEPT ![t] = "idle"]
      BY <1>1 DEF FindReady, Publish
    <2>2. callState' = callState /\ agentState' = agentState
      BY <1>0, <1>1, <2>1, CallStays, AgentStays DEF SessionInv
    <2> QED
      BY <2>2 DEF Service!svars
  <1>2. CASE t \in Sockets
    <2>0. t \notin Sessions /\ s = sock[t]
      BY <1>2, ThreadsAssumption DEF Target
    <2>1. pc' = [pc EXCEPT ![t] = "run"] /\ pc[t] \in {"lock", "publish"}
      BY <2>0 DEF FindReady, Publish
    <2>2. sock[t] \in Sessions
      BY <1>2, <2>1 DEF SessionInv, TypeOK, SockInv
    <2>3. agentState[sock[t]] \in {"up", "down"}
      <3>1. CASE FindReady(t)
        BY <2>0, <2>2, <3>1, AgentOf DEF FindReady
      <3>2. CASE Publish(t)
        <4>1. initLock[sock[t]] = t /\ t # NoThread /\ pc[t] = "publish"
          BY <2>0, <3>2, Builder DEF Publish
        <4> QED
          BY <2>2, <4>1, AgentOf
      <3> QED
        BY <3>1, <3>2
    <2> QED
      BY <1>0, <1>2, <2>1, <2>2, <2>3, CallServed
  <1> QED
    BY <1>1, <1>2 DEF Threads

\* The steps of a chat.
LEMMA ChatRefines ==
  ASSUME SessionInv, NEW k \in Sockets, ChatStep(k) \/ Dispatch(k)
  PROVE  [Service!SNext]_(Service!svars)
  <1>0. UNCHANGED <<sock, made, torn, initError>>
    <2>1. ASSUME FastPath(k) \/ FindBroken(k) PROVE UNCHANGED <<sock, made, torn, initError>>
      BY <2>1 DEF FastPath, FindBroken, fields
    <2>2. ASSUME ChatFails(k) \/ Dispatch(k) PROVE UNCHANGED <<sock, made, torn, initError>>
      BY <2>2 DEF ChatFails, Dispatch, fields
    <2>3. ASSUME Answer(k) PROVE UNCHANGED <<sock, made, torn, initError>>
      BY <2>3 DEF Answer
    <2> QED
      BY <2>1, <2>2, <2>3 DEF ChatStep
  <1>1. pc[k] # "idle" /\ sock[k] \in Sessions
    BY DEF ChatStep, Dispatch, FastPath, FindBroken, Answer, ChatFails, SessionInv, TypeOK,
           SockInv
  <1>2. agentState' = agentState
    BY <1>0, AgentStays
  <1>3. CASE FastPath(k) /\ initialized[sock[k]]
    <2>1. agentState[sock[k]] \in {"up", "down"}
      BY <1>1, <1>3, AgentOf
    <2> QED
      BY <1>0, <1>1, <1>3, <2>1, CallServed DEF FastPath
  <1>4. CASE FastPath(k) /\ ~initialized[sock[k]]
    <2>1. pc[k] = "check" /\ pc' = [pc EXCEPT ![k] = "lock"]
      BY <1>4 DEF FastPath
    <2>2. callState' = [callState EXCEPT ![k] = CallOf("lock", sock[k])]
      BY <1>0, <2>1, CallMoves DEF SessionInv
    <2>3. callState[k] = CallOf("lock", sock[k])
      BY <2>1 DEF callState, CallOf
    <2>4. callState' = callState
      BY <2>2, <2>3 DEF callState
    <2> QED
      BY <1>2, <2>4 DEF Service!svars
  <1>5. CASE FindBroken(k) \/ Answer(k) \/ ChatFails(k)
    BY <1>0, <1>5, CallEnded DEF FindBroken, Answer, ChatFails
  <1>6. CASE Dispatch(k)
    <2>1. callState[k] = Service!Idle
      BY <1>6 DEF Dispatch, callState, Service!Idle
    <2>2. callState' = [callState EXCEPT ![k] = Service!Waiting(sock[k])]
      <3>1. CallOf("check", sock[k]) = Service!Waiting(sock[k])
        BY DEF CallOf, Service!Waiting
      <3>2. pc' = [pc EXCEPT ![k] = "check"]
        BY <1>6 DEF Dispatch
      <3> QED
        BY <1>0, <3>1, <3>2, CallMoves DEF SessionInv
    <2>3. Service!Ask(k)
      BY <1>1, <1>2, <2>1, <2>2 DEF Service!Ask
    <2> QED
      BY <2>3 DEF Service!SNext
  <1> QED
    BY <1>3, <1>4, <1>5, <1>6 DEF ChatStep

\* Every step of the session manager is one of AgentService, or changes nothing
\* that it speaks of.
LEMMA StepRefines == SessionInv /\ [Next]_vars => [Service!SNext]_(Service!svars)
  <1> SUFFICES ASSUME SessionInv, [Next]_vars PROVE [Service!SNext]_(Service!svars)
    OBVIOUS
  <1>1. ASSUME NEW s \in Sessions, Create(s) PROVE UNCHANGED <<agentState, callState>>
    BY <1>1, CallStays, AgentStays DEF Create, fields, SessionInv
  <1>2. ASSUME NEW s \in Sessions, Destroy(s) PROVE Service!SNext
    <2>1. callState' = callState
      BY <1>2 DEF Destroy, callState
    <2> QED
      BY <1>2, <2>1, DestroyRetires DEF Destroy
  <1>3. CASE Sweep
    <2>1. callState' = callState
      BY <1>3 DEF Sweep, callState
    <2> QED
      BY <1>3, <2>1, DestroyRetires DEF Sweep
  <1>4. CASE Shutdown
    <2>1. callState' = callState
      BY <1>4 DEF Shutdown, callState
    <2> QED
      BY <1>4, <2>1, DestroyRetires DEF Shutdown
  <1>5. ASSUME NEW k \in Sockets, NEW s \in Sessions, Connect(k, s)
        PROVE  UNCHANGED <<agentState, callState>>
    <2>1. \A j \in Sockets : sock'[j] # sock[j] => pc[j] = "idle"
      BY <1>5 DEF Connect, SessionInv, TypeOK, SockInv
    <2>2. callState' = callState
      BY <1>5, <2>1 DEF Connect, callState
    <2> QED
      BY <1>5, <2>2, AgentStays DEF Connect, fields
  <1>6. ASSUME NEW k \in Sockets, Receive(k) \/ Refuse(k)
        PROVE  UNCHANGED <<agentState, callState>>
    <2>1. \A j \in Sockets : pc'[j] = pc[j] \/ {pc[j], pc'[j]} \subseteq {"idle", "admit"}
      BY <1>6 DEF Receive, Refuse, SessionInv, TypeOK, Threads
    <2>2. callState' = callState
      BY <1>6, <2>1 DEF Receive, Refuse, callState
    <2> QED
      BY <1>6, <2>2, AgentStays DEF Receive, Refuse, fields
  <1>7. ASSUME NEW k \in Sockets, Disconnect(k) PROVE UNCHANGED <<agentState, callState>>
    BY <1>7 DEF Disconnect, fields, agentState, callState
  <1>8. ASSUME Tick \/ UNCHANGED vars PROVE UNCHANGED <<agentState, callState>>
    BY <1>8 DEF Tick, vars, fields, agentState, callState
  <1>9. ASSUME NEW t \in Threads, StartBuild(t) PROVE UNCHANGED <<agentState, callState>>
    <2>1. \A j \in Sockets : pc'[j] = pc[j] \/ (pc[j] = "lock" /\ pc'[j] = "build")
      BY <1>9 DEF StartBuild, SessionInv, TypeOK, Threads
    <2>2. callState' = callState
      BY <1>9, <2>1 DEF StartBuild, callState
    <2> QED
      BY <1>9, <2>2, AgentStays DEF StartBuild
  <1> QED
    BY <1>1, <1>2, <1>3, <1>4, <1>5, <1>6, <1>7, <1>8, <1>9,
       BuildRefines, ReadyRefines, ChatRefines
    DEF Next, InitStep, Service!svars

\* Threads, lock, timeouts and endpoints together keep every promise of
\* AgentService: one agent, never after a failure, retired once, and calls served
\* only by an agent that came up.
THEOREM LifecycleImplementsService == Spec => ImplementsService
  <1>1. Init => Service!SInit
    BY DEF Init, Service!SInit, Service!Idle, agentState, callState, Threads
  <1> QED
    BY <1>1, Invariant, StepRefines, PTL DEF Spec, ImplementsService, Service!SSpec

=============================================================================
