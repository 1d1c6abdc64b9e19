-------------------------- MODULE NamenodeProxyProofs --------------------------
(* Theorems about NamenodeProxy, for any number of threads, namenodes,     *)
(* faults and retries.                                                     *)
EXTENDS NamenodeProxy, FiniteSetTheorems, TLAPS

Places == {"idle", "pick", "send", "wait", "try", "read", "body", "torn",
           "fail", "again", "third", "over"}

(* The variables are of the right kind.                                    *)
Kinds ==
  /\ link \in [Server -> {"closed", "up", "broken"}]
  /\ reader \in [Server -> SUBSET Thread]
  /\ pending \in [Server -> SUBSET Thread] /\ asked \in [Server -> SUBSET Thread]
  /\ answers \in [Server -> SUBSET [to : Thread, what : {"ok", "standby"}]]
  /\ pc \in [Thread -> Places]
  /\ at \in [Thread -> Server]
  /\ retried \in [Thread -> BOOLEAN]
  /\ done \in [Thread -> {"no", "ok"} \cup Errors] /\ error \in [Thread -> {"no"} \cup Errors]
  /\ target \in [Thread -> SUBSET Thread]
  /\ ran \in [Thread -> 0 .. 2]
  /\ active \subseteq Server /\ active \in {{}} \cup {{s} : s \in Server}
  /\ faults \in 0 .. MaxFaults /\ stalls \in 0 .. faults
  /\ current \in Server /\ count \in [Thread -> 0 .. MaxRetry + 1]

(* readMut is held by the thread that reads, one at a time.                *)
Locked ==
  /\ \A s \in Server : \A t \in reader[s] : at[t] = s /\ pc[t] \in {"read", "body", "torn"}
  /\ \A t \in Thread : pc[t] \in {"read", "body", "torn"} => t \in reader[at[t]]
  /\ \A s \in Server : \A t, u \in reader[s] : t = u

(* The namenodes are numbered from 0.                                      *)
LEMMA Servers == 0 \in Server /\ \A s \in Server : (s + 1) % Namenodes \in Server
BY ChannelAssumption DEF Server

(* What happens outside of the threads.                                    *)
LEMMA KindsOutside == ASSUME Kinds, Outside PROVE Kinds'
<1> USE DEF Kinds, Outside, World, Places
<1>1. ASSUME NEW s \in Server, Serve(s), UNCHANGED <<current, count>> PROVE Kinds'
  BY <1>1 DEF Serve, calls
<1>2. ASSUME NEW s \in Server, Break(s), UNCHANGED <<current, count>> PROVE Kinds'
  BY <1>2, ChannelAssumption DEF Break, Fault, Torn
<1>3. CASE Elect /\ UNCHANGED <<current, count>>
  BY <1>3, ChannelAssumption DEF Elect, Fault, channel, calls
<1>4. QED
  BY <1>1, <1>2, <1>3

(* An exception, and a shutdown, in a thread.                              *)
LEMMA KindsFails ==
  ASSUME Kinds, NEW t \in Thread, NEW e \in Errors, Fails(t, e)
  PROVE  /\ pc' = [pc EXCEPT ![t] = "fail"] /\ error' = [error EXCEPT ![t] = e]
         /\ pc' \in [Thread -> Places] /\ error' \in [Thread -> {"no"} \cup Errors]
BY DEF Kinds, Fails, Goes, Places

(* A shutdown of the thread's connection.                                  *)
LEMMA KindsShutdown ==
  ASSUME Kinds, NEW t \in Thread, NEW place \in Places, Shutdown(t, place)
  PROVE  /\ link' \in [Server -> {"closed", "up", "broken"}]
         /\ pending' \in [Server -> SUBSET Thread] /\ asked' \in [Server -> SUBSET Thread]
         /\ answers' \in [Server -> SUBSET [to : Thread, what : {"ok", "standby"}]]
         /\ pc' \in [Thread -> Places]
BY DEF Kinds, Shutdown, Closed, Torn, Places

(* The calls that a shutdown cancels.                                      *)
LEMMA KindsCancelled ==
  ASSUME Kinds, NEW t \in Thread PROVE Cancelled(t) \in [Thread -> {"no", "ok"} \cup Errors]
BY DEF Kinds, Cancelled

(* invokeInternal.                                                         *)
LEMMA KindsInvokes ==
  ASSUME Kinds, NEW t \in Thread, Invokes(t), UNCHANGED <<current, count>> PROVE Kinds'
<1> USE DEF Kinds
<1>0. /\ \A f, v : v \in Places /\ f = [pc EXCEPT ![t] = v] => f \in [Thread -> Places]
      /\ \A f, v : v \in {"no", "ok"} \cup Errors /\ f = [done EXCEPT ![t] = v]
                     => f \in [Thread -> {"no", "ok"} \cup Errors]
      /\ {"rpc", "failover", "standby"} = Errors /\ at[t] \in Server
  BY DEF Places, Errors
<1>1. CASE Send(t)
  <2>1. CASE Fine /\ Goes(t, "wait") /\ UNCHANGED error /\ (asked' = asked \/ asked' = [asked EXCEPT ![at[t]] = @ \cup {t}])
             /\ pending' = [pending EXCEPT ![at[t]] = @ \cup {t}]
             /\ link' = [link EXCEPT ![at[t]] = IF @ = "closed" THEN "up" ELSE @]
    <3>1. pending' \in [Server -> SUBSET Thread] /\ asked' \in [Server -> SUBSET Thread]
      BY <2>1
    <3>2. link' \in [Server -> {"closed", "up", "broken"}] /\ pc' \in [Thread -> Places]
      BY <2>1 DEF Goes, Places
    <3>3. QED
      BY <1>1, <2>1, <3>1, <3>2 DEF Send, Fine, Places
  <2>2. ASSUME NEW e \in Errors, Fails(t, e), Stall \/ Fault \/ Fine, UNCHANGED <<link, asked, pending>>
        PROVE  Kinds'
    <3>1. faults' \in 0 .. MaxFaults /\ stalls' \in 0 .. faults'
      BY <2>2, ChannelAssumption DEF Stall, Fault, Fine
    <3>2. QED
      BY <1>1, <2>2, <3>1, KindsFails DEF Send, Places
  <2>3. QED
    BY <1>0, <1>1, <2>1, <2>2 DEF Send
<1>2. CASE Finish(t) \/ Tries(t)
  BY <1>2 DEF Finish, Tries, Goes, channel, outside, Places
<1>3. CASE StartRead(t)
  BY <1>3 DEF StartRead, Goes, outside, Places
<1>4. CASE Header(t)
  <2>1. PICK a \in answers[at[t]] :
          /\ answers' = [answers EXCEPT ![at[t]] = @ \ {a}]
          /\ pending' = [pending EXCEPT ![at[t]] = @ \ {a.to}]
          /\ \/ /\ target' = [target EXCEPT ![t] = {a.to}] /\ Goes(t, "body")
                /\ UNCHANGED <<reader, done, error>>
             \/ /\ done' = [done EXCEPT ![a.to] = "standby"] /\ Unlock(t) /\ Goes(t, "wait")
                /\ UNCHANGED <<target, error>>
             \/ Unlock(t) /\ Fails(t, "rpc") /\ UNCHANGED <<target, done>>
    BY <1>4 DEF Header
  <2>2. a.to \in Thread
    BY <1>0
  <2>3. pending' \in [Server -> SUBSET Thread]
    BY <2>1
  <2>4. answers' \in [Server -> SUBSET [to : Thread, what : {"ok", "standby"}]]
    BY <2>1
  <2>5. pc' \in [Thread -> Places] /\ error' \in [Thread -> {"no"} \cup Errors]
    BY <1>0, <2>1, KindsFails DEF Goes, Places
  <2>6. done' \in [Thread -> {"no", "ok"} \cup Errors] /\ target' \in [Thread -> SUBSET Thread]
    BY <1>0, <2>1, <2>2
  <2>7. reader' \in [Server -> SUBSET Thread]
    BY <1>0, <2>1 DEF Unlock
  <2>8. QED
    BY <1>4, <2>3, <2>4, <2>5, <2>6, <2>7 DEF Header, outside, Places
<1>5. CASE Body(t)
  BY <1>5 DEF Body, Served, Goes, Unlock, outside, Places
<1>6. CASE ReadFails(t)
  <2>1. PICK e \in Errors : Fails(t, e) /\ (Stall \/ Fine)
    BY <1>0, <1>6 DEF ReadFails
  <2>2. faults' \in 0 .. MaxFaults /\ stalls' \in 0 .. faults'
    BY <2>1, ChannelAssumption DEF Stall, Fine
  <2>3. target' \in [Thread -> SUBSET Thread] /\ reader' \in [Server -> SUBSET Thread]
    BY <1>0, <1>6 DEF ReadFails, Unlock
  <2>4. QED
    BY <1>6, <2>1, <2>2, <2>3, KindsFails DEF ReadFails, Places
<1>7. CASE Fail(t)
  <2>1. PICK place \in Places : Shutdown(t, place)
    BY <1>7 DEF Fail, Places
  <2>2. /\ done' \in [Thread -> {"no", "ok"} \cup Errors]
        /\ error' \in [Thread -> {"no"} \cup Errors] /\ retried' \in [Thread -> BOOLEAN]
    BY <1>7, KindsCancelled DEF Fail
  <2>3. QED
    BY <1>7, <2>1, <2>2, KindsShutdown DEF Fail, outside, Places
<1>8. CASE Again(t)
  <2>1. PICK place \in Places : Shutdown(t, place)
    BY <1>8 DEF Again, Places
  <2>2. /\ done' \in [Thread -> {"no", "ok"} \cup Errors]
        /\ error' \in [Thread -> {"no"} \cup Errors]
    BY <1>8, KindsCancelled DEF Again
  <2>3. QED
    BY <1>8, <2>1, <2>2, KindsShutdown DEF Again, outside, Places
<1>9. CASE Third(t)
  <2>1. Shutdown(t, "over") /\ "over" \in Places
    BY <1>9 DEF Third, Places
  <2>2. /\ done' \in [Thread -> {"no", "ok"} \cup Errors]
        /\ error' \in [Thread -> {"no"} \cup Errors]
    BY <1>9, KindsCancelled DEF Third
  <2>3. QED
    BY <1>9, <2>1, <2>2, KindsShutdown DEF Third, outside, Places
<1>10. QED
  BY <1>1, <1>2, <1>3, <1>4, <1>5, <1>6, <1>7, <1>8, <1>9 DEF Invokes

(* The proxy.                                                              *)
LEMMA KindsProxy == ASSUME Kinds, NEW t \in Thread, Call(t) \/ Pick(t) \/ Over(t) PROVE Kinds'
<1> USE DEF Kinds
<1>1. CASE Call(t) \/ Pick(t)
  BY <1>1 DEF Call, Pick, At, Goes, channel, outside, Places
<1>2. CASE Over(t)
  <2>1. /\ at' \in [Thread -> Server] /\ current' \in Server
    BY <1>2, Servers DEF Over
  <2>2. /\ done' \in [Thread -> {"no", "ok"} \cup Errors] /\ retried' \in [Thread -> BOOLEAN]
        /\ pc' \in [Thread -> Places]
    BY <1>2 DEF Over, Goes, Places
  <2>3. count' \in [Thread -> 0 .. MaxRetry + 1]
    BY <1>2, ProxyAssumption DEF Over, TriesAnother, Counted
  <2>4. ran' \in [Thread -> 0 .. 2]
    BY <1>2 DEF Over
  <2>5. QED
    BY <1>2, <2>1, <2>2, <2>3, <2>4 DEF Over, channel, Places
<1>3. QED
  BY <1>1, <1>2

(* Kinds is inductive: it holds at first,                                  *)
LEMMA KindsInit == Init => Kinds
<1> SUFFICES ASSUME Init PROVE Kinds
  OBVIOUS
<1>1. active \subseteq Server /\ active \in {{s} : s \in Server}
  BY DEF Init, ChannelInit
<1>2. QED
  BY <1>1, Servers, ChannelAssumption, ProxyAssumption DEF Init, ChannelInit, Kinds, Places

(* and every step keeps it.                                                *)
LEMMA KindsStep == ASSUME Kinds, [Next]_vars PROVE Kinds'
<1>1. CASE UNCHANGED vars
  BY <1>1 DEF vars, rpc, channel, calls, outside, Kinds
<1>2. QED
  BY <1>1, KindsOutside, KindsInvokes, KindsProxy DEF Next, Acts

-------------------------------------------------------------------------------
(* The lock.                                                               *)

Reading == {"read", "body", "torn"}

(* A thread that reads is one of those that hold a lock, and the other way *)
(* round.                                                                  *)
LEMMA LockedShutdown ==
  ASSUME Kinds, Locked, NEW t \in Thread, NEW place \in Places \ Reading, Shutdown(t, place),
         pc[t] \notin Reading, UNCHANGED <<reader, at>>
  PROVE  Locked'
<1>1. \A u \in Thread : pc'[u] = IF u = t THEN place
                                ELSE IF u \in reader[at[t]] /\ pc[u] = "body" THEN "torn" ELSE pc[u]
  BY DEF Shutdown, Torn, Kinds
<1>2. QED
  BY <1>1 DEF Kinds, Locked, Reading

(* A thread that does not read moves on.                                   *)
LEMMA LockedMove ==
  ASSUME Kinds, Locked, NEW t \in Thread, NEW place \in Places \ Reading, Goes(t, place),
         pc[t] \notin Reading, reader' = reader, \A u \in Thread : u # t => at'[u] = at[u]
  PROVE  Locked'
<1>1. \A u \in Thread : pc'[u] = IF u = t THEN place ELSE pc[u]
  BY DEF Goes, Kinds
<1>2. QED
  BY <1>1 DEF Kinds, Locked, Reading

(* A thread that reads stops, and releases the lock.                       *)
LEMMA LockedRelease ==
  ASSUME Kinds, Locked, NEW t \in Thread, NEW place \in Places \ Reading, Goes(t, place),
         pc[t] \in Reading, Unlock(t), at' = at
  PROVE  Locked'
<1>1. \A u \in Thread : pc'[u] = IF u = t THEN place ELSE pc[u]
  BY DEF Goes, Kinds
<1>2. \A s \in Server : reader'[s] = IF s = at[t] THEN {} ELSE reader[s]
  BY DEF Unlock, Kinds
<1>3. \A u \in Thread : u # t /\ pc[u] \in Reading => at[u] # at[t]
  BY DEF Locked, Reading, Kinds
<1>4. QED
  BY <1>1, <1>2, <1>3 DEF Kinds, Locked, Reading

(* Locked is inductive.                                                    *)
LEMMA LockedStep == ASSUME Kinds, Locked, [Next]_vars PROVE Locked'
<1>1. CASE Outside \/ UNCHANGED vars
  <2>1. CASE UNCHANGED <<pc, reader, at>>
    BY <2>1 DEF Locked
  <2>2. ASSUME NEW s \in Server, Break(s) PROVE Locked'
    <3>1. \A u \in Thread : pc'[u] = IF u \in reader[s] /\ pc[u] = "body" THEN "torn" ELSE pc[u]
      BY <2>2 DEF Break, Torn, Kinds
    <3>2. QED
      BY <2>2, <3>1 DEF Break, Kinds, Locked
  <2>3. QED
    BY <1>1, <2>1, <2>2 DEF Outside, World, Serve, Elect, vars, rpc, calls, channel
<1>2. ASSUME NEW t \in Thread, Invokes(t) PROVE Locked'
  <2>1. CASE Send(t)
    BY <2>1, LockedMove DEF Send, Fails, Places, Reading
  <2>2. CASE Finish(t) \/ Tries(t)
    BY <2>2, LockedMove DEF Finish, Tries, channel, Places, Reading
  <2>3. CASE StartRead(t) /\ reader[at[t]] = {}
    <3>1. /\ \A u \in Thread : pc'[u] = IF u = t THEN "read" ELSE pc[u]
          /\ \A s \in Server : reader'[s] = IF s = at[t] THEN {t} ELSE reader[s]
          /\ at' = at /\ pc[t] = "try" /\ at[t] \in Server
      BY <2>3 DEF StartRead, Goes, Kinds
    <3>2. \A u \in Thread : u # t /\ pc[u] \in Reading => at[u] # at[t]
      BY <2>3 DEF Locked, Reading, Kinds
    <3>3. \A s \in Server : \A u \in reader'[s] : at'[u] = s /\ pc'[u] \in Reading
      BY <3>1 DEF Locked, Reading, Kinds
    <3>4. \A s \in Server : \A u, w \in reader'[s] : u = w
      BY <3>1 DEF Locked
    <3>5. \A u \in Thread : pc'[u] \in Reading => u \in reader'[at'[u]]
      BY <3>1, <3>2 DEF Locked, Reading, Kinds
    <3>6. QED
      BY <3>3, <3>4, <3>5 DEF Locked, Reading
  <2>4. CASE StartRead(t) /\ reader[at[t]] # {}
    BY <2>4, LockedMove DEF StartRead, Places, Reading
  <2>5. CASE Header(t) /\ Goes(t, "body") /\ UNCHANGED reader
    <3>1. pc[t] = "read" /\ at' = at /\ \A u \in Thread : pc'[u] = IF u = t THEN "body" ELSE pc[u]
      BY <2>5 DEF Header, Goes, Kinds
    <3>2. QED
      BY <2>5, <3>1 DEF Kinds, Locked
  <2>6. CASE Header(t) /\ Unlock(t) /\ (Goes(t, "wait") \/ Fails(t, "rpc"))
    BY <2>6, LockedRelease DEF Header, Fails, Places, Reading
  <2>7. CASE Body(t) \/ ReadFails(t)
    BY <2>7, LockedRelease DEF Body, ReadFails, Fails, Places, Reading
  <2>8. CASE Fail(t) \/ Again(t) \/ Third(t)
    BY <2>8, LockedShutdown DEF Fail, Again, Third, Places, Reading
  <2>9. QED
    BY <1>2, <2>1, <2>2, <2>3, <2>4, <2>5, <2>6, <2>7, <2>8 DEF Invokes, Header
<1>3. ASSUME NEW t \in Thread, Call(t) \/ Pick(t) \/ Over(t) PROVE Locked'
  <2>1. \A u \in Thread : u # t => at'[u] = at[u]
    BY <1>3 DEF Call, Pick, Over, At, Kinds
  <2>2. QED
    BY <1>3, <2>1, LockedMove DEF Call, Pick, Over, At, channel, Places, Reading
<1>4. QED
  BY <1>1, <1>2, <1>3 DEF Next, Acts

-------------------------------------------------------------------------------
(* The calls and their answers.                                            *)

(* A request or an answer is that of a call on the list, which has one of  *)
(* them; a call on the list is not done, and was made on that connection.  *)
Listed ==
  /\ \A s \in Server : asked[s] \subseteq pending[s]
  /\ \A s \in Server : \A a \in answers[s] : a.to \in pending[s] /\ a.to \notin asked[s]
  /\ \A s \in Server : \A a, b \in answers[s] : a.to = b.to => a = b
  /\ \A s \in Server : \A t \in pending[s] :
       /\ at[t] = s /\ done[t] = "no"
       /\ pc[t] \in {"wait", "try", "read", "body", "torn", "fail"}
  /\ \A t \in Thread : pc[t] \in {"idle", "pick", "send"} => done[t] = "no"

(* The call whose answer a thread reads waits for nothing else ...         *)
Awaited ==
  \A t \in Thread : \A u \in target[t] :
    /\ pc[t] \in {"body", "torn"}
    /\ pc[t] = "body" =>
         /\ done[u] = "no" /\ at[u] = at[t] /\ ran[u] > 0
         /\ u = t \/ pc[u] \in {"wait", "try", "fail"}
         /\ \A s \in Server : u \notin pending[s]

(* ... and it was carried out, as was one that is done.                    *)
Carried ==
  /\ \A s \in Server : \A a \in answers[s] : a.what = "ok" => ran[a.to] > 0
  /\ \A t \in Thread : done[t] = "ok" => ran[t] > 0

Answered == Listed /\ Awaited /\ Carried

(* What a shutdown does to the threads and to the connection.              *)
LEMMA ShutdownEffect ==
  ASSUME Kinds, NEW t \in Thread, NEW place, Shutdown(t, place)
  PROVE  /\ \A u \in Thread : pc'[u] = IF u = t THEN place
                                     ELSE IF u \in reader[at[t]] /\ pc[u] = "body" THEN "torn" ELSE pc[u]
         /\ \A s \in Server : /\ pending'[s] = IF s = at[t] THEN {} ELSE pending[s]
                              /\ asked'[s] = IF s = at[t] THEN {} ELSE asked[s]
                              /\ answers'[s] = IF s = at[t] THEN {} ELSE answers[s]
BY DEF Shutdown, Closed, Torn, Kinds

(* What the three steps that shut down have in common.                     *)
LEMMA Shuts ==
  ASSUME Kinds, NEW t \in Thread, Fail(t) \/ Again(t) \/ Third(t)
  PROVE  /\ pc[t] \in {"fail", "again", "third"}
         /\ \E place \in {"send", "again", "third", "over"} :
              Shutdown(t, place) /\ (place = "send" => done'[t] = "no" /\ t \in Idempotent)
         /\ \A u \in Thread : u # t => done'[u] = IF u \in pending[at[t]] THEN error[t] ELSE done[u]
         /\ done'[t] \in {"no", done[t], error[t]}
         /\ \A u \in Thread : u # t => error'[u] = error[u]
         /\ error'[t] \in {"no", error[t]}
         /\ UNCHANGED <<reader, at, target, ran, active, faults, stalls>>
<1> USE DEF Kinds
<1>1. CASE Fail(t)
  BY <1>1 DEF Fail, Retries, Cancelled, outside
<1>2. CASE Again(t)
  BY <1>2 DEF Again, Cancelled, outside
<1>3. CASE Third(t)
  BY <1>3 DEF Third, Cancelled, outside
<1>4. QED
  BY <1>1, <1>2, <1>3

(* After a shutdown.                                                       *)
LEMMA AnsweredShuts ==
  ASSUME Kinds, Locked, Answered, NEW t \in Thread, Fail(t) \/ Again(t) \/ Third(t)
  PROVE  Listed' /\ Awaited'
<1>1. PICK place \in {"send", "again", "third", "over"} :
         Shutdown(t, place) /\ (place = "send" => done'[t] = "no")
  BY Shuts
<1>2. /\ \A u \in Thread : pc'[u] = IF u = t THEN place
                                  ELSE IF u \in reader[at[t]] /\ pc[u] = "body" THEN "torn" ELSE pc[u]
      /\ \A s \in Server : /\ pending'[s] = IF s = at[t] THEN {} ELSE pending[s]
                           /\ asked'[s] = IF s = at[t] THEN {} ELSE asked[s]
                           /\ answers'[s] = IF s = at[t] THEN {} ELSE answers[s]
  BY <1>1, ShutdownEffect
<1>3. /\ pc[t] \in {"fail", "again", "third"} /\ UNCHANGED <<at, target, ran>>
      /\ \A u \in Thread : u # t => done'[u] = IF u \in pending[at[t]] THEN error[t] ELSE done[u]
  BY Shuts
<1>4. at[t] \in Server /\ \A s \in Server : pending[s] \subseteq Thread
  BY DEF Kinds
<1>5. \A s \in Server : \A u \in pending'[s] : u \in pending[s] /\ s # at[t] /\ u # t /\ u \notin pending[at[t]]
  BY <1>2, <1>4 DEF Answered, Listed
<1>6. Listed'
  <2>1. \A s \in Server : \A u \in pending'[s] :
          /\ at'[u] = s /\ done'[u] = "no"
          /\ pc'[u] \in {"wait", "try", "read", "body", "torn", "fail"}
    <3>1. SUFFICES ASSUME NEW s \in Server, NEW u \in pending'[s]
                   PROVE  /\ at'[u] = s /\ done'[u] = "no"
                          /\ pc'[u] \in {"wait", "try", "read", "body", "torn", "fail"}
      OBVIOUS
    <3>2. u \in pending[s] /\ u # t /\ u \notin pending[at[t]] /\ u \in Thread
      BY <1>4, <1>5
    <3>3. /\ at[u] = s /\ done[u] = "no"
          /\ pc[u] \in {"wait", "try", "read", "body", "torn", "fail"}
      BY <3>2 DEF Answered, Listed
    <3>4. QED
      BY <1>2, <1>3, <3>2, <3>3
  <2>2. \A u \in Thread : pc'[u] \in {"idle", "pick", "send"} => done'[u] = "no"
    <3>1. SUFFICES ASSUME NEW u \in Thread, pc'[u] \in {"idle", "pick", "send"}
                   PROVE  done'[u] = "no"
      OBVIOUS
    <3>2. CASE u = t
      BY <1>1, <1>2, <3>1, <3>2
    <3>3. CASE u # t
      <4>1. pc[u] \in {"idle", "pick", "send"}
        BY <1>2, <3>1, <3>3
      <4>2. done[u] = "no" /\ u \notin pending[at[t]]
        BY <1>4, <4>1 DEF Answered, Listed
      <4>3. QED
        BY <1>3, <3>3, <4>2
    <3>4. QED
      BY <3>2, <3>3
  <2>3. /\ \A s \in Server : asked'[s] \subseteq pending'[s]
        /\ \A s \in Server : \A a \in answers'[s] : a.to \in pending'[s] /\ a.to \notin asked'[s]
        /\ \A s \in Server : \A a, b \in answers'[s] : a.to = b.to => a = b
    BY <1>2 DEF Answered, Listed
  <2>4. QED
    BY <2>1, <2>2, <2>3 DEF Listed
<1>7. Awaited'
  <2>1. SUFFICES ASSUME NEW w \in Thread, NEW u \in target'[w]
                 PROVE  /\ pc'[w] \in {"body", "torn"}
                        /\ pc'[w] = "body" =>
                             /\ done'[u] = "no" /\ at'[u] = at'[w] /\ ran'[u] > 0
                             /\ u = w \/ pc'[u] \in {"wait", "try", "fail"}
                             /\ \A s \in Server : u \notin pending'[s]
    BY DEF Awaited
  <2>2. w # t /\ u \in target[w] /\ pc[w] \in {"body", "torn"} /\ pc'[w] \in {"body", "torn"} /\ u \in Thread
    BY <1>2, <1>3, <2>1 DEF Answered, Awaited, Kinds
  <2>3. ASSUME pc'[w] = "body"
        PROVE  /\ pc[w] = "body" /\ at[w] # at[t] /\ at[u] = at[w] /\ u # t
               /\ \A s \in Server : u \notin pending[s]
               /\ u = w \/ pc[u] \in {"wait", "try", "fail"}
    <3>1. pc[w] = "body" /\ w \notin reader[at[t]]
      BY <1>2, <2>2, <2>3
    <3>2. at[w] # at[t]
      BY <3>1, <1>4 DEF Locked, Kinds
    <3>3. QED
      BY <2>2, <3>1, <3>2 DEF Answered, Awaited
  <2>4. ASSUME pc'[w] = "body"
        PROVE  /\ done'[u] = "no" /\ at'[u] = at'[w] /\ ran'[u] > 0
               /\ u = w \/ pc'[u] \in {"wait", "try", "fail"}
               /\ \A s \in Server : u \notin pending'[s]
    <3>1. done[u] = "no" /\ ran[u] > 0
      BY <2>2, <2>3, <2>4 DEF Answered, Awaited
    <3>2. \A s \in Server : u \notin pending'[s]
      BY <1>2, <2>3, <2>4
    <3>3. done'[u] = "no"
      BY <1>3, <1>4, <2>2, <2>3, <2>4, <3>1
    <3>4. u = w \/ pc'[u] \in {"wait", "try", "fail"}
      <4>1. CASE pc[u] \in {"wait", "try", "fail"}
        <5>1. pc[u] # "body" /\ u # t
          BY <2>3, <2>4, <4>1
        <5>2. pc'[u] = pc[u]
          BY <1>2, <2>2, <5>1
        <5>3. QED
          BY <4>1, <5>2
      <4>2. QED
        BY <2>3, <2>4, <4>1
    <3>5. QED
      BY <1>3, <2>3, <2>4, <3>1, <3>2, <3>3, <3>4
  <2>5. QED
    BY <2>2, <2>4
<1>8. QED
  BY <1>6, <1>7

(* A step of a thread that does not read, on its own.                      *)
LEMMA ListedOwn ==
  ASSUME Kinds, Listed, NEW t \in Thread, NEW place, Goes(t, place),
         UNCHANGED <<pending, asked, answers>>,
         \A u \in Thread : u # t => at'[u] = at[u] /\ done'[u] = done[u],
         (\E s \in Server : t \in pending[s])
           => /\ at'[t] = at[t] /\ done'[t] = done[t]
              /\ place \in {"wait", "try", "read", "body", "torn", "fail"},
         place \in {"idle", "pick", "send"} => done'[t] = "no"
  PROVE  Listed'
<1>1. \A u \in Thread : pc'[u] = IF u = t THEN place ELSE pc[u]
  BY DEF Goes, Kinds
<1>2. \A s \in Server : pending[s] \subseteq Thread
  BY DEF Kinds
<1>3. \A u \in Thread : pc'[u] \in {"idle", "pick", "send"} => done'[u] = "no"
  BY <1>1 DEF Listed
<1>4. \A s \in Server : \A u \in pending'[s] :
       /\ at'[u] = s /\ done'[u] = "no"
       /\ pc'[u] \in {"wait", "try", "read", "body", "torn", "fail"}
  <2>1. SUFFICES ASSUME NEW s \in Server, NEW u \in pending[s]
                 PROVE  /\ at'[u] = s /\ done'[u] = "no"
                        /\ pc'[u] \in {"wait", "try", "read", "body", "torn", "fail"}
    OBVIOUS
  <2>2. /\ at[u] = s /\ done[u] = "no" /\ u \in Thread
        /\ pc[u] \in {"wait", "try", "read", "body", "torn", "fail"}
    BY <1>2 DEF Listed
  <2>3. QED
    BY <1>1, <2>2
<1>5. QED
  BY <1>3, <1>4 DEF Listed

(* A step of a thread that takes no answer off the list keeps Awaited.     *)
LEMMA AwaitedOwn ==
  ASSUME Kinds, Awaited, NEW t \in Thread, NEW place, Goes(t, place), target' = target,
         pc[t] \notin {"body", "torn"}, place # "body",
         \A u \in Thread : u # t => at'[u] = at[u] /\ done'[u] = done[u] /\ ran'[u] = ran[u],
         \A s \in Server : pending'[s] \subseteq pending[s] \cup {t},
         (\E w \in Thread : pc[w] = "body" /\ t \in target[w])
           => /\ at'[t] = at[t] /\ done'[t] = done[t] /\ ran'[t] = ran[t] /\ pending' = pending
              /\ place \in {"wait", "try", "fail"}
  PROVE  Awaited'
<1>1. \A u \in Thread : pc'[u] = IF u = t THEN place ELSE pc[u]
  BY DEF Goes, Kinds
<1>2. SUFFICES ASSUME NEW w \in Thread, NEW u \in target'[w]
               PROVE  /\ pc'[w] \in {"body", "torn"}
                      /\ pc'[w] = "body" =>
                           /\ done'[u] = "no" /\ at'[u] = at'[w] /\ ran'[u] > 0
                           /\ u = w \/ pc'[u] \in {"wait", "try", "fail"}
                           /\ \A s \in Server : u \notin pending'[s]
  BY DEF Awaited
<1>3. u \in target[w] /\ u \in Thread /\ w # t /\ pc'[w] = pc[w] /\ pc[w] \in {"body", "torn"}
  BY <1>1, <1>2 DEF Awaited, Kinds
<1>4. SUFFICES ASSUME pc[w] = "body"
               PROVE  /\ done'[u] = "no" /\ at'[u] = at'[w] /\ ran'[u] > 0
                      /\ u = w \/ pc'[u] \in {"wait", "try", "fail"}
                      /\ \A s \in Server : u \notin pending'[s]
  BY <1>3
<1>5. /\ done[u] = "no" /\ at[u] = at[w] /\ ran[u] > 0
      /\ u = w \/ pc[u] \in {"wait", "try", "fail"}
      /\ \A s \in Server : u \notin pending[s]
  BY <1>3, <1>4 DEF Awaited
<1>6. CASE u = t
  BY <1>1, <1>3, <1>4, <1>5, <1>6
<1>7. CASE u # t
  BY <1>1, <1>3, <1>4, <1>5, <1>7
<1>8. QED
  BY <1>6, <1>7

(* Those steps: an idle thread calls, or one moves on.                     *)
LEMMA AnsweredOwn ==
  ASSUME Kinds, Locked, Answered, NEW t \in Thread,
         Call(t) \/ Pick(t) \/ Over(t) \/ Finish(t) \/ Tries(t) \/ StartRead(t)
  PROVE  Listed' /\ Awaited'
<1> USE DEF Answered
<1>0. /\ \A s \in Server : t \in pending[s] =>
            done[t] = "no" /\ pc[t] \in {"wait", "try", "read", "body", "torn", "fail"}
      /\ \A w \in Thread : pc[w] = "body" /\ t \in target[w] =>
            /\ w = t \/ pc[t] \in {"wait", "try", "fail"}
            /\ done[t] = "no" /\ at[t] = at[w] /\ w \in reader[at[w]]
  BY DEF Listed, Awaited, Locked
<1>1. CASE Call(t) \/ Pick(t)
  <2>1. /\ Goes(t, "send") /\ pc[t] \in {"idle", "pick"} /\ UNCHANGED <<pending, asked, answers, target, done, ran>>
        /\ \A u \in Thread : u # t => at'[u] = at[u]
    BY <1>1 DEF Call, Pick, At, channel, outside, Kinds
  <2>2. Listed'
    BY <1>0, <2>1, ListedOwn DEF Listed
  <2>3. Awaited'
    BY <1>0, <2>1, AwaitedOwn
  <2>4. QED
    BY <2>2, <2>3
<1>2. CASE Over(t)
  <2>1. PICK place \in {"pick", "idle"} : Goes(t, place)
    BY <1>2 DEF Over
  <2>2. /\ pc[t] = "over" /\ UNCHANGED <<pending, asked, answers, target>>
        /\ \A u \in Thread : u # t => at'[u] = at[u] /\ done'[u] = done[u] /\ ran'[u] = ran[u]
        /\ done'[t] = "no"
    BY <1>2 DEF Over, channel, Kinds
  <2>3. Listed'
    BY <1>0, <2>1, <2>2, ListedOwn
  <2>4. Awaited'
    BY <1>0, <2>1, <2>2, AwaitedOwn
  <2>5. QED
    BY <2>3, <2>4
<1>3. CASE Finish(t)
  <2>1. /\ pc[t] = "wait" /\ done[t] # "no" /\ Goes(t, "over")
        /\ UNCHANGED <<pending, asked, answers, target, at, done, ran>>
    BY <1>3 DEF Finish, channel, outside
  <2>2. Listed'
    BY <1>0, <2>1, ListedOwn
  <2>3. Awaited'
    BY <1>0, <2>1, AwaitedOwn
  <2>4. QED
    BY <2>2, <2>3
<1>4. CASE Tries(t) \/ StartRead(t)
  <2>1. PICK place \in {"try", "read", "wait"} :
          Goes(t, place) /\ (place = "read" => reader[at[t]] = {})
    BY <1>4 DEF Tries, StartRead
  <2>2. /\ pc[t] \in {"wait", "try"}
        /\ UNCHANGED <<pending, asked, answers, target, at, done, ran>>
    BY <1>4 DEF Tries, StartRead, channel, outside
  <2>3. Listed'
    BY <1>0, <2>1, <2>2, ListedOwn
  <2>4. Awaited'
    BY <1>0, <2>1, <2>2, AwaitedOwn
  <2>5. QED
    BY <2>3, <2>4
<1>5. QED
  BY <1>1, <1>2, <1>3, <1>4

(* A call is sent, or not.                                                 *)
LEMMA AnsweredSend ==
  ASSUME Kinds, Answered, NEW t \in Thread, Send(t)
  PROVE  Listed' /\ Awaited'
<1> USE DEF Answered
<1>1. /\ pc[t] = "send" /\ UNCHANGED <<answers, at, done, target, ran>> /\ at[t] \in Server
      /\ done[t] = "no" /\ \A s \in Server : t \notin pending[s]
      /\ \A w \in Thread : pc[w] = "body" => t \notin target[w]
  BY DEF Send, Kinds, Listed, Awaited
<1>2. CASE Goes(t, "fail") /\ UNCHANGED <<asked, pending>>
  <2>1. Listed'
    BY <1>1, <1>2, ListedOwn
  <2>2. Awaited'
    BY <1>1, <1>2, AwaitedOwn
  <2>3. QED
    BY <2>1, <2>2
<1>3. CASE /\ Goes(t, "wait") /\ pending' = [pending EXCEPT ![at[t]] = @ \cup {t}]
           /\ asked' = asked \/ asked' = [asked EXCEPT ![at[t]] = @ \cup {t}]
  <2>1. /\ \A s \in Server : \A u : u \in pending'[s] <=> u \in pending[s] \/ (s = at[t] /\ u = t)
        /\ \A s \in Server : \A u : u \in asked'[s] => u \in asked[s] \/ (s = at[t] /\ u = t)
        /\ \A u \in Thread : pc'[u] = IF u = t THEN "wait" ELSE pc[u]
        /\ \A s \in Server : pending[s] \subseteq Thread
    BY <1>3 DEF Goes, Kinds
  <2>2. Awaited'
    BY <1>1, <1>3, <2>1, AwaitedOwn
  <2>3. /\ \A s \in Server : asked'[s] \subseteq pending'[s]
        /\ \A s \in Server : \A a \in answers'[s] : a.to \in pending'[s] /\ a.to \notin asked'[s]
        /\ \A s \in Server : \A a, b \in answers'[s] : a.to = b.to => a = b
    <3>1. SUFFICES ASSUME NEW s \in Server
                   PROVE  /\ asked'[s] \subseteq pending'[s]
                          /\ \A a \in answers[s] : a.to \in pending'[s] /\ a.to \notin asked'[s]
      BY <1>1 DEF Listed
    <3>2. pending[s] \subseteq pending'[s] /\ (s = at[t] => t \in pending'[s])
      BY <2>1
    <3>3. asked'[s] \subseteq pending'[s]
      BY <2>1, <3>2 DEF Listed
    <3>4. ASSUME NEW a \in answers[s] PROVE a.to \in pending'[s] /\ a.to \notin asked'[s]
      <4>1. a.to \in pending[s] /\ a.to \notin asked[s] /\ a.to # t
        BY <1>1, <3>4 DEF Listed
      <4>2. QED
        BY <2>1, <3>2, <4>1
    <3>5. QED
      BY <3>3, <3>4
  <2>4. \A s \in Server : \A u \in pending'[s] :
          /\ at'[u] = s /\ done'[u] = "no"
          /\ pc'[u] \in {"wait", "try", "read", "body", "torn", "fail"}
    <3>1. SUFFICES ASSUME NEW s \in Server, NEW u \in pending'[s]
                   PROVE  /\ at[u] = s /\ done[u] = "no"
                          /\ pc'[u] \in {"wait", "try", "read", "body", "torn", "fail"}
      BY <1>1
    <3>2. CASE u = t
      BY <1>1, <2>1, <3>1, <3>2
    <3>3. CASE u # t
      <4>1. u \in pending[s] /\ u \in Thread
        BY <2>1, <3>1, <3>3
      <4>2. QED
        BY <2>1, <3>3, <4>1 DEF Listed
    <3>4. QED
      BY <3>2, <3>3
  <2>5. \A u \in Thread : pc'[u] \in {"idle", "pick", "send"} => done'[u] = "no"
    BY <1>1, <2>1 DEF Listed
  <2>6. QED
    BY <2>2, <2>3, <2>4, <2>5 DEF Listed
<1>4. QED
  BY <1>2, <1>3 DEF Send, Fails

(* The steps of the thread that reads.                                     *)
LEMMA AnsweredReads ==
  ASSUME Kinds, Locked, Answered, NEW t \in Thread, Header(t) \/ Body(t) \/ ReadFails(t)
  PROVE  Listed' /\ Awaited'
<1> USE DEF Answered
<1>0. /\ at[t] \in Server /\ \A s \in Server : pending[s] \subseteq Thread
      /\ \A w \in Thread : target[w] \subseteq Thread
  BY DEF Kinds
<1>1. CASE Header(t)
  <2>1. PICK a \in answers[at[t]] :
          /\ answers' = [answers EXCEPT ![at[t]] = @ \ {a}]
          /\ pending' = [pending EXCEPT ![at[t]] = @ \ {a.to}]
          /\ \/ /\ target' = [target EXCEPT ![t] = {a.to}] /\ Goes(t, "body")
                /\ UNCHANGED <<reader, done, error>> /\ a.what = "ok"
             \/ /\ done' = [done EXCEPT ![a.to] = "standby"] /\ Unlock(t) /\ Goes(t, "wait")
                /\ UNCHANGED <<target, error>>
             \/ Unlock(t) /\ Fails(t, "rpc") /\ UNCHANGED <<target, done>>
    BY <1>1 DEF Header
  <2>2. pc[t] = "read" /\ UNCHANGED <<link, asked, at, ran>> /\ target[t] = {}
    BY <1>1 DEF Header, outside, Awaited
  <2>3. PICK place \in {"body", "wait", "fail"} : Goes(t, place) /\ (place # "body" => target' = target)
    BY <2>1 DEF Fails
  <2>4. /\ a.to \in pending[at[t]] /\ a.to \notin asked[at[t]] /\ a.to \in Thread
        /\ at[a.to] = at[t] /\ done[a.to] = "no"
        /\ pc[a.to] \in {"wait", "try", "read", "body", "torn", "fail"}
    BY <1>0 DEF Listed
  <2>5. /\ \A u \in Thread : u # a.to => done'[u] = done[u]
        /\ \A u \in Thread : pc'[u] = IF u = t THEN place ELSE pc[u]
        /\ \A s \in Server : \A u : u \in pending'[s] <=> u \in pending[s] /\ (s = at[t] => u # a.to)
        /\ \A s \in Server : \A b : b \in answers'[s] <=> b \in answers[s] /\ (s = at[t] => b # a)
        /\ \A w \in Thread : w # t => target'[w] = target[w]
    BY <2>1, <2>3 DEF Kinds, Goes
  <2>6. \A s \in Server : a.to \notin pending'[s]
    <3>1. \A s \in Server : a.to \in pending[s] => s = at[t]
      BY <2>4 DEF Listed
    <3>2. QED
      BY <2>5, <3>1
  <2>7. Listed'
    <3>1. \A s \in Server : asked'[s] \subseteq pending'[s]
      <4>1. SUFFICES ASSUME NEW s \in Server, NEW u \in asked[s] PROVE u \in pending'[s]
        BY <2>2
      <4>2. u \in pending[s] /\ (s = at[t] => u # a.to)
        BY <2>4 DEF Listed
      <4>3. QED
        BY <2>5, <4>2
    <3>2. \A s \in Server : \A b \in answers'[s] : b.to \in pending'[s] /\ b.to \notin asked'[s]
      <4>1. SUFFICES ASSUME NEW s \in Server, NEW b \in answers'[s]
                     PROVE  b.to \in pending'[s] /\ b.to \notin asked[s]
        BY <2>2
      <4>2. b \in answers[s] /\ (s = at[t] => b # a)
        BY <2>5
      <4>3. b.to \in pending[s] /\ b.to \notin asked[s] /\ (s = at[t] => b.to # a.to)
        BY <4>2 DEF Listed
      <4>4. QED
        BY <2>5, <4>3
    <3>3. \A s \in Server : \A b, c \in answers'[s] : b.to = c.to => b = c
      BY <2>5 DEF Listed
    <3>4. \A s \in Server : \A u \in pending'[s] :
            /\ at'[u] = s /\ done'[u] = "no"
            /\ pc'[u] \in {"wait", "try", "read", "body", "torn", "fail"}
      <4>1. SUFFICES ASSUME NEW s \in Server, NEW u \in pending'[s]
                     PROVE  /\ at'[u] = s /\ done'[u] = "no"
                            /\ pc'[u] \in {"wait", "try", "read", "body", "torn", "fail"}
        OBVIOUS
      <4>2. u \in pending[s] /\ u # a.to /\ u \in Thread
        BY <1>0, <2>5, <2>6
      <4>3. at[u] = s /\ done[u] = "no" /\ pc[u] \in {"wait", "try", "read", "body", "torn", "fail"}
        BY <4>2 DEF Listed
      <4>4. QED
        BY <2>2, <2>5, <4>2, <4>3
    <3>5. \A u \in Thread : pc'[u] \in {"idle", "pick", "send"} => done'[u] = "no"
      <4>1. SUFFICES ASSUME NEW u \in Thread, pc'[u] \in {"idle", "pick", "send"} PROVE done'[u] = "no"
        OBVIOUS
      <4>2. u # t /\ pc[u] \in {"idle", "pick", "send"} /\ u # a.to
        BY <2>4, <2>5, <4>1
      <4>3. QED
        BY <2>5, <4>2 DEF Listed
    <3>6. QED
      BY <3>1, <3>2, <3>3, <3>4, <3>5 DEF Listed
  <2>8. Awaited'
    <3>1. SUFFICES ASSUME NEW w \in Thread, NEW u \in target'[w]
                   PROVE  /\ pc'[w] \in {"body", "torn"}
                          /\ pc'[w] = "body" =>
                               /\ done'[u] = "no" /\ at'[u] = at'[w] /\ ran'[u] > 0
                               /\ u = w \/ pc'[u] \in {"wait", "try", "fail"}
                               /\ \A s \in Server : u \notin pending'[s]
      BY DEF Awaited
    <3>2. CASE w = t
      <4>1. place = "body"
        BY <2>2, <2>3, <3>1, <3>2
      <4>2. target'[t] = {a.to} /\ UNCHANGED done /\ a.what = "ok"
        BY <2>1, <2>3, <2>5, <4>1 DEF Kinds, Fails, Goes
      <4>3. u = a.to /\ ran[u] > 0
        BY <1>0, <3>1, <3>2, <4>2 DEF Carried
      <4>4. u = t \/ pc[u] \in {"wait", "try", "fail"}
        BY <1>0, <2>2, <2>4, <4>3 DEF Locked
      <4>5. QED
        BY <2>2, <2>4, <2>5, <2>6, <3>2, <4>1, <4>2, <4>3, <4>4
    <3>3. CASE w # t
      <4>1. u \in target[w] /\ pc'[w] = pc[w] /\ pc[w] \in {"body", "torn"} /\ u \in Thread
        BY <1>0, <2>5, <3>1, <3>3 DEF Awaited
      <4>2. SUFFICES ASSUME pc[w] = "body"
                     PROVE  /\ done'[u] = "no" /\ at'[u] = at'[w] /\ ran'[u] > 0
                            /\ u = w \/ pc'[u] \in {"wait", "try", "fail"}
                            /\ \A s \in Server : u \notin pending'[s]
        BY <4>1
      <4>3. /\ done[u] = "no" /\ at[u] = at[w] /\ ran[u] > 0
            /\ u = w \/ pc[u] \in {"wait", "try", "fail"}
            /\ \A s \in Server : u \notin pending[s]
        BY <4>1, <4>2 DEF Awaited
      <4>4. u # a.to /\ u # t
        BY <1>0, <2>2, <2>4, <3>3, <4>3
      <4>5. QED
        BY <2>2, <2>5, <4>1, <4>3, <4>4
    <3>4. QED
      BY <3>2, <3>3
  <2>9. QED
    BY <2>7, <2>8
<1>2. CASE Body(t) \/ ReadFails(t)
  <2>1. PICK place \in {"wait", "fail"} : Goes(t, place)
    BY <1>2 DEF Body, ReadFails, Fails
  <2>2. /\ UNCHANGED <<asked, answers, pending, at, ran>> /\ pc[t] \in {"read", "body", "torn"}
        /\ \A w \in Thread : target'[w] = IF w = t THEN {} ELSE target[w]
        /\ \A u \in Thread : pc'[u] = IF u = t THEN place ELSE pc[u]
        /\ \A u \in Thread : done'[u] = done[u] \/ (u \in target[t] /\ pc[t] = "body")
    BY <1>2, <2>1 DEF Body, ReadFails, Goes, Served, outside, Kinds
  <2>3. Listed'
    <3>1. \A s \in Server : \A u \in pending'[s] :
            /\ at'[u] = s /\ done'[u] = "no"
            /\ pc'[u] \in {"wait", "try", "read", "body", "torn", "fail"}
      <4>1. SUFFICES ASSUME NEW s \in Server, NEW u \in pending[s]
                     PROVE  /\ at[u] = s /\ done'[u] = "no"
                            /\ pc'[u] \in {"wait", "try", "read", "body", "torn", "fail"}
        BY <2>2
      <4>2. u \in Thread /\ (pc[t] = "body" => u \notin target[t])
        BY <1>0 DEF Awaited
      <4>3. at[u] = s /\ done[u] = "no" /\ pc[u] \in {"wait", "try", "read", "body", "torn", "fail"}
        BY DEF Listed
      <4>4. QED
        BY <2>2, <4>2, <4>3
    <3>2. \A u \in Thread : pc'[u] \in {"idle", "pick", "send"} => done'[u] = "no"
      <4>1. SUFFICES ASSUME NEW u \in Thread, pc'[u] \in {"idle", "pick", "send"} PROVE done'[u] = "no"
        OBVIOUS
      <4>2. u # t /\ pc[u] \in {"idle", "pick", "send"} /\ (pc[t] = "body" => u \notin target[t])
        BY <2>2, <4>1 DEF Awaited
      <4>3. QED
        BY <2>2, <4>2 DEF Listed
    <3>3. QED
      BY <2>2, <3>1, <3>2 DEF Listed
  <2>4. Awaited'
    <3>1. SUFFICES ASSUME NEW w \in Thread, NEW u \in target'[w]
                   PROVE  /\ pc'[w] \in {"body", "torn"}
                          /\ pc'[w] = "body" =>
                               /\ done'[u] = "no" /\ at'[u] = at'[w] /\ ran'[u] > 0
                               /\ u = w \/ pc'[u] \in {"wait", "try", "fail"}
                               /\ \A s \in Server : u \notin pending'[s]
      BY DEF Awaited
    <3>2. /\ w # t /\ u \in target[w] /\ u \in Thread /\ pc'[w] = pc[w]
          /\ pc[w] \in {"body", "torn"}
      BY <1>0, <2>2, <3>1 DEF Awaited
    <3>3. SUFFICES ASSUME pc[w] = "body"
                   PROVE  /\ done'[u] = "no" /\ at'[u] = at'[w] /\ ran'[u] > 0
                          /\ u = w \/ pc'[u] \in {"wait", "try", "fail"}
                          /\ \A s \in Server : u \notin pending'[s]
      BY <3>2
    <3>4. /\ done[u] = "no" /\ at[u] = at[w] /\ ran[u] > 0
          /\ u = w \/ pc[u] \in {"wait", "try", "fail"}
          /\ \A s \in Server : u \notin pending[s]
      BY <3>2, <3>3 DEF Awaited
    <3>5. u # t
      BY <2>2, <3>2, <3>4
    <3>6. u \notin target[t] \/ pc[t] # "body"
      <4>1. SUFFICES ASSUME u \in target[t], pc[t] = "body" PROVE FALSE
        OBVIOUS
      <4>2. at[t] = at[w] /\ at[w] \in Server
        BY <3>4, <4>1 DEF Awaited, Kinds
      <4>3. t \in reader[at[t]] /\ w \in reader[at[t]]
        BY <3>3, <4>1, <4>2 DEF Locked
      <4>4. QED
        BY <3>2, <4>2, <4>3 DEF Locked
    <3>7. QED
      BY <2>2, <3>2, <3>4, <3>5, <3>6
  <2>5. QED
    BY <2>3, <2>4
<1>3. QED
  BY <1>1, <1>2

(* What happens outside of the threads.                                    *)
LEMMA AnsweredWorld ==
  ASSUME Kinds, Locked, Answered, World
  PROVE  Listed' /\ Awaited'
<1> USE DEF Answered
<1>1. ASSUME NEW s \in Server, Serve(s) PROVE Listed' /\ Awaited'
  <2>1. PICK t \in asked[s] :
          /\ asked' = [asked EXCEPT ![s] = @ \ {t}]
          /\ answers' = [answers EXCEPT ![s] =
                @ \cup {[to |-> t, what |-> IF s \in active THEN "ok" ELSE "standby"]}]
          /\ ran' = IF s \in active /\ ran[t] < 2 THEN [ran EXCEPT ![t] = @ + 1] ELSE ran
    BY <1>1 DEF Serve
  <2>2. UNCHANGED <<pending, pc, at, done, target>>
    BY <1>1 DEF Serve, calls
  <2> DEFINE a == [to |-> t, what |-> IF s \in active THEN "ok" ELSE "standby"]
  <2>3. a.to = t /\ answers' = [answers EXCEPT ![s] = @ \cup {a}]
    BY <2>1
  <2> HIDE DEF a
  <2>4. /\ \A r \in Server : \A u : u \in asked'[r] <=> u \in asked[r] /\ (r = s => u # t)
        /\ \A r \in Server : \A b : b \in answers'[r] <=> b \in answers[r] \/ (r = s /\ b = a)
    BY <2>1, <2>3 DEF Kinds
  <2>5. \A u \in Thread : ran[u] > 0 => ran'[u] > 0
    BY <2>1 DEF Kinds
  <2>6. t \in pending[s] /\ \A b \in answers[s] : b.to # t
    BY DEF Listed
  <2>7. /\ \A r \in Server : asked'[r] \subseteq pending'[r]
        /\ \A r \in Server : \A b, c \in answers'[r] : b.to = c.to => b = c
    BY <2>2, <2>3, <2>4, <2>6 DEF Listed
  <2>8. \A r \in Server : \A b \in answers'[r] : b.to \in pending'[r] /\ b.to \notin asked'[r]
    <3>1. SUFFICES ASSUME NEW r \in Server, NEW b \in answers'[r]
                   PROVE  b.to \in pending[r] /\ b.to \notin asked'[r]
      BY <2>2
    <3>2. CASE b \in answers[r]
      BY <2>4, <3>2 DEF Listed
    <3>3. CASE r = s /\ b = a
      BY <2>3, <2>4, <2>6, <3>3
    <3>4. QED
      BY <2>4, <3>2, <3>3
  <2>9. Listed'
    BY <2>2, <2>7, <2>8 DEF Listed
  <2>10. Awaited'
    BY <2>2, <2>5 DEF Awaited, Kinds
  <2>11. QED
    BY <2>9, <2>10
<1>2. ASSUME NEW s \in Server, Break(s) PROVE Listed' /\ Awaited'
  <2>1. /\ \A r \in Server : asked'[r] \subseteq asked[r] /\ answers'[r] \subseteq answers[r]
        /\ \A r \in Server : r = s => asked'[r] = {} /\ answers'[r] = {}
        /\ \A r \in Server : r # s => asked'[r] = asked[r] /\ answers'[r] = answers[r]
        /\ \A u \in Thread : pc'[u] = IF u \in reader[s] /\ pc[u] = "body" THEN "torn" ELSE pc[u]
        /\ UNCHANGED <<pending, at, done, target, ran>>
    BY <1>2 DEF Break, Torn, Kinds
  <2>2. /\ \A r \in Server : asked'[r] \subseteq pending'[r]
        /\ \A r \in Server : \A b \in answers'[r] : b.to \in pending'[r] /\ b.to \notin asked'[r]
        /\ \A r \in Server : \A b, c \in answers'[r] : b.to = c.to => b = c
    BY <2>1 DEF Listed
  <2>3. \A r \in Server : pending[r] \subseteq Thread
    BY DEF Kinds
  <2>4. \A r \in Server : \A u \in pending'[r] :
          /\ at'[u] = r /\ done'[u] = "no"
          /\ pc'[u] \in {"wait", "try", "read", "body", "torn", "fail"}
    BY <2>1, <2>3 DEF Listed
  <2>5. \A u \in Thread : pc'[u] \in {"idle", "pick", "send"} => done'[u] = "no"
    BY <2>1 DEF Listed
  <2>6. Listed'
    BY <2>2, <2>4, <2>5 DEF Listed
  <2>7. Awaited'
    <3>1. SUFFICES ASSUME NEW w \in Thread, NEW u \in target[w]
                   PROVE  /\ pc'[w] \in {"body", "torn"}
                          /\ pc'[w] = "body" =>
                               /\ done[u] = "no" /\ at[u] = at[w] /\ ran[u] > 0
                               /\ u = w \/ pc'[u] \in {"wait", "try", "fail"}
                               /\ \A r \in Server : u \notin pending[r]
      BY <2>1 DEF Awaited
    <3>2. u \in Thread /\ pc[w] \in {"body", "torn"} /\ pc'[w] \in {"body", "torn"}
      BY <2>1 DEF Awaited, Kinds
    <3>3. SUFFICES ASSUME pc'[w] = "body"
                   PROVE  /\ done[u] = "no" /\ at[u] = at[w] /\ ran[u] > 0
                          /\ u = w \/ pc'[u] \in {"wait", "try", "fail"}
                          /\ \A r \in Server : u \notin pending[r]
      BY <3>2
    <3>4. pc[w] = "body"
      BY <2>1, <3>3
    <3>5. /\ done[u] = "no" /\ at[u] = at[w] /\ ran[u] > 0
          /\ u = w \/ pc[u] \in {"wait", "try", "fail"}
          /\ \A r \in Server : u \notin pending[r]
      BY <3>4 DEF Awaited
    <3>6. QED
      BY <2>1, <3>2, <3>5
  <2>8. QED
    BY <2>6, <2>7
<1>3. CASE Elect
  BY <1>3 DEF Elect, channel, calls, Listed, Awaited
<1>4. QED
  BY <1>1, <1>2, <1>3 DEF World

(* A call that is done was carried out.                                    *)
LEMMA CarriedKept ==
  ASSUME Kinds, Carried,
         \A s \in Server : answers'[s] \subseteq answers[s],
         \A s \in Server : \A a \in answers'[s] : ran'[a.to] = ran[a.to],
         \A u \in Thread : done'[u] = "ok" => ran'[u] > 0 \/ (done[u] = "ok" /\ ran'[u] = ran[u])
  PROVE  Carried'
BY DEF Carried

(* No step puts an answer on the wrong connection.                         *)
LEMMA CarriedStep == ASSUME Kinds, Locked, Answered, [Next]_vars PROVE Carried'
<1> USE DEF Answered
<1>1. CASE UNCHANGED vars
  BY <1>1 DEF vars, rpc, channel, calls, outside, Carried
<1>2. CASE Outside
  <2>1. ASSUME NEW s \in Server, Serve(s) PROVE Carried'
    <3>1. PICK t \in asked[s] :
            /\ answers' = [answers EXCEPT ![s] =
                @ \cup {[to |-> t, what |-> IF s \in active THEN "ok" ELSE "standby"]}]
            /\ ran' = IF s \in active /\ ran[t] < 2 THEN [ran EXCEPT ![t] = @ + 1] ELSE ran
      BY <2>1 DEF Serve
    <3>2. t \in Thread /\ done' = done /\ ran \in [Thread -> 0 .. 2]
      BY <2>1 DEF Serve, calls, Kinds
    <3>3. \A u \in Thread : ran[u] > 0 => ran'[u] > 0
      BY <3>1, <3>2
    <3>4. s \in active => ran'[t] > 0
      BY <3>1, <3>2
    <3>5. \A r \in Server : \A a \in answers'[r] :
            \/ a \in answers[r]
            \/ a.to = t /\ (a.what = "ok" => s \in active)
      BY <3>1 DEF Kinds
    <3>6. \A r \in Server : \A a \in answers[r] : a.to \in Thread
      BY DEF Kinds
    <3>7. QED
      BY <3>2, <3>3, <3>4, <3>5, <3>6 DEF Carried
  <2>2. ASSUME NEW s \in Server, Break(s) PROVE Carried'
    <3>1. UNCHANGED <<done, ran>> /\ \A r \in Server : answers'[r] \subseteq answers[r]
      BY <2>2 DEF Break, Kinds
    <3>2. QED
      BY <3>1, CarriedKept
  <2>3. CASE Elect
    BY <2>3 DEF Elect, channel, calls, Carried
  <2>4. QED
    BY <1>2, <2>1, <2>2, <2>3 DEF Outside, World
<1>3. ASSUME NEW t \in Thread, UNCHANGED <<answers, ran, done>> PROVE Carried'
  BY <1>3 DEF Carried
<1>4. ASSUME NEW t \in Thread, Send(t) \/ Finish(t) \/ Tries(t) \/ StartRead(t) \/ Call(t) \/ Pick(t) \/ ReadFails(t)
      PROVE  Carried'
  BY <1>3, <1>4 DEF Send, Finish, Tries, StartRead, Call, Pick, ReadFails, channel, outside
<1>5. ASSUME NEW t \in Thread, Header(t) PROVE Carried'
  <2>1. /\ \A s \in Server : answers'[s] \subseteq answers[s]
        /\ ran' = ran /\ \A u \in Thread : done'[u] = done[u] \/ done'[u] = "standby"
    BY <1>5 DEF Header, outside, Kinds
  <2>2. QED
    BY <2>1, CarriedKept
<1>6. ASSUME NEW t \in Thread, Body(t) PROVE Carried'
  <2>1. /\ UNCHANGED <<answers, ran>> /\ pc[t] = "body"
        /\ \A u \in Thread : done'[u] = done[u] \/ u \in target[t]
    BY <1>6 DEF Body, outside, Served
  <2>2. \A u \in target[t] : ran[u] > 0
    BY <2>1 DEF Awaited
  <2>3. QED
    BY <2>1, <2>2, CarriedKept
<1>7. ASSUME NEW t \in Thread, Fail(t) \/ Again(t) \/ Third(t) PROVE Carried'
  <2>1. /\ \A u \in Thread : done'[u] \in {"no", done[u], error[t]}
        /\ ran' = ran
    BY <1>7, Shuts
  <2>2. \A s \in Server : answers'[s] \subseteq answers[s]
    BY <1>7, Shuts, ShutdownEffect
  <2>3. error[t] # "ok"
    BY DEF Kinds, Errors
  <2>4. QED
    BY <2>1, <2>2, <2>3, CarriedKept
<1>8. ASSUME NEW t \in Thread, Over(t) PROVE Carried'
  <2>1. /\ pc[t] = "over" /\ answers' = answers /\ done'[t] = "no"
        /\ \A u \in Thread : u # t => done'[u] = done[u] /\ ran'[u] = ran[u]
    BY <1>8 DEF Over, channel, Kinds
  <2>2. \A s \in Server : \A a \in answers[s] : a.to # t /\ a.to \in Thread
    BY <2>1 DEF Listed, Kinds
  <2>3. QED
    BY <2>1, <2>2, CarriedKept
<1>9. QED
  BY <1>1, <1>2, <1>4, <1>5, <1>6, <1>7, <1>8 DEF Next, Acts, Invokes

(* Answered is inductive.                                                  *)
LEMMA AnsweredStep == ASSUME Kinds, Locked, Answered, [Next]_vars PROVE Answered'
<1>1. CASE UNCHANGED vars
  BY <1>1 DEF vars, rpc, channel, calls, outside, Answered, Listed, Awaited, Carried
<1>2. ASSUME NEW t \in Thread, Call(t) \/ Acts(t) PROVE Listed' /\ Awaited'
  BY <1>2, AnsweredOwn, AnsweredSend, AnsweredReads, AnsweredShuts DEF Acts, Invokes
<1>3. QED
  BY <1>1, <1>2, AnsweredWorld, CarriedStep DEF Answered, Next, Outside

-------------------------------------------------------------------------------
(* How often a call is carried out.                                        *)

(* Without a stall no error sends a call to another namenode; and a call   *)
(* that is not idempotent and was carried out is not to be sent again, and *)
(* no namenode will refuse it or has.                                      *)
Leaves == \A t \in Thread : error[t] \in {"no", "rpc"} /\ done[t] # "failover"

Ran(t) ==
  /\ ran[t] <= 1
  /\ ran[t] = 1 =>
       /\ pc[t] \notin {"idle", "pick", "send"} /\ done[t] # "standby"
       /\ \A s \in Server : t \notin asked[s]
       /\ \A s \in Server : \A a \in answers[s] : a.to = t => a.what = "ok"

Once == stalls = 0 => Leaves /\ \A t \in Thread \ Idempotent : Ran(t)

(* A step in which nothing is served, sent or refused.                     *)
LEMMA OnceKept ==
  ASSUME Kinds, Leaves, \A t \in Thread \ Idempotent : Ran(t),
         \A u \in Thread : error'[u] \in {"no", "rpc"},
         \A s \in Server : answers'[s] \subseteq answers[s] /\ asked'[s] \subseteq asked[s],
         \A u \in Thread : done'[u] \in {done[u], "no", "ok", "rpc"},
         \A u \in Thread \ Idempotent :
           ran'[u] = 0 \/ (ran'[u] = ran[u] /\ (pc'[u] \in {"idle", "pick", "send"} => pc[u] \in {"idle", "pick", "send"}))
  PROVE  Leaves' /\ \A t \in Thread \ Idempotent : Ran(t)'
<1>1. Leaves'
  BY DEF Leaves
<1>2. ASSUME NEW t \in Thread \ Idempotent PROVE Ran(t)'
  BY <1>2 DEF Ran
<1>3. QED
  BY <1>1, <1>2

(* Once is inductive.                                                      *)
LEMMA OnceStep == ASSUME Kinds, Locked, Answered, Once, [Next]_vars PROVE Once'
<1> USE DEF Answered
<1>0. SUFFICES ASSUME stalls' = 0 PROVE Leaves' /\ \A t \in Thread \ Idempotent : Ran(t)'
  BY DEF Once
<1>1. stalls = 0 /\ (stalls' = stalls)
  <2>1. stalls' \in {stalls, stalls + 1}
    BY DEF Next, Outside, World, Serve, Break, Elect, Fault, Stall, Fine, Acts, Invokes, Send, Finish,
           Tries, StartRead, Header, Body, ReadFails, Fail, Again, Third, Call, Pick, Over, vars, rpc, outside
  <2>2. QED
    BY <1>0, <2>1 DEF Kinds
<1>2. Leaves /\ \A t \in Thread \ Idempotent : Ran(t)
  BY <1>1 DEF Once
<1>3. ~Stall
  BY <1>1 DEF Stall, Kinds
<1>4. CASE UNCHANGED vars
  BY <1>2, <1>4 DEF vars, rpc, channel, calls, outside, Leaves, Ran
<1>5. ASSUME NEW s \in Server, Serve(s) PROVE Leaves' /\ \A t \in Thread \ Idempotent : Ran(t)'
  <2>1. PICK t \in asked[s] :
          /\ asked' = [asked EXCEPT ![s] = @ \ {t}]
          /\ answers' = [answers EXCEPT ![s] =
                @ \cup {[to |-> t, what |-> IF s \in active THEN "ok" ELSE "standby"]}]
          /\ ran' = IF s \in active /\ ran[t] < 2 THEN [ran EXCEPT ![t] = @ + 1] ELSE ran
    BY <1>5 DEF Serve
  <2>2. UNCHANGED <<pending, pc, at, done, error>>
    BY <1>5 DEF Serve, calls
  <2>3. Leaves'
    BY <1>2, <2>2 DEF Leaves
  <2>4. ASSUME NEW u \in Thread \ Idempotent PROVE Ran(u)'
    <3>1. \A r \in Server : \A a \in answers'[r] : a \in answers[r] \/ (a.to = t /\ r = s /\ (a.what = "ok" <=> s \in active))
      BY <2>1 DEF Kinds
    <3>2. Ran(u) /\ t \in Thread /\ ran[u] \in 0 .. 2
      BY <1>2 DEF Kinds
    <3>3. CASE u # t
      <4>1. ran'[u] = ran[u] /\ \A r \in Server : u \in asked'[r] => u \in asked[r]
        BY <2>1, <3>2, <3>3 DEF Kinds
      <4>2. QED
        BY <2>2, <3>1, <3>2, <3>3, <4>1 DEF Ran
    <3>4. CASE u = t
      <4>1. ran[t] = 0
        BY <3>2, <3>4 DEF Ran
      <4>2. ran'[t] = IF s \in active THEN 1 ELSE 0
        BY <2>1, <3>2, <4>1 DEF Kinds
      <4>3. /\ t \in pending[s] /\ at[t] = s /\ done[t] = "no"
            /\ pc[t] \in {"wait", "try", "read", "body", "torn", "fail"}
            /\ \A r \in Server : t \in pending[r] => r = s
        BY DEF Listed
      <4>4. \A r \in Server : t \notin asked'[r]
        BY <2>1, <4>3 DEF Listed, Kinds
      <4>5. \A r \in Server : \A a \in answers[r] : a.to # t
        BY <4>3 DEF Listed
      <4>6. QED
        BY <2>2, <3>1, <3>4, <4>2, <4>3, <4>4, <4>5 DEF Ran
    <3>5. QED
      BY <3>3, <3>4
  <2>5. QED
    BY <2>3, <2>4
<1>6. ASSUME NEW s \in Server, Break(s) PROVE Leaves' /\ \A t \in Thread \ Idempotent : Ran(t)'
  <2>1. /\ UNCHANGED <<error, done, ran>>
        /\ \A r \in Server : answers'[r] \subseteq answers[r] /\ asked'[r] \subseteq asked[r]
        /\ \A u \in Thread : pc'[u] \in {pc[u], "torn"}
    BY <1>6 DEF Break, Torn, Kinds
  <2>2. QED
    BY <1>2, <2>1, OnceKept DEF Leaves
<1>7. CASE Elect
  BY <1>2, <1>7 DEF Elect, channel, calls, Leaves, Ran
<1>8. ASSUME NEW t \in Thread, Finish(t) \/ Tries(t) \/ StartRead(t) \/ Call(t) \/ Pick(t)
      PROVE  Leaves' /\ \A u \in Thread \ Idempotent : Ran(u)'
  <2>1. /\ UNCHANGED <<error, done, ran, answers, asked>>
        /\ \A u \in Thread : pc'[u] \in {"idle", "pick", "send"} => pc[u] \in {"idle", "pick", "send"}
    BY <1>8 DEF Finish, Tries, StartRead, Call, Pick, At, Goes, channel, outside, Kinds
  <2>2. QED
    BY <1>2, <2>1, OnceKept DEF Leaves
<1>9. ASSUME NEW t \in Thread, Send(t) PROVE Leaves' /\ \A u \in Thread \ Idempotent : Ran(u)'
  <2>1. /\ UNCHANGED <<done, ran, answers>> /\ pc[t] = "send"
        /\ \A s \in Server : \A u : u \in asked'[s] => u \in asked[s] \/ u = t
        /\ \A u \in Thread : pc'[u] = pc[u] \/ pc'[u] \in {"wait", "fail"}
        /\ \A u \in Thread : error'[u] = error[u] \/ error'[u] = "rpc"
    BY <1>3, <1>9 DEF Send, Goes, Fails, Kinds
  <2>2. Leaves'
    BY <1>2, <2>1 DEF Leaves
  <2>3. ASSUME NEW u \in Thread \ Idempotent PROVE Ran(u)'
    BY <1>2, <2>1 DEF Ran
  <2>4. QED
    BY <2>2, <2>3
<1>10. ASSUME NEW t \in Thread, Header(t) PROVE Leaves' /\ \A u \in Thread \ Idempotent : Ran(u)'
  <2>1. PICK a \in answers[at[t]] :
          /\ answers' = [answers EXCEPT ![at[t]] = @ \ {a}]
          /\ \/ UNCHANGED <<done, error>>
             \/ a.what = "standby" /\ done' = [done EXCEPT ![a.to] = "standby"] /\ UNCHANGED error
             \/ Fails(t, "rpc") /\ UNCHANGED done
          /\ \E place \in {"body", "wait", "fail"} : Goes(t, place)
    BY <1>10 DEF Header, Fails
  <2>2. /\ UNCHANGED <<asked, ran>> /\ at[t] \in Server
        /\ \A u \in Thread : pc'[u] \in {"idle", "pick", "send"} => pc[u] \in {"idle", "pick", "send"}
        /\ \A u \in Thread : error'[u] = error[u] \/ error'[u] = "rpc"
        /\ \A u \in Thread : done'[u] = done[u] \/ (u = a.to /\ a.what = "standby" /\ done'[u] = "standby")
        /\ \A s \in Server : answers'[s] \subseteq answers[s]
    BY <1>10, <2>1 DEF Header, outside, Fails, Goes, Kinds
  <2>3. Leaves'
    BY <1>2, <2>2 DEF Leaves
  <2>4. ASSUME NEW u \in Thread \ Idempotent PROVE Ran(u)'
    <3>1. Ran(u) /\ u \in Thread
      BY <1>2
    <3>2. ran[u] = 1 => done'[u] = done[u]
      BY <2>2, <3>1 DEF Ran
    <3>3. QED
      BY <2>2, <3>1, <3>2 DEF Ran
  <2>5. QED
    BY <2>3, <2>4
<1>11. ASSUME NEW t \in Thread, Body(t) \/ ReadFails(t)
       PROVE  Leaves' /\ \A u \in Thread \ Idempotent : Ran(u)'
  <2>1. /\ UNCHANGED <<ran, answers, asked>>
        /\ \A u \in Thread : error'[u] = error[u] \/ error'[u] = "rpc"
        /\ \A u \in Thread : done'[u] \in {done[u], "ok"}
        /\ \A u \in Thread : pc'[u] = pc[u] \/ pc'[u] \in {"wait", "fail"}
    BY <1>3, <1>11 DEF Body, ReadFails, Goes, Fails, outside, Kinds
  <2>2. QED
    BY <1>2, <2>1, OnceKept DEF Leaves
<1>12. ASSUME NEW t \in Thread, Fail(t) \/ Again(t) \/ Third(t)
       PROVE  Leaves' /\ \A u \in Thread \ Idempotent : Ran(u)'
  <2>1. PICK place \in {"send", "again", "third", "over"} :
          Shutdown(t, place) /\ (place = "send" => done'[t] = "no" /\ t \in Idempotent)
    BY <1>12, Shuts
  <2>2. /\ ran' = ran /\ error[t] \in {"no", "rpc"}
        /\ \A u \in Thread : done'[u] \in {"no", "rpc", done[u]}
        /\ \A u \in Thread : error'[u] \in {"no", "rpc"}
    BY <1>2, <1>12, Shuts DEF Leaves
  <2>3. /\ \A s \in Server : answers'[s] \subseteq answers[s] /\ asked'[s] \subseteq asked[s]
        /\ \A u \in Thread : pc'[u] \in {pc[u], "torn", "again", "third", "over"} \/ u \in Idempotent
    BY <2>1, ShutdownEffect
  <2>4. QED
    BY <1>2, <2>2, <2>3, OnceKept
<1>13. ASSUME NEW t \in Thread, Over(t) PROVE Leaves' /\ \A u \in Thread \ Idempotent : Ran(u)'
  <2>1. /\ UNCHANGED <<error, answers, asked>> /\ done'[t] = "no"
        /\ \A u \in Thread : u # t => UNCHANGED <<done[u], ran[u], pc[u]>>
        /\ ran'[t] = 0 \/ (ran'[t] = ran[t] /\ done[t] \in {"standby", "failover"})
    BY <1>13 DEF Over, TriesAnother, Goes, channel, Kinds
  <2>2. t \notin Idempotent => ran'[t] = 0
    <3>1. SUFFICES ASSUME t \in Thread \ Idempotent, ran'[t] = ran[t], done[t] = "standby" PROVE ran'[t] = 0
      BY <1>2, <2>1 DEF Leaves
    <3>2. Ran(t) /\ ran[t] \in 0 .. 2
      BY <1>2, <3>1 DEF Kinds
    <3>3. QED
      BY <3>1, <3>2 DEF Ran
  <2>3. QED
    BY <1>2, <2>1, <2>2, OnceKept DEF Leaves
<1>14. QED
  BY <1>4, <1>5, <1>6, <1>7, <1>8, <1>9, <1>10, <1>11, <1>12, <1>13 DEF Next, Outside, World, Acts, Invokes

-------------------------------------------------------------------------------
(* The theorems.                                                           *)

Inv == Kinds /\ Locked /\ Answered /\ Once

(* What holds of the calls holds at first.                                 *)
LEMMA InvInit == Init => Inv
<1> SUFFICES ASSUME Init PROVE Inv
  OBVIOUS
<1>1. /\ \A s \in Server : reader[s] = {} /\ pending[s] = {} /\ asked[s] = {} /\ answers[s] = {}
      /\ \A t \in Thread : /\ pc[t] = "idle" /\ done[t] = "no" /\ error[t] = "no" /\ target[t] = {}
                           /\ ran[t] = 0
  BY DEF Init, ChannelInit
<1>2. Locked
  BY <1>1 DEF Locked
<1>3. Answered
  BY <1>1 DEF Answered, Listed, Awaited, Carried
<1>4. Once
  BY <1>1 DEF Once, Leaves, Ran
<1>5. QED
  BY <1>2, <1>3, <1>4, KindsInit DEF Inv

(* The four parts hold together: who holds the lock tells whose answer is  *)
(* read, the list of calls tells which answers there are, and these tell   *)
(* what was carried out.                                                   *)
LEMMA InvHolds == Spec => []Inv
<1>1. Inv /\ [Next]_vars => Inv'
  BY KindsStep, LockedStep, AnsweredStep, OnceStep DEF Inv
<1>2. QED
  BY <1>1, InvInit, PTL DEF Spec

(* A set that has one element at most.                                     *)
LEMMA AtMostOne == ASSUME NEW S, \A x, y \in S : x = y PROVE Cardinality(S) <= 1
<1>1. CASE S = {}
  <2>1. Cardinality(S) = 0
    BY <1>1, FS_EmptySet, Zenon
  <2>2. QED
    BY <2>1
<1>2. CASE S # {}
  <2>1. PICK x : S = {x}
    BY <1>2
  <2>2. Cardinality(S) = 1
    BY <2>1, FS_Singleton, Zenon
  <2>3. QED
    BY <2>2
<1>3. QED
  BY <1>1, <1>2

(* The variables range over their types; in particular readMut is held by  *)
(* one thread at most, the one that reads.                                 *)
THEOREM TypeCorrect == Spec => []TypeOK
<1>1. ASSUME Inv PROVE TypeOK
  <2>1. \A s \in Server : Cardinality(reader[s]) <= 1
    BY <1>1, AtMostOne DEF Inv, Locked
  <2>2. Cardinality(active) <= 1
    BY <1>1, AtMostOne DEF Inv, Kinds
  <2>3. \A t \in Thread : pc[t] \in {"read", "body", "torn"} <=> t \in reader[at[t]]
    BY <1>1 DEF Inv, Kinds, Locked
  <2>4. {pending[s] : s \in Server} \cup {asked[s] : s \in Server} \subseteq SUBSET Thread
    BY <1>1 DEF Inv, Kinds
  <2>5. QED
    BY <1>1, <2>1, <2>2, <2>3, <2>4 DEF TypeOK, ChannelTypeOK, Inv, Kinds, Places
<1>2. QED
  BY <1>1, InvHolds, PTL

(* No answer is without its call, and no call ends well that was not       *)
(* carried out, whatever threads share the connection and lose it.         *)
THEOREM AnswersArrive == Spec => []AnswersReachTheirCalls
<1>1. ASSUME Inv PROVE AnswersReachTheirCalls
  BY <1>1 DEF Inv, Answered, Listed, Carried, AnswersReachTheirCalls
<1>2. QED
  BY <1>1, InvHolds, PTL

(* A call that is not idempotent is carried out once at most, unless a     *)
(* thread has waited in vain.                                              *)
THEOREM CarriedOutOnce == Spec => []OnceUnlessStalled
<1>1. ASSUME Inv PROVE OnceUnlessStalled
  BY <1>1 DEF Inv, Once, Ran, OnceUnlessStalled
<1>2. QED
  BY <1>1, InvHolds, PTL

===============================================================================
