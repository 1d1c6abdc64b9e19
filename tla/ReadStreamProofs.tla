---------------------------- MODULE ReadStreamProofs ----------------------------
(* Theorems about ReadStream, for every length of the file, every buffer   *)
(* of the Readable and every number of threads.                            *)
EXTENDS ReadStream, FiniteSetTheorems, SequenceTheorems, TLAPS

(* Open, Close and the Read workers are workers of their own.              *)
LEMMA OpSets == /\ OpenOp \in Op /\ CloseOp \in Op /\ DataOp \subseteq Op
                /\ OpenOp \notin DataOp /\ CloseOp \notin DataOp /\ OpenOp # CloseOp
                /\ 0 \notin DataOp /\ DataOp \subseteq Nat
BY NativeAssumption DEF OpenOp, CloseOp, Op, DataOp

(* A set given by one element has one.                                     *)
LEMMA AtMostOne == (\A x : Cardinality({x}) = 1) /\ Cardinality({}) = 0
<1>1. \A x : Cardinality({x}) = 1
  BY FS_Singleton, Zenon
<1>2. Cardinality({}) = 0
  BY FS_EmptySet, Zenon
<1>3. QED
  BY <1>1, <1>2

(* How many workers a _read makes.                                         *)
LEMMA Made ==
  /\ Cardinality(ReadCalls) = IF ~closed /\ opened THEN 1 ELSE 0
  /\ Cardinality(Woken) = IF parked /\ ~closed THEN 1 ELSE 0
<1>1. ~closed /\ opened => Cardinality(ReadCalls) = 1
  BY AtMostOne DEF ReadCalls
<1>2. ~(~closed /\ opened) => Cardinality(ReadCalls) = 0
  BY AtMostOne DEF ReadCalls
<1>3. parked /\ ~closed => Cardinality(Woken) = 1
  BY AtMostOne DEF Woken
<1>4. ~(parked /\ ~closed) => Cardinality(Woken) = 0
  BY AtMostOne DEF Woken
<1>5. QED
  BY <1>1, <1>2, <1>3, <1>4

(* The variables are of the right kind; TypeOK also bounds them.           *)
Kinds ==
  /\ StreamTypeOK
  /\ {patient, wanted, reading, parked, ended, endSeen} \subseteq BOOLEAN
  /\ issued \in Nat
  /\ queue \in Seq(Nat) /\ received \in Seq(Nat)
  /\ size \in 0 .. Blocks /\ offset \in 0 .. size
  /\ block \in [DataOp -> 0 .. Blocks]

-------------------------------------------------------------------------------
(* What becomes of the workers.                                            *)

(* In a turn of the JavaScript thread: a worker called back was done, and  *)
(* one queued was idle.                                                    *)
LEMMA Turned ==
  ASSUME NativeTypeOK, NEW n, NEW done, NEW new, CloseTurn(n, done, new)
  PROVE  /\ UNCHANGED <<file, inside, connected, result, broken>>
         /\ \A k \in Op :
              /\ k \in done => stage[k] = "done" /\ stage'[k] = "delivered"
              /\ k \notin done /\ (k \in new \/ (k = CloseOp /\ FirstClose(n)))
                   => stage[k] = "idle" /\ stage'[k] = "queued"
              /\ k \notin done /\ k \notin new /\ ~(k = CloseOp /\ FirstClose(n))
                   => stage'[k] = stage[k]
BY DEF CloseTurn, Pool!Turn, NativeTypeOK, Pool!PoolTypeOK

(* When a thread starts a worker, and when it is done with it.             *)
LEMMA Started ==
  ASSUME NativeTypeOK, NEW k \in Op, Pool!Start(k)
  PROVE  /\ stage[k] = "queued"
         /\ \A m \in Op : stage'[m] = IF m = k THEN "running" ELSE stage[m]
BY DEF Pool!Start, NativeTypeOK, Pool!PoolTypeOK

(* When a thread is done with a worker.                                    *)
LEMMA Finished ==
  ASSUME NativeTypeOK, NEW k \in Op, Pool!Finish(k)
  PROVE  /\ stage[k] = "running"
         /\ \A m \in Op : stage'[m] = IF m = k THEN "done" ELSE stage[m]
BY DEF Pool!Finish, NativeTypeOK, Pool!PoolTypeOK

(* The pool's steps keep its two variables in their types.                 *)
LEMMA PoolTypes ==
  ASSUME Pool!PoolTypeOK,
         \/ \E done, new : Pool!Turn(done, new)
         \/ \E k \in Op : Pool!Start(k) \/ Pool!Finish(k)
  PROVE  Pool!PoolTypeOK'
<1>1. ASSUME NEW done, NEW new, Pool!Turn(done, new) PROVE Pool!PoolTypeOK'
  BY <1>1 DEF Pool!PoolTypeOK, Pool!Turn, Pool!Stages, Pool!In
<1>2. ASSUME NEW k \in Op, Pool!Start(k) PROVE Pool!PoolTypeOK'
  BY <1>2 DEF Pool!PoolTypeOK, Pool!Start, Pool!Stages
<1>3. ASSUME NEW k \in Op, Pool!Finish(k) PROVE Pool!PoolTypeOK'
  BY <1>3 DEF Pool!PoolTypeOK, Pool!Finish, Pool!Stages, Pool!In
<1>4. QED
  BY <1>1, <1>2, <1>3

(* A turn that calls close() any number of times keeps the types of the    *)
(* variables it changes.                                                   *)
LEMMA CloseTurnType ==
  ASSUME StreamTypeOK, NEW n \in Nat, NEW done, NEW new, CloseTurn(n, done, new)
  PROVE  NativeTypeOK' /\ closed' \in BOOLEAN /\ ticks' \in Nat
<1> USE DEF StreamTypeOK
<1>1. Pool!PoolTypeOK'
  BY PoolTypes DEF CloseTurn, NativeTypeOK
<1>2. QED
  BY <1>1 DEF CloseTurn, CloseTicks, FirstClose, NativeTypeOK

(* Kinds is inductive.                                                     *)
LEMMA KindsStep == ASSUME Kinds, [Next]_vars PROVE Kinds'
<1> USE OpSets DEF Kinds, hdfs, events
<1>0. StreamTypeOK /\ DestroyCalls \in Nat
  BY DEF DestroyCalls
<1>1. CASE Want /\ UNCHANGED patient
  BY <1>1 DEF Want, native, stream, StreamTypeOK, NativeTypeOK, Pool!PoolTypeOK
<1>2. CASE Takes
  <2>1. received' \in Seq(Nat) /\ queue' \in Seq(Nat)
    BY <1>2 DEF Takes, Consume
  <2>2. StreamTypeOK'
    BY <1>2 DEF Takes, Consume, native, stream, StreamTypeOK, NativeTypeOK, Pool!PoolTypeOK
  <2>3. QED
    BY <1>2, <2>1, <2>2 DEF Takes, Consume
<1>3. CASE Close
  <2>1. StreamTypeOK'
    BY <1>0, <1>3, CloseTurnType DEF Close, ClientClose, StreamTypeOK
  <2>2. QED
    BY <1>3, <2>1 DEF Close, readable
<1>4. CASE CallRead /\ UNCHANGED patient
  <2>1. StreamTypeOK'
    BY <1>0, <1>4, CloseTurnType DEF CallRead, StreamTypeOK
  <2>2. issued' \in Nat
    BY <1>4, Made DEF CallRead
  <2>3. QED
    BY <1>4, <2>1, <2>2 DEF CallRead
<1>5. CASE OnOpen /\ UNCHANGED patient
  <2>1. StreamTypeOK'
    BY <1>0, <1>5, CloseTurnType DEF OnOpen, StreamTypeOK
  <2>2. issued' \in Nat
    BY <1>5, Made DEF OnOpen
  <2>3. parked' \in BOOLEAN
    BY <1>5 DEF OnOpen
  <2>4. QED
    BY <1>5, <2>1, <2>2, <2>3 DEF OnOpen
<1>6. CASE EmitEnd /\ UNCHANGED patient
  <2>1. StreamTypeOK'
    BY <1>0, <1>6, CloseTurnType DEF EmitEnd, StreamTypeOK
  <2>2. QED
    BY <1>6, <2>1 DEF EmitEnd
<1>7. ASSUME NEW k \in DataOp, OnRead(k), UNCHANGED patient PROVE Kinds'
  <2>1. StreamTypeOK'
    BY <1>0, <1>7, CloseTurnType DEF OnRead, StreamTypeOK
  <2>2. Append(queue, block[k]) \in Seq(Nat)
    OBVIOUS
  <2>3. QED
    BY <1>7, <2>1, <2>2 DEF OnRead, Pushed
<1>8. ASSUME NEW k \in DataOp, OnReadError(k), UNCHANGED patient PROVE Kinds'
  <2>1. StreamTypeOK'
    BY <1>0, <1>8, CloseTurnType DEF OnReadError, StreamTypeOK
  <2>2. QED
    BY <1>8, <2>1 DEF OnReadError, readable
<1>9. CASE OnClosed /\ UNCHANGED <<patient, readable, hdfs>>
  <2>1. StreamTypeOK'
    BY <1>0, <1>9, CloseTurnType DEF OnClosed, CloseEvent, StreamTypeOK
  <2>2. QED
    BY <1>9, <2>1 DEF readable
<1>10. CASE Tick /\ UNCHANGED <<patient, readable, hdfs>>
  BY <1>10 DEF Tick, native, readable, StreamTypeOK, NativeTypeOK, Pool!PoolTypeOK
<1>11. ASSUME Pool!PoolTypeOK', UNCHANGED <<stream, patient, readable>>, file' \in {"wild", "null", "open", "freed"},
              inside' \in SUBSET Op, result' \in [Op -> {"none", "ok", "eof", "err"}],
              {connected', broken'} \subseteq BOOLEAN
       PROVE  Kinds' <=> /\ size' \in 0 .. Blocks /\ offset' \in 0 .. size'
                         /\ block' \in [DataOp -> 0 .. Blocks]
  BY <1>11 DEF StreamTypeOK, NativeTypeOK, stream, readable
<1>12. Pool!PoolTypeOK /\ NativeTypeOK
  BY DEF StreamTypeOK, NativeTypeOK
<1>13. ASSUME NEW k \in Op, Enter(k, TRUE) \/ StartOpen, UNCHANGED <<stream, patient, readable, hdfs>>
       PROVE  Kinds'
  BY <1>11, <1>12, <1>13, PoolTypes DEF Enter, StartOpen, NativeTypeOK
<1>14. ASSUME NEW r \in {"ok", "err"}, FinishOpen(r) \/ FinishClose(r),
              UNCHANGED <<stream, patient, readable, hdfs>>
       PROVE  Kinds'
  BY <1>11, <1>12, <1>14, PoolTypes DEF FinishOpen, FinishClose, NativeTypeOK
<1>15. ASSUME NEW k \in DataOp, NEW r \in {"ok", "eof", "err"}, Read(k, r), UNCHANGED patient
       PROVE  Kinds'
  <2>1. size' = size /\ offset' \in 0 .. size /\ block' \in [DataOp -> 0 .. Blocks]
    BY <1>15, ReadAssumption DEF Read
  <2>2. QED
    BY <1>11, <1>12, <1>15, <2>1, PoolTypes DEF Read, FinishData, NativeTypeOK
<1>16. CASE Collect \/ Disconnected
  <2>1. /\ UNCHANGED <<stage, ahead, inside, result, opened, destroyed, closed, ticks, closeSeen,
                       errorSeen, readable, hdfs>>
        /\ file' \in {file, "freed"} /\ connected' \in BOOLEAN /\ broken' \in BOOLEAN
        /\ dropped' \in BOOLEAN /\ patient' \in BOOLEAN
    BY <1>16 DEF Collect, Disconnected, Collected, Destructor, DropFs, Disconnect, stream,
                 StreamTypeOK, NativeTypeOK
  <2>2. QED
    BY <2>1 DEF readable, StreamTypeOK, NativeTypeOK, Pool!PoolTypeOK
<1>17. CASE UNCHANGED vars
  BY <1>17 DEF vars, native, stream, readable, StreamTypeOK, NativeTypeOK, Pool!PoolTypeOK
<1>18. QED
  BY <1>1, <1>2, <1>3, <1>4, <1>5, <1>6, <1>7, <1>8, <1>9, <1>10, <1>13, <1>14, <1>15, <1>16, <1>17
  DEF Next, LoopStep, PoolStep

(* Kinds holds at first.                                                   *)
LEMMA KindsInit == Init => Kinds
<1> SUFFICES ASSUME Init PROVE Kinds
  OBVIOUS
<1>1. NativeTypeOK
  BY DEF Init, StreamInit, NativeInit, NativeTypeOK, Pool!PoolTypeOK, Pool!Stages
<1>2. StreamTypeOK
  BY <1>1 DEF Init, StreamInit, StreamTypeOK
<1>3. block \in [DataOp -> 0 .. Blocks] /\ offset \in 0 .. size /\ size \in 0 .. Blocks
  BY ReadAssumption DEF Init
<1>4. <<>> \in Seq(Nat)
  OBVIOUS
<1>5. /\ queue \in Seq(Nat) /\ received \in Seq(Nat) /\ issued \in Nat
      /\ {patient, wanted, reading, parked, ended, endSeen} \subseteq BOOLEAN
  BY <1>4 DEF Init
<1>6. QED
  BY <1>2, <1>3, <1>5 DEF Kinds

-------------------------------------------------------------------------------
(* The blocks.                                                             *)

(* How many blocks the Readable has been given.                            *)
Got == Len(received) + Len(queue)

(* No Read worker is made before 'open'.  While the Readable waits, the    *)
(* last of them is on its way, or has failed, or is still to be made, so   *)
(* that there is never a second one; while it does not, all blocks read    *)
(* were pushed, or null was.                                               *)
Counted ==
  /\ ~opened => issued = 0
  /\ opened => stage[OpenOp] = "delivered"
  /\ parked => reading /\ ~opened
  /\ reading => ~ended /\ Len(queue) < HighWater
  /\ Len(queue) <= HighWater
  /\ issued \in {Got, Got + 1}
  /\ ended => issued = Got + 1
  /\ ~ended /\ ~reading => issued = Got
  /\ \A k \in DataOp : k > issued <=> stage[k] = "idle"
  /\ \A k \in DataOp : InFlight(k) => k = issued /\ reading /\ issued = Got + 1
  /\ endSeen => ended /\ queue = <<>>

(* The position of the input stream is that of the Readable, but for a     *)
(* block that a worker holds.                                              *)
Positioned ==
  /\ \A k \in DataOp : stage[k] \in {"idle", "queued", "running"} => result[k] = "none"
  /\ Got <= offset
  /\ issued = Got => offset = Got
  /\ issued = Got + 1 => /\ issued \in DataOp
                         /\ offset = IF result[issued] = "ok" THEN Got + 1 ELSE Got
                         /\ result[issued] = "ok" => block[issued] = Got + 1
                         /\ result[issued] = "eof" => size = Got
  /\ ended => size = Got

(* Every block is where its number says.                                   *)
Numbered ==
  /\ \A i \in 1 .. Len(received) : received[i] = i
  /\ \A i \in 1 .. Len(queue) : queue[i] = Len(received) + i

Flow == Counted /\ Positioned /\ Numbered

(* A queue that goes on with its next block, or is begun, stays in order.  *)
LEMMA PushedInOrder ==
  ASSUME NEW q \in Seq(Nat), NEW n \in Nat, \A i \in 1 .. Len(q) : q[i] = n + i
  PROVE  LET p == Append(q, n + Len(q) + 1)
         IN  Len(p) = Len(q) + 1 /\ \A i \in 1 .. Len(p) : p[i] = n + i
OBVIOUS

(* What is left of a queue in order is in order.                           *)
LEMMA TakenInOrder ==
  ASSUME NEW q \in Seq(Nat), NEW n \in Nat, \A i \in 1 .. Len(q) : q[i] = n + i, q # <<>>
  PROVE  /\ Head(q) = n + 1 /\ Len(Tail(q)) = Len(q) - 1 /\ Len(q) \in Nat
         /\ \A i \in 1 .. Len(Tail(q)) : Tail(q)[i] = n + 1 + i
OBVIOUS

(* A block more can be asked for as long as there are any.                 *)
LEMMA Room ==
  ASSUME Kinds, Flow, issued = Got PROVE issued + 1 \in DataOp
<1>1. Got <= offset /\ offset <= Blocks /\ offset \in Nat /\ issued \in Nat
  BY ReadAssumption DEF Kinds, Flow, Positioned
<1>2. QED
  BY <1>1, ReadAssumption, NativeAssumption DEF DataOp

(* A step that neither makes nor answers a Read worker.                    *)
LEMMA FlowKept ==
  ASSUME Kinds, Flow,
         \A k \in DataOp : /\ stage'[k] = "idle" <=> stage[k] = "idle"
                           /\ InFlight(k)' => InFlight(k)
                           /\ result'[k] = result[k]
                           /\ stage'[k] \in {"idle", "queued", "running"}
                                => stage[k] \in {"idle", "queued", "running"},
         stage[OpenOp] = "delivered" => stage'[OpenOp] = "delivered",
         UNCHANGED <<opened, reading, parked, issued, queue, received, ended, endSeen>>,
         UNCHANGED <<size, offset, block>>
  PROVE  Flow'
<1>1. Got' = Got
  BY DEF Got
<1>2. Counted'
  BY <1>1 DEF Flow, Counted
<1>3. Numbered'
  BY <1>1 DEF Flow, Numbered
<1>4. Positioned'
  BY <1>1 DEF Flow, Positioned
<1>5. QED
  BY <1>2, <1>3, <1>4 DEF Flow

(* A _read asks for the next block.                                        *)
LEMMA FlowCallRead == ASSUME Kinds, Flow, CallRead PROVE Flow'
<1> USE OpSets
<1>0. /\ NativeTypeOK /\ issued \in Nat /\ Got \in Nat /\ Len(queue) \in Nat
      /\ opened \in BOOLEAN /\ ended \in BOOLEAN /\ endSeen \in BOOLEAN
      /\ HighWater \in Nat
  BY ReadAssumption DEF Kinds, StreamTypeOK, Got
<1>1. /\ ~reading /\ ~ended /\ Len(queue) < HighWater /\ reading' = TRUE
      /\ parked' = (~closed /\ ~opened)
      /\ UNCHANGED <<opened, queue, received, ended, endSeen, size, offset, block, result>>
      /\ Got' = Got
  BY DEF CallRead, Hungry, hdfs, CloseTurn, Got
<1>2. issued = Got /\ offset = Got /\ \A k \in DataOp : ~InFlight(k)
  BY <1>0, <1>1 DEF Flow, Counted, Positioned
<1>3. Numbered'
  BY <1>1 DEF Flow, Numbered
<1>4. ~endSeen /\ issued + 1 \in DataOp
  BY <1>1, <1>2, Room DEF Flow, Counted
<1>5. CASE ~closed /\ opened
  <2>1. CloseTurn(0, {}, {issued + 1}) /\ issued' = issued + 1
    BY <1>5, Made DEF CallRead, ReadCalls
  <2>2. /\ stage[issued + 1] = "idle"
        /\ \A k \in Op : stage'[k] = IF k = issued + 1 THEN "queued" ELSE stage[k]
    BY <1>0, <1>4, <2>1, Turned DEF FirstClose
  <2>3. result'[issued'] = "none" /\ issued' = Got' + 1
    BY <1>0, <1>1, <1>2, <1>4, <2>1, <2>2 DEF Flow, Positioned
  <2>4. Positioned'
    BY <1>0, <1>1, <1>2, <1>4, <2>1, <2>2, <2>3 DEF Flow, Positioned
  <2>5. Counted'
    <3>1. \A k \in DataOp : k > issued' <=> stage'[k] = "idle"
      BY <1>0, <1>2, <2>1, <2>2 DEF Flow, Counted
    <3>2. \A k \in DataOp : InFlight(k)' => k = issued'
      BY <1>2, <2>1, <2>2 DEF InFlight
    <3>3. opened => stage'[OpenOp] = "delivered"
      BY <1>4, <2>2 DEF Flow, Counted
    <3>4. QED
      BY <1>0, <1>1, <1>2, <1>4, <1>5, <2>1, <2>3, <3>1, <3>2, <3>3 DEF Counted
  <2>6. QED
    BY <1>3, <2>4, <2>5 DEF Flow
<1>6. CASE ~(~closed /\ opened)
  <2>1. CloseTurn(0, {}, {}) /\ issued' = issued
    BY <1>0, <1>6, Made DEF CallRead, ReadCalls
  <2>2. \A k \in Op : stage'[k] = stage[k]
    BY <1>0, <2>1, Turned DEF FirstClose
  <2>3. Positioned'
    BY <1>1, <1>2, <2>1, <2>2 DEF Flow, Positioned
  <2>4. Counted'
    BY <1>0, <1>1, <1>2, <1>4, <2>1, <2>2 DEF Flow, Counted, InFlight
  <2>5. QED
    BY <1>3, <2>3, <2>4 DEF Flow
<1>7. QED
  BY <1>5, <1>6

(* So does the _read that waited for 'open'.                               *)
LEMMA FlowOnOpen == ASSUME Kinds, Flow, OnOpen PROVE Flow'
<1> USE OpSets
<1>0. /\ NativeTypeOK /\ issued \in Nat /\ Got \in Nat /\ Len(queue) \in Nat
      /\ opened \in BOOLEAN /\ ended \in BOOLEAN /\ endSeen \in BOOLEAN
      /\ HighWater \in Nat
  BY ReadAssumption DEF Kinds, StreamTypeOK, Got
<1>1. /\ UNCHANGED <<reading, queue, received, ended, endSeen, size, offset, block, result>>
      /\ Got' = Got
  BY DEF OnOpen, hdfs, CloseTurn, Got
<1>2. Numbered'
  BY <1>1 DEF Flow, Numbered
<1>3. ~opened
  BY <1>0, Turned DEF OnOpen, Flow, Counted
<1>4. issued = 0 /\ Got = 0 /\ offset = 0 /\ ~ended /\ \A k \in DataOp : ~InFlight(k)
  BY <1>0, <1>3 DEF Flow, Counted, Positioned
<1>5. CASE parked /\ ~closed /\ opened' = TRUE
  <2>1. CloseTurn(0, {OpenOp}, {issued + 1}) /\ issued' = issued + 1 /\ ~parked'
    BY <1>3, <1>5, Made DEF OnOpen, Woken
  <2>2. issued + 1 \in DataOp /\ reading
    BY <1>4, <1>5, Room DEF Flow, Counted
  <2>3. /\ stage[issued + 1] = "idle" /\ stage'[OpenOp] = "delivered"
        /\ \A k \in DataOp : stage'[k] = IF k = issued + 1 THEN "queued" ELSE stage[k]
    BY <1>0, <2>1, <2>2, Turned DEF FirstClose
  <2>4. result'[issued'] = "none" /\ issued' = Got' + 1
    BY <1>1, <1>4, <2>1, <2>2, <2>3 DEF Flow, Positioned
  <2>5. Positioned'
    BY <1>0, <1>1, <1>4, <2>1, <2>2, <2>3, <2>4 DEF Flow, Positioned
  <2>6. Counted'
    <3>1. \A k \in DataOp : k > issued' <=> stage'[k] = "idle"
      BY <1>0, <1>4, <2>1, <2>3 DEF Flow, Counted
    <3>2. \A k \in DataOp : InFlight(k)' => k = issued'
      BY <1>4, <2>1, <2>3 DEF InFlight
    <3>3. QED
      BY <1>1, <1>4, <1>5, <2>1, <2>2, <2>3, <2>4, <3>1, <3>2 DEF Flow, Counted
  <2>7. QED
    BY <1>2, <2>5, <2>6 DEF Flow
<1>6. CASE ~(parked /\ ~closed /\ opened' = TRUE)
  <2>1. CloseTurn(0, {OpenOp}, {}) /\ issued' = issued /\ (parked' => parked)
    BY <1>0, <1>6, Made DEF OnOpen, Woken
  <2>2. /\ \A k \in DataOp : stage'[k] = stage[k]
        /\ stage'[OpenOp] = "delivered"
    BY <1>0, <2>1, Turned DEF FirstClose
  <2>3. Positioned'
    BY <1>1, <1>4, <2>1, <2>2 DEF Flow, Positioned
  <2>4. (opened' = TRUE /\ parked' = FALSE) \/ (opened' = opened /\ parked' = parked)
    BY DEF OnOpen
  <2>5. \A k \in DataOp : ~InFlight(k)' /\ (k > issued' <=> stage'[k] = "idle")
    BY <1>4, <2>1, <2>2 DEF Flow, Counted, InFlight
  <2>6. Counted'
    BY <1>0, <1>1, <1>3, <1>4, <2>1, <2>2, <2>4, <2>5 DEF Flow, Counted
  <2>7. QED
    BY <1>2, <2>3, <2>6 DEF Flow
<1>7. QED
  BY <1>5, <1>6

(* A worker called back is the last one made, and it was awaited.          *)
LEMMA CalledBack ==
  ASSUME Kinds, Flow, NEW n, NEW k \in DataOp, CloseTurn(n, {k}, {})
  PROVE  /\ k = issued /\ reading /\ ~ended /\ issued = Got + 1
         /\ \A m \in DataOp : stage'[m] = IF m = k THEN "delivered" ELSE stage[m]
         /\ stage[k] = "done" /\ stage[OpenOp] = "delivered" /\ stage'[OpenOp] = "delivered"
         /\ \A m \in DataOp : ~InFlight(m)'
<1> USE OpSets
<1>0. NativeTypeOK
  BY DEF Kinds, StreamTypeOK
<1>1. /\ \A m \in DataOp : stage'[m] = IF m = k THEN "delivered" ELSE stage[m]
      /\ stage[k] = "done"
      /\ stage[OpenOp] = "delivered" => stage'[OpenOp] = "delivered"
  BY <1>0, Turned
<1>2. k = issued /\ reading /\ ~ended /\ issued = Got + 1
  BY <1>1 DEF Flow, Counted, InFlight
<1>3. stage[OpenOp] = "delivered"
  BY <1>2 DEF Flow, Counted
<1>4. \A m \in DataOp : ~InFlight(m)'
  BY <1>1, <1>2 DEF Flow, Counted, InFlight
<1>5. QED
  BY <1>1, <1>2, <1>3, <1>4

(* The block that was read is pushed, or null.                             *)
LEMMA FlowOnRead == ASSUME Kinds, Flow, NEW k \in DataOp, OnRead(k) PROVE Flow'
<1> USE OpSets
<1>0. /\ issued \in Nat /\ Got \in Nat /\ queue \in Seq(Nat) /\ received \in Seq(Nat)
      /\ block[k] \in Nat /\ Len(queue) \in Nat /\ HighWater \in Nat
      /\ opened \in BOOLEAN /\ ended \in BOOLEAN /\ endSeen \in BOOLEAN /\ parked \in BOOLEAN
  BY ReadAssumption DEF Kinds, StreamTypeOK, Got
<1>1. /\ reading' = FALSE
      /\ UNCHANGED <<opened, parked, issued, received, endSeen, size, offset, block, result>>
      /\ CloseTurn(0, {k}, {})
  BY DEF OnRead, hdfs, CloseTurn
<1>2. /\ k = issued /\ reading /\ ~ended /\ issued = Got + 1
      /\ \A m \in DataOp : stage'[m] = IF m = k THEN "delivered" ELSE stage[m]
      /\ stage[k] = "done" /\ stage'[OpenOp] = "delivered"
      /\ \A m \in DataOp : ~InFlight(m)'
  BY <1>1, CalledBack
<1>3. ~parked /\ ~endSeen /\ Len(queue) < HighWater
  <2>1. opened
    BY <1>0, <1>2 DEF Flow, Counted
  <2>2. QED
    BY <1>2 DEF Flow, Counted
<1>4. \A m \in DataOp : m > issued <=> stage'[m] = "idle"
  BY <1>2 DEF Flow, Counted
<1>5. CASE result[k] = "ok" /\ queue' = Append(queue, block[k]) /\ ended' = ended
  <2>1. Len(queue') = Len(queue) + 1 /\ Got' = Got + 1 /\ block[k] = Got + 1 /\ offset = Got + 1
    BY <1>0, <1>1, <1>2, <1>5 DEF Got, Flow, Positioned
  <2>2. Numbered'
    <3>1. queue' = Append(queue, Len(received) + Len(queue) + 1) /\ Len(received) \in Nat
      BY <1>0, <1>5, <2>1 DEF Got
    <3>2. QED
      BY <1>0, <1>1, <3>1, PushedInOrder DEF Flow, Numbered
  <2>3. Positioned'
    BY <1>0, <1>1, <1>2, <1>5, <2>1 DEF Flow, Positioned
  <2>4. Counted'
    <3>1. /\ issued' = Got' /\ Len(queue') <= HighWater /\ ~ended' /\ ~endSeen' /\ ~reading'
          /\ ~parked' /\ opened'
      BY <1>0, <1>1, <1>2, <1>3, <1>5, <2>1 DEF Flow, Counted
    <3>2. stage'[OpenOp] = "delivered" /\ \A m \in DataOp : m > issued' <=> stage'[m] = "idle"
      BY <1>1, <1>2, <1>4
    <3>3. QED
      BY <1>2, <3>1, <3>2 DEF Counted
  <2>5. QED
    BY <2>2, <2>3, <2>4 DEF Flow
<1>6. CASE result[k] = "eof" /\ ended' = TRUE /\ queue' = queue
  <2>1. Got' = Got
    BY <1>1, <1>6 DEF Got
  <2>2. Numbered'
    BY <1>1, <1>6 DEF Flow, Numbered
  <2>3. Positioned'
    BY <1>0, <1>1, <1>2, <1>6, <2>1 DEF Flow, Positioned
  <2>4. Counted'
    BY <1>0, <1>1, <1>2, <1>3, <1>4, <1>6, <2>1 DEF Flow, Counted
  <2>5. QED
    BY <2>2, <2>3, <2>4 DEF Flow
<1>7. QED
  BY <1>5, <1>6 DEF OnRead, Callback, Pushed

(* An error is not pushed: the Readable is left waiting.                   *)
LEMMA FlowOnReadError == ASSUME Kinds, Flow, NEW k \in DataOp, OnReadError(k) PROVE Flow'
<1> USE OpSets
<1>1. /\ UNCHANGED <<opened, result, wanted, reading, parked, issued, queue, received, ended, endSeen>>
      /\ UNCHANGED <<size, offset, block>> /\ Got' = Got
      /\ CloseTurn(DestroyCalls, {k}, {})
  BY DEF OnReadError, readable, hdfs, CloseTurn, Got
<1>2. /\ k = issued /\ \A m \in DataOp : stage'[m] = IF m = k THEN "delivered" ELSE stage[m]
      /\ stage[k] = "done" /\ stage'[OpenOp] = "delivered"
      /\ \A m \in DataOp : ~InFlight(m)'
  BY <1>1, CalledBack
<1>3. Counted'
  BY <1>1, <1>2 DEF Flow, Counted
<1>4. Positioned'
  BY <1>1, <1>2 DEF Flow, Positioned
<1>5. Numbered'
  BY <1>1 DEF Flow, Numbered
<1>6. QED
  BY <1>3, <1>4, <1>5 DEF Flow

(* The client takes a block.                                               *)
LEMMA FlowConsume == ASSUME Kinds, Flow, Consume PROVE Flow'
<1>0. /\ issued \in Nat /\ queue \in Seq(Nat) /\ received \in Seq(Nat)
      /\ Len(received) \in Nat /\ HighWater \in Nat
  BY ReadAssumption DEF Kinds
<1>1. /\ UNCHANGED <<stage, result, opened, reading, parked, issued, ended, endSeen>>
      /\ UNCHANGED <<size, offset, block>>
      /\ received' = Append(received, Head(queue)) /\ queue' = Tail(queue) /\ queue # <<>>
  BY DEF Consume, native, stream, hdfs
<1>2. /\ Head(queue) = Len(received) + 1 /\ Len(queue') = Len(queue) - 1 /\ Len(queue) \in Nat
      /\ \A i \in 1 .. Len(queue') : queue'[i] = Len(received) + 1 + i
  BY <1>0, <1>1, TakenInOrder DEF Flow, Numbered
<1>3. /\ Len(received') = Len(received) + 1
      /\ \A i \in 1 .. Len(received') : received'[i] = i
  <2>1. received' = Append(received, 0 + Len(received) + 1) /\ \A i \in 1 .. Len(received) : received[i] = 0 + i
    BY <1>0, <1>1, <1>2 DEF Flow, Numbered
  <2>2. QED
    BY <1>0, <2>1, PushedInOrder
<1>4. Got' = Got
  BY <1>0, <1>2, <1>3 DEF Got
<1>5. Numbered'
  BY <1>0, <1>2, <1>3 DEF Numbered
<1>6. Positioned'
  BY <1>1, <1>4 DEF Flow, Positioned
<1>7. Counted'
  <2>1. /\ Len(queue') <= HighWater /\ (reading' => Len(queue') < HighWater)
        /\ ~endSeen'
    BY <1>0, <1>1, <1>2 DEF Flow, Counted
  <2>2. QED
    BY <1>1, <1>4, <2>1 DEF Flow, Counted, InFlight
<1>8. QED
  BY <1>5, <1>6, <1>7 DEF Flow

(* 'end' is emitted, and the stream closes itself.                         *)
LEMMA FlowEmitEnd == ASSUME Kinds, Flow, EmitEnd PROVE Flow'
<1> USE OpSets
<1>0. NativeTypeOK
  BY DEF Kinds, StreamTypeOK
<1>1. /\ UNCHANGED <<opened, result, reading, parked, issued, queue, received, ended>>
      /\ UNCHANGED <<size, offset, block>> /\ Got' = Got /\ ended /\ queue = <<>>
      /\ CloseTurn(DestroyCalls, {}, {})
  BY DEF EmitEnd, readable, hdfs, CloseTurn, Got
<1>2. /\ \A m \in DataOp : stage'[m] = stage[m]
      /\ stage'[OpenOp] = stage[OpenOp]
  BY <1>0, <1>1, Turned
<1>3. Counted'
  BY <1>1, <1>2 DEF Flow, Counted, InFlight
<1>4. Positioned'
  BY <1>1, <1>2 DEF Flow, Positioned
<1>5. Numbered'
  BY <1>1 DEF Flow, Numbered
<1>6. QED
  BY <1>3, <1>4, <1>5 DEF Flow

(* A Read worker reads the block the Readable waits for.                   *)
LEMMA FlowReading ==
  ASSUME Kinds, Flow, NEW k \in DataOp, NEW r \in {"ok", "eof", "err"}, Read(k, r)
  PROVE  Flow'
<1> USE OpSets
<1>0. /\ NativeTypeOK /\ issued \in Nat /\ Got \in Nat /\ offset \in Nat /\ size \in Nat
      /\ offset <= size /\ block \in [DataOp -> 0 .. Blocks]
  BY ReadAssumption DEF Kinds, StreamTypeOK, Got
<1>1. /\ UNCHANGED <<opened, reading, parked, issued, queue, received, ended, endSeen, size>>
      /\ Got' = Got /\ Pool!Finish(k)
  BY DEF Read, FinishData, stream, readable, Got
<1>2. /\ stage[k] = "running"
      /\ \A m \in Op : stage'[m] = IF m = k THEN "done" ELSE stage[m]
      /\ \A m \in DataOp : result'[m] = IF m = k THEN r ELSE result[m]
  BY <1>0, <1>1, Finished DEF Read, FinishData, NativeTypeOK
<1>3. k = issued /\ issued = Got + 1 /\ reading /\ ~ended
  BY <1>2 DEF Flow, Counted, InFlight
<1>4. result[k] = "none" /\ offset = Got
  BY <1>2, <1>3 DEF Flow, Positioned
<1>5. /\ offset' = IF r = "ok" THEN Got + 1 ELSE Got
      /\ r = "ok" => block'[k] = Got + 1
      /\ r = "eof" => size = Got
  BY <1>0, <1>4 DEF Read
<1>6. Counted'
  <2>1. \A m \in DataOp : InFlight(m)' => m = issued
    BY <1>2, <1>3 DEF Flow, Counted, InFlight
  <2>2. \A m \in DataOp : stage'[m] = "idle" <=> stage[m] = "idle"
    BY <1>2
  <2>3. stage'[OpenOp] = stage[OpenOp]
    BY <1>2
  <2>4. QED
    BY <1>1, <1>3, <2>1, <2>2, <2>3 DEF Flow, Counted
<1>7. Positioned'
  BY <1>0, <1>1, <1>2, <1>3, <1>5 DEF Flow, Positioned
<1>8. Numbered'
  BY <1>1 DEF Flow, Numbered
<1>9. QED
  BY <1>6, <1>7, <1>8 DEF Flow

(* Every step keeps the flow.                                              *)
LEMMA FlowStep == ASSUME Kinds, Flow, [Next]_vars PROVE Flow'
<1> USE OpSets
<1>0. NativeTypeOK
  BY DEF Kinds, StreamTypeOK
<1>1. CASE Want \/ UNCHANGED vars
  <2>1. /\ UNCHANGED <<stage, result, opened, reading, parked, issued, queue, received, ended, endSeen>>
        /\ UNCHANGED <<size, offset, block>>
    BY <1>1 DEF Want, vars, native, stream, readable, hdfs
  <2>2. QED
    BY <2>1, FlowKept DEF InFlight
<1>2. CASE Consume
  BY <1>2, FlowConsume
<1>3. ASSUME NEW n, NEW done \in SUBSET {CloseOp}, CloseTurn(n, done, {}),
             UNCHANGED <<opened, readable, hdfs>>
      PROVE  Flow'
  <2>1. /\ UNCHANGED <<reading, parked, issued, queue, received, ended, endSeen>>
        /\ UNCHANGED <<opened, size, offset, block, result>>
    BY <1>3 DEF readable, hdfs, CloseTurn
  <2>2. \A k \in Op : k # CloseOp => stage'[k] = stage[k]
    BY <1>0, <1>3, Turned
  <2>3. QED
    BY <2>1, <2>2, FlowKept DEF InFlight
<1>4. CASE Close \/ (OnClosed /\ UNCHANGED <<readable, hdfs>>)
  BY <1>3, <1>4 DEF Close, ClientClose, OnClosed
<1>5. CASE CallRead \/ OnOpen \/ EmitEnd
  BY <1>5, FlowCallRead, FlowOnOpen, FlowEmitEnd
<1>6. ASSUME NEW k \in DataOp, OnRead(k) \/ OnReadError(k) PROVE Flow'
  BY <1>6, FlowOnRead, FlowOnReadError
<1>7. CASE (Tick \/ Collect \/ Disconnected) /\ UNCHANGED <<readable, hdfs>>
  <2>1. /\ UNCHANGED <<stage, result, opened, reading, parked, issued, queue, received, ended, endSeen>>
        /\ UNCHANGED <<size, offset, block>>
    BY <1>7 DEF Tick, Collect, Collected, Destructor, Disconnected, DropFs, Disconnect, native,
                stream, readable, hdfs
  <2>2. QED
    BY <2>1, FlowKept DEF InFlight
<1>8. ASSUME NEW k \in Op, Pool!Start(k), result' = result, UNCHANGED <<stream, readable, hdfs>>
      PROVE  Flow'
  <2>1. /\ UNCHANGED <<opened, reading, parked, issued, queue, received, ended, endSeen>>
        /\ UNCHANGED <<size, offset, block>>
    BY <1>8 DEF stream, readable, hdfs
  <2>2. /\ stage[k] = "queued"
        /\ \A m \in Op : stage'[m] = IF m = k THEN "running" ELSE stage[m]
    BY <1>0, <1>8, Started
  <2>3. QED
    BY <1>8, <2>1, <2>2, FlowKept DEF InFlight
<1>9. ASSUME NEW k \in {OpenOp, CloseOp}, Pool!Finish(k), NEW r, result' = [result EXCEPT ![k] = r],
             UNCHANGED <<stream, readable, hdfs>>
      PROVE  Flow'
  <2>1. /\ UNCHANGED <<opened, reading, parked, issued, queue, received, ended, endSeen>>
        /\ UNCHANGED <<size, offset, block>>
    BY <1>9 DEF stream, readable, hdfs
  <2>2. /\ stage[k] = "running"
        /\ \A m \in Op : stage'[m] = IF m = k THEN "done" ELSE stage[m]
        /\ \A m \in DataOp : result'[m] = result[m]
    BY <1>0, <1>9, Finished DEF NativeTypeOK
  <2>3. QED
    BY <2>1, <2>2, FlowKept DEF InFlight
<1>10. ASSUME NEW k \in DataOp, NEW r \in {"ok", "eof", "err"}, Read(k, r) PROVE Flow'
  BY <1>10, FlowReading
<1>11. CASE PoolStep
  <2>1. ASSUME UNCHANGED <<stream, patient, readable, hdfs>>, StartOpen \/ \E k \in Op : Enter(k, TRUE)
        PROVE  Flow'
    BY <1>8, <2>1 DEF StartOpen, Enter
  <2>2. ASSUME UNCHANGED <<stream, patient, readable, hdfs>>,
               NEW r \in {"ok", "err"}, FinishOpen(r) \/ FinishClose(r)
        PROVE  Flow'
    BY <1>9, <2>2 DEF FinishOpen, FinishClose
  <2>3. QED
    BY <1>10, <1>11, <2>1, <2>2 DEF PoolStep
<1>12. CASE LoopStep
  BY <1>4, <1>5, <1>6, <1>7, <1>12 DEF LoopStep
<1>13. QED
  BY <1>1, <1>2, <1>4, <1>7, <1>11, <1>12 DEF Next, Takes, Collect, Disconnected

(* They hold in the beginning, of an empty queue.                          *)
LEMMA FlowInit == Init => Flow
<1> SUFFICES ASSUME Init PROVE Flow
  OBVIOUS
<1> USE OpSets
<1>1. /\ queue = <<>> /\ received = <<>> /\ Len(queue) = 0 /\ Len(received) = 0
      /\ issued = 0 /\ offset = 0 /\ ~opened /\ ~reading /\ ~parked /\ ~ended /\ ~endSeen
      /\ Got = 0 /\ HighWater \in Nat
  BY ReadAssumption DEF Init, StreamInit, Got
<1>2. \A k \in DataOp : stage[k] = "idle" /\ result[k] = "none" /\ k > 0
  BY DEF Init, StreamInit, NativeInit, DataOp
<1>3. QED
  BY <1>1, <1>2 DEF Flow, Counted, Positioned, Numbered, InFlight

Data == Kinds /\ Flow

(* Both hold of every client.                                              *)
LEMMA DataHolds == Spec => []Data
<1>1. Init => Data
  BY KindsInit, FlowInit DEF Data
<1>2. Data /\ [Next]_vars => Data'
  BY KindsStep, FlowStep DEF Data
<1>3. QED
  BY <1>1, <1>2, PTL DEF Spec

-------------------------------------------------------------------------------
(* The theorems about every client.                                        *)

(* A sequence is one over any set that has its elements.                   *)
LEMMA SeqOfItsElements ==
  ASSUME NEW S, NEW T, NEW s \in Seq(S), \A i \in 1 .. Len(s) : s[i] \in T
  PROVE  s \in Seq(T)
<1>1. ASSUME NEW D, NEW f \in [D -> S], \A i \in D : f[i] \in T PROVE f \in [D -> T]
  BY <1>1
<1>2. s \in [1 .. Len(s) -> S] /\ Len(s) \in Nat
  BY LenProperties
<1>3. s \in [1 .. Len(s) -> T]
  BY <1>1, <1>2
<1>4. \A n \in Nat : [1 .. n -> T] \subseteq Seq(T)
  BY SeqDef
<1>5. QED
  BY <1>2, <1>3, <1>4

(* What bounds the variables is the flow of the blocks.                    *)
LEMMA Bounded == ASSUME Data PROVE TypeOK
<1>0. /\ Kinds /\ issued \in Nat /\ offset \in Nat /\ size \in Nat /\ Blocks \in Nat
      /\ Len(queue) \in Nat /\ Len(received) \in Nat
      /\ Got <= offset /\ offset <= size /\ size <= Blocks /\ Got \in Nat
  BY ReadAssumption DEF Data, Flow, Positioned, Kinds, Got
<1>1. issued \in 0 .. Ops
  BY <1>0, ReadAssumption DEF Data, Flow, Counted
<1>2. \A i \in 1 .. Len(received) : received[i] \in 1 .. Blocks
  BY <1>0 DEF Data, Flow, Numbered, Got
<1>3. \A i \in 1 .. Len(queue) : queue[i] \in 1 .. Blocks
  BY <1>0 DEF Data, Flow, Numbered, Got
<1>4. ASSUME NEW s \in Seq(Nat), \A i \in 1 .. Len(s) : s[i] \in 1 .. Blocks
      PROVE  s \in Seq(1 .. Blocks)
  BY <1>4, SeqOfItsElements
<1>5. {queue, received} \subseteq Seq(1 .. Blocks)
  BY <1>0, <1>2, <1>3, <1>4 DEF Kinds
<1>6. Len(queue) <= HighWater
  BY DEF Data, Flow, Counted
<1>7. QED
  BY <1>0, <1>1, <1>5, <1>6 DEF TypeOK, ReadTypeOK, Kinds

(* The variables range over their types: never more than Blocks + 1 Read   *)
(* workers, nor more blocks buffered than HighWater.                       *)
THEOREM TypeCorrect == Spec => []TypeOK
BY DataHolds, Bounded, PTL

(* A 'data' event never skips a block, repeats one or takes two in the     *)
(* wrong order, however the workers of the pool overlap.                   *)
THEOREM InOrder == Spec => []ReceivedInOrder
<1>1. ASSUME Data PROVE ReceivedInOrder
  <2>1. /\ queue \in Seq(Nat) /\ received \in Seq(Nat)
        /\ Len(received) \in Nat /\ Len(queue) \in Nat
    BY <1>1 DEF Data, Kinds
  <2>2. /\ Len(received \o queue) = Len(received) + Len(queue)
        /\ \A i \in 1 .. Len(received) + Len(queue) :
             (received \o queue)[i] = IF i <= Len(received) THEN received[i]
                                      ELSE queue[i - Len(received)]
    BY <2>1
  <2>3. \A i \in 1 .. Len(received) + Len(queue) : (received \o queue)[i] = i
    BY <1>1, <2>1, <2>2 DEF Data, Flow, Numbered
  <2>4. QED
    BY <2>2, <2>3 DEF ReceivedInOrder
<1>2. QED
  BY <1>1, DataHolds, PTL

(* 'end' means that every block of the file was received.                  *)
THEOREM EndIsTrue == Spec => []EndMeansAll
<1>1. ASSUME Data PROVE EndMeansAll
  <2>1. endSeen => queue = <<>> /\ size = Got
    BY <1>1 DEF Data, Flow, Counted, Positioned
  <2>2. Len(<<>>) = 0 /\ Len(received) \in Nat
    BY <1>1 DEF Data, Kinds
  <2>3. QED
    BY <2>1, <2>2 DEF EndMeansAll, Got
<1>2. QED
  BY <1>1, DataHolds, PTL

(* A Read worker is queued by a _read alone, and not once close() was      *)
(* called: the close checks of _read and of the listener that waits for    *)
(* 'open' leave no gap between them.                                       *)
THEOREM ClosedIsClosed == Spec => NoReadAfterClose
<1> DEFINE Barred == \A k \in DataOp : closed /\ stage[k] = "idle" => stage'[k] = "idle"
<1> USE OpSets
<1>1. ASSUME Data, [Next]_vars PROVE Barred
  <2>0. NativeTypeOK
    BY <1>1 DEF Data, Kinds, StreamTypeOK
  <2>1. ASSUME NEW n, NEW done, NEW new, CloseTurn(n, done, new), closed => new = {} PROVE Barred
    BY <2>0, <2>1, Turned
  <2>2. CASE stage' = stage
    BY <2>2
  <2>3. ASSUME NEW k \in Op, Pool!Start(k) \/ Pool!Finish(k) PROVE Barred
    <3>1. stage[k] # "idle" /\ \A m \in Op : m # k => stage'[m] = stage[m]
      BY <2>0, <2>3, Started, Finished
    <3>2. QED
      BY <3>1
  <2>4. CASE LoopStep
    <3>1. CASE CallRead
      BY <2>1, <3>1 DEF CallRead, ReadCalls
    <3>2. CASE OnOpen
      BY <2>1, <3>2 DEF OnOpen, Woken
    <3>3. CASE EmitEnd \/ OnClosed \/ Tick
      BY <2>1, <2>2, <3>3 DEF EmitEnd, OnClosed, Tick, native
    <3>4. ASSUME NEW k \in DataOp, OnRead(k) \/ OnReadError(k) PROVE Barred
      BY <2>1, <3>4 DEF OnRead, OnReadError
    <3>5. QED
      BY <2>4, <3>1, <3>2, <3>3, <3>4 DEF LoopStep
  <2>5. CASE PoolStep
    <3>1. \E k \in Op : Pool!Start(k) \/ Pool!Finish(k)
      BY <2>5 DEF PoolStep, StartOpen, Enter, FinishOpen, FinishClose, Read, FinishData
    <3>2. QED
      BY <2>3, <3>1
  <2>6. CASE Want \/ Takes \/ Close \/ Collect \/ Disconnected \/ UNCHANGED vars
    <3>1. CASE Close
      BY <2>1, <3>1 DEF Close, ClientClose
    <3>2. CASE Want \/ Takes \/ Collect \/ Disconnected \/ UNCHANGED vars
      BY <2>2, <3>2 DEF Want, Takes, Consume, Collect, Collected, Destructor, Disconnected, DropFs,
                        Disconnect, vars, native
    <3>3. QED
      BY <2>6, <3>1, <3>2
  <2>7. QED
    BY <1>1, <2>4, <2>5, <2>6 DEF Next
<1>2. QED
  BY <1>1, DataHolds, PTL DEF Spec, NoReadAfterClose

-------------------------------------------------------------------------------
(* The patient client.                                                     *)

(* `file' is uninitialised only until Open returns.                        *)
Opening == file = "wild" => stage[OpenOp] \in {"queued", "running"}

(* There is nothing for another worker to meet.                            *)
Over == stage[OpenOp] = "delivered" /\ \A k \in DataOp : ~InFlight(k)

(* A patient client closes when all is over, so that the workers inside    *)
(* the input stream are running, one at a time, and all but Open run after *)
(* Open; and it lets go of the FileSystem after 'open'.                    *)
Calm ==
  /\ InFlight(CloseOp) => closed
  /\ closed => Over
  /\ \A k \in inside : stage[k] = "running" /\ k # OpenOp
  /\ connected \/ stage[OpenOp] = "delivered"

Safe == Opening /\ (patient => Calm /\ ~broken)

(* A turn of the JavaScript thread.                                        *)
LEMMA CalmTurn ==
  ASSUME NativeTypeOK, Calm, closed \in BOOLEAN, NEW n \in Nat, NEW done, NEW new,
         CloseTurn(n, done, new), CloseOp \notin new, closed \/ n > 0 => Over'
  PROVE  Calm'
<1> USE OpSets
<1>1. /\ UNCHANGED <<inside, connected>> /\ closed' = (closed \/ n > 0)
      /\ inside \in SUBSET Op
  BY DEF CloseTurn, NativeTypeOK
<1>2. InFlight(CloseOp)' => closed'
  <2>1. CASE FirstClose(n)
    BY <1>1, <2>1 DEF FirstClose
  <2>2. CASE ~FirstClose(n)
    <3>1. stage'[CloseOp] = stage[CloseOp] \/ stage'[CloseOp] = "delivered"
      BY <2>2, Turned
    <3>2. QED
      BY <1>1, <3>1 DEF Calm, InFlight
  <2>3. QED
    BY <2>1, <2>2
<1>3. \A k \in inside : stage'[k] = "running" /\ k # OpenOp
  BY <1>1, Turned DEF Calm
<1>4. stage[OpenOp] = "delivered" => stage'[OpenOp] = "delivered"
  BY Turned
<1>5. QED
  BY <1>1, <1>2, <1>3, <1>4 DEF Calm

(* It stays over as long as no worker is made.                             *)
LEMMA OverKept ==
  ASSUME NativeTypeOK, Over, NEW n, NEW done, CloseTurn(n, done, {}) PROVE Over'
BY OpSets, Turned DEF Over, InFlight

(* It is over at the end of the file.                                      *)
LEMMA EndIsOver == ASSUME Data, ended PROVE Over
<1>1. issued \in Nat /\ Got \in Nat /\ issued = Got + 1 /\ opened \in BOOLEAN /\ ~reading
  BY DEF Data, Kinds, StreamTypeOK, Flow, Counted, Got
<1>2. QED
  BY <1>1 DEF Over, Data, Flow, Counted

(* The turns of the JavaScript thread leave a patient client's stream      *)
(* calm.                                                                   *)
LEMMA CalmLoop ==
  ASSUME Data, Calm, LoopStep \/ (Close /\ patient')
  PROVE  Calm'
<1> USE OpSets
<1>0. /\ NativeTypeOK /\ closed \in BOOLEAN /\ opened \in BOOLEAN /\ issued \in Nat
      /\ DestroyCalls \in Nat /\ 0 \in Nat /\ 1 \in Nat /\ ended \in BOOLEAN
  BY DEF Data, Kinds, StreamTypeOK, DestroyCalls
<1>1. ASSUME NEW n \in Nat, NEW done, CloseTurn(n, done, {}), n > 0 => Over'
      PROVE  Calm'
  BY <1>0, <1>1, CalmTurn, OverKept DEF Calm
<1>2. CASE Close /\ patient'
  <2>1. CloseTurn(1, {}, {}) /\ endSeen
    BY <1>2 DEF Close, ClientClose
  <2>2. Over
    BY <2>1, EndIsOver DEF Data, Flow, Counted
  <2>3. QED
    BY <1>0, <1>1, <2>1, <2>2, OverKept
<1>3. CASE CallRead
  <2>1. CASE closed
    BY <1>0, <1>1, <1>3, <2>1 DEF CallRead, ReadCalls
  <2>2. CASE ~closed
    <3>1. /\ CloseTurn(0, {}, ReadCalls) /\ ReadCalls \subseteq {issued + 1}
          /\ Hungry
      BY <1>3 DEF CallRead, ReadCalls
    <3>2. issued = Got
      BY <3>1 DEF Hungry, Data, Flow, Counted
    <3>3. issued + 1 \in DataOp
      BY <3>2, Room DEF Data
    <3>4. QED
      BY <1>0, <2>2, <3>1, <3>3, CalmTurn
  <2>3. QED
    BY <2>1, <2>2
<1>4. CASE OnOpen
  <2>1. PICK new \in {{}, Woken} : CloseTurn(0, {OpenOp}, new)
    BY <1>4 DEF OnOpen
  <2>2. ~closed
    BY <1>0, <2>1, Turned DEF Calm, Over
  <2>3. CloseOp \notin new
    <3>1. CASE parked /\ ~closed
      <4>1. issued = Got
        BY <1>0, <2>1, <3>1, Turned DEF Data, Flow, Counted, Got, Kinds, Positioned
      <4>2. QED
        BY <2>1, <4>1, Room DEF Data, Woken
    <3>2. CASE ~(parked /\ ~closed)
      BY <2>1, <3>2 DEF Woken
    <3>3. QED
      BY <3>1, <3>2
  <2>4. QED
    BY <1>0, <2>1, <2>2, <2>3, CalmTurn
<1>5. CASE EmitEnd
  <2>1. CloseTurn(DestroyCalls, {}, {}) /\ ended
    BY <1>5 DEF EmitEnd
  <2>2. QED
    BY <1>0, <1>1, <2>1, EndIsOver, OverKept
<1>6. ASSUME NEW k \in DataOp, OnRead(k) PROVE Calm'
  BY <1>0, <1>1, <1>6 DEF OnRead
<1>7. ASSUME NEW k \in DataOp, OnReadError(k) PROVE Calm'
  <2>1. CloseTurn(DestroyCalls, {k}, {})
    BY <1>7 DEF OnReadError
  <2>2. Over'
    BY <2>1, CalledBack DEF Data, Over
  <2>3. QED
    BY <1>0, <1>1, <2>1, <2>2
<1>8. CASE OnClosed
  BY <1>0, <1>1, <1>8 DEF OnClosed
<1>9. CASE Tick
  BY <1>9 DEF Tick, native, Calm, Over, InFlight
<1>10. QED
  BY <1>2, <1>3, <1>4, <1>5, <1>6, <1>7, <1>8, <1>9 DEF LoopStep

(* So do the entry and the return of a worker ...                          *)
LEMMA CalmWorker ==
  ASSUME NativeTypeOK, Calm, UNCHANGED <<closed, connected>>, NEW k \in Op,
         \/ Pool!Start(k) /\ inside' \subseteq inside \cup ({k} \ {OpenOp})
         \/ Pool!Finish(k) /\ inside' = inside \ {k}
  PROVE  Calm'
<1> USE OpSets
<1>1. CASE Pool!Start(k) /\ inside' \subseteq inside \cup ({k} \ {OpenOp})
  <2>1. /\ stage[k] = "queued"
        /\ \A m \in Op : stage'[m] = IF m = k THEN "running" ELSE stage[m]
    BY <1>1, Started
  <2>2. QED
    BY <1>1, <2>1 DEF Calm, Over, InFlight, NativeTypeOK
<1>2. CASE Pool!Finish(k) /\ inside' = inside \ {k}
  <2>1. /\ stage[k] = "running"
        /\ \A m \in Op : stage'[m] = IF m = k THEN "done" ELSE stage[m]
    BY <1>2, Finished
  <2>2. QED
    BY <1>2, <2>1 DEF Calm, Over, InFlight, NativeTypeOK
<1>3. QED
  BY <1>1, <1>2

(* ... and none of them breaks anything.                                   *)
LEMMA CalmPool ==
  ASSUME Data, Opening, Calm, PoolStep, broken = FALSE
  PROVE  Calm' /\ broken' = FALSE
<1> USE OpSets
<1>0. NativeTypeOK /\ inside \in SUBSET Op /\ connected \in BOOLEAN /\ OpenOp \notin inside
  BY DEF Data, Kinds, StreamTypeOK, NativeTypeOK, Calm
<1>1. CASE StartOpen /\ UNCHANGED stream
  <2>1. stage[OpenOp] = "queued" /\ broken' = ~connected
    BY <1>0, <1>1, Started DEF StartOpen
  <2>2. Calm'
    BY <1>0, <1>1, CalmWorker DEF StartOpen, stream
  <2>3. QED
    BY <1>0, <2>1, <2>2 DEF Calm
<1>2. ASSUME NEW k \in DataOp \cup {CloseOp}, Enter(k, TRUE), UNCHANGED stream
      PROVE  Calm' /\ broken' = FALSE
  <2>1. stage[k] = "queued" /\ inside' \subseteq inside \cup {k} /\ k # OpenOp
    BY <1>0, <1>2, Started DEF Enter
  <2>2. Calm'
    BY <1>0, <1>2, <2>1, CalmWorker DEF Enter, stream
  <2>3. stage[OpenOp] = "delivered"
    <3>1. CASE k = CloseOp
      BY <2>1, <3>1 DEF Calm, InFlight, Over
    <3>2. CASE k \in DataOp
      <4>1. issued = Got + 1 /\ Got \in Nat /\ opened \in BOOLEAN
        BY <2>1, <3>2 DEF Data, Flow, Counted, InFlight, Kinds, StreamTypeOK, Got
      <4>2. QED
        BY <4>1 DEF Data, Flow, Counted
    <3>3. QED
      BY <1>2, <3>1, <3>2
  <2>4. inside = {}
    <3>1. SUFFICES ASSUME NEW m \in inside PROVE FALSE
      OBVIOUS
    <3>2. stage[m] = "running" /\ m \in DataOp \cup {CloseOp} /\ m # k
      <4>1. stage[m] = "running" /\ m # OpenOp
        BY DEF Calm
      <4>2. m \in Op /\ Op \subseteq DataOp \cup {OpenOp, CloseOp}
        BY <1>0, NativeAssumption DEF Op, DataOp, OpenOp, CloseOp
      <4>3. QED
        BY <2>1, <4>1, <4>2
    <3>3. CASE m \in DataOp /\ k \in DataOp
      BY <2>1, <3>2, <3>3 DEF Data, Flow, Counted, InFlight
    <3>4. CASE m = CloseOp \/ k = CloseOp
      BY <1>2, <2>1, <3>2, <3>4 DEF Calm, InFlight, Over
    <3>5. QED
      BY <1>2, <3>2, <3>3, <3>4
  <2>5. broken' = FALSE
    BY <1>2, <2>3, <2>4 DEF Enter, Opening
  <2>6. QED
    BY <2>2, <2>5
<1>3. ASSUME NEW k \in Op, Pool!Finish(k), inside' = inside \ {k}, UNCHANGED <<connected, broken, stream>>
      PROVE  Calm' /\ broken' = FALSE
  BY <1>0, <1>3, CalmWorker DEF stream
<1>4. ASSUME NEW r, FinishOpen(r) \/ FinishClose(r), UNCHANGED stream
      PROVE  Calm' /\ broken' = FALSE
  BY <1>0, <1>3, <1>4 DEF FinishOpen, FinishClose
<1>5. ASSUME NEW k \in DataOp, NEW r, Read(k, r) PROVE Calm' /\ broken' = FALSE
  BY <1>3, <1>5 DEF Read, FinishData
<1>6. QED
  BY <1>1, <1>2, <1>4, <1>5 DEF PoolStep

(* `file' is set by Open before the worker is done.                        *)
LEMMA OpeningStep == ASSUME Data, Opening, [Next]_vars PROVE Opening'
<1> USE OpSets
<1>0. NativeTypeOK
  BY DEF Data, Kinds, StreamTypeOK
<1>1. ASSUME NEW n, NEW done, NEW new, CloseTurn(n, done, new) PROVE Opening'
  BY <1>0, <1>1, Turned DEF Opening
<1>2. ASSUME UNCHANGED stage, file' \in {file, "freed"} PROVE Opening'
  BY <1>2 DEF Opening
<1>3. ASSUME NEW k \in Op, Pool!Start(k), UNCHANGED file PROVE Opening'
  BY <1>0, <1>3, Started DEF Opening
<1>4. ASSUME NEW k \in Op \ {OpenOp}, Pool!Finish(k), file' \in {file, "freed"} PROVE Opening'
  BY <1>0, <1>4, Finished DEF Opening
<1>5. CASE LoopStep
  <2>1. CASE \E n, done, new : CloseTurn(n, done, new)
    BY <1>1, <2>1
  <2>2. CASE Tick
    BY <1>2, <2>2 DEF Tick, native
  <2>3. QED
    BY <1>5, <2>1, <2>2 DEF LoopStep, CallRead, OnOpen, EmitEnd, OnRead, OnReadError, OnClosed
<1>6. CASE PoolStep
  <2>1. ASSUME NEW r \in {"ok", "err"}, FinishOpen(r) PROVE Opening'
    BY <2>1 DEF FinishOpen, Opening
  <2>2. QED
    BY <1>3, <1>4, <1>6, <2>1 DEF PoolStep, StartOpen, Enter, FinishClose, Read, FinishData
<1>7. CASE Close
  BY <1>1, <1>7 DEF Close, ClientClose
<1>8. CASE Want \/ Takes \/ Collect \/ Disconnected \/ UNCHANGED vars
  BY <1>2, <1>8 DEF Want, Takes, Consume, Collect, Collected, Destructor, Disconnected, DropFs,
                    Disconnect, vars, native
<1>9. QED
  BY <1>5, <1>6, <1>7, <1>8 DEF Next

(* A patient client's step is safe.                                        *)
LEMMA SafeStep == ASSUME Data, Safe, [Next]_vars PROVE Safe'
<1>1. Opening'
  BY OpeningStep DEF Safe
<1>2. SUFFICES ASSUME patient' PROVE Calm' /\ broken' = FALSE
  BY <1>1 DEF Safe
<1>3. patient /\ Calm /\ broken = FALSE /\ Opening
  <2>1. patient
    BY <1>2 DEF Next, Want, Takes, Close, LoopStep, PoolStep, Collect, Disconnected, vars
  <2>2. broken \in BOOLEAN
    BY DEF Data, Kinds, StreamTypeOK, NativeTypeOK
  <2>3. QED
    BY <2>1, <2>2 DEF Safe
<1>4. CASE PoolStep
  BY <1>3, <1>4, CalmPool
<1>5. CASE LoopStep \/ Close
  <2>1. Calm'
    BY <1>2, <1>3, <1>5, CalmLoop
  <2>2. broken' = broken
    BY <1>5 DEF LoopStep, CallRead, OnOpen, EmitEnd, OnRead, OnReadError, OnClosed, Tick, native,
                Close, ClientClose, CloseTurn
  <2>3. QED
    BY <1>3, <2>1, <2>2
<1>6. CASE Want \/ Takes \/ Collect \/ UNCHANGED vars
  <2>1. UNCHANGED <<stage, inside, connected, broken, closed>>
    BY <1>6 DEF Want, Takes, Consume, Collect, Collected, Destructor, vars, native, stream
  <2>2. QED
    BY <1>3, <2>1 DEF Calm, Over, InFlight
<1>7. CASE Disconnected
  <2>1. stage[OpenOp] = "delivered" /\ UNCHANGED <<stage, inside, closed>> /\ broken' = FALSE
    BY <1>2, <1>7 DEF Disconnected, DropFs, Disconnect, stream
  <2>2. QED
    BY <1>3, <2>1 DEF Calm, Over, InFlight
<1>8. QED
  BY <1>4, <1>5, <1>6, <1>7 DEF Next

(* Safe holds at first.                                                    *)
LEMMA SafeInit == Init => Safe
BY OpSets DEF Init, StreamInit, NativeInit, Safe, Opening, Calm, InFlight

(* As long as the client closes at 'end' and keeps the FileSystem until    *)
(* 'open', no worker follows a `file' that is not one, and no two are      *)
(* inside the input stream: the addon needs no lock for such a client.     *)
THEOREM NoLockNeeded == Spec => []NoUndefinedBehaviour
<1>1. Data /\ Safe /\ [Next]_vars => Safe'
  BY SafeStep
<1>2. Safe => NoUndefinedBehaviour
  BY DEF Safe, NoUndefinedBehaviour
<1>3. QED
  BY <1>1, <1>2, SafeInit, DataHolds, PTL DEF Spec

===============================================================================
