--------------------------- MODULE WriteStreamProofs ---------------------------
(* Theorems about WriteStream, for every number of chunks and threads.     *)
EXTENDS WriteStream, TLAPS

(* Open, Close and the Write workers are workers of their own.             *)
LEMMA OpSets == /\ OpenOp \in Op /\ CloseOp \in Op /\ Chunk \subseteq Op
                /\ OpenOp \notin Chunk /\ CloseOp \notin Chunk /\ OpenOp # CloseOp
                /\ 0 \notin Chunk
BY NativeAssumption DEF OpenOp, CloseOp, Op, Chunk, DataOp

(* The pool's steps keep its two variables in their types: a turn of the   *)
(* JavaScript thread, ...                                                  *)
LEMMA PoolTurn ==
  ASSUME Pool!PoolTypeOK, NEW done, NEW new, Pool!Turn(done, new)
  PROVE  Pool!PoolTypeOK'
BY DEF Pool!PoolTypeOK, Pool!Turn, Pool!Stages, Pool!In

(* ... a thread that takes a worker, ...                                   *)
LEMMA PoolStart ==
  ASSUME Pool!PoolTypeOK, NEW k \in Op, Pool!Start(k)
  PROVE  Pool!PoolTypeOK'
BY DEF Pool!PoolTypeOK, Pool!Start, Pool!Stages

(* ... and one that is done with it.                                       *)
LEMMA PoolFinish ==
  ASSUME Pool!PoolTypeOK, NEW k \in Op, Pool!Finish(k)
  PROVE  Pool!PoolTypeOK'
BY DEF Pool!PoolTypeOK, Pool!Finish, Pool!Stages, Pool!In

(* A turn that calls close() any number of times keeps the types of the    *)
(* variables it changes.                                                   *)
LEMMA CloseTurnType ==
  ASSUME TypeOK, NEW n \in Nat, NEW done, NEW new, CloseTurn(n, done, new)
  PROVE  /\ NativeTypeOK'
         /\ closed' \in BOOLEAN
         /\ ticks' \in Nat
<1> USE DEF TypeOK, WriteTypeOK, StreamTypeOK
<1>1. Pool!PoolTypeOK'
  BY PoolTurn DEF CloseTurn, NativeTypeOK
<1>2. QED
  BY <1>1 DEF CloseTurn, CloseTicks, FirstClose, NativeTypeOK

(* Every handler and every thread's step keeps the variables in their types.*)
LEMMA TypeStep == TypeOK /\ [Next]_vars => TypeOK'
<1> SUFFICES ASSUME TypeOK, [Next]_vars PROVE TypeOK'
  OBVIOUS
<1> USE NativeAssumption
    DEF TypeOK, WriteTypeOK, StreamTypeOK, Chunk, DataOp, events, hdfs
<1>1. ASSUME NEW b \in BOOLEAN, Write(b) PROVE TypeOK'
  <2>1. accepted + 1 \in Chunk
    BY <1>1 DEF Write
  <2>2. QED
    BY <1>1, <2>1, CloseTurnType DEF Write, Busy, Queued
<1>2. ASSUME Close PROVE TypeOK'
  BY <1>2, CloseTurnType DEF Close, ClientClose, writable
<1>3. ASSUME End PROVE TypeOK'
  BY <1>3, CloseTurnType DEF End, Finishes
<1>4. ASSUME OnOpen PROVE TypeOK'
  BY <1>4, CloseTurnType DEF OnOpen, writable
<1>5. ASSUME NEW n \in Chunk, OnWritten(n) PROVE TypeOK'
  <2>1. CASE buffered = {}
    BY <1>5, <2>1, CloseTurnType DEF OnWritten, Finishes, Oldest
  <2>2. ASSUME NEW next \in Chunk, writing' = next, buffered' = buffered \ {next},
               CloseTurn(0, {n}, {next}), UNCHANGED finished
        PROVE  TypeOK'
    BY <1>5, <2>2, CloseTurnType DEF OnWritten
  <2>3. QED
    BY <1>5, <2>1, <2>2 DEF OnWritten
<1>6. ASSUME NEW n \in Chunk, OnWriteError(n) PROVE TypeOK'
  BY <1>6, CloseTurnType DEF OnWriteError, Finishes, DestroyCalls
<1>7. ASSUME OnClosed, UNCHANGED <<writable, hdfs>> PROVE TypeOK'
  BY <1>7, CloseTurnType DEF OnClosed, CloseEvent, writable
<1>8. ASSUME Tick, UNCHANGED <<writable, hdfs>> PROVE TypeOK'
  BY <1>8 DEF Tick, native, writable, NativeTypeOK, Pool!PoolTypeOK
<1>9. ASSUME NEW k \in Op, NEW v, Enter(k, v), UNCHANGED <<js, hdfs>> PROVE TypeOK'
  BY <1>9, PoolStart DEF Enter, NativeTypeOK, js, stream, writable
<1>10. ASSUME StartOpen, UNCHANGED <<js, hdfs>> PROVE TypeOK'
  BY <1>10, PoolStart, OpSets DEF StartOpen, NativeTypeOK, js, stream, writable
<1>11. ASSUME NEW r \in {"ok", "err"}, FinishOpen(r), UNCHANGED <<js, hdfs>> PROVE TypeOK'
  BY <1>11, PoolFinish, OpSets DEF FinishOpen, NativeTypeOK, js, stream, writable
<1>12. ASSUME NEW n \in Chunk, NEW r \in {"ok", "err"}, Written(n, r) PROVE TypeOK'
  BY <1>12, PoolFinish, OpSets DEF Written, Poisons, FinishData, NativeTypeOK, js, stream, writable
<1>13. ASSUME NEW r \in {"ok", "err"}, Closed(r) PROVE TypeOK'
  BY <1>13, PoolFinish, OpSets DEF Closed, Completes, FinishClose, NativeTypeOK, js, stream, writable
<1>14. ASSUME NEW r \in {"ok", "err"}, Collect(r) PROVE TypeOK'
  BY <1>14 DEF Collect, Completes, Collected, Destructor, NativeTypeOK, Pool!PoolTypeOK, writable
<1>15. ASSUME DropFs, UNCHANGED <<writable, hdfs>> PROVE TypeOK'
  BY <1>15 DEF DropFs, Disconnect, NativeTypeOK, Pool!PoolTypeOK, stream, writable
<1>16. ASSUME UNCHANGED vars PROVE TypeOK'
  BY <1>16 DEF vars, native, js, stream, writable, NativeTypeOK, Pool!PoolTypeOK
<1>17. QED
  BY <1>1, <1>2, <1>3, <1>4, <1>5, <1>6, <1>7, <1>8, <1>9, <1>10, <1>11, <1>12, <1>13,
     <1>14, <1>15, <1>16, OpSets DEF Next, ClientStep, LoopStep, PoolStep, Collector, Writing

(* The stream is created with its variables in their types.                *)
LEMMA TypeInit == Init => TypeOK
<1> SUFFICES ASSUME Init PROVE TypeOK
  OBVIOUS
<1>1. NativeTypeOK
  BY DEF Init, StreamInit, NativeInit, NativeTypeOK, Pool!PoolTypeOK, Pool!Stages
<1>2. /\ {opened, destroyed, closed, closeSeen, errorSeen, dropped} \subseteq BOOLEAN
      /\ {ending, finished, poisoned, complete} \subseteq BOOLEAN
  BY DEF Init, StreamInit
<1>3. accepted \in 0 .. Ops /\ writing \in 0 .. Ops /\ ticks \in Nat
  BY NativeAssumption DEF Init, StreamInit
<1>4. {empties, buffered, acked, stored} \subseteq SUBSET Chunk
  BY DEF Init
<1>5. QED
  BY <1>1, <1>2, <1>3, <1>4 DEF TypeOK, WriteTypeOK, StreamTypeOK

(* The write streams of every client keep their variables in their types.  *)
THEOREM TypeCorrect == Spec => []TypeOK
BY TypeInit, TypeStep, PTL DEF Spec

-------------------------------------------------------------------------------
(* One write at a time.                                                    *)

(* A Write worker in flight is the chunk the Writable is waiting for, and  *)
(* no such worker is created before 'open'.                                *)
Serial == /\ \A n \in Chunk : InFlight(n) => n = writing /\ opened
          /\ opened => stage[OpenOp] = "delivered"

(* After a turn of the JavaScript thread the workers in flight are those   *)
(* that were before, without the ones called back, and the new ones.       *)
LEMMA TurnFlight ==
  ASSUME TypeOK, NEW n, NEW done, NEW new, CloseTurn(n, done, new), NEW k \in Op
  PROVE  /\ InFlight(k)' => (InFlight(k) /\ k \notin done) \/ k \in new \/ k = CloseOp
         /\ stage[k] = "delivered" => stage'[k] = "delivered"
         /\ k \in done => stage'[k] = "delivered" /\ stage[k] = "done"
BY DEF CloseTurn, FirstClose, Pool!Turn, InFlight, TypeOK, WriteTypeOK, StreamTypeOK, NativeTypeOK, Pool!PoolTypeOK,
       Pool!Stages

(* A thread of the pool does not change which workers are in flight.       *)
LEMMA StartFlight ==
  ASSUME TypeOK, NEW k \in Op, Pool!Start(k) \/ Pool!Finish(k), NEW m \in Op
  PROVE  /\ InFlight(m)' <=> InFlight(m)
         /\ InFlight(k)
         /\ stage[m] = "delivered" => stage'[m] = "delivered"
BY DEF Pool!Start, Pool!Finish, InFlight, TypeOK, WriteTypeOK, StreamTypeOK, NativeTypeOK, Pool!PoolTypeOK,
       Pool!Stages

(* Serial is inductive: a Write worker in flight belongs to the chunk the  *)
(* Writable waits for, so that a second one has no reason to be queued.    *)
LEMMA SerialStep == TypeOK /\ Serial /\ [Next]_vars => Serial'
<1> SUFFICES ASSUME TypeOK, Serial, [Next]_vars PROVE Serial'
  OBVIOUS
<1> USE OpSets DEF Serial
<1>1. ASSUME NEW b \in BOOLEAN, Write(b) PROVE Serial'
  <2>1. accepted + 1 \in Chunk
    BY <1>1, NativeAssumption DEF Write, TypeOK, WriteTypeOK, Chunk, DataOp
  <2>2. QED
    BY <1>1, <2>1, TurnFlight DEF Write, Busy, Queued
<1>2. ASSUME End \/ Close PROVE Serial'
  <2>1. PICK n : CloseTurn(n, {}, {}) /\ UNCHANGED <<opened, writing>>
    BY <1>2 DEF End, Close, ClientClose, writable
  <2>2. QED
    BY <2>1, TurnFlight
<1>3. ASSUME OnOpen PROVE Serial'
  BY <1>3, TurnFlight DEF OnOpen, Parked, Callback, writable
<1>4. ASSUME NEW n \in Chunk, OnWritten(n) PROVE Serial'
  <2>1. n \in {n} /\ InFlight(n)
    BY <1>4 DEF OnWritten, CloseTurn, Pool!Turn, InFlight
  <2>2. ASSUME NEW next \in Chunk, writing' = next, CloseTurn(0, {n}, {next})
        PROVE  Serial'
    BY <1>4, <2>1, <2>2, TurnFlight DEF OnWritten
  <2>3. ASSUME NEW c, CloseTurn(c, {n}, {})
        PROVE  Serial'
    BY <1>4, <2>1, <2>3, TurnFlight DEF OnWritten
  <2>4. QED
    BY <1>4, <2>2, <2>3 DEF OnWritten
<1>5. ASSUME NEW n \in Chunk, OnWriteError(n) PROVE Serial'
  <2>1. n \in {n} /\ InFlight(n)
    BY <1>5 DEF OnWriteError, CloseTurn, Pool!Turn, InFlight
  <2>2. PICK c : CloseTurn(c, {n}, {})
    BY <1>5 DEF OnWriteError
  <2>3. QED
    BY <1>5, <2>1, <2>2, TurnFlight DEF OnWriteError
<1>6. ASSUME OnClosed, UNCHANGED writable PROVE Serial'
  BY <1>6, TurnFlight DEF OnClosed, writable
<1>7. ASSUME Collector \/ (Tick /\ UNCHANGED writable) \/ UNCHANGED vars PROVE Serial'
  <2>1. UNCHANGED <<stage, opened, writing>>
    BY <1>7 DEF Collector, Collect, Collected, Destructor, DropFs, Disconnect, Tick, vars, native,
                js, stream, writable
  <2>2. QED
    BY <2>1 DEF InFlight
<1>8. ASSUME PoolStep PROVE Serial'
  <2>1. PICK k \in Op : (Pool!Start(k) \/ Pool!Finish(k)) /\ UNCHANGED js
    BY <1>8 DEF PoolStep, Writing, Written, Closed, Enter, StartOpen, FinishOpen, FinishData,
                FinishClose
  <2>2. QED
    BY <2>1, StartFlight DEF js, stream, writable
<1>9. QED
  BY <1>1, <1>2, <1>3, <1>4, <1>5, <1>6, <1>7, <1>8 DEF Next, ClientStep, LoopStep

(* At first no Write worker is in flight.                                  *)
LEMMA SerialInit == Init => Serial
BY OpSets DEF Init, StreamInit, NativeInit, Serial, InFlight, Op

(* Whatever the client does, the FileWriter never has two writes in flight.*)
THEOREM WritesSerialised == Spec => []OneWriteInFlight
<1>1. TypeOK /\ Serial => OneWriteInFlight
  BY DEF Serial, OneWriteInFlight
<1>2. QED
  BY <1>1, TypeCorrect, SerialInit, SerialStep, PTL DEF Spec

-------------------------------------------------------------------------------
(* No undefined behaviour.                                                 *)

(* A client that ends no stream before it has opened or been written to,   *)
(* leaves closing to the stream, stops writing after an error, and keeps   *)
(* the FileSystem until the stream has opened.                             *)
Patient == Habits \cap {"emptyEnd", "earlyClose", "writeAfterError", "dropFs"} = {}

(* The Close worker comes after the Open worker and after the last write.  *)
Calm == /\ InFlight(CloseOp) => closed
        /\ closed => opened /\ writing = 0 /\ (ending \/ errorSeen)
        /\ accepted > 0 => writing # 0 \/ opened
        /\ file = "wild" => stage[OpenOp] \in {"queued", "running"}
        /\ \A k \in inside : k \in Chunk \cup {CloseOp} /\ stage[k] = "running"
        /\ connected \/ stage[OpenOp] = "delivered"

(* What a turn of the JavaScript thread leaves as it was, and that the     *)
(* Close worker is in flight only once close() was called.                 *)
LEMMA CloseTurnCalm ==
  ASSUME TypeOK, NEW n \in Nat, NEW done, NEW new, new \subseteq Chunk,
         CloseTurn(n, done, new)
  PROVE  /\ InFlight(CloseOp)' => InFlight(CloseOp) \/ closed'
         /\ closed' <=> closed \/ n > 0
         /\ UNCHANGED <<file, inside, connected, broken>>
         /\ stage[OpenOp] = "delivered" => stage'[OpenOp] = "delivered"
         /\ \A k \in Op : stage[k] = "running" => stage'[k] = "running"
         /\ file = "wild" /\ stage[OpenOp] \in {"queued", "running"}
              => stage'[OpenOp] \in {"queued", "running"}
BY OpSets DEF CloseTurn, FirstClose, Pool!Turn, InFlight, TypeOK, WriteTypeOK, StreamTypeOK, NativeTypeOK,
       Pool!PoolTypeOK, Pool!Stages

(* Calm is inductive as long as nothing is broken, and nothing breaks: the *)
(* Close worker is queued only when no Open or Write worker is in flight.  *)
LEMMA CalmStep == ASSUME Patient, TypeOK, Serial, Calm, [Next]_vars, ~broken
                  PROVE  Calm' /\ ~broken'
<1> USE OpSets DEF Calm, Serial, Patient, Client
<1>1. ASSUME NEW b \in BOOLEAN, Write(b) PROVE Calm' /\ ~broken'
  <2>1. accepted + 1 \in Chunk /\ accepted + 1 > 0
    BY <1>1, NativeAssumption DEF Write, TypeOK, WriteTypeOK, StreamTypeOK, Chunk, DataOp
  <2>2. QED
    BY <1>1, <2>1, CloseTurnCalm DEF Write, Busy, Queued, events
<1>2. ASSUME Close PROVE Calm' /\ ~broken'
  BY <1>2 DEF Close
<1>3. ASSUME End PROVE Calm' /\ ~broken'
  <2>1. PICK n \in Nat : CloseTurn(n, {}, {}) /\ (n > 0 => writing = 0)
    BY <1>3 DEF End, Finishes, Busy
  <2>2. opened \/ accepted > 0
    BY <1>3 DEF End, TypeOK, WriteTypeOK
  <2>3. QED
    BY <1>3, <2>1, <2>2, CloseTurnCalm DEF End, events
<1>4. ASSUME OnOpen PROVE Calm' /\ ~broken'
  <2>1. PICK new \in SUBSET Chunk : CloseTurn(0, {OpenOp}, new)
    BY <1>4, NativeAssumption DEF OnOpen, Parked, TypeOK, WriteTypeOK, Chunk, DataOp
  <2>2. QED
    BY <1>4, <2>1, CloseTurnCalm DEF OnOpen, writable
<1>5. ASSUME NEW n \in Chunk, OnWritten(n) PROVE Calm' /\ ~broken'
  <2>1. opened /\ writing = n /\ ~closed
    BY <1>5 DEF OnWritten, CloseTurn, Pool!Turn, InFlight
  <2>2. ASSUME NEW next \in Chunk, writing' = next, CloseTurn(0, {n}, {next})
        PROVE  Calm' /\ ~broken'
    BY <1>5, <2>1, <2>2, CloseTurnCalm DEF OnWritten, events
  <2>3. ASSUME NEW c \in Nat, CloseTurn(c, {n}, {}), writing' = 0, c > 0 => ending
        PROVE  Calm' /\ ~broken'
    BY <1>5, <2>1, <2>3, CloseTurnCalm DEF OnWritten, events
  <2>4. QED
    <3> DEFINE c == IF Finishes(ending, FALSE, buffered) THEN 1 ELSE 0
    <3>1. c \in Nat /\ (c > 0 => ending)
      BY DEF Finishes
    <3>2. CloseTurn(c, {n}, {}) /\ writing' = 0 => Calm' /\ ~broken'
      <4> HIDE DEF c
      <4> QED BY <2>3, <3>1
    <3>3. QED
      BY <1>5, <2>2, <3>2 DEF OnWritten
<1>6. ASSUME NEW n \in Chunk, OnWriteError(n) PROVE Calm' /\ ~broken'
  <2>1. opened /\ writing = n
    BY <1>6 DEF OnWriteError, CloseTurn, Pool!Turn, InFlight
  <2>2. PICK c \in Nat : CloseTurn(c, {n}, {})
    <3> DEFINE a == DestroyCalls
               b == IF Finishes(ending, FALSE, buffered) THEN 1 ELSE 0
    <3>1. a \in Nat /\ b \in Nat
      BY DEF DestroyCalls
    <3>2. CloseTurn(a + b, {n}, {})
      BY <1>6 DEF OnWriteError
    <3> HIDE DEF a, b
    <3>3. QED
      BY <3>1, <3>2
  <2>3. QED
    BY <1>6, <2>1, <2>2, CloseTurnCalm DEF OnWriteError
<1>7. ASSUME OnClosed, UNCHANGED <<writable, hdfs>> PROVE Calm' /\ ~broken'
  BY <1>7, CloseTurnCalm DEF OnClosed, CloseEvent, writable
<1>8. ASSUME Tick, UNCHANGED <<writable, hdfs>> PROVE Calm' /\ ~broken'
  BY <1>8 DEF Tick, native, writable, InFlight
<1> USE DEF js, stream, writable, events, InFlight
<1>9. ASSUME NEW k \in Chunk \cup {CloseOp}, NEW v, Enter(k, v), UNCHANGED <<js, hdfs>>
      PROVE  Calm' /\ ~broken'
  BY <1>9 DEF Enter, Pool!Start, TypeOK, WriteTypeOK, StreamTypeOK, NativeTypeOK, Pool!PoolTypeOK
<1>10. ASSUME StartOpen, UNCHANGED <<js, hdfs>> PROVE Calm' /\ ~broken'
  BY <1>10 DEF StartOpen, Pool!Start, TypeOK, WriteTypeOK, StreamTypeOK, NativeTypeOK,
               Pool!PoolTypeOK
<1>11. ASSUME NEW r \in {"ok", "err"}, FinishOpen(r), UNCHANGED <<js, hdfs>>
       PROVE  Calm' /\ ~broken'
  BY <1>11 DEF FinishOpen, Pool!Finish, TypeOK, WriteTypeOK, StreamTypeOK, NativeTypeOK,
               Pool!PoolTypeOK
<1>12. ASSUME NEW n \in Chunk, NEW r \in {"ok", "err"}, Written(n, r) PROVE Calm' /\ ~broken'
  BY <1>12 DEF Written, FinishData, Pool!Finish, TypeOK, WriteTypeOK, StreamTypeOK,
               NativeTypeOK, Pool!PoolTypeOK
<1>13. ASSUME NEW r \in {"ok", "err"}, Closed(r) PROVE Calm' /\ ~broken'
  BY <1>13 DEF Closed, FinishClose, Pool!Finish, TypeOK, WriteTypeOK, StreamTypeOK,
               NativeTypeOK, Pool!PoolTypeOK
<1>14. ASSUME NEW r \in {"ok", "err"}, Collect(r) PROVE Calm' /\ ~broken'
  BY <1>14 DEF Collect, Collected, Destructor, Idle
<1>15. ASSUME DropFs, UNCHANGED <<writable, hdfs>> PROVE Calm' /\ ~broken'
  BY <1>15 DEF DropFs, Disconnect
<1>16. ASSUME UNCHANGED vars PROVE Calm' /\ ~broken'
  BY <1>16 DEF vars, native
<1>17. QED
  BY <1>1, <1>2, <1>3, <1>4, <1>5, <1>6, <1>7, <1>8, <1>9, <1>10, <1>11, <1>12, <1>13,
     <1>14, <1>15, <1>16 DEF Next, ClientStep, LoopStep, PoolStep, Collector, Writing

(* A new stream is calm.                                                   *)
LEMMA CalmInit == Init => Calm /\ ~broken
BY OpSets DEF Init, StreamInit, NativeInit, Calm, InFlight, Op

(* With a patient client the workers never misuse the shared `file':       *)
(* nothing follows it, or the FileSystem, uninitialised or freed, and no   *)
(* two threads are in the output stream at once.                           *)
THEOREM NoMisuse == ASSUME Patient PROVE Spec => []NoUndefinedBehaviour
<1> DEFINE Inv == TypeOK /\ Serial /\ Calm /\ ~broken
<1>1. Init => Inv
  BY TypeInit, SerialInit, CalmInit
<1>2. Inv /\ [Next]_vars => Inv'
  BY Patient, TypeStep, SerialStep, CalmStep
<1>3. Inv => NoUndefinedBehaviour
  BY DEF NoUndefinedBehaviour
<1>4. QED
  BY <1>1, <1>2, <1>3, PTL DEF Spec

-------------------------------------------------------------------------------
(* A Write worker that succeeded has stored its chunk.                     *)
Kept == /\ \A n \in Chunk : result[n] = "ok" => n \in stored
        /\ AckedStored

(* A turn of the JavaScript thread reports the results of workers and      *)
(* changes none.                                                           *)
LEMMA CloseTurnResult ==
  ASSUME NEW n, NEW done, NEW new, CloseTurn(n, done, new)
  PROVE  result' = result
BY DEF CloseTurn

(* Kept is inductive: only Written makes a Write worker succeed, and only  *)
(* OnWritten reports it.                                                   *)
LEMMA KeptStep == TypeOK /\ Kept /\ [Next]_vars => Kept'
<1> SUFFICES ASSUME TypeOK, Kept, [Next]_vars PROVE Kept'
  OBVIOUS
<1> USE OpSets DEF Kept, AckedStored
<1>1. CASE ClientStep
  BY <1>1, CloseTurnResult
  DEF ClientStep, Write, End, Close, ClientClose, hdfs, writable
<1>2. CASE OnOpen \/ (OnClosed /\ UNCHANGED <<writable, hdfs>>)
  BY <1>2, CloseTurnResult DEF OnOpen, OnClosed, hdfs, writable
<1>3. CASE Tick /\ UNCHANGED <<writable, hdfs>>
  BY <1>3 DEF Tick, hdfs, writable, native
<1>4. ASSUME NEW n \in Chunk, OnWritten(n) PROVE Kept'
  <2>1. result' = result
    BY <1>4, CloseTurnResult DEF OnWritten
  <2>2. QED
    BY <1>4, <2>1 DEF OnWritten, Callback, hdfs
<1>5. ASSUME NEW n \in Chunk, OnWriteError(n) PROVE Kept'
  BY <1>5, CloseTurnResult DEF OnWriteError, hdfs
<1>6. ASSUME NEW n \in Chunk, NEW r \in {"ok", "err"}, Written(n, r) PROVE Kept'
  BY <1>6 DEF Written, FinishData, js, writable, TypeOK, WriteTypeOK, StreamTypeOK, NativeTypeOK
<1>7. ASSUME NEW r \in {"ok", "err"}, FinishOpen(r) \/ FinishClose(r),
             UNCHANGED <<acked, stored>>
      PROVE  Kept'
  BY <1>7 DEF FinishOpen, FinishClose, TypeOK, WriteTypeOK, StreamTypeOK, NativeTypeOK
<1>8. ASSUME NEW n \in Op, NEW valid, StartOpen \/ Enter(n, valid), UNCHANGED <<acked, stored>>
      PROVE  Kept'
  BY <1>8 DEF StartOpen, Enter
<1>9. CASE PoolStep
  <2>1. CASE \E n \in Chunk : Writing(n)
    BY <2>1, <1>8 DEF Writing, js, writable, hdfs
  <2>2. CASE \E r \in {"ok", "err"} : Closed(r)
    BY <2>2, <1>7 DEF Closed, js, writable
  <2>3. CASE /\ StartOpen \/ (\E r \in {"ok", "err"} : FinishOpen(r)) \/ Enter(CloseOp, TRUE)
             /\ UNCHANGED <<js, hdfs>>
    BY <2>3, <1>7, <1>8 DEF js, writable, hdfs
  <2>4. QED
    BY <1>9, <2>1, <2>2, <2>3, <1>6 DEF PoolStep
<1>10. CASE Collector
  BY <1>10 DEF Collector, Collect, Collected, Destructor, DropFs, Disconnect, writable, hdfs
<1>11. CASE UNCHANGED vars
  BY <1>11 DEF vars, native, js, writable, hdfs
<1>12. QED
  BY <1>1, <1>2, <1>3, <1>4, <1>5, <1>9, <1>10, <1>11 DEF Next, LoopStep

(* No write's callback reports success for a chunk that the output stream  *)
(* has not taken, whatever the client does.                                *)
THEOREM SuccessMeansStored == Spec => []AckedStored
<1>1. Init => Kept
  BY OpSets DEF Init, StreamInit, NativeInit, Kept, AckedStored
<1>2. Kept => AckedStored
  BY DEF Kept
<1>3. QED
  BY <1>1, <1>2, TypeInit, TypeStep, KeptStep, PTL DEF Spec
===============================================================================
