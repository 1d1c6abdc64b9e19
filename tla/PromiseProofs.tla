------------------------------ MODULE PromiseProofs ------------------------------
(* Theorems about WriteStream with a patient client: 'close' and the       *)
(* namenode's completing the file mean what they say, and the stream is an *)
(* Upload, as far as its steps go.                                         *)
EXTENDS UploadProofs

-------------------------------------------------------------------------------
(* What holds of every client's stream.                                    *)

(* `file' and `opened' tell how the Open worker has fared.                 *)
OpenTold ==
  /\ opened <=> stage[OpenOp] = "delivered" /\ result[OpenOp] = "ok"
  /\ ~Tried => result[OpenOp] = "none" /\ file \in {"wild", "null"}
  /\ Tried  => result[OpenOp] = IF file = "null" THEN "err" ELSE "ok"

(* OpenTold is inductive.                                                  *)
LEMMA OpenToldStep ==
  ASSUME TypeOK, Entered, OpenTold, [Next]_vars PROVE OpenTold'
<1> USE OpSets
<1>0. stage[OpenOp] # "idle"
  BY DEF Entered
<1>1. ASSUME NEW n, NEW done, NEW new, CloseTurn(n, done, new),
             opened' <=> opened \/ (OpenOp \in done /\ result[OpenOp] = "ok")
      PROVE  OpenTold'
  <2>1. /\ UNCHANGED <<file, result>> /\ (Tried' <=> Tried)
        /\ OpenOp \in done => stage[OpenOp] = "done" /\ stage'[OpenOp] = "delivered"
        /\ OpenOp \notin done => stage'[OpenOp] = stage[OpenOp]
    BY <1>0, <1>1, Turned, TurnedStages DEF Tried
  <2>2. QED
    BY <1>1, <2>1 DEF OpenTold, Tried
<1>2. CASE ClientStep
  <2>1. \E n, new : CloseTurn(n, {}, new) /\ opened' = opened
    BY <1>2 DEF ClientStep, Write, End, Close, ClientClose
  <2>2. QED
    BY <1>1, <2>1
<1>3. CASE OnOpen
  <2>1. CASE result[OpenOp] = "ok" /\ opened' = TRUE
    BY <1>1, <1>3, <2>1 DEF OnOpen
  <2>2. CASE result[OpenOp] = "err" /\ UNCHANGED opened
    BY <1>1, <1>3, <2>2 DEF OnOpen
  <2>3. QED
    BY <1>3, <2>1, <2>2 DEF OnOpen, Callback
<1>4. CASE (\E n \in Chunk : OnWritten(n) \/ OnWriteError(n)) \/ OnClosed
  <2>1. \E n, k, new : CloseTurn(n, {k}, new) /\ k # OpenOp /\ opened' = opened
    BY <1>4 DEF OnWritten, OnWriteError, OnClosed
  <2>2. QED
    BY <1>1, <2>1
<1>5. CASE UNCHANGED <<stage, file, result, opened>>
  BY <1>5 DEF OpenTold, Tried
<1>6. CASE Tick \/ UNCHANGED vars
  BY <1>5, <1>6 DEF Tick, native, vars, js, stream
<1>7. ASSUME NEW k \in Op, Pool!Start(k), UNCHANGED <<file, result, opened>> PROVE OpenTold'
  <2>1. (Tried' <=> Tried) /\ (stage'[OpenOp] = "delivered" <=> stage[OpenOp] = "delivered")
    BY <1>7, Started DEF Tried
  <2>2. QED
    BY <1>7, <2>1 DEF OpenTold
<1>8. ASSUME NEW r \in {"ok", "err"}, FinishOpen(r), UNCHANGED opened PROVE OpenTold'
  <2>1. Tried' /\ ~Tried /\ stage'[OpenOp] # "delivered" /\ result'[OpenOp] = r
    BY <1>8, Finished DEF FinishOpen, Tried, TypeOK, WriteTypeOK, StreamTypeOK, NativeTypeOK
  <2>2. QED
    BY <1>8, <2>1 DEF OpenTold, FinishOpen, Tried
<1>9. ASSUME NEW k \in Op \ {OpenOp}, NEW r, Pool!Finish(k), result' = [result EXCEPT ![k] = r],
             file' = file \/ (file = "open" /\ file' = "freed"), UNCHANGED opened
      PROVE  OpenTold'
  <2>1. stage'[OpenOp] = stage[OpenOp] /\ result'[OpenOp] = result[OpenOp]
    BY <1>9, Finished
  <2>2. QED
    BY <1>9, <2>1 DEF OpenTold, Tried
<1>10. CASE ~broken /\ PoolStep
  <2>1. UNCHANGED opened
    BY <1>10 DEF PoolStep, Writing, Written, Closed, js, stream
  <2>2. ASSUME NEW r, Closed(r) PROVE OpenTold'
    <3>1. CloseOp \in inside => file = "open"
      BY <1>10 DEF Entered
    <3>2. QED
      BY <1>9, <2>1, <2>2, <3>1 DEF Closed, FinishClose
  <2>3. ASSUME NEW n \in Chunk, NEW r, Written(n, r) PROVE OpenTold'
    BY <1>9, <2>1, <2>3 DEF Written, FinishData
  <2>4. ASSUME NEW k \in Op, NEW v, Enter(k, v) \/ StartOpen PROVE OpenTold'
    BY <1>7, <2>1, <2>4 DEF Enter, StartOpen
  <2>5. QED
    BY <1>8, <1>10, <2>1, <2>2, <2>3, <2>4 DEF PoolStep, Writing
<1>11. CASE Collector
  <2>1. UNCHANGED <<stage, result, opened>> /\ (file' = file \/ (file = "open" /\ file' = "freed"))
    BY <1>11 DEF Collector, Collect, Collected, Destructor, DropFs, Disconnect, stream
  <2>2. QED
    BY <2>1 DEF OpenTold, Tried
<1>12. QED
  BY <1>2, <1>3, <1>4, <1>6, <1>10, <1>11 DEF Next, LoopStep

(* The chunk being written has a worker in flight, or none as long as      *)
(* 'open' is awaited; those behind it have none; a collected stream is     *)
(* still.                                                                  *)
Parking ==
  /\ writing # 0 => IF opened THEN InFlight(writing) ELSE stage[writing] = "idle"
  /\ \A n \in Chunk : n \in buffered \/ n > accepted => stage[n] = "idle"
  /\ dropped => Idle /\ ticks = 0

(* Parking is inductive.                                                   *)
LEMMA ParkingStep ==
  ASSUME TypeOK, Serial, Entered, OpenTold, Accounted, Parking, [Next]_vars PROVE Parking'
<1>0. /\ accepted \in Nat /\ writing \in Nat /\ writing \in Chunk \cup {0} /\ Chunk \subseteq Nat
      /\ buffered \subseteq 1 .. accepted /\ writing <= accepted /\ writing \notin buffered
  BY NativeAssumption DEF TypeOK, WriteTypeOK, Chunk, DataOp, Accounted
<1> USE <1>0, OpSets
<1>1. ASSUME NEW n, NEW done, NEW new, CloseTurn(n, done, new), done # {}, done \subseteq Op
      PROVE  ~dropped
  <2>1. PICK k \in Op : k \in done
    BY <1>1
  <2>2. InFlight(k)
    BY <1>1, <2>1, Turned DEF InFlight
  <2>3. QED
    BY <2>2 DEF Parking, Idle
<1>2. ASSUME NEW n, NEW done, NEW new, CloseTurn(n, done, new), NEW k \in Chunk
      PROVE  /\ k \notin done /\ k \notin new => stage'[k] = stage[k]
             /\ k \notin done => (InFlight(k) => InFlight(k)')
             /\ k \in new /\ k \notin done => InFlight(k)'
  BY <1>2, Turned DEF InFlight
<1>3. ASSUME NEW b \in BOOLEAN, Write(b) PROVE Parking'
  <2>1. accepted + 1 \in Chunk /\ accepted' = accepted + 1 /\ ~dropped' /\ UNCHANGED opened
    BY <1>3, NativeAssumption DEF Write, events, Chunk, DataOp, TypeOK, WriteTypeOK
  <2>2. stage[accepted + 1] = "idle"
    BY <2>1 DEF Parking
  <2>3. CASE Busy
    BY <1>2, <1>3, <2>1, <2>2, <2>3 DEF Write, Busy, Parking
  <2>4. CASE ~Busy
    BY <1>2, <1>3, <2>1, <2>2, <2>4 DEF Write, Busy, Queued, Parking
  <2>5. QED
    BY <2>3, <2>4
<1>4. CASE End \/ Close
  <2>1. PICK n : CloseTurn(n, {}, {})
    BY <1>4 DEF End, Close, ClientClose
  <2>2. ~dropped /\ UNCHANGED <<opened, dropped, writing, buffered, accepted>>
    BY <1>4 DEF End, Close, ClientClose, events, writable
  <2>3. QED
    BY <1>2, <2>1, <2>2 DEF Parking
<1>5. CASE OnOpen
  <2>1. UNCHANGED <<writing, buffered, accepted, dropped>>
    BY <1>5 DEF OnOpen, writable
  <2>2. ~dropped
    BY <1>1, <1>5 DEF OnOpen
  <2>3. ~opened
    BY <1>5, Turned DEF OnOpen, OpenTold
  <2>4. CASE opened' = TRUE /\ CloseTurn(0, {OpenOp}, IF Parked THEN {writing} ELSE {})
    BY <1>2, <2>1, <2>2, <2>3, <2>4 DEF Parking, Parked
  <2>5. CASE opened' = opened /\ CloseTurn(0, {OpenOp}, {})
    BY <1>2, <2>1, <2>2, <2>3, <2>5 DEF Parking
  <2>6. QED
    BY <1>5, <2>4, <2>5 DEF OnOpen
<1>6. ASSUME NEW n \in Chunk, OnWritten(n) PROVE Parking'
  <2>1. ~dropped /\ UNCHANGED <<accepted, opened, dropped>>
    BY <1>1, <1>6 DEF OnWritten, events
  <2>2. opened /\ n = writing
    BY <1>6 DEF OnWritten, CloseTurn, Pool!Turn, InFlight, Serial
  <2>3. ASSUME NEW next \in Chunk, Oldest(next), writing' = next, buffered' = buffered \ {next},
               CloseTurn(0, {n}, {next})
        PROVE  Parking'
    BY <1>2, <2>1, <2>2, <2>3 DEF Parking, Oldest
  <2>4. ASSUME NEW c, CloseTurn(c, {n}, {}), writing' = 0, buffered' = {}, buffered = {}
        PROVE  Parking'
    BY <1>2, <2>1, <2>2, <2>4 DEF Parking
  <2>5. QED
    BY <1>6, <2>3, <2>4 DEF OnWritten
<1>7. ASSUME NEW n \in Chunk, OnWriteError(n) PROVE Parking'
  <2>1. PICK c : CloseTurn(c, {n}, {})
    BY <1>7 DEF OnWriteError
  <2>2. ~dropped /\ UNCHANGED <<accepted, opened, dropped, buffered>> /\ writing' = 0
    BY <1>1, <1>7, <2>1 DEF OnWriteError
  <2>3. n = writing
    BY <1>7 DEF OnWriteError, CloseTurn, Pool!Turn, InFlight, Serial
  <2>4. QED
    BY <1>2, <2>1, <2>2, <2>3 DEF Parking
<1>8. CASE OnClosed /\ UNCHANGED writable
  <2>1. ~dropped /\ UNCHANGED <<accepted, opened, dropped, buffered, writing>>
    BY <1>1, <1>8 DEF OnClosed, writable
  <2>2. QED
    BY <1>2, <1>8, <2>1 DEF OnClosed, Parking
<1>9. CASE Tick /\ UNCHANGED writable
  BY <1>9 DEF Tick, native, writable, Parking, Idle, InFlight
<1>10. CASE UNCHANGED vars
  BY <1>10 DEF vars, native, js, stream, events, writable, Parking, Idle, InFlight
<1>11. CASE Collector
  <2>1. UNCHANGED <<stage, opened, writing, buffered, accepted, ticks>>
    BY <1>11 DEF Collector, Collect, Collected, Destructor, DropFs, Disconnect, stream, writable
  <2>2. dropped' => dropped \/ (Idle /\ ticks = 0)
    BY <1>11 DEF Collector, Collect, Collected, Destructor, DropFs, Disconnect, stream, events
  <2>3. QED
    BY <2>1, <2>2 DEF Parking, Idle, InFlight
<1>12. CASE PoolStep
  <2>1. PICK k \in Op : (Pool!Start(k) \/ Pool!Finish(k)) /\ UNCHANGED js
    BY <1>12 DEF PoolStep, Writing, Written, Closed, Enter, StartOpen, FinishOpen, FinishData,
                 FinishClose
  <2>2. \A m \in Op : (InFlight(m)' <=> InFlight(m)) /\ (stage[m] = "idle" => stage'[m] = "idle")
    BY <2>1, Started, Finished DEF InFlight
  <2>3. InFlight(k)
    BY <2>1, Started, Finished DEF InFlight
  <2>4. ~dropped
    BY <2>3 DEF Parking, Idle
  <2>5. QED
    BY <2>1, <2>2, <2>4 DEF js, stream, events, writable, Parking
<1>13. QED
  BY <1>3, <1>4, <1>5, <1>6, <1>7, <1>8, <1>9, <1>10, <1>11, <1>12 DEF Next, ClientStep, LoopStep

-------------------------------------------------------------------------------
(* What holds of a patient client's stream.                                *)

(* It is closed by 'finish' or by an error, once; and after an error no    *)
(* chunk is being written any more.                                        *)
Quiet ==
  /\ ticks > 0 => errorSeen
  /\ closed => finished \/ errorSeen
  /\ errorSeen => stage[OpenOp] = "delivered" /\ (~opened \/ writing = 0)

(* Quiet is inductive.                                                     *)
LEMMA QuietStep ==
  ASSUME Patient, TypeOK, Serial, Calm, OpenTold, Quiet, [Next]_vars PROVE Quiet'
<1> USE OpSets
<1>0. /\ ticks \in Nat /\ opened \in BOOLEAN /\ closed \in BOOLEAN
      /\ errorSeen \in BOOLEAN /\ finished \in BOOLEAN
  BY DEF TypeOK, WriteTypeOK, StreamTypeOK
<1>1. ASSUME NEW n \in Nat, NEW done, NEW new, CloseTurn(n, done, new),
             n > 0 => finished' \/ errorSeen', n > 0 => errorSeen' \/ (n = 1 /\ ~closed),
             finished => finished', errorSeen => errorSeen',
             errorSeen' => errorSeen \/ stage[OpenOp] = "delivered" \/ OpenOp \in done,
             errorSeen' => ~opened' \/ writing' = 0
      PROVE  Quiet'
  <2>1. errorSeen' => stage'[OpenOp] = "delivered"
    <3>1. stage[OpenOp] = "delivered" \/ OpenOp \in done => stage'[OpenOp] = "delivered"
      BY <1>1, TurnFlight
    <3>2. QED
      BY <1>1, <3>1 DEF Quiet
  <2>2. closed' => finished' \/ errorSeen'
    BY <1>1 DEF CloseTurn, Quiet
  <2>3. ticks' > 0 => errorSeen'
    <3>1. ticks' = ticks + CloseTicks(n)
      BY <1>1 DEF CloseTurn
    <3>2. n = 1 /\ ~closed => CloseTicks(n) = 0
      BY DEF CloseTicks, FirstClose
    <3>3. n = 0 => CloseTicks(n) = 0
      BY DEF CloseTicks, FirstClose
    <3>4. QED
      BY <1>0, <1>1, <3>1, <3>2, <3>3 DEF Quiet
  <2>4. QED
    BY <1>1, <2>1, <2>2, <2>3 DEF Quiet
<1>2. ASSUME NEW b \in BOOLEAN, Write(b) PROVE Quiet'
  <2>1. ~errorSeen /\ UNCHANGED <<errorSeen, finished, opened>>
    BY <1>2 DEF Write, Client, Patient, events
  <2>2. PICK new : CloseTurn(0, {}, new)
    BY <1>2 DEF Write
  <2>3. QED
    BY <1>1, <2>1, <2>2
<1>3. CASE End
  <2>1. PICK n \in {0, 1} : /\ CloseTurn(n, {}, {})
                            /\ n = 1 => finished' /\ ~finished
    <3> DEFINE f == Finishes(TRUE, Busy, buffered)
    <3>1. CloseTurn(IF f THEN 1 ELSE 0, {}, {}) /\ finished' = (finished \/ f)
      BY <1>3 DEF End
    <3>2. f => ~finished
      BY DEF Finishes
    <3> HIDE DEF f
    <3>3. CASE f
      BY <3>1, <3>2, <3>3
    <3>4. CASE ~f
      BY <3>1, <3>4
    <3>5. QED
      BY <3>3, <3>4
  <2>2. UNCHANGED <<errorSeen, opened, writing>> /\ (finished => finished')
    BY <1>3 DEF End, events
  <2>3. n = 1 => errorSeen' \/ ~closed
    <3>1. n = 1 /\ closed => errorSeen
      BY <2>1 DEF Quiet
    <3>2. QED
      BY <1>0, <2>2, <3>1
  <2>4. errorSeen' => ~opened' \/ writing' = 0
    BY <1>0, <2>2 DEF Quiet
  <2>5. n \in Nat /\ (n > 0 => n = 1)
    OBVIOUS
  <2>6. QED
    BY <1>0, <1>1, <2>1, <2>2, <2>3, <2>4, <2>5
<1>4. CASE OnOpen
  <2>1. PICK new : CloseTurn(0, {OpenOp}, new)
    BY <1>4 DEF OnOpen
  <2>2. stage[OpenOp] = "done" /\ ~opened /\ ~errorSeen
    BY <2>1, TurnFlight DEF OpenTold, Quiet
  <2>3. UNCHANGED finished /\ (errorSeen' => ~opened')
    BY <1>0, <1>4, <2>2 DEF OnOpen, writable
  <2>4. QED
    BY <1>1, <2>1, <2>2, <2>3
<1>5. ASSUME NEW n \in Chunk, OnWritten(n) PROVE Quiet'
  <2>1. opened /\ n = writing /\ stage[OpenOp] = "delivered"
    BY <1>5 DEF OnWritten, CloseTurn, Pool!Turn, InFlight, Serial
  <2>2. ~errorSeen /\ ~closed
    BY <2>1 DEF Quiet, Calm
  <2>3. UNCHANGED <<errorSeen, opened>>
    BY <1>5 DEF OnWritten, events
  <2>4. PICK c \in {0, 1} : \E new : /\ CloseTurn(c, {n}, new) /\ (finished => finished')
                                     /\ c = 1 => finished'
    <3> DEFINE f == Finishes(ending, FALSE, buffered)
    <3>1. CASE \E next \in Chunk : CloseTurn(0, {n}, {next}) /\ UNCHANGED finished
      BY <1>0, <3>1
    <3>2. CASE CloseTurn(IF f THEN 1 ELSE 0, {n}, {}) /\ finished' = (finished \/ f)
      <4> HIDE DEF f
      <4>1. CASE f
        BY <3>2, <4>1
      <4>2. CASE ~f
        <5>1. CloseTurn(0, {n}, {}) /\ (finished => finished')
          BY <1>0, <3>2, <4>2
        <5>2. QED
          BY <5>1
      <4>3. QED
        BY <4>1, <4>2
    <3>3. QED
      BY <1>5, <3>1, <3>2 DEF OnWritten
  <2>5. c \in Nat /\ (c > 0 => c = 1)
    OBVIOUS
  <2>6. QED
    BY <1>0, <1>1, <2>2, <2>3, <2>4, <2>5
<1>6. ASSUME NEW n \in Chunk, OnWriteError(n) PROVE Quiet'
  <2>1. PICK c \in Nat : CloseTurn(c, {n}, {})
    <3> DEFINE a == DestroyCalls
               b == IF Finishes(ending, FALSE, buffered) THEN 1 ELSE 0
    <3>1. a \in Nat /\ b \in Nat
      BY DEF DestroyCalls
    <3>2. CloseTurn(a + b, {n}, {})
      BY <1>6 DEF OnWriteError
    <3> HIDE DEF a, b
    <3>3. QED
      BY <3>1, <3>2
  <2>2. stage[OpenOp] = "delivered"
    BY <1>6 DEF OnWriteError, CloseTurn, Pool!Turn, InFlight, Serial
  <2>3. errorSeen' /\ writing' = 0 /\ (finished => finished')
    BY <1>6 DEF OnWriteError
  <2>4. QED
    BY <1>1, <2>1, <2>2, <2>3
<1>7. CASE OnClosed /\ UNCHANGED <<writable, hdfs>>
  <2>1. CloseTurn(0, {CloseOp}, {}) /\ UNCHANGED <<opened, finished, writing>>
    BY <1>7 DEF OnClosed, writable
  <2>2. stage[CloseOp] = "done"
    BY <2>1, TurnFlight
  <2>3. closed /\ opened /\ writing = 0 /\ stage[OpenOp] = "delivered"
    BY <2>2 DEF Calm, Serial, InFlight
  <2>4. errorSeen => errorSeen'
    BY <1>7 DEF OnClosed, CloseEvent
  <2>5. QED
    BY <1>1, <2>1, <2>3, <2>4
<1>8. CASE UNCHANGED <<ticks, errorSeen, closed, finished, opened, writing>> /\
           (stage[OpenOp] = "delivered" => stage'[OpenOp] = "delivered")
  BY <1>8 DEF Quiet
<1>9. CASE Tick /\ UNCHANGED <<writable, hdfs>>
  BY <1>0, <1>9 DEF Tick, native, writable, Quiet
<1>10. CASE Collector \/ UNCHANGED vars
  BY <1>8, <1>10 DEF Collector, Collect, Collected, Destructor, DropFs, Disconnect, vars, native, js,
                     stream, events, writable
<1>11. CASE PoolStep
  <2>1. PICK k \in Op : (Pool!Start(k) \/ Pool!Finish(k)) /\ UNCHANGED js
    BY <1>11 DEF PoolStep, Writing, Written, Closed, Enter, StartOpen, FinishOpen, FinishData,
                 FinishClose
  <2>2. QED
    BY <1>8, <2>1, StartFlight DEF js, stream, events, writable
<1>12. ASSUME Close PROVE FALSE
  BY <1>12 DEF Close, Client, Patient
<1>13. QED
  BY <1>2, <1>3, <1>4, <1>5, <1>6, <1>7, <1>9, <1>10, <1>11, <1>12 DEF Next, ClientStep, LoopStep

(* An append that failed is about to be reported; the Close worker finds   *)
(* the file open; and it, or the collector, has freed it when the namenode *)
(* has completed it.                                                       *)
Closing ==
  /\ file = "freed" => dropped \/ stage[CloseOp] \in {"done", "delivered"}
  /\ poisoned => errorSeen \/ (writing # 0 /\ result[writing] = "err")
  /\ stage[CloseOp] = "running" => errorSeen \/ CloseOp \in inside
  /\ (result[CloseOp] = "ok" \/ closeSeen) /\ ~errorSeen => complete
  /\ complete => file = "freed"

(* Closing is inductive.                                                   *)
LEMMA ClosingStep ==
  ASSUME Patient, TypeOK, Serial, Calm, Entered, OpenTold, Parking, Quiet, Closing, [Next]_vars
  PROVE  Closing'
<1> USE OpSets
<1>0. writing \in Chunk \cup {0} /\ ticks \in Nat
  BY NativeAssumption DEF TypeOK, WriteTypeOK, StreamTypeOK, Chunk, DataOp
<1>1. ASSUME NEW n, NEW done, NEW new, CloseTurn(n, done, new), UNCHANGED <<hdfs, dropped>>,
             errorSeen => errorSeen', closeSeen' => closeSeen \/ errorSeen' \/ complete,
             poisoned => errorSeen' \/ (writing' # 0 /\ result[writing'] = "err")
      PROVE  Closing'
  BY <1>1, TurnedStages DEF Closing, hdfs
<1>2. ASSUME NEW b \in BOOLEAN, Write(b) PROVE Closing'
  <2>1. ~errorSeen /\ UNCHANGED <<hdfs, events>> /\ (writing # 0 => writing' = writing)
    BY <1>2 DEF Write, Client, Patient, Busy
  <2>2. PICK new : CloseTurn(0, {}, new)
    BY <1>2 DEF Write
  <2>3. poisoned => writing' # 0 /\ result[writing'] = "err"
    BY <2>1 DEF Closing
  <2>4. QED
    BY <1>1, <2>1, <2>2, <2>3 DEF events
<1>3. CASE End
  <2>1. PICK n : CloseTurn(n, {}, {})
    BY <1>3 DEF End
  <2>2. UNCHANGED <<hdfs, events, writing>>
    BY <1>3 DEF End
  <2>3. poisoned => errorSeen \/ (writing # 0 /\ result[writing] = "err")
    BY DEF Closing
  <2>4. QED
    BY <1>1, <2>1, <2>2, <2>3 DEF events
<1>4. CASE OnOpen
  <2>1. PICK new : CloseTurn(0, {OpenOp}, new)
    BY <1>4 DEF OnOpen
  <2>2. UNCHANGED <<hdfs, dropped, closeSeen, writing>> /\ (errorSeen => errorSeen')
    BY <1>4 DEF OnOpen, writable
  <2>3. poisoned => errorSeen \/ (writing # 0 /\ result[writing] = "err")
    BY DEF Closing
  <2>4. QED
    BY <1>1, <2>1, <2>2, <2>3
<1>5. ASSUME NEW n \in Chunk, OnWritten(n) PROVE Closing'
  <2>1. n = writing /\ result[n] = "ok"
    BY <1>5 DEF OnWritten, Callback, CloseTurn, Pool!Turn, InFlight, Serial
  <2>2. UNCHANGED <<hdfs, events>>
    BY <1>5 DEF OnWritten
  <2>3. PICK c, new : CloseTurn(c, {n}, new)
    BY <1>5 DEF OnWritten
  <2>4. poisoned => errorSeen
    BY <2>1 DEF Closing
  <2>5. QED
    BY <1>1, <2>2, <2>3, <2>4 DEF events
<1>6. ASSUME NEW n \in Chunk, OnWriteError(n) PROVE Closing'
  <2>1. UNCHANGED <<hdfs, dropped, closeSeen>> /\ errorSeen'
    BY <1>6 DEF OnWriteError
  <2>2. PICK c : CloseTurn(c, {n}, {})
    BY <1>6 DEF OnWriteError
  <2>3. QED
    BY <1>1, <2>1, <2>2
<1>7. CASE OnClosed /\ UNCHANGED <<writable, hdfs>>
  <2>1. UNCHANGED <<hdfs, dropped, writing>> /\ CloseTurn(0, {CloseOp}, {})
    BY <1>7 DEF OnClosed, writable
  <2>2. /\ errorSeen => errorSeen'
        /\ closeSeen' => closeSeen \/ result[CloseOp] = "ok"
        /\ result[CloseOp] = "ok" => errorSeen' = errorSeen
    BY <1>7 DEF OnClosed, CloseEvent, Callback
  <2>3. closeSeen' => closeSeen \/ errorSeen' \/ complete
    BY <2>2 DEF Closing
  <2>4. poisoned => errorSeen \/ (writing # 0 /\ result[writing] = "err")
    BY DEF Closing
  <2>5. QED
    BY <1>1, <2>1, <2>2, <2>3, <2>4
<1>8. CASE Tick /\ UNCHANGED <<writable, hdfs>>
  BY <1>8 DEF Tick, native, writable, hdfs, Closing, Quiet
<1>9. CASE UNCHANGED vars
  BY <1>9 DEF vars, native, js, stream, events, writable, hdfs, Closing
<1>10. ASSUME Close PROVE FALSE
  BY <1>10 DEF Close, Client, Patient
<1>11. ASSUME NEW r, Collect(r) PROVE Closing'
  <2>1. dropped' /\ UNCHANGED <<stage, inside, result, poisoned, writing, errorSeen, closeSeen>>
    BY <1>11 DEF Collect, Collected, Destructor, writable
  <2>2. file' = (IF file = "open" THEN "freed" ELSE file) /\ (complete => complete')
        /\ (complete' => complete \/ file = "open")
    BY <1>11 DEF Collect, Collected, Destructor, Completes
  <2>3. QED
    BY <2>1, <2>2 DEF Closing
<1>12. CASE DropFs /\ UNCHANGED <<writable, hdfs>>
  BY <1>12 DEF DropFs, Disconnect, stream, events, writable, hdfs, Closing
<1>13. CASE ~broken /\ PoolStep
  <2>0. UNCHANGED <<errorSeen, closeSeen, dropped, writing>>
    BY <1>13 DEF PoolStep, Writing, Written, Closed, js, stream, events, writable
  <2> USE <2>0
  <2>1. ASSUME NEW k \in Op, Pool!Start(k), UNCHANGED <<hdfs, file, result>>, inside \subseteq inside',
               k = CloseOp => CloseOp \in inside'
        PROVE  Closing'
    BY <2>1, Started DEF Closing, hdfs
  <2>2. CASE StartOpen /\ UNCHANGED hdfs
    BY <2>1, <2>2 DEF StartOpen
  <2>3. ASSUME NEW n \in Chunk, Writing(n) PROVE Closing'
    BY <2>1, <2>3 DEF Writing, Enter
  <2>4. CASE Enter(CloseOp, TRUE) /\ UNCHANGED hdfs
    <3>1. stage[CloseOp] = "queued" /\ InFlight(CloseOp)
      BY <2>4, Started DEF Enter, InFlight
    <3>2. opened /\ ~dropped
      BY <3>1 DEF Calm, Parking, Idle
    <3>3. Tried /\ file # "null"
      BY <3>2 DEF OpenTold, Tried
    <3>4. file = "open"
      BY <3>1, <3>2, <3>3 DEF Entered, Closing, TypeOK, WriteTypeOK, StreamTypeOK, NativeTypeOK
    <3>5. QED
      BY <2>1, <2>4, <3>4 DEF Enter
  <2>5. ASSUME NEW r, FinishOpen(r), UNCHANGED hdfs PROVE Closing'
    <3>1. ~Tried
      BY <2>5, Finished DEF FinishOpen, Tried
    <3>2. file # "freed"
      BY <3>1 DEF Entered
    <3>3. \A m \in Op \ {OpenOp} : stage'[m] = stage[m] /\ result'[m] = result[m]
      BY <2>5, Finished DEF FinishOpen, TypeOK, WriteTypeOK, StreamTypeOK, NativeTypeOK
    <3>4. writing # 0 => writing \in Op \ {OpenOp}
      BY <1>0
    <3>5. file' # "freed" /\ inside' = inside /\ UNCHANGED hdfs
      BY <2>5 DEF FinishOpen
    <3>6. QED
      BY <3>2, <3>3, <3>4, <3>5 DEF Closing, hdfs
  <2>6. ASSUME NEW n \in Chunk, NEW r, Written(n, r) PROVE Closing'
    <3>1. n = writing /\ n # 0
      BY <2>6, Finished DEF Written, FinishData, Serial, InFlight
    <3>2. /\ \A m \in Op : stage'[m] = IF m = n THEN "done" ELSE stage[m]
          /\ result'[n] = r /\ result'[CloseOp] = result[CloseOp]
          /\ CloseOp \in inside' <=> CloseOp \in inside
          /\ file' = file /\ complete' = complete
      BY <2>6, Finished DEF Written, FinishData, TypeOK, WriteTypeOK, StreamTypeOK, NativeTypeOK
    <3>3. poisoned' => r = "err"
      BY <2>6 DEF Written, Poisons
    <3>4. QED
      BY <3>1, <3>2, <3>3 DEF Closing
  <2>7. ASSUME NEW r \in {"ok", "err"}, Closed(r) PROVE Closing'
    <3>1. stage[CloseOp] = "running" /\ stage'[CloseOp] = "done"
      BY <2>7, Finished DEF Closed, FinishClose
    <3>2. closed /\ writing = 0
      BY <3>1 DEF Calm, InFlight
    <3>3. /\ result'[CloseOp] = r /\ poisoned' = poisoned
          /\ file' = (IF CloseOp \in inside THEN "freed" ELSE file)
          /\ complete' = (complete \/ (CloseOp \in inside /\ ~poisoned /\ r = "ok"))
      BY <2>7 DEF Closed, FinishClose, Completes, TypeOK, WriteTypeOK, StreamTypeOK, NativeTypeOK
    <3>4. poisoned => errorSeen
      BY <3>2 DEF Closing
    <3>5. r = "ok" /\ ~errorSeen => complete'
      BY <3>1, <3>3, <3>4 DEF Closing
    <3>6. closeSeen /\ ~errorSeen => complete'
      BY <3>3 DEF Closing
    <3>7. complete' => file' = "freed"
      BY <3>3 DEF Closing
    <3>8. QED
      BY <3>1, <3>3, <3>4, <3>5, <3>6, <3>7 DEF Closing
  <2>8. QED
    BY <1>13, <2>2, <2>3, <2>4, <2>5, <2>6, <2>7 DEF PoolStep
<1>14. QED
  BY <1>2, <1>3, <1>4, <1>5, <1>6, <1>7, <1>8, <1>9, <1>10, <1>11, <1>12, <1>13
  DEF Next, ClientStep, LoopStep, Collector

(* What holds of a patient client's stream.                                *)
Held == Data /\ Calm /\ OpenTold /\ Parking /\ Quiet /\ Closing /\ ~broken

(* Held holds at first,                                                    *)
LEMMA HeldInit == Init => Held
<1> SUFFICES ASSUME Init PROVE Held
  OBVIOUS
<1>1. Data /\ Calm /\ ~broken
  BY DataInit, CalmInit
<1>2. OpenTold
  BY OpSets DEF Init, StreamInit, NativeInit, OpenTold, Tried
<1>3. Parking
  BY OpSets DEF Init, StreamInit, NativeInit, Parking, Idle, InFlight
<1>4. Quiet /\ Closing
  BY OpSets DEF Init, StreamInit, NativeInit, Quiet, Closing
<1>5. QED
  BY <1>1, <1>2, <1>3, <1>4 DEF Held

(* every step of a patient client's stream keeps it,                       *)
LEMMA HeldStep == ASSUME Patient, Held, [Next]_vars PROVE Held'
<1>1. Data' /\ Calm' /\ ~broken'
  BY DataStep, CalmStep DEF Held, Data
<1>2. OpenTold' /\ Parking' /\ Quiet' /\ Closing'
  BY OpenToldStep, ParkingStep, QuietStep, ClosingStep DEF Held, Data
<1>3. QED
  BY <1>1, <1>2 DEF Held

(* and so it holds always.                                                 *)
LEMMA HeldHolds == ASSUME Patient PROVE Spec => []Held
<1>1. Held /\ [Next]_vars => Held'
  BY Patient, HeldStep
<1>2. QED
  BY <1>1, HeldInit, PTL DEF Spec

(* 'close' without an 'error' before it: the namenode has completed the    *)
(* file, if the client is patient.                                         *)
THEOREM CloseIsTrue == ASSUME Patient PROVE Spec => []CloseMeansComplete
<1>1. Held => CloseMeansComplete
  BY DEF Held, Closing, CloseMeansComplete
<1>2. QED
  BY <1>1, HeldHolds, PTL

-------------------------------------------------------------------------------
(* The file that the namenode completes.                                   *)

(* Once the stream is forgotten nothing happens that would make a careful  *)
(* client of a careless one.                                               *)
LEMMA StaysCareless ==
  ASSUME Held, [Next]_vars, Careful' PROVE Careful
<1>1. empties \subseteq empties'
  BY DEF Next, ClientStep, LoopStep, PoolStep, Collector, Write, End, Close, OnOpen, OnWritten,
         OnWriteError, Writing, Written, Closed, Collect, vars, js, writable
<1>2. ASSUME Forgotten PROVE UNCHANGED <<ending, errorSeen, dropped>>
  <2>1. dropped /\ \A k \in Op : stage[k] \notin {"queued", "running", "done"}
    BY <1>2 DEF Forgotten, Held, Parking, Idle, InFlight
  <2>2. ASSUME NEW n, NEW k \in Op, NEW new, CloseTurn(n, {k}, new) PROVE FALSE
    BY <2>1, <2>2, TurnFlight DEF Held, Data
  <2>3. CASE ClientStep
    BY <2>1, <2>3 DEF ClientStep, Write, End, Close, ClientClose
  <2>4. ASSUME LoopStep PROVE FALSE
    <3>1. CASE Tick
      BY <2>1, <3>1 DEF Tick, Held, Parking
    <3>2. CASE ~Tick
      BY <2>2, <2>4, <3>2, OpSets DEF LoopStep, OnOpen, OnWritten, OnWriteError, OnClosed
    <3>3. QED
      BY <3>1, <3>2
  <2>5. CASE PoolStep \/ UNCHANGED vars
    BY <2>5 DEF PoolStep, Writing, Written, Closed, vars, js, stream, events, writable
  <2>6. CASE Collector
    BY <2>1, <2>6 DEF Collector, Collect, Collected, DropFs, stream, events, writable
  <2>7. QED
    BY <2>3, <2>4, <2>5, <2>6 DEF Next
<1>3. QED
  BY <1>1, <1>2 DEF Careful, Forgotten

(* What becomes of a file that is completed in a step.                     *)
LEMMA Completing ==
  ASSUME Held, Patient, [Next]_vars, ~complete, complete', Careful'
  PROVE  /\ ending /\ stored = 1 .. accepted /\ file = "open"
         /\ UNCHANGED <<ending, stored, accepted, empties>> /\ file' = "freed"
<1> USE OpSets
<1>0. Careful /\ ~broken
  BY StaysCareless DEF Held
<1>1. /\ file = "open" /\ ~poisoned /\ file' = "freed"
      /\ UNCHANGED <<ending, stored, accepted, empties>>
      /\ \/ stage[CloseOp] = "running" /\ ~Forgotten
         \/ Idle /\ (ending \/ errorSeen)
  <2>1. ASSUME NEW r, Closed(r)
        PROVE  /\ file = "open" /\ ~poisoned /\ file' = "freed"
               /\ UNCHANGED <<ending, stored, accepted, empties>>
               /\ stage[CloseOp] = "running" /\ ~Forgotten
    <3>1. CloseOp \in inside /\ ~poisoned
      BY <2>1 DEF Closed, Completes
    <3>2. QED
      BY <1>0, <2>1, <3>1, Finished
      DEF Closed, FinishClose, js, writable, Careful, Held, Data, Entered
  <2>2. ASSUME NEW r, Collect(r)
        PROVE  /\ file = "open" /\ ~poisoned /\ file' = "freed"
               /\ UNCHANGED <<ending, stored, accepted, empties>>
               /\ Idle /\ (ending \/ errorSeen)
    <3>1. file = "open" /\ ~poisoned
      BY <2>2 DEF Collect, Completes
    <3>2. QED
      BY <2>2, <3>1 DEF Collect, Collected, Destructor, writable, Careful, Forgotten
  <2>3. CASE ClientStep \/ LoopStep
    BY <2>3 DEF ClientStep, Write, End, Close, LoopStep, OnOpen, OnWritten, OnWriteError, hdfs
  <2>4. CASE PoolStep
    BY <2>1, <2>4 DEF PoolStep, Writing, Written, hdfs
  <2>5. CASE Collector \/ UNCHANGED vars
    BY <2>2, <2>5 DEF Collector, vars, hdfs
  <2>6. QED
    BY <2>3, <2>4, <2>5 DEF Next
<1>2. ~errorSeen
  BY <1>0, <1>1 DEF Careful, Held, Data, Fails, Spent
<1>3. ending /\ writing = 0 /\ buffered = {}
  <2>1. CASE stage[CloseOp] = "running"
    BY <1>2, <2>1 DEF Held, Calm, Data, Accounted, InFlight, Quiet
  <2>2. CASE Idle /\ (ending \/ errorSeen)
    <3>1. Tried /\ stage[OpenOp] = "delivered" /\ result[OpenOp] = "ok"
      BY <1>1, <2>2 DEF Held, Data, Entered, OpenTold, Tried, Idle, InFlight
    <3>2. writing = 0
      <4>1. writing # 0 => InFlight(writing)
        BY <3>1 DEF Held, OpenTold, Parking
      <4>2. writing # 0 => writing \in Op
        BY NativeAssumption DEF Held, Data, TypeOK, WriteTypeOK, Op
      <4>3. QED
        BY <2>2, <4>1, <4>2 DEF Idle
    <3>3. QED
      BY <1>2, <2>2, <3>2 DEF Held, Data, Accounted
  <2>3. QED
    BY <1>1, <2>1, <2>2
<1>4. stored = 1 .. accepted
  <2>1. 1 .. accepted \subseteq acked \cup {0} /\ 0 \notin 1 .. accepted
    BY <1>2, <1>3 DEF Held, Data, Accounted, TypeOK, WriteTypeOK
  <2>2. acked \subseteq stored /\ stored \subseteq 1 .. accepted
    BY DEF Held, Data, Accounted, Kept, AckedStored
  <2>3. QED
    BY <2>1, <2>2
<1>5. QED
  BY <1>1, <1>3, <1>4

(* The namenode completes a file only after end() and with every chunk, if *)
(* the client is patient and as long as it is careful.                     *)
THEOREM CompleteIsWhole == ASSUME Patient PROVE Spec => []CompleteMeansWhole
<1>1. Held /\ CompleteMeansWhole /\ [Next]_vars => CompleteMeansWhole'
  <2> SUFFICES ASSUME Held, CompleteMeansWhole, [Next]_vars, complete', Careful'
               PROVE  ending' /\ stored' = 1 .. accepted'
    BY DEF CompleteMeansWhole
  <2>1. CASE ~complete
    BY <2>1, Patient, Completing
  <2>2. CASE complete
    <3>1. ending /\ stored = 1 .. accepted
      BY <2>2, StaysCareless DEF CompleteMeansWhole
    <3>2. ending' /\ accepted' = accepted /\ stored \subseteq stored'
      BY <3>1 DEF Next, ClientStep, LoopStep, PoolStep, Collector, Write, End, Close, OnOpen,
             OnWritten, OnWriteError, Writing, Written, Closed, Collect, vars, js, writable, hdfs
    <3>3. stored' \subseteq 1 .. accepted'
      BY Patient, HeldStep DEF Held, Data, Accounted
    <3>4. QED
      BY <3>1, <3>2, <3>3
  <2>3. QED
    BY <2>1, <2>2
<1>2. Init => CompleteMeansWhole
  BY DEF Init, CompleteMeansWhole
<1>3. QED
  BY <1>1, <1>2, HeldHolds, PTL DEF Spec

-------------------------------------------------------------------------------
(* The stream is an Upload.                                                *)

(* The chunks in the file are a beginning of those written; their workers  *)
(* are done, none of them is empty, and no worker is in the output stream  *)
(* for an empty one.                                                       *)
Beginning ==
  /\ \A s \in stored : stage[s] \in {"done", "delivered"} /\ 1 .. s \subseteq stored
  /\ (inside \cup stored) \cap empties = {}
  /\ empties \subseteq 1 .. accepted
  /\ empties # {} => \E e \in empties : \A m \in empties : e <= m

(* A chunk taken is the next one.                                          *)
LEMMA TakesNext ==
  ASSUME Held, Beginning, NEW n \in Chunk, Written(n, "ok")
  PROVE  /\ n \in inside /\ n <= accepted /\ file = "open"
         /\ stored \subseteq 1 .. n - 1
         /\ stored \cup {n} = 1 .. n
<1>0. n \in Nat /\ n > 0 /\ accepted \in Nat
  BY NativeAssumption DEF Chunk, DataOp, Held, Data, TypeOK, WriteTypeOK
<1>1. /\ n \in inside /\ n <= accepted /\ file = "open" /\ n = writing /\ opened
      /\ ~errorSeen => 1 .. n - 1 \subseteq stored
  BY Takes DEF Held
<1>2. ~errorSeen
  BY <1>0, <1>1 DEF Held, Quiet
<1>3. ASSUME NEW s \in stored PROVE s \in 1 .. n - 1
  <2>1. s \in 1 .. accepted /\ s \in Chunk
    BY DEF Held, Data, Accounted, TypeOK, WriteTypeOK
  <2>2. s # n
    <3>1. stage[n] = "running"
      BY DEF Written, FinishData, Pool!Finish
    <3>2. QED
      BY <3>1 DEF Beginning
  <2>3. s \notin buffered
    BY <2>1 DEF Beginning, Held, Parking
  <2>4. s \in acked
    BY <1>1, <1>2, <2>1, <2>2, <2>3 DEF Held, Data, Accounted
  <2>5. s < n
    BY <1>0, <1>1, <1>2, <2>4 DEF Held, Data, Accounted
  <2>6. QED
    BY <1>0, <2>1, <2>5
<1>4. \A m : m \in 1 .. n <=> m \in 1 .. n - 1 \/ m = n
  BY <1>0
<1>5. stored \cup {n} = 1 .. n
  BY <1>1, <1>2, <1>3, <1>4
<1>6. QED
  BY <1>1, <1>3, <1>5

(* Beginning is inductive.                                                 *)
LEMMA BeginningStep ==
  ASSUME Held, Beginning, [Next]_vars PROVE Beginning'
<1> USE OpSets
<1>0. /\ TypeOK /\ Entered /\ stored \subseteq Chunk /\ Chunk \subseteq Op
      /\ stored \subseteq 1 .. accepted /\ accepted \in Nat
  BY DEF Held, Data, Accounted, TypeOK, WriteTypeOK
<1>1. ASSUME NEW n, NEW done, NEW new, CloseTurn(n, done, new), UNCHANGED <<stored, empties, accepted>>
      PROVE  Beginning'
  BY <1>0, <1>1, TurnedStages DEF Beginning
<1>2. ASSUME NEW b \in BOOLEAN, Write(b) PROVE Beginning'
  <2> DEFINE n == accepted + 1
  <2>1. /\ n \in Chunk /\ accepted' = n /\ UNCHANGED <<stored, inside>>
        /\ empties' = empties \/ empties' = empties \cup {n}
    BY <1>0, <1>2, NativeAssumption DEF Write, Chunk, DataOp, hdfs, CloseTurn
  <2>2. stage[n] = "idle"
    BY <1>0, <2>1 DEF Held, Parking
  <2>3. n \notin inside /\ n \notin stored
    BY <1>0, <2>1, <2>2 DEF Held, Entered, Beginning
  <2>4. PICK new : CloseTurn(0, {}, new)
    BY <1>2 DEF Write
  <2>5. \A s \in stored' : stage'[s] \in {"done", "delivered"} /\ 1 .. s \subseteq stored'
    BY <1>0, <2>1, <2>4, TurnedStages DEF Beginning
  <2>6. (inside' \cup stored') \cap empties' = {}
    BY <2>1, <2>3 DEF Beginning
  <2>7. empties' \subseteq 1 .. n
    <3>1. empties \subseteq 1 .. n /\ n \in 1 .. n
      BY <1>0 DEF Beginning
    <3>2. QED
      BY <2>1, <3>1
  <2>8. empties' # {} => \E e \in empties' : \A m \in empties' : e <= m
    <3>1. CASE empties = {}
      BY <1>0, <2>1, <3>1
    <3>2. CASE empties # {}
      <4>1. PICK e \in empties : \A m \in empties : e <= m
        BY <3>2 DEF Beginning
      <4>2. e <= n /\ e \in empties'
        BY <1>0, <2>1 DEF Beginning
      <4>3. QED
        BY <2>1, <4>1, <4>2
    <3>3. QED
      BY <3>1, <3>2
  <2>9. QED
    BY <2>1, <2>5, <2>6, <2>7, <2>8 DEF Beginning
<1>3. CASE End \/ Close
  BY <1>1, <1>3 DEF End, Close, ClientClose, writable, hdfs
<1>4. CASE LoopStep
  <2>1. UNCHANGED <<stored, empties, accepted>>
    BY <1>4 DEF LoopStep, OnOpen, OnWritten, OnWriteError, writable, hdfs
  <2>2. CASE Tick
    BY <2>1, <2>2 DEF Tick, native, Beginning
  <2>3. QED
    BY <1>1, <1>4, <2>1, <2>2 DEF LoopStep, OnOpen, OnWritten, OnWriteError, OnClosed
<1>5. CASE Collector \/ UNCHANGED vars
  BY <1>5 DEF Collector, Collect, Collected, Destructor, DropFs, Disconnect, vars, native, js, writable,
              hdfs, Beginning
<1>6. CASE ~broken /\ PoolStep
  <2>0. UNCHANGED <<empties, accepted>>
    BY <1>6 DEF PoolStep, Writing, Written, Closed, js, writable
  <2> USE <2>0
  <2>1. ASSUME NEW k \in Op, Pool!Start(k) \/ Pool!Finish(k), UNCHANGED stored,
               inside' \cap empties = {}
        PROVE  Beginning'
    <3>1. \A s \in stored : stage'[s] \in {"done", "delivered"}
      BY <1>0, <2>1, Started, Finished DEF Beginning
    <3>2. QED
      BY <2>1, <3>1 DEF Beginning
  <2>2. ASSUME NEW n \in Chunk, Writing(n) PROVE Beginning'
    BY <2>1, <2>2 DEF Writing, Enter, Beginning, hdfs
  <2>3. ASSUME NEW n \in Chunk, NEW r, Written(n, r) PROVE Beginning'
    <3>1. inside' \cap empties = {}
      BY <2>3 DEF Written, FinishData, Beginning
    <3>2. CASE r = "ok"
      <4>1. n \in inside /\ stored' = 1 .. n /\ stored' = stored \cup {n} /\ n \in Nat
        BY <2>3, <3>2, TakesNext, NativeAssumption DEF Written, Chunk, DataOp
      <4>2. \A s \in stored' : stage'[s] \in {"done", "delivered"}
        BY <1>0, <2>3, <4>1, Finished DEF Written, FinishData, Beginning
      <4>3. \A s \in stored' : 1 .. s \subseteq stored'
        BY <4>1
      <4>4. stored' \cap empties = {}
        BY <4>1 DEF Beginning
      <4>5. QED
        BY <3>1, <4>2, <4>3, <4>4 DEF Beginning
    <3>3. CASE r # "ok"
      BY <2>1, <2>3, <3>1, <3>3 DEF Written, FinishData
    <3>4. QED
      BY <3>2, <3>3
  <2>4. ASSUME NEW r, Closed(r) PROVE Beginning'
    BY <2>1, <2>4 DEF Closed, FinishClose, Beginning
  <2>5. CASE StartOpen /\ UNCHANGED hdfs
    BY <2>1, <2>5 DEF StartOpen, Beginning, hdfs
  <2>6. ASSUME NEW r, FinishOpen(r), UNCHANGED hdfs PROVE Beginning'
    BY <2>1, <2>6 DEF FinishOpen, Beginning, hdfs
  <2>7. CASE Enter(CloseOp, TRUE) /\ UNCHANGED hdfs
    <3>1. CloseOp \notin empties
      BY DEF Held, Data, TypeOK, WriteTypeOK
    <3>2. QED
      BY <2>1, <2>7, <3>1 DEF Enter, Beginning, hdfs
  <2>8. QED
    BY <1>6, <2>2, <2>3, <2>4, <2>5, <2>6, <2>7 DEF PoolStep
<1>7. QED
  BY <1>2, <1>3, <1>4, <1>5, <1>6 DEF Next, ClientStep

(* The CHOOSE in Asked finds the least element.                            *)
LEMMA FirstIs ==
  ASSUME NEW S \in SUBSET Nat, NEW e \in S, \A m \in S : e <= m
  PROVE  (CHOOSE n \in S : \A m \in S : n <= m) = e
<1> DEFINE c == CHOOSE n \in S : \A m \in S : n <= m
<1>1. c \in S /\ \A m \in S : c <= m
  OBVIOUS
<1> HIDE DEF c
<1>2. c \in Nat /\ e \in Nat /\ c <= e /\ e <= c
  BY <1>1
<1>3. c = e
  BY <1>2
<1>4. QED
  BY <1>3 DEF c

(* What the client has asked for is the chunks before its first empty one. *)
LEMMA AskedIs ==
  ASSUME Held, Beginning, NEW e \in empties, \A m \in empties : e <= m
  PROVE  Asked = e - 1
<1>1. empties \in SUBSET Nat /\ empties # {}
  BY DEF Beginning
<1>2. QED
  BY <1>1, FirstIs DEF Asked

(* A new stream is a new upload.                                           *)
LEMMA PromiseInit == Init => Promise!UInit
BY OpSets DEF Init, StreamInit, NativeInit, Promise!UInit, Asked, Phase, Careful, Forgotten

(* The phase depends on little.                                            *)
LEMMA PhaseKept ==
  ASSUME UNCHANGED <<complete, file>>, result'[OpenOp] = result[OpenOp], Careful' <=> Careful
  PROVE  Phase' = Phase
BY DEF Phase

(* What the client has asked for changes only when it writes.              *)
LEMMA AskedKept == ASSUME UNCHANGED <<empties, accepted>> PROVE Asked' = Asked
BY DEF Asked

(* What the proof of the refinement rests on.                              *)
Promising == Held /\ Beginning /\ CompleteMeansWhole

(* write() asks for a chunk, gives the file up, or, after an empty chunk,  *)
(* means nothing to the upload.                                            *)
LEMMA WriteAsks ==
  ASSUME Promising, NEW b \in BOOLEAN, Write(b)
  PROVE  Promise!UNext \/ UNCHANGED <<Asked, ending, stored, Phase>>
<1>1. /\ ~ending /\ ~dropped /\ accepted < Ops /\ accepted' = accepted + 1
      /\ UNCHANGED <<ending, dropped, errorSeen, stored, complete, file, result>>
  BY DEF Write, events, hdfs, CloseTurn
<1>2. accepted \in Nat /\ empties \subseteq 1 .. accepted
  BY DEF Promising, Held, Beginning, Data, TypeOK, WriteTypeOK
<1>3. CASE empties' = empties
  <2>1. (Careful' <=> Careful) /\ Phase' = Phase
    BY <1>1, <1>3, PhaseKept DEF Careful, Forgotten
  <2>2. CASE empties = {}
    <3>1. Asked = accepted /\ Asked' = accepted + 1
      BY <1>1, <1>3, <2>2 DEF Asked
    <3>2. Promise!Ask
      BY <1>1, <2>1, <3>1 DEF Promise!Ask
    <3>3. QED
      BY <3>2 DEF Promise!UNext
  <2>3. CASE empties # {}
    <3>1. Asked' = Asked
      BY <1>3, <2>3 DEF Asked
    <3>2. QED
      BY <1>1, <2>1, <3>1
  <2>4. QED
    BY <2>2, <2>3
<1>4. CASE empties' = empties \cup {accepted + 1}
  <2>1. Asked' = Asked
    <3>1. CASE empties = {}
      <4>1. empties' = {accepted + 1} /\ empties' # {} /\ empties' \in SUBSET Nat
        BY <1>2, <1>4, <3>1
      <4>2. (CHOOSE n \in empties' : \A m \in empties' : n <= m) = accepted + 1
        BY <1>2, <4>1, FirstIs
      <4>3. Asked = accepted /\ Asked' = (accepted + 1) - 1
        BY <3>1, <4>1, <4>2 DEF Asked
      <4>4. QED
        BY <1>2, <4>3
    <3>2. CASE empties # {}
      <4>1. PICK e \in empties : \A m \in empties : e <= m
        BY <3>2 DEF Promising, Beginning
      <4>2. Asked = e - 1
        BY <4>1, AskedIs DEF Promising
      <4>3. /\ empties' # {} /\ empties' \in SUBSET Nat
            /\ e \in empties' /\ \A m \in empties' : e <= m
        BY <1>2, <1>4, <4>1
      <4>4. (CHOOSE n \in empties' : \A m \in empties' : n <= m) = e
        BY <4>3, FirstIs
      <4>5. Asked' = e - 1
        BY <4>3, <4>4 DEF Asked
      <4>6. QED
        BY <4>2, <4>5
    <3>3. QED
      BY <3>1, <3>2
  <2>2. Phase' = "abandoned" /\ Phase \in {"new", "open", "abandoned"}
    BY <1>1, <1>4 DEF Phase, Careful, Promising, CompleteMeansWhole
  <2>3. QED
    BY <1>1, <2>1, <2>2 DEF Promise!UNext, Promise!GiveUp
<1>5. QED
  BY <1>3, <1>4 DEF Write

(* end() seals the upload.                                                 *)
LEMMA EndSeals == ASSUME End PROVE Promise!UNext
<1>1. /\ ~ending /\ ending' = TRUE /\ ~dropped
      /\ UNCHANGED <<dropped, accepted, empties, stored, complete, file, result>>
  BY DEF End, events, hdfs, CloseTurn
<1>2. Careful' <=> Careful
  BY <1>1 DEF Careful, Forgotten
<1>3. Asked' = Asked /\ Phase' = Phase
  BY <1>1, <1>2, AskedKept, PhaseKept
<1>4. QED
  BY <1>1, <1>3 DEF Promise!UNext, Promise!Seal

(* What the event loop does means nothing to it.                           *)
LEMMA LoopStutters ==
  ASSUME Promising, LoopStep PROVE UNCHANGED <<Asked, ending, stored, Phase>>
<1>1. UNCHANGED <<ending, accepted, empties, stored, complete, file, result, dropped>>
  BY DEF LoopStep, OnOpen, OnWritten, OnWriteError, OnClosed, Tick, CloseTurn, native, events,
         writable, hdfs
<1>2. ~dropped
  <2>1. ASSUME NEW n, NEW k \in Op, NEW new, CloseTurn(n, {k}, new) PROVE InFlight(k)
    BY <2>1, TurnFlight DEF Promising, Held, Data, InFlight
  <2>2. ticks > 0 \/ \E k \in Op : InFlight(k)
    BY <2>1, OpSets DEF LoopStep, OnOpen, OnWritten, OnWriteError, OnClosed, Tick
  <2>3. QED
    BY <2>2 DEF Promising, Held, Parking, Idle
<1>3. Careful' <=> Careful
  BY <1>1, <1>2 DEF Careful, Forgotten
<1>4. QED
  BY <1>1, <1>3, AskedKept, PhaseKept

(* A pool thread opens the file or gives it up, appends a chunk, and       *)
(* completes the file or gives it up.                                      *)
LEMMA PoolKeeps ==
  ASSUME Promising, Patient, PoolStep, [Next]_vars
  PROVE  Promise!UNext \/ UNCHANGED <<Asked, ending, stored, Phase>>
<1> USE OpSets DEF Promise!UNext
<1>0. /\ UNCHANGED <<ending, accepted, empties>> /\ (Careful' <=> Careful)
      /\ Asked' = Asked
  <2>1. UNCHANGED <<ending, accepted, empties, dropped, errorSeen>>
    BY DEF PoolStep, Writing, Written, Closed, js, stream, events, writable
  <2>2. QED
    BY <2>1, AskedKept DEF Careful, Forgotten
<1>1. ASSUME UNCHANGED <<complete, file, stored>>, result'[OpenOp] = result[OpenOp]
      PROVE  UNCHANGED <<Asked, ending, stored, Phase>>
  BY <1>0, <1>1, PhaseKept
<1>2. CASE (StartOpen \/ Enter(CloseOp, TRUE)) /\ UNCHANGED <<js, hdfs>>
  BY <1>1, <1>2 DEF StartOpen, Enter, hdfs
<1>3. ASSUME NEW n \in Chunk, Writing(n) PROVE UNCHANGED <<Asked, ending, stored, Phase>>
  BY <1>1, <1>3 DEF Writing, Enter, hdfs
<1>4. ASSUME NEW r \in {"ok", "err"}, FinishOpen(r), UNCHANGED <<js, hdfs>>
      PROVE  Promise!UNext \/ UNCHANGED <<Asked, ending, stored, Phase>>
  <2>1. /\ file' = (IF r = "ok" THEN "open" ELSE "null") /\ result'[OpenOp] = r
        /\ UNCHANGED <<stored, complete>>
    BY <1>4 DEF FinishOpen, hdfs, Promising, Held, Data, TypeOK, WriteTypeOK, StreamTypeOK, NativeTypeOK
  <2>2. ~Tried
    BY <1>4, Finished DEF FinishOpen, Tried, Promising, Held, Data
  <2>3. ~complete /\ file \in {"wild", "null"} /\ result[OpenOp] = "none"
    BY <2>2 DEF Promising, Held, Closing, OpenTold, Data, Entered
  <2>4. CASE ~Careful
    BY <1>0, <2>1, <2>4 DEF Phase
  <2>5. CASE Careful
    <3>1. Phase = "new" /\ Phase' = IF r = "ok" THEN "open" ELSE "abandoned"
      BY <1>0, <2>1, <2>3, <2>5 DEF Phase
    <3>2. QED
      BY <1>0, <2>1, <3>1 DEF Promise!Open, Promise!GiveUp
  <2>6. QED
    BY <2>4, <2>5
<1>5. ASSUME NEW n \in Chunk, NEW r \in {"ok", "err"}, Written(n, r)
      PROVE  Promise!UNext \/ UNCHANGED <<Asked, ending, stored, Phase>>
  <2>1. UNCHANGED <<complete, file>> /\ result'[OpenOp] = result[OpenOp]
    BY <1>5 DEF Written, FinishData, Promising, Held, Data, TypeOK, WriteTypeOK, StreamTypeOK,
                NativeTypeOK
  <2>2. CASE r = "err"
    BY <1>1, <1>5, <2>1, <2>2 DEF Written
  <2>3. CASE r = "ok"
    <3>1. /\ n \in inside /\ n <= accepted /\ file = "open"
          /\ stored \subseteq 1 .. n - 1 /\ stored' = 1 .. n
      BY <1>5, <2>3, TakesNext DEF Written, Promising
    <3>2. n \in Nat /\ n > 0 /\ accepted \in Nat
      BY NativeAssumption DEF Chunk, DataOp, Promising, Held, Data, TypeOK, WriteTypeOK
    <3>3. n \in 1 .. Asked
      <4>1. CASE empties = {}
        BY <3>1, <3>2, <4>1 DEF Asked
      <4>2. CASE empties # {}
        <5>1. PICK e \in empties : \A m \in empties : e <= m
          BY <4>2 DEF Promising, Beginning
        <5>2. Asked = e - 1 /\ e \in Nat /\ e > 0
          BY <5>1, AskedIs DEF Promising, Beginning
        <5>3. e \notin 1 .. n
          <6>1. \A m : m \in 1 .. n => m \in stored \cup {n}
            BY <1>5, <2>3, TakesNext DEF Promising
          <6>2. QED
            BY <3>1, <5>1, <6>1 DEF Promising, Beginning
        <5>4. QED
          BY <3>2, <5>2, <5>3
      <4>3. QED
        BY <4>1, <4>2
    <3>4. Phase' = Phase /\ Phase \in {"open", "abandoned"}
      <4>1. Phase' = Phase
        BY <1>0, <2>1, PhaseKept
      <4>2. ~complete
        BY <3>1 DEF Promising, Held, Closing
      <4>3. QED
        BY <3>1, <4>1, <4>2 DEF Phase
    <3>5. Promise!Append
      BY <1>0, <3>1, <3>3, <3>4 DEF Promise!Append
    <3>6. QED
      BY <3>5
  <2>4. QED
    BY <2>2, <2>3
<1>6. ASSUME NEW r \in {"ok", "err"}, Closed(r)
      PROVE  Promise!UNext \/ UNCHANGED <<Asked, ending, stored, Phase>>
  <2>1. /\ stored' = stored /\ result'[OpenOp] = result[OpenOp]
        /\ file' = (IF CloseOp \in inside THEN "freed" ELSE file)
        /\ complete' = (complete \/ (CloseOp \in inside /\ ~poisoned /\ r = "ok"))
    BY <1>6 DEF Closed, FinishClose, Completes, Promising, Held, Data, TypeOK, WriteTypeOK,
                StreamTypeOK, NativeTypeOK
  <2>2. complete \in BOOLEAN
    BY DEF Promising, Held, Data, TypeOK, WriteTypeOK
  <2>3. CASE CloseOp \notin inside
    BY <1>1, <2>1, <2>2, <2>3
  <2>4. CASE ~Careful
    BY <1>0, <2>1, <2>4 DEF Phase
  <2>5. CASE CloseOp \in inside /\ Careful
    <3>1. file = "open" /\ ~complete
      BY <2>5 DEF Promising, Held, Data, Entered, Closing
    <3>2. Phase = "open" /\ file' = "freed"
      BY <2>1, <2>5, <3>1 DEF Phase
    <3>3. CASE complete'
      <4>1. ending /\ stored = 1 .. accepted
        BY <1>0, <2>5, <3>1, <3>3, Completing DEF Promising
      <4>2. Asked = accepted /\ Phase' = "complete"
        BY <1>0, <2>5, <3>3 DEF Asked, Phase, Careful
      <4>3. QED
        BY <1>0, <2>1, <3>2, <4>1, <4>2 DEF Promise!Complete
    <3>4. CASE ~complete'
      <4>1. Phase' = "abandoned"
        BY <1>0, <3>2, <3>4 DEF Phase
      <4>2. QED
        BY <1>0, <2>1, <3>2, <4>1 DEF Promise!GiveUp
    <3>5. QED
      BY <3>3, <3>4
  <2>6. QED
    BY <2>3, <2>4, <2>5
<1>7. QED
  BY <1>2, <1>3, <1>4, <1>5, <1>6 DEF PoolStep

(* The collector completes a file or gives it up.                          *)
LEMMA CollectorKeeps ==
  ASSUME Promising, Patient, Collector, [Next]_vars
  PROVE  Promise!UNext \/ UNCHANGED <<Asked, ending, stored, Phase>>
<1> USE DEF Promise!UNext
<1>1. CASE DropFs /\ UNCHANGED <<writable, hdfs>>
  <2>1. UNCHANGED <<ending, accepted, empties, dropped, errorSeen, stored, complete, file, result>>
    BY <1>1 DEF DropFs, Disconnect, stream, events, writable, hdfs
  <2>2. Careful' <=> Careful
    BY <2>1 DEF Careful, Forgotten
  <2>3. QED
    BY <2>1, <2>2, AskedKept, PhaseKept
<1>2. ASSUME NEW r \in {"ok", "err"}, Collect(r)
      PROVE  Promise!UNext \/ UNCHANGED <<Asked, ending, stored, Phase>>
  <2>1. /\ UNCHANGED <<ending, accepted, empties, errorSeen, stored, result>> /\ ~dropped
        /\ file' = (IF file = "open" THEN "freed" ELSE file)
        /\ complete' = (complete \/ (file = "open" /\ ~poisoned /\ r = "ok"))
    BY <1>2 DEF Collect, Collected, Destructor, Completes, writable
  <2>2. Asked' = Asked
    BY <2>1, AskedKept
  <2>3. complete \in BOOLEAN
    BY DEF Promising, Held, Data, TypeOK, WriteTypeOK
  <2>4. CASE ~Careful
    <3>1. ~Careful'
      BY <2>4, StaysCareless DEF Promising
    <3>2. QED
      BY <2>1, <2>2, <2>4, <3>1 DEF Phase
  <2>5. CASE Careful /\ ~Careful'
    <3>1. ~ending
      BY <2>1, <2>5 DEF Careful, Forgotten
    <3>2. Phase' = "abandoned" /\ Phase \in {"new", "open", "abandoned"}
      BY <2>5, <3>1 DEF Phase, Promising, CompleteMeansWhole
    <3>3. QED
      BY <2>1, <2>2, <3>2 DEF Promise!GiveUp
  <2>6. CASE Careful /\ Careful' /\ file # "open"
    BY <2>1, <2>2, <2>3, <2>6, PhaseKept
  <2>7. CASE Careful /\ Careful' /\ file = "open"
    <3>1. ~complete /\ Phase = "open" /\ file' = "freed"
      BY <2>1, <2>7 DEF Phase, Promising, Held, Closing
    <3>2. CASE complete'
      <4>1. ending /\ stored = 1 .. accepted
        BY <2>7, <3>1, <3>2, Completing DEF Promising
      <4>2. Asked = accepted /\ Phase' = "complete"
        BY <2>7, <3>2 DEF Asked, Phase, Careful
      <4>3. QED
        BY <2>1, <2>2, <3>1, <4>1, <4>2 DEF Promise!Complete
    <3>3. CASE ~complete'
      <4>1. Phase' = "abandoned"
        BY <2>7, <3>1, <3>3 DEF Phase
      <4>2. QED
        BY <2>1, <2>2, <3>1, <4>1 DEF Promise!GiveUp
    <3>4. QED
      BY <3>2, <3>3
  <2>8. QED
    BY <2>4, <2>5, <2>6, <2>7
<1>3. QED
  BY <1>1, <1>2 DEF Collector

(* The stream of a patient client is an Upload: it starts as one, and all  *)
(* it does is what an Upload may do.  That a sealed upload does not stay   *)
(* undecided is beyond this proof.                                         *)
THEOREM StreamIsUpload ==
  ASSUME Patient
  PROVE  Spec => Promise!UInit /\ [][Promise!UNext]_(Promise!upload)
<1>1. Init => Beginning
  BY OpSets DEF Init, StreamInit, NativeInit, Beginning
<1>2. Held /\ Beginning /\ [Next]_vars => Beginning'
  BY BeginningStep
<1>3. Held /\ Beginning /\ CompleteMeansWhole /\ [Next]_vars
        => [Promise!UNext]_(Promise!upload)
  <2> SUFFICES ASSUME Promising, [Next]_vars
               PROVE  Promise!UNext \/ UNCHANGED <<Asked, ending, stored, Phase>>
    BY DEF Promising, Promise!upload
  <2>1. CASE ClientStep
    <3>1. ASSUME Close PROVE FALSE
      BY <3>1, Patient DEF Close, Client, Patient
    <3>2. QED
      BY <2>1, <3>1, WriteAsks, EndSeals DEF ClientStep
  <2>2. CASE LoopStep
    BY <2>2, LoopStutters
  <2>3. CASE PoolStep
    BY <2>3, Patient, PoolKeeps
  <2>4. CASE Collector
    BY <2>4, Patient, CollectorKeeps
  <2>5. CASE UNCHANGED vars
    <3>1. UNCHANGED <<ending, accepted, empties, dropped, errorSeen, stored, complete, file, result>>
      BY <2>5 DEF vars, native, js, stream, events, writable, hdfs
    <3>2. Careful' <=> Careful
      BY <3>1 DEF Careful, Forgotten
    <3>3. QED
      BY <3>1, <3>2, AskedKept, PhaseKept
  <2>6. QED
    BY <2>1, <2>2, <2>3, <2>4, <2>5 DEF Next
<1>4. Spec => []CompleteMeansWhole
  BY Patient, CompleteIsWhole
<1>5. QED
  BY <1>1, <1>2, <1>3, <1>4, HeldHolds, PromiseInit, Patient, PTL DEF Spec
===============================================================================
