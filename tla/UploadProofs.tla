------------------------------ MODULE UploadProofs ------------------------------
(* Theorems about the data of WriteStream: the order in which it is taken, *)
(* what 'finish' and 'close' mean, and that the stream is an Upload.       *)
EXTENDS WriteStreamProofs

-------------------------------------------------------------------------------
(* What the workers' stages become.                                        *)

(* In a turn of the JavaScript thread: a worker called back was done, and  *)
(* one queued was idle.                                                    *)
LEMMA Turned ==
  ASSUME TypeOK, NEW n, NEW done, NEW new, CloseTurn(n, done, new)
  PROVE  \A k \in Op :
           /\ k \in done => stage[k] = "done" /\ stage'[k] = "delivered"
           /\ k \notin done /\ (k \in new \/ (k = CloseOp /\ FirstClose(n)))
                => stage[k] = "idle" /\ stage'[k] = "queued"
           /\ k \notin done /\ k \notin new /\ ~(k = CloseOp /\ FirstClose(n))
                => stage'[k] = stage[k]
BY DEF CloseTurn, Pool!Turn, TypeOK, WriteTypeOK, StreamTypeOK, NativeTypeOK, Pool!PoolTypeOK

(* So a worker whose stage changes was called back or queued.              *)
LEMMA TurnedStages ==
  ASSUME TypeOK, NEW n, NEW done, NEW new, CloseTurn(n, done, new)
  PROVE  /\ UNCHANGED <<file, inside, connected, result, broken>>
         /\ \A k \in Op : /\ stage[k] = "running" => stage'[k] = "running"
                          /\ stage[k] # "idle" => stage'[k] # "idle"
                          /\ stage'[k] \in {"done", "delivered"}
                               <=> stage[k] \in {"done", "delivered"}
                          /\ stage'[k] = "running" => stage[k] = "running"
<1>1. UNCHANGED <<file, inside, connected, result, broken>>
  BY DEF CloseTurn
<1>2. \A k \in Op : \/ stage[k] = "done" /\ stage'[k] = "delivered"
                    \/ stage[k] = "idle" /\ stage'[k] = "queued"
                    \/ stage'[k] = stage[k]
  BY Turned
<1>3. QED
  BY <1>1, <1>2

(* When a thread starts a worker, and when it is done with it.             *)
LEMMA Started ==
  ASSUME TypeOK, NEW k \in Op, Pool!Start(k)
  PROVE  /\ stage[k] = "queued"
         /\ \A m \in Op : stage'[m] = IF m = k THEN "running" ELSE stage[m]
BY DEF Pool!Start, TypeOK, WriteTypeOK, StreamTypeOK, NativeTypeOK, Pool!PoolTypeOK

(* When a thread is done with a worker.                                    *)
LEMMA Finished ==
  ASSUME TypeOK, NEW k \in Op, Pool!Finish(k)
  PROVE  /\ stage[k] = "running"
         /\ \A m \in Op : stage'[m] = IF m = k THEN "done" ELSE stage[m]
BY DEF Pool!Finish, TypeOK, WriteTypeOK, StreamTypeOK, NativeTypeOK, Pool!PoolTypeOK

-------------------------------------------------------------------------------
(* The native file.                                                        *)

(* Open has been executed.                                                 *)
Tried == stage[OpenOp] \in {"done", "delivered"}

(* `file' tells what became of Open, and as long as nothing is broken at   *)
(* most one worker is inside the output stream, which is open.             *)
Entered ==
  /\ file = "wild" => ~Tried
  /\ file \in {"open", "freed"} => Tried
  /\ stage[OpenOp] # "idle"
  /\ ~broken => \A k \in inside : stage[k] = "running" /\ file = "open" /\ inside = {k}

(* What a turn of the JavaScript thread leaves of it.                      *)
LEMMA EnteredTurn ==
  ASSUME TypeOK, Entered, NEW n, NEW done, NEW new, CloseTurn(n, done, new)
  PROVE  /\ Entered'
         /\ UNCHANGED <<file, inside, connected, result, broken>>
         /\ Tried' <=> Tried
<1>1. inside \subseteq Op
  BY DEF TypeOK, WriteTypeOK, StreamTypeOK, NativeTypeOK
<1>2. QED
  BY <1>1, TurnedStages, OpSets DEF Entered, Tried

(* Entered is inductive.                                                   *)
LEMMA EnteredStep == TypeOK /\ Entered /\ [Next]_vars => Entered'
<1> SUFFICES ASSUME TypeOK, Entered, [Next]_vars PROVE Entered'
  OBVIOUS
<1> USE OpSets
<1>1. CASE ~broken /\ (ClientStep \/ LoopStep)
  <2>1. CASE \E n, done, new : CloseTurn(n, done, new)
    BY <2>1, EnteredTurn
  <2>2. CASE Tick
    BY <2>2 DEF Tick, native, Entered, Tried
  <2>3. QED
    BY <1>1, <2>1, <2>2 DEF ClientStep, Write, End, Close, ClientClose, LoopStep, OnOpen,
                            OnWritten, OnWriteError, OnClosed
<1> USE DEF Entered, Tried
<1>2. ASSUME ~broken, NEW k \in Op, NEW v \in BOOLEAN, Enter(k, v) PROVE Entered'
  BY <1>2, Started DEF Enter, TypeOK, WriteTypeOK, StreamTypeOK, NativeTypeOK
<1>3. ASSUME ~broken, StartOpen PROVE Entered'
  BY <1>3, Started DEF StartOpen, TypeOK, WriteTypeOK, StreamTypeOK, NativeTypeOK
<1>4. ASSUME ~broken, NEW r \in {"ok", "err"}, FinishOpen(r) PROVE Entered'
  BY <1>4, Finished DEF FinishOpen
<1>5. ASSUME ~broken, NEW n \in Chunk, NEW r, FinishData(n, r) PROVE Entered'
  <2>1. /\ \A m \in Op : stage'[m] = IF m = n THEN "done" ELSE stage[m]
        /\ inside' = inside \ {n} /\ file' = file /\ broken' = broken
        /\ inside \subseteq Op
    BY <1>5, Finished DEF FinishData, TypeOK, WriteTypeOK, StreamTypeOK, NativeTypeOK
  <2>2. ASSUME NEW k \in inside' PROVE stage'[k] = "running" /\ file' = "open" /\ inside' = {k}
    <3>1. k \in inside /\ k # n /\ k \in Op
      BY <2>1, <2>2
    <3>2. inside = {k} /\ stage[k] = "running" /\ file = "open"
      BY <1>5, <3>1
    <3>3. inside' = {k}
      BY <2>1, <3>1, <3>2, Zenon
    <3>4. QED
      BY <2>1, <3>1, <3>2, <3>3
  <2>3. Tried' <=> Tried
    BY <2>1
  <2>4. stage'[OpenOp] # "idle"
    BY <2>1
  <2>5. QED
    BY <2>1, <2>2, <2>3, <2>4
<1>6. ASSUME ~broken, NEW r, FinishClose(r) PROVE Entered'
  BY <1>6, Finished DEF FinishClose, TypeOK, WriteTypeOK, StreamTypeOK, NativeTypeOK
<1>7. CASE ~broken /\ Collector
  <2>1. UNCHANGED <<stage, inside>>
    BY <1>7 DEF Collector, Collect, Collected, Destructor, DropFs, Disconnect
  <2>2. CASE Destructor
    <3>1. inside = {}
      BY <1>7, <2>2 DEF Destructor, Idle, InFlight, TypeOK, WriteTypeOK, StreamTypeOK, NativeTypeOK
    <3>2. QED
      BY <2>1, <2>2, <3>1 DEF Destructor
  <2>3. CASE Disconnect
    BY <1>7, <2>1, <2>3 DEF Disconnect
  <2>4. QED
    BY <1>7, <2>2, <2>3 DEF Collector, Collect, Collected, DropFs
<1>8. CASE UNCHANGED vars
  BY <1>8 DEF vars, native
<1>9. QED
  BY <1>1, <1>2, <1>3, <1>4, <1>5, <1>6, <1>7, <1>8
  DEF Next, PoolStep, Writing, Written, Closed

-------------------------------------------------------------------------------
(* The data.                                                               *)

(* What the Writable knows of the chunks: they are acknowledged, waiting   *)
(* or being written, in this order, unless an error has made it lose them. *)
Accounted ==
  /\ buffered \subseteq 1 .. accepted /\ stored \subseteq 1 .. accepted
  /\ writing <= accepted /\ writing \notin buffered
  /\ ~errorSeen => /\ 1 .. accepted \subseteq acked \cup buffered \cup {writing}
                   /\ \A m \in buffered : 0 < writing /\ writing < m
                   /\ writing # 0 => \A s \in acked : s < writing
                   /\ finished => ending /\ writing = 0 /\ buffered = {}

(* Accounted is inductive.                                                 *)
LEMMA AccountedStep ==
  TypeOK /\ Serial /\ Kept /\ Accounted /\ [Next]_vars => Accounted'
<1> SUFFICES ASSUME TypeOK, Serial, Kept, Accounted, [Next]_vars PROVE Accounted'
  OBVIOUS
<1>0. /\ accepted \in Nat /\ writing \in Nat /\ buffered \subseteq Chunk
      /\ acked \subseteq 1 .. accepted /\ Chunk \subseteq Nat
  BY NativeAssumption DEF TypeOK, WriteTypeOK, Chunk, DataOp, Kept, AckedStored, Accounted
<1> USE <1>0, OpSets DEF Accounted
<1>1. ASSUME NEW b \in BOOLEAN, Write(b) PROVE Accounted'
  <2>1. accepted' = accepted + 1 /\ UNCHANGED <<acked, stored, errorSeen, finished, ending>>
    BY <1>1 DEF Write, events, hdfs
  <2>2. ~ending
    BY <1>1 DEF Write
  <2>n. DEFINE n == accepted + 1
  <2>3. \A m : m \in 1 .. n <=> m \in 1 .. accepted \/ m = n
    OBVIOUS
  <2>4. ~errorSeen /\ writing = 0 => buffered = {}
    OBVIOUS
  <2>5. CASE Busy
    <3>1. writing' = writing /\ buffered' = buffered \cup {n} /\ writing # 0 /\ accepted' = n
      BY <1>1, <2>1, <2>5 DEF Write, Busy
    <3>2. buffered' \subseteq 1 .. n /\ stored' \subseteq 1 .. n /\ writing' <= n /\ writing' \notin buffered'
      BY <2>1, <2>3, <3>1
    <3>3. ~errorSeen => 1 .. n \subseteq acked \cup buffered' \cup {writing}
      BY <2>3, <3>1
    <3>4. ~errorSeen => \A m \in buffered' : 0 < writing /\ writing < m
      BY <3>1
    <3>5. QED
      BY <2>1, <2>2, <3>1, <3>2, <3>3, <3>4
  <2>6. CASE ~Busy
    <3>1. writing' = n /\ buffered' = buffered /\ writing = 0 /\ accepted' = n
      BY <1>1, <2>1, <2>6 DEF Write, Busy
    <3>2. buffered' \subseteq 1 .. n /\ stored' \subseteq 1 .. n /\ writing' <= n /\ writing' \notin buffered'
      BY <2>1, <2>3, <3>1
    <3>3. ~errorSeen => 1 .. n \subseteq acked \cup buffered' \cup {n}
      BY <2>3, <3>1
    <3>4. ~errorSeen => buffered' = {} /\ \A s \in acked : s < n
      BY <2>4, <3>1
    <3>5. QED
      BY <2>1, <2>2, <3>1, <3>2, <3>3, <3>4
  <2>7. QED
    BY <2>5, <2>6
<1>2. ASSUME End PROVE Accounted'
  BY <1>2 DEF End, Finishes, Busy, events, hdfs
<1>3. ASSUME NEW n \in Chunk, OnWritten(n) PROVE Accounted'
  <2>1. n = writing
    BY <1>3 DEF OnWritten, CloseTurn, Pool!Turn, Serial, InFlight
  <2>2. UNCHANGED <<accepted, stored, errorSeen, ending>> /\ acked' = acked \cup {n}
    BY <1>3 DEF OnWritten, events, hdfs
  <2>3. ASSUME NEW next \in Chunk, Oldest(next), writing' = next, buffered' = buffered \ {next},
               UNCHANGED finished
        PROVE  Accounted'
    BY <2>1, <2>2, <2>3 DEF Oldest
  <2>4. ASSUME buffered = {}, writing' = 0, buffered' = {},
               finished' = (finished \/ Finishes(ending, FALSE, buffered))
        PROVE  Accounted'
    <3>1. ~errorSeen => 1 .. accepted \subseteq acked \cup {n}
      BY <2>1, <2>4
    <3>2. ~errorSeen /\ finished' => ending
      BY <2>1, <2>4 DEF Finishes
    <3>3. ~errorSeen => 1 .. accepted' \subseteq acked' \cup buffered' \cup {writing'}
      BY <2>2, <3>1
    <3>4. buffered' \subseteq 1 .. accepted' /\ stored' \subseteq 1 .. accepted'
      BY <2>2, <2>4
    <3>5. writing' <= accepted' /\ writing' \notin buffered'
      BY <2>2, <2>4
    <3>6. QED
      BY <2>2, <2>4, <3>2, <3>3, <3>4, <3>5
  <2>5. QED
    BY <1>3, <2>3, <2>4 DEF OnWritten
<1>4. ASSUME NEW n \in Chunk, OnWriteError(n) PROVE Accounted'
  BY <1>4 DEF OnWriteError, hdfs
<1>5. ASSUME NEW n \in Chunk, NEW r \in {"ok", "err"}, Written(n, r) PROVE Accounted'
  <2>1. n = writing
    BY <1>5 DEF Written, FinishData, Pool!Finish, Serial, InFlight
  <2>2. QED
    BY <1>5, <2>1 DEF Written, js, stream, events, writable
<1>6. CASE UNCHANGED <<writable, stored>> /\ (errorSeen => errorSeen')
  BY <1>6 DEF writable
<1>7. CASE Close \/ OnOpen \/ ((OnClosed \/ Tick) /\ UNCHANGED <<writable, hdfs>>)
  BY <1>6, <1>7 DEF Close, ClientClose, OnOpen, OnClosed, CloseEvent, Tick, events, hdfs
<1>8. CASE Collector \/ UNCHANGED vars
  BY <1>6, <1>8 DEF Collector, Collect, Collected, DropFs, vars, js, hdfs, stream, events
<1>9. CASE PoolStep
  BY <1>5, <1>6, <1>9 DEF PoolStep, Writing, Closed, js, hdfs, stream, events
<1>10. QED
  BY <1>1, <1>2, <1>3, <1>4, <1>7, <1>8, <1>9 DEF Next, ClientStep, LoopStep

(* Nothing more goes into the file: an append failed, or it is closed or   *)
(* was never opened.                                                       *)
Spent == poisoned \/ (file # "open" /\ Tried)

(* If no chunk is empty, a worker fails, or is about to, only when nothing *)
(* more goes into the file, and so does the client see an error.           *)
Fails ==
  empties = {} => /\ \A n \in Chunk : stage[n] = "running" => n \in inside \/ Spent
                  /\ \A k \in Op : result[k] = "err" => Spent
                  /\ errorSeen => Spent

(* What happens to `file' and to the stream's lastError, case by case.     *)
LEMMA FileStep ==
  ASSUME TypeOK, Entered, [Next]_vars
  PROVE  /\ Tried => Tried'
         /\ file' = "open" /\ file # "open" => ~Tried
         /\ poisoned => poisoned'
<1> USE OpSets DEF Entered, Tried
<1>1. CASE UNCHANGED <<file, poisoned>> /\ (Tried => Tried')
  BY <1>1
<1>2. ASSUME NEW n, NEW done, NEW new, CloseTurn(n, done, new), UNCHANGED hdfs
      PROVE  UNCHANGED <<file, poisoned>> /\ (Tried => Tried')
  BY <1>2, TurnedStages DEF hdfs
<1>3. ASSUME NEW k \in Op, Pool!Start(k) PROVE Tried => Tried'
  BY <1>3, Started
<1>4. ASSUME NEW k \in Op, Pool!Finish(k) PROVE (Tried => Tried') /\ (k = OpenOp => ~Tried)
  BY <1>4, Finished
<1>5. CASE ClientStep
  BY <1>1, <1>2, <1>5 DEF ClientStep, Write, End, Close, ClientClose
<1>6. CASE LoopStep
  <2>1. CASE Tick /\ UNCHANGED <<writable, hdfs>>
    BY <1>1, <2>1 DEF Tick, native, hdfs
  <2>2. QED
    BY <1>1, <1>2, <1>6, <2>1 DEF LoopStep, OnOpen, OnWritten, OnWriteError, OnClosed
<1>7. ASSUME NEW r, FinishOpen(r), UNCHANGED hdfs
      PROVE  (Tried => Tried') /\ ~Tried /\ (poisoned => poisoned')
  BY <1>4, <1>7 DEF FinishOpen, hdfs
<1>8. ASSUME NEW n \in Chunk, NEW r, Written(n, r)
      PROVE  (Tried => Tried') /\ file' = file /\ (poisoned => poisoned')
  BY <1>4, <1>8 DEF Written, FinishData
<1>9. ASSUME NEW r, Closed(r)
      PROVE  (Tried => Tried') /\ file' \in {file, "freed"} /\ (poisoned => poisoned')
  BY <1>4, <1>9 DEF Closed, FinishClose
<1>10. ASSUME NEW k \in Op, NEW v, Enter(k, v) \/ StartOpen, UNCHANGED hdfs
       PROVE  UNCHANGED <<file, poisoned>> /\ (Tried => Tried')
  BY <1>3, <1>10 DEF Enter, StartOpen, hdfs
<1>11. CASE PoolStep
  BY <1>7, <1>8, <1>9, <1>10, <1>11 DEF PoolStep, Writing
<1>12. CASE Collector \/ UNCHANGED vars
  <2>1. UNCHANGED <<stage, poisoned>> /\ file' \in {file, "freed"}
    BY <1>12 DEF Collector, Collect, Collected, Destructor, DropFs, Disconnect, hdfs, vars, native
  <2>2. QED
    BY <2>1
<1>13. QED
  BY <1>5, <1>6, <1>11, <1>12 DEF Next

(* Nothing ever goes into the file again.                                  *)
LEMMA SpentStep == ASSUME TypeOK, Entered, Spent, [Next]_vars PROVE Spent'
BY FileStep DEF Spent

(* Fails is inductive.                                                     *)
LEMMA FailsStep ==
  TypeOK /\ Serial /\ Entered /\ Fails /\ [Next]_vars => Fails'
<1> SUFFICES ASSUME TypeOK, Serial, Entered, Fails, [Next]_vars, empties' = {} PROVE Fails'
  BY DEF Fails
<1>0. Spent => Spent'
  BY SpentStep
<1> USE <1>0, OpSets DEF Fails
<1>1. ASSUME NEW n, NEW done, NEW new, CloseTurn(n, done, new), empties = {},
             errorSeen' => errorSeen \/ \E k \in Op : result[k] = "err"
      PROVE  Fails'
  BY <1>1, TurnedStages
<1>2. CASE ClientStep
  <2>1. empties = {}
    BY <1>2 DEF ClientStep, Write, End, Close, ClientClose, writable
  <2>2. QED
    BY <1>1, <1>2, <2>1 DEF ClientStep, Write, End, Close, ClientClose, events
<1>3. CASE LoopStep
  <2>1. empties = {}
    BY <1>3 DEF LoopStep, OnOpen, OnWritten, OnWriteError, writable
  <2>2. CASE Tick
    BY <2>1, <2>2 DEF Tick, native
  <2>3. CASE OnOpen
    BY <1>1, <2>1, <2>3 DEF OnOpen, Callback
  <2>4. CASE OnClosed
    BY <1>1, <2>1, <2>4 DEF OnClosed, CloseEvent, Callback
  <2>5. ASSUME NEW n \in Chunk, OnWritten(n) PROVE Fails'
    BY <1>1, <2>1, <2>5 DEF OnWritten, events
  <2>6. ASSUME NEW n \in Chunk, OnWriteError(n) PROVE Fails'
    BY <1>1, <2>1, <2>6 DEF OnWriteError, Callback
  <2>7. QED
    BY <1>3, <2>2, <2>3, <2>4, <2>5, <2>6 DEF LoopStep
<1>4. CASE ~broken /\ PoolStep
  <2>1. empties = {} /\ errorSeen' = errorSeen
    BY <1>4 DEF PoolStep, Writing, Written, Closed, js, stream, events, writable
  <2> USE <2>1
  <2>2. ASSUME NEW k \in Op, Enter(k, TRUE) PROVE Fails'
    <3>1. k \in Chunk => k \in inside' \/ Spent
      BY <2>2, Started DEF Enter, Serial, InFlight, Spent, Tried
    <3>2. QED
      BY <2>2, <3>1, Started DEF Enter
  <2>3. CASE StartOpen
    BY <2>3, Started DEF StartOpen
  <2>4. ASSUME NEW k \in Op, NEW r, Pool!Finish(k), inside \subseteq inside' \cup {k},
               result' = [result EXCEPT ![k] = r], r = "err" => Spent'
        PROVE  Fails'
    BY <2>4, Finished DEF TypeOK, WriteTypeOK, StreamTypeOK, NativeTypeOK
  <2>5. ASSUME NEW r, FinishOpen(r) PROVE Fails'
    <3>1. r = "err" => Spent'
      BY <2>5, Finished DEF FinishOpen, Spent, Tried
    <3>2. QED
      BY <2>4, <2>5, <3>1 DEF FinishOpen
  <2>6. ASSUME NEW n \in Chunk, NEW r, Written(n, r) PROVE Fails'
    <3>1. r = "err" => Spent'
      BY <2>6, Finished DEF Written, FinishData, Spent, Poisons
    <3>2. QED
      BY <2>4, <2>6, <3>1 DEF Written, FinishData
  <2>7. ASSUME NEW r, Closed(r) PROVE Fails'
    <3>1. r = "err" => CloseOp \in inside /\ file' = "freed"
      BY <2>7 DEF Closed, FinishClose
    <3>2. r = "err" => Spent'
      BY <1>4, <2>7, <3>1, Finished DEF Closed, FinishClose, Spent, Tried, Entered
    <3>3. QED
      BY <2>4, <2>7, <3>2 DEF Closed, FinishClose
  <2>8. ASSUME NEW n \in Chunk, Writing(n) PROVE Fails'
    <3>1. (n \notin empties) = TRUE
      BY <2>1
    <3>2. QED
      BY <2>2, <2>8, <3>1 DEF Writing
  <2>9. QED
    BY <1>4, <2>2, <2>3, <2>5, <2>6, <2>7, <2>8 DEF PoolStep
<1>5. CASE Collector \/ UNCHANGED vars
  BY <1>5 DEF Collector, Collect, Collected, Destructor, DropFs, Disconnect, vars, native, js, stream,
              events, writable
<1>6. QED
  BY <1>2, <1>3, <1>4, <1>5 DEF Next

(* What holds of the stream whatever its client does.                      *)
Data == TypeOK /\ Serial /\ Kept /\ Entered /\ Accounted /\ Fails

(* Data holds at first,                                                    *)
LEMMA DataInit == Init => Data
<1> SUFFICES ASSUME Init PROVE Data
  OBVIOUS
<1>1. TypeOK /\ Serial
  BY TypeInit, SerialInit
<1>2. Kept /\ Fails
  BY OpSets DEF Init, StreamInit, NativeInit, Kept, AckedStored, Fails, Op
<1>3. Entered
  BY OpSets DEF Init, StreamInit, NativeInit, Entered, Tried, Op
<1>4. Accounted
  BY DEF Init, StreamInit, Accounted
<1>5. QED
  BY <1>1, <1>2, <1>3, <1>4 DEF Data

(* every step keeps it,                                                    *)
LEMMA DataStep == Data /\ [Next]_vars => Data'
BY TypeStep, SerialStep, KeptStep, EnteredStep, AccountedStep, FailsStep DEF Data

(* and so it holds always: the order of the chunks, of their workers and   *)
(* of what the output stream took and refused, for every client.           *)
THEOREM DataHolds == Spec => []Data
BY DataInit, DataStep, PTL DEF Spec

(* 'finish' without an 'error' before it: the output stream has taken every*)
(* chunk written, whatever the client did.                                 *)
THEOREM FinishIsTrue == Spec => []FinishMeansStored
<1>1. Data => FinishMeansStored
  <2> SUFFICES ASSUME Data, finished, ~errorSeen PROVE stored = 1 .. accepted
    BY DEF FinishMeansStored
  <2>1. 1 .. accepted \subseteq acked \cup {0} /\ 0 \notin 1 .. accepted
    BY DEF Data, Accounted, TypeOK, WriteTypeOK
  <2>2. acked \subseteq stored /\ stored \subseteq 1 .. accepted
    BY DEF Data, Accounted, Kept, AckedStored
  <2>3. QED
    BY <2>1, <2>2
<1>2. QED
  BY <1>1, DataHolds, PTL

(* When the output stream takes a chunk it has all those before it: the    *)
(* chunk is the one being written, nothing has failed yet, and what was    *)
(* written earlier is acknowledged.                                        *)
LEMMA Takes ==
  ASSUME Data, ~broken, NEW n \in Chunk, Written(n, "ok")
  PROVE  /\ n \in inside /\ ~poisoned /\ file = "open" /\ Tried
         /\ n = writing /\ n <= accepted /\ opened
         /\ ~errorSeen => 1 .. n - 1 \subseteq stored
<1>1. n \in inside /\ ~poisoned /\ n = writing /\ opened
  BY DEF Written, FinishData, Pool!Finish, Data, Serial, InFlight
<1>2. file = "open" /\ Tried /\ n <= accepted
  BY <1>1 DEF Data, Entered, Accounted
<1>3. ASSUME ~errorSeen, NEW m \in 1 .. n - 1 PROVE m \in stored
  <2>1. n \in Nat /\ accepted \in Nat
    BY NativeAssumption DEF Chunk, DataOp, Data, TypeOK, WriteTypeOK
  <2>2. m \in 1 .. accepted /\ m < n
    BY <1>2, <1>3, <2>1
  <2>3. m \notin buffered /\ m # writing
    BY <1>1, <1>3, <2>1, <2>2 DEF Data, Accounted
  <2>4. QED
    BY <1>3, <2>2, <2>3 DEF Data, Accounted, Kept, AckedStored
<1>4. QED
  BY <1>1, <1>2, <1>3

(* Only Written adds to the file.                                          *)
LEMMA Takers ==
  ASSUME [Next]_vars
  PROVE  \/ stored' = stored
         \/ ~broken /\ \E n \in Chunk : Written(n, "ok") /\ stored' = stored \cup {n}
<1>1. CASE PoolStep /\ ~broken
  BY <1>1 DEF PoolStep, Writing, Written, Closed, hdfs
<1>2. CASE ClientStep \/ LoopStep
  BY <1>2 DEF ClientStep, Write, End, Close, LoopStep, OnOpen, OnWritten, OnWriteError, hdfs
<1>3. CASE Collector \/ UNCHANGED vars
  BY <1>3 DEF Collector, Collect, vars, hdfs
<1>4. QED
  BY <1>1, <1>2, <1>3 DEF Next

(* The output stream takes the chunks in the order of the write() calls    *)
(* and without a hole, unless one was empty.                               *)
THEOREM InOrder == Spec => []StoredInOrder
<1>1. Init => StoredInOrder
  BY DEF Init, StoredInOrder
<1>2. Data /\ StoredInOrder /\ [Next]_vars => StoredInOrder'
  <2> SUFFICES ASSUME Data, StoredInOrder, [Next]_vars, empties' = {}, NEW s \in stored'
               PROVE  1 .. s \subseteq stored'
    BY DEF StoredInOrder
  <2>1. empties = {}
    <3>1. empties \subseteq empties'
      BY DEF Next, ClientStep, LoopStep, PoolStep, Collector, Write, End, Close, OnOpen, OnWritten,
             OnWriteError, Writing, Written, Closed, Collect, vars, js, writable
    <3>2. QED
      BY <3>1
  <2>2. CASE stored' = stored
    BY <2>1, <2>2 DEF StoredInOrder
  <2>3. ASSUME NEW n \in Chunk, ~broken, Written(n, "ok"), stored' = stored \cup {n}
        PROVE  1 .. s \subseteq stored'
    <3>1. ~errorSeen /\ n \in Nat
      BY <2>1, <2>3, Takes, NativeAssumption DEF Data, Fails, Spent, Chunk, DataOp
    <3>2. \A m : m \in 1 .. n <=> m \in 1 .. n - 1 \/ (m = n /\ n > 0)
      BY <3>1
    <3>3. 1 .. n - 1 \subseteq stored
      BY <2>3, <3>1, Takes
    <3>4. CASE s \in stored
      BY <2>1, <2>3, <3>4 DEF StoredInOrder
    <3>5. CASE s = n
      BY <2>3, <3>2, <3>3, <3>5
    <3>6. QED
      BY <2>3, <3>4, <3>5
  <2>4. QED
    BY <2>2, <2>3, Takers
<1>3. QED
  BY <1>1, <1>2, DataHolds, PTL DEF Spec
===============================================================================
