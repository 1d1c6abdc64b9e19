------------------------------- MODULE ReadStream -------------------------------
(***************************************************************************)
(* HReadStream (lib/nhdfs.js) on top of Node's Readable, with the          *)
(* FileReader (filereader.cc) it drives through pool workers.              *)
(*                                                                         *)
(* The file is blocks 1 .. size; one Read worker returns the next of them, *)
(* or 0 bytes at the end of the file.  The k-th Read is worker k.  A       *)
(* patient client closes at 'end', as the tests do, or not at all.  The    *)
(* bad habits of others are                                                *)
(*   "earlyClose"  close() or destroy() before 'end'                       *)
(*   "drop"        forgetting a stream that has not ended or failed        *)
(*   "dropFs"      forgetting the FileSystem before 'open'                 *)
(***************************************************************************)
EXTENDS HStream, Sequences

CONSTANTS Blocks,    \* bound: blocks in the file
          HighWater  \* blocks the Readable buffers before it stops asking

AllHabits == {"earlyClose", "drop", "dropFs"}

ASSUME ReadAssumption == HighWater \in Nat \ {0} /\ Blocks \in Nat /\ Ops = Blocks + 1

VARIABLES patient,    \* the client has shown no bad habit so far
          wanted,     \* the client has asked for data
          reading,    \* the Readable waits for the answer to a _read
          parked,     \* that _read waits for 'open'
          issued,     \* Read workers made
          queue,      \* blocks pushed and not yet consumed
          received,   \* blocks the client got in 'data' events
          ended, endSeen,  \* null was pushed, 'end' emitted
          size,       \* the length of the file
          offset,     \* the position of the input stream
          block       \* what each Read worker has put in its buffer

readable == <<wanted, reading, parked, issued, queue, received, ended, endSeen>>
hdfs == <<size, offset, block>>
vars == <<native, stream, patient, readable, hdfs>>

ReadTypeOK ==
  /\ StreamTypeOK
  /\ {patient, wanted, reading, parked, ended, endSeen} \subseteq BOOLEAN
  /\ issued \in 0 .. Ops
  /\ {queue, received} \subseteq Seq(1 .. Blocks)
  /\ Len(queue) <= HighWater
  /\ size \in 0 .. Blocks /\ offset \in 0 .. size
  /\ block \in [DataOp -> 0 .. Blocks]

Init == /\ StreamInit
        /\ patient = TRUE /\ wanted = FALSE /\ reading = FALSE /\ parked = FALSE /\ issued = 0
        /\ queue = <<>> /\ received = <<>> /\ ended = FALSE /\ endSeen = FALSE
        /\ size \in 0 .. Blocks /\ offset = 0 /\ block = [k \in DataOp |-> 0]

-------------------------------------------------------------------------------
(* The turns of the JavaScript thread.                                     *)

(* The client attaches a 'data' listener, pipes, or calls read().          *)
Want == /\ ~wanted /\ ~dropped /\ wanted' = TRUE
        /\ UNCHANGED <<native, stream, reading, parked, issued, queue, received, ended, endSeen,
                       hdfs>>

Close == /\ endSeen \/ Client("earlyClose")
         /\ patient' = (patient /\ endSeen)
         /\ \E destroy \in BOOLEAN : ClientClose(destroy)
         /\ UNCHANGED <<readable, hdfs>>

(* The Readable asks for more as long as its buffer is not full ...        *)
Hungry == wanted /\ ~reading /\ ~ended /\ Len(queue) < HighWater

(* ... and _read of a stream that is not closed makes a Read worker, or    *)
(* waits for 'open'.                                                       *)
ReadCalls_Unopened == IF ~closed THEN {issued + 1} ELSE {}
ReadCalls_Closed == IF opened THEN {issued + 1} ELSE {}

ReadCalls == IF ~closed /\ opened THEN {issued + 1} ELSE {}

CallRead ==
  /\ Hungry
  /\ reading' = TRUE
  /\ parked' = (~closed /\ ~opened)
  /\ issued' = issued + Cardinality(ReadCalls)
  /\ CloseTurn(0, {}, ReadCalls)
  /\ UNCHANGED <<opened, destroyed, events, wanted, queue, received, ended, endSeen, hdfs>>

(* The Open worker calls back; 'open' runs the _read that waits for it.    *)
Woken_Never == {}

Woken == IF parked /\ ~closed THEN {issued + 1} ELSE {}

OnOpen ==
  /\ \/ /\ Callback(OpenOp, "ok")
        /\ opened' = TRUE /\ parked' = FALSE
        /\ issued' = issued + Cardinality(Woken)
        /\ CloseTurn(0, {OpenOp}, Woken)
        /\ UNCHANGED errorSeen
     \/ /\ Callback(OpenOp, "err")
        /\ errorSeen' = TRUE
        /\ CloseTurn(0, {OpenOp}, {})
        /\ UNCHANGED <<opened, parked, issued>>
  /\ UNCHANGED <<destroyed, closeSeen, dropped, wanted, reading, queue, received, ended, endSeen,
                 hdfs>>

(* A Read worker calls back: data is pushed, 0 bytes push null, and an     *)
(* error destroys the stream.                                              *)
Pushed_InFront(k) == <<block[k]>> \o queue

Pushed(k) == Append(queue, block[k])

OnRead(k) ==
  /\ \/ Callback(k, "ok") /\ queue' = Pushed(k) /\ UNCHANGED ended
     \/ Callback(k, "eof") /\ ended' = TRUE /\ UNCHANGED queue
  /\ reading' = FALSE
  /\ CloseTurn(0, {k}, {})
  /\ UNCHANGED <<opened, destroyed, events, wanted, parked, issued, received, endSeen, hdfs>>

OnReadError(k) ==
  /\ Callback(k, "err")
  /\ errorSeen' = TRUE /\ destroyed' = TRUE
  /\ CloseTurn(DestroyCalls, {k}, {})
  /\ UNCHANGED <<opened, closeSeen, dropped, readable, hdfs>>

(* The client takes the next 'data' event ...                              *)
Consume ==
  /\ wanted /\ queue # <<>>
  /\ received' = Append(received, Head(queue))
  /\ queue' = Tail(queue)
  /\ UNCHANGED <<native, stream, wanted, reading, parked, issued, ended, endSeen, hdfs>>

(* ... and after the last one 'end' is emitted, on which the stream        *)
(* destroys itself.                                                        *)
EmitEnd ==
  /\ wanted /\ ended /\ queue = <<>> /\ ~endSeen
  /\ endSeen' = TRUE /\ destroyed' = TRUE
  /\ CloseTurn(DestroyCalls, {}, {})
  /\ UNCHANGED <<opened, events, wanted, reading, parked, issued, queue, received, ended, hdfs>>

-------------------------------------------------------------------------------
(* The steps of the pool's threads.                                        *)

(* hdfsRead returns the next block, 0 at the end of the file, or fails.    *)
Read(k, r) ==
  /\ FinishData(k, r)
  /\ r = "ok" => offset < size
  /\ r = "eof" => offset = size
  /\ offset' = IF r = "ok" THEN offset + 1 ELSE offset
  /\ block' = IF r = "ok" THEN [block EXCEPT ![k] = offset + 1] ELSE block
  /\ UNCHANGED <<stream, readable, size>>

(* The collector closes the file of a stream the client let go of.         *)
Collect ==
  /\ Client("drop") \/ endSeen \/ errorSeen
  /\ ~Hungry
  /\ patient' = (patient /\ (endSeen \/ errorSeen))
  /\ Collected
  /\ UNCHANGED <<readable, hdfs>>

Disconnected == /\ DropFs
                /\ patient' = (patient /\ stage[OpenOp] = "delivered")
                /\ UNCHANGED <<readable, hdfs>>

LoopStep   == /\ \/ CallRead \/ OnOpen \/ EmitEnd
                 \/ \E k \in DataOp : OnRead(k) \/ OnReadError(k)
                 \/ (OnClosed \/ Tick) /\ UNCHANGED <<readable, hdfs>>
              /\ UNCHANGED patient
PoolStep   == \/ /\ \/ StartOpen \/ Enter(CloseOp, TRUE) \/ \E k \in DataOp : Enter(k, TRUE)
                    \/ \E r \in {"ok", "err"} : FinishOpen(r) \/ FinishClose(r)
                 /\ UNCHANGED <<stream, patient, readable, hdfs>>
              \/ \E k \in DataOp, r \in {"ok", "eof", "err"} : Read(k, r) /\ UNCHANGED patient
Takes      == Consume /\ UNCHANGED patient

Next == ~broken /\ ((Want /\ UNCHANGED patient) \/ Takes \/ Close \/ LoopStep \/ PoolStep \/ Collect
                    \/ Disconnected)

(* The event loop and the pool run on, and a client that has asked for     *)
(* data goes on taking it.                                                 *)
Fairness == /\ WF_vars(~broken /\ LoopStep)
            /\ WF_vars(~broken /\ PoolStep)
            /\ WF_vars(~broken /\ Takes)

Spec == Init /\ [][Next]_vars /\ Fairness

-------------------------------------------------------------------------------
(* Properties of every client.                                             *)

(* The variables range over their types.                                   *)
TypeOK == ReadTypeOK

(* The client gets the blocks of the file in order and without a hole,     *)
(* whatever it calls and whenever.                                         *)
ReceivedInOrder == LET got == received \o queue
                   IN  \A i \in 1 .. Len(got) : got[i] = i

(* 'end' is emitted only when the whole file was received: a stream closed *)
(* under the reader ends in an error, never in a short file.               *)
EndMeansAll == endSeen => Len(received) = size

(* No Read worker is made for a stream that is closed, by _read or by the  *)
(* one that waited for 'open'.                                             *)
NoReadAfterClose ==
  [][\A k \in DataOp : closed /\ stage[k] = "idle" => stage'[k] = "idle"]_vars

-------------------------------------------------------------------------------
(* Properties of a client that has been patient.                           *)

(* No worker follows a `file' that is uninitialised or freed, and no two   *)
(* of them are inside the input stream, although nothing locks it.         *)
NoUndefinedBehaviour == patient => ~broken

(* A client that takes what it gets comes to 'end' or 'error', and then    *)
(* the file does not stay open.                                            *)
ReadEnds == wanted ~> (~patient \/ ((endSeen \/ errorSeen) /\ file # "open"))
===============================================================================
