------------------------------ MODULE WriteStream ------------------------------
(***************************************************************************)
(* HWriteStream (lib/nhdfs.js) on top of Node's Writable, the FileWriter   *)
(* (filewriter.cc) it drives through pool workers, and as much of          *)
(* libhdfs3's output stream as the client can observe: a failed append     *)
(* poisons the stream, and closing it completes the file unless it is      *)
(* poisoned.                                                               *)
(*                                                                         *)
(* Chunk n is the n-th chunk the client passes to write(), and its Write   *)
(* worker is n.  The bad habits of a client are                            *)
(*   "emptyEnd"        end() with nothing written, before 'open'           *)
(*   "earlyClose"      close() or destroy() at any time                    *)
(*   "emptyChunk"      write() of a chunk of length 0                      *)
(*   "writeAfterError" write() after an 'error'                            *)
(*   "drop"            forgetting a stream that has not ended or failed    *)
(*   "dropFs"          forgetting the FileSystem before 'open'             *)
(***************************************************************************)
EXTENDS HStream

AllHabits == {"emptyEnd", "earlyClose", "emptyChunk", "writeAfterError", "drop", "dropFs"}

VARIABLES ending, finished,  \* the Writable: end() was called, 'finish' emitted
          accepted,  \* chunks passed to write()
          empties,   \* those of length 0
          writing,   \* the chunk whose _write has not called back, 0 if none
          buffered,  \* chunks that wait in the Writable for it
          acked,     \* chunks whose callback reported success
          stored,    \* chunks the output stream has taken
          poisoned,  \* its lastError is set
          complete   \* the namenode has completed the file

writable == <<ending, finished, accepted, empties, writing, buffered, acked>>
js == <<stream, writable>>
hdfs == <<stored, poisoned, complete>>
vars == <<native, js, hdfs>>

Chunk == DataOp

WriteTypeOK ==
  /\ StreamTypeOK
  /\ {ending, finished, poisoned, complete} \subseteq BOOLEAN
  /\ accepted \in 0 .. Ops
  /\ writing \in 0 .. Ops
  /\ {empties, buffered, acked, stored} \subseteq SUBSET Chunk

Init == /\ StreamInit
        /\ ending = FALSE /\ finished = FALSE
        /\ accepted = 0 /\ writing = 0
        /\ empties = {} /\ buffered = {} /\ acked = {}
        /\ stored = {} /\ poisoned = FALSE /\ complete = FALSE

-------------------------------------------------------------------------------
(* The turns of the JavaScript thread.                                     *)

(* The Writable emits 'finish' once end() was called and no chunk is left; *)
(* the stream's listener for it calls close().                             *)
Finishes(end, busy, waiting) == end /\ ~busy /\ waiting = {} /\ ~finished

(* The Writable passes one chunk at a time to _write, which calls back     *)
(* when the worker has called back ...                                     *)
Busy_Never == FALSE

Busy == writing # 0

(* ... and of the others the one that has waited longest comes next.       *)
Oldest(n) == n \in buffered /\ \A m \in buffered : n <= m

(* A _write that finds the stream open queues a Write worker ...           *)
Queued_Unopened(n) == {n}

Queued(n) == IF opened THEN {n} ELSE {}

(* ... and one that does not waits for 'open'.                             *)
Parked == writing # 0 /\ stage[writing] = "idle"

(* write(chunk): passed to _write unless the Writable waits for another.   *)
Write(empty) ==
  LET n == accepted + 1 IN
  /\ ~ending /\ ~dropped /\ accepted < Ops
  /\ errorSeen => Client("writeAfterError")
  /\ empty => Client("emptyChunk")
  /\ accepted' = n
  /\ empties' = IF empty THEN empties \cup {n} ELSE empties
  /\ IF Busy
     THEN buffered' = buffered \cup {n} /\ UNCHANGED writing
     ELSE writing' = n /\ UNCHANGED buffered
  /\ CloseTurn(0, {}, IF Busy THEN {} ELSE Queued(n))
  /\ UNCHANGED <<opened, destroyed, events, ending, finished, acked, hdfs>>

(* end()                                                                   *)
End ==
  LET finish == Finishes(TRUE, Busy, buffered) IN
  /\ ~ending /\ ~dropped
  /\ (~opened /\ accepted = 0) => Client("emptyEnd")
  /\ ending' = TRUE
  /\ finished' = (finished \/ finish)
  /\ CloseTurn(IF finish THEN 1 ELSE 0, {}, {})
  /\ UNCHANGED <<opened, destroyed, events, accepted, empties, writing, buffered, acked, hdfs>>

Close == /\ Client("earlyClose")
         /\ \E destroy \in BOOLEAN : ClientClose(destroy)
         /\ UNCHANGED <<writable, hdfs>>

(* The Open worker calls back; 'open' wakes a parked _write.               *)
OnOpen ==
  /\ \/ /\ Callback(OpenOp, "ok")
        /\ opened' = TRUE /\ UNCHANGED errorSeen
        /\ CloseTurn(0, {OpenOp}, IF Parked THEN {writing} ELSE {})
     \/ /\ Callback(OpenOp, "err")
        /\ errorSeen' = TRUE /\ UNCHANGED opened
        /\ CloseTurn(0, {OpenOp}, {})
  /\ UNCHANGED <<destroyed, closeSeen, dropped, writable, hdfs>>

(* A Write worker calls back without an error: the Writable passes on its  *)
(* next chunk, or finishes if there is none.                               *)
OnWritten(n) ==
  /\ Callback(n, "ok")
  /\ acked' = acked \cup {n}
  /\ \/ \E next \in Chunk :
          /\ Oldest(next)
          /\ writing' = next
          /\ buffered' = buffered \ {next}
          /\ CloseTurn(0, {n}, {next})
          /\ UNCHANGED finished
     \/ LET finish == Finishes(ending, FALSE, buffered) IN
          /\ buffered = {}
          /\ writing' = 0
          /\ finished' = (finished \/ finish)
          /\ CloseTurn(IF finish THEN 1 ELSE 0, {n}, {})
          /\ UNCHANGED buffered
  /\ UNCHANGED <<opened, destroyed, events, ending, accepted, empties, hdfs>>

(* ... with one: the stream is destroyed, 'error' emitted, and a Writable  *)
(* that has nothing left still emits 'finish'.  Buffered chunks stay.      *)
OnWriteError(n) ==
  LET finish == Finishes(ending, FALSE, buffered)
      calls  == DestroyCalls + (IF finish THEN 1 ELSE 0)
  IN
  /\ Callback(n, "err")
  /\ destroyed' = TRUE /\ errorSeen' = TRUE
  /\ writing' = 0
  /\ finished' = (finished \/ finish)
  /\ CloseTurn(calls, {n}, {})
  /\ UNCHANGED <<opened, closeSeen, dropped, ending, accepted, empties, buffered, acked, hdfs>>

-------------------------------------------------------------------------------
(* The steps of the pool's threads.                                        *)

Writing(n) == Enter(n, n \notin empties) /\ UNCHANGED <<js, hdfs>>

(* An append that fails inside the output stream poisons it.               *)
Poisons_Never(n, r) == FALSE

Poisons(n, r) == n \in inside /\ r = "err"

Written(n, r) ==
  /\ FinishData(n, r)
  /\ poisoned => r = "err"
  /\ stored' = IF r = "ok" THEN stored \cup {n} ELSE stored
  /\ poisoned' = (poisoned \/ Poisons(n, r))
  /\ UNCHANGED <<js, complete>>

(* A poisoned stream skips completing the file, and reports success.       *)
Completes_Poisoned(used, r) == used /\ r = "ok"

Completes(used, r) == used /\ ~poisoned /\ r = "ok"

Closed(r) ==
  /\ FinishClose(r)
  /\ poisoned => r = "ok"
  /\ complete' = (complete \/ Completes(CloseOp \in inside, r))
  /\ UNCHANGED <<js, stored, poisoned>>

(* The collector closes the file of a stream the client let go of: it is   *)
(* completed as it stands, and an error goes unreported.                   *)
Collect(r) ==
  /\ Client("drop") \/ ending \/ errorSeen
  /\ Collected
  /\ complete' = (complete \/ Completes(file = "open", r))
  /\ UNCHANGED <<writable, stored, poisoned>>

ClientStep == (\E empty \in BOOLEAN : Write(empty)) \/ End \/ Close
LoopStep   == \/ OnOpen
              \/ \E n \in Chunk : OnWritten(n) \/ OnWriteError(n)
              \/ (OnClosed \/ Tick) /\ UNCHANGED <<writable, hdfs>>
PoolStep   == \/ /\ StartOpen \/ (\E r \in {"ok", "err"} : FinishOpen(r)) \/ Enter(CloseOp, TRUE)
                 /\ UNCHANGED <<js, hdfs>>
              \/ \E n \in Chunk : Writing(n) \/ \E r \in {"ok", "err"} : Written(n, r)
              \/ \E r \in {"ok", "err"} : Closed(r)
Collector  == (\E r \in {"ok", "err"} : Collect(r)) \/ (DropFs /\ UNCHANGED <<writable, hdfs>>)

Next == ~broken /\ (ClientStep \/ LoopStep \/ PoolStep \/ Collector)

(* The event loop and the pool run on; the client may stop at any time and *)
(* the collector need never run.                                           *)
Fairness == WF_vars(~broken /\ LoopStep) /\ WF_vars(~broken /\ PoolStep)

Spec == Init /\ [][Next]_vars /\ Fairness

-------------------------------------------------------------------------------
(* Properties of every client.                                             *)

(* The variables range over their types.                                   *)
TypeOK == WriteTypeOK

(* Two Write workers are never in flight together, whatever the order in   *)
(* which open, writes, errors and closes call back: the Writable's promise *)
(* that _write is serialised survives the detour through 'open'.           *)
OneWriteInFlight == \A m, n \in Chunk : InFlight(m) /\ InFlight(n) => m = n

(* A chunk's callback reports success only for data the output stream took.*)
AckedStored == acked \subseteq stored

(* 'finish' without an 'error' before it: every chunk written was taken.   *)
FinishMeansStored == finished /\ ~errorSeen => stored = 1 .. accepted

(* The output stream takes the chunks in the order of the write() calls    *)
(* and without a hole, close() and errors notwithstanding, unless there    *)
(* was an empty chunk: that is refused, and a later write() goes past the  *)
(* chunks behind it.                                                       *)
StoredInOrder == empties = {} => \A n \in stored : 1 .. n \subseteq stored

(* close() and destroy() always end in a 'close' or an 'error' event.      *)
CloseSettles == closed ~> (closeSeen \/ errorSeen \/ broken)

-------------------------------------------------------------------------------
(* Properties of a client that has at most the habits "emptyChunk" and     *)
(* "drop".  Of the file something is promised only as long as it has shown *)
(* neither.                                                                *)
Forgotten == dropped /\ ~ending /\ ~errorSeen
Careful   == empties = {} /\ ~Forgotten

(* No worker follows a `file' that is uninitialised or freed, and no two   *)
(* of them are inside the output stream, although nothing locks it.        *)
NoUndefinedBehaviour == ~broken

(* The namenode completes a file only after end() and with every chunk.    *)
CompleteMeansWhole == complete /\ Careful => ending /\ stored = 1 .. accepted

(* 'close' without an 'error': the file is complete.                       *)
CloseMeansComplete == closeSeen /\ ~errorSeen => complete

(* end() is answered by a 'close' or an 'error'.                           *)
EndSettles == ending ~> (closeSeen \/ errorSeen)

(* An open file is closed once its stream has ended or failed, so that its *)
(* lease does not outlive it.                                              *)
FileReleased == (file = "open" /\ (ending \/ errorSeen)) ~> file = "freed"

(* The stream is an Upload, which a client that is not careful gives up:   *)
(* an empty chunk is not asked for.                                        *)
Asked == IF empties = {} THEN accepted ELSE (CHOOSE n \in empties : \A m \in empties : n <= m) - 1

Phase == IF ~Careful THEN "abandoned"
         ELSE IF complete THEN "complete"
         ELSE IF file = "open" THEN "open"
         ELSE IF file = "freed" \/ result[OpenOp] = "err" THEN "abandoned" ELSE "new"

Promise == INSTANCE Upload WITH Limit <- Ops, asked <- Asked, sealed <- ending,
                                content <- stored, phase <- Phase

KeepsPromise == Promise!USpec
===============================================================================
