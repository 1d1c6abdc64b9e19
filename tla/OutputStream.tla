----------------------------- MODULE OutputStream -----------------------------
(***************************************************************************)
(* OutputStreamImpl (OutputStreamImpl.cpp): a file opened for writing and  *)
(* the one thread at a time that uses it.  Data is collected in checksum   *)
(* chunks, chunks in packets, and packets go to a pipeline per block.      *)
(*                                                                         *)
(* An append() of one unit stands for all: a longer one is as many of them *)
(* without a return in between.                                            *)
(***************************************************************************)
EXTENDS Pipeline

CONSTANTS Chunk,       \* units in a checksum chunk,
          PacketSize,  \* in a full packet
          BlockSize,   \* and in a block
          Limit,       \* bound: units appended
          FlushAt,     \* bound: units after which the client flushes or syncs,
          MaxSeq       \* bound: and with fewer packets made

ASSUME OutputAssumption ==
  /\ {Chunk, PacketSize, BlockSize} \subseteq Nat \ {0}
  /\ PacketSize % Chunk = 0 /\ BlockSize % Chunk = 0
  /\ Limit \in Nat /\ FlushAt \subseteq Nat /\ MaxSeq \in Nat

VARIABLES phase,        \* "new", "open", "closed", or "failed" to open
          call,         \* the method the client is in, or "none"
          passed,       \* units the client has passed to append()
          cursor,       \* of those the ones whose append() succeeded
          position,     \* units in the chunk being filled
          written,      \* bytesWritten: units of the block in whole chunks
          lastFlushed,
          seqno,        \* nextSeqNo
          lastError,
          told          \* a method has thrown an exception

local == <<phase, call, passed, cursor, position, written, lastFlushed, seqno, lastError, told>>
vars  == <<cluster, pipeline, local>>

Methods == {"append", "flush", "sync", "close"}

OutputTypeOK ==
  /\ PipelineTypeOK
  /\ phase \in {"new", "open", "closed", "failed"}
  /\ call \in Methods \cup {"none"}
  /\ passed \in 0 .. Limit /\ cursor \in 0 .. passed
  /\ position \in 0 .. Chunk - 1 /\ written \in 0 .. BlockSize
  /\ lastFlushed \in 0 .. cursor
  /\ seqno \in Nat
  /\ {lastError, told} \subseteq BOOLEAN

Init == /\ ClusterInit /\ PipelineInit
        /\ phase = "new" /\ call = "none"
        /\ passed = 0 /\ cursor = 0 /\ position = 0 /\ written = 0
        /\ lastFlushed = 0 /\ seqno = 0
        /\ lastError = FALSE /\ told = FALSE

-------------------------------------------------------------------------------
(* open: create(), then getFileStatus(), of which either may fail, the     *)
(* first with the file created or not.                                     *)
Open ==
  /\ phase = "new"
  /\ \/ /\ file' = "construction" /\ phase' = "open"
        /\ UNCHANGED <<told, faults>>
     \/ /\ Fault
        /\ file' \in {"none", "construction"} /\ phase' = "failed" /\ told' = TRUE
  /\ UNCHANGED <<pipeline, up, replica, stamp, issued, length, call, passed, cursor, position,
                 written, lastFlushed, seqno, lastError>>

Ready == phase = "open" /\ call = "none"

(* sendPacket, which sets up a pipeline if there is none.                  *)
SendSteps == (IF link = "none" THEN <<"alloc">> ELSE <<>>) \o <<"push", "spill", "write", "poll">>

(* closePipeline.                                                          *)
CloseSteps_NoFlush == <<"last", "push", "spill", "write", "poll", "flush", "fsync">>

CloseSteps == <<"flush", "last", "push", "spill", "write", "poll", "flush", "fsync">>

(* appendChunkToPacket for a chunk of n units.                             *)
NewPacket(last) == [seq |-> seqno, start |-> written, end |-> written, last |-> last]

Filled(n) == LET p == IF held = None THEN NewPacket(FALSE) ELSE held
             IN  [p EXCEPT !.end = @ + n]

Hold(p) == held' = p /\ seqno' = IF held = None /\ p # None THEN seqno + 1 ELSE seqno

IsFull(p) == p.end - p.start = PacketSize

(* append: the unit may fill its chunk, the chunk its packet or its block. *)
Append1 ==
  LET whole == position + 1 = Chunk IN
  /\ Ready /\ ~lastError /\ passed < Limit
  /\ call' = "append" /\ passed' = passed + 1
  /\ position' = (position + 1) % Chunk
  /\ written' = IF whole THEN written + Chunk ELSE written
  /\ Hold(IF whole THEN Filled(Chunk) ELSE held)
  /\ todo' = IF held' # None /\ (IsFull(held') \/ written' = BlockSize)
             THEN SendSteps \o (IF written' = BlockSize THEN CloseSteps ELSE <<>>)
             ELSE <<>>
  /\ UNCHANGED <<cluster, setup, packets, acked, sent, conn, phase, cursor, lastFlushed,
                 lastError, told>>

(* flushInternal: what there is to send, then waitForAcks(true).           *)
FlushSteps_NoWait(p) == IF p # None THEN SendSteps ELSE <<>>

FlushSteps(p) == (IF p # None THEN SendSteps ELSE <<>>)
                 \o (IF p # None \/ link # "none" THEN <<"flush">> ELSE <<>>)

(* flush and sync: a chunk begun is sent as it is, and stays in the buffer *)
(* to be sent again when it is full.  sync sends a packet in any case.     *)
Flushing(sync) ==
  LET part == IF position > 0 THEN Filled(position)
              ELSE IF held = None /\ sync /\ link # "none" THEN NewPacket(FALSE)
              ELSE held
  IN
  /\ Ready /\ ~lastError /\ cursor \in FlushAt /\ seqno < MaxSeq
  /\ call' = IF sync THEN "sync" ELSE "flush"
  /\ IF lastFlushed = cursor /\ ~sync
     THEN UNCHANGED <<lastFlushed, held, seqno, todo>>
     ELSE /\ lastFlushed' = cursor
          /\ Hold(part)
          /\ todo' = FlushSteps(part)
  /\ UNCHANGED <<cluster, setup, packets, acked, sent, conn, phase, passed, cursor, position,
                 written, lastError, told>>

(* close: a stream with an error is not written to, and not completed.     *)
Broken_Never == FALSE

Broken == lastError

Close ==
  LET unsent == lastFlushed # cursor
      part   == IF unsent /\ position > 0 THEN Filled(position) ELSE held
      send   == unsent /\ part # None
  IN
  /\ Ready
  /\ call' = "close"
  /\ IF Broken THEN UNCHANGED <<held, seqno, todo>>
     ELSE /\ Hold(part)
          /\ todo' = (IF send THEN SendSteps ELSE <<>>)
                     \o (IF send \/ link # "none" THEN CloseSteps ELSE <<>>)
                     \o <<"complete">>
  /\ UNCHANGED <<cluster, setup, packets, acked, sent, conn, phase, passed, cursor, position,
                 written, lastFlushed, lastError, told>>

(* PipelineImpl::close has an empty packet sent as the block's last.       *)
MarkLast ==
  /\ Thread("last")
  /\ Hold(NewPacket(TRUE))
  /\ closing' = TRUE
  /\ todo' = Tail(todo)
  /\ UNCHANGED <<cluster, link, nodes, excluded, retry, packets, acked, sent, conn,
                 phase, call, passed, cursor, position, written, lastFlushed, lastError, told>>

(* The pipeline is done; its block stays the file's last.                  *)
Fsync ==
  /\ Thread("fsync")
  /\ link' = "none" /\ nodes' = <<>> /\ closing' = FALSE
  /\ Fresh(<<>>)
  /\ \/ written' = 0 /\ todo' = Tail(todo) /\ UNCHANGED faults
     \/ Fault /\ Throw /\ UNCHANGED written
  /\ UNCHANGED <<excluded, retry, queue, up, replica, stamp, issued, length, file, phase, call,
                 passed, cursor, position, lastFlushed, seqno, lastError, told>>

(* completeFile asks until the namenode agrees, an error or its timeout.   *)
Complete ==
  /\ Thread("complete")
  /\ \/ Reported(acked) /\ file' = "complete" /\ todo' = Tail(todo) /\ UNCHANGED faults
     \/ ~Reported(acked) /\ Throw /\ UNCHANGED <<file, faults>>
     \/ Fault /\ Throw /\ file' \in {file} \cup (IF Reported(acked) THEN {"complete"} ELSE {})
  /\ UNCHANGED <<setup, queue, conn, up, replica, stamp, issued, length, local>>

(* An exception reaches the method: append, flush and sync keep it as      *)
(* lastError, close resets the stream and throws it on.                    *)
Thrown_CloseSilent == told \/ call # "close"

Thrown == TRUE

Rethrow ==
  /\ Thread("throw")
  /\ todo' = <<>> /\ call' = "none"
  /\ told' = Thrown
  /\ phase' = IF call = "close" THEN "closed" ELSE phase
  /\ lastError' = (lastError \/ call # "close")
  /\ UNCHANGED <<cluster, setup, queue, conn, passed, cursor, position, written, lastFlushed,
                 seqno>>

Return ==
  /\ call # "none" /\ todo = <<>>
  /\ call' = "none"
  /\ cursor' = IF call = "append" THEN cursor + 1 ELSE cursor
  /\ phase' = IF call = "close" THEN "closed" ELSE phase
  /\ UNCHANGED <<cluster, pipeline, passed, position, written, lastFlushed, seqno, lastError, told>>

ClientStep == Open \/ Append1 \/ (\E sync \in BOOLEAN : Flushing(sync)) \/ Close

(* What the thread does inside a method.                                   *)
CallStep == (PipelineStep /\ UNCHANGED local) \/ MarkLast \/ Fsync \/ Complete \/ Rethrow \/ Return

Delivery == (\E i \in DOMAIN nodes : Receive(i)) /\ UNCHANGED local

Crashes == (\E d \in Datanode : Crash(d)) /\ UNCHANGED <<pipeline, local>>

Next == ClientStep \/ CallStep \/ Delivery \/ Crashes

(* The thread goes on, and a datanode that lives receives what it is sent. *)
Fairness == WF_vars(CallStep) /\ WF_vars(Delivery)

Spec == Init /\ [][Next]_vars /\ Fairness

-------------------------------------------------------------------------------
(* The variables range over their types.                                   *)
TypeOK == OutputTypeOK

(* Of the file the datanodes hold at least what was acknowledged: a        *)
(* replica the namenode still counts is not missing any of it, whichever   *)
(* nodes were dropped, added or brought to a new stamp meanwhile.          *)
AckedOnCounted == \A d \in up : replica[d].stamp = stamp /\ stamp > 0 => replica[d].len >= acked

(* The next packet a datanode is to receive leaves no hole in its replica. *)
NoHole == \A i \in DOMAIN nodes :
            nodes[i] \in up /\ got[i] < Len(wire) => wire[got[i] + 1].start <= replica[nodes[i]].len

(* In a recovery the datanodes of the chain have between bytesAcked and    *)
(* bytesSent, the bounds they are told to accept.                          *)
WithinBounds == link \in {"connect", "update"} =>
                  \A d \in Chain \cap up : replica[d].len \in acked .. sent

(* processAck: assert(!packets.empty()).                                   *)
AckIsAwaited == (Waits \/ (Thread("poll") /\ link = "up")) /\ Readable => packets # <<>>

(* send and waitForAcks, after a recovery of a pipeline that is being      *)
(* closed: assert(packets.size() == 1 && packets[0]->isLastPacketInBlock())*)
OnlyLastIsLeft == link = "update" /\ closing => Len(packets) = 1 /\ packets[1].last

(* What the two assertions say, whenever they are reached.                 *)
AssertionsHold == AckIsAwaited /\ OnlyLastIsLeft

(* Remove bad datanode from list of datanodes: none is removed that        *)
(* nothing has happened to, nor to the others.                             *)
OnlyBadDropped == [][link = "up" /\ link' # "none" /\ Len(nodes') < Len(nodes)
                       => Dead # {} \/ faults' # faults]_vars

(* A flush() or sync() that succeeded, or found nothing to do, means that  *)
(* everything appended before it is stored.                                *)
FlushMeansStored == Ready /\ ~lastError => length + acked >= lastFlushed

(* A file that stays under construction when its stream has gone was       *)
(* given up with an exception.                                             *)
NoSilentOrphan == phase \in {"closed", "failed"} /\ file # "complete" => told

(* A method returns, whatever becomes of the datanodes.                    *)
CallReturns == call # "none" ~> call = "none"

(* The stream is an Upload of units.                                       *)
UploadPhase == IF file = "complete" THEN "complete"
               ELSE IF phase = "new" THEN "new"
               ELSE IF phase = "open" /\ ~lastError THEN "open" ELSE "abandoned"

Promise == INSTANCE Upload WITH asked <- passed, sealed <- (call = "close" \/ phase = "closed"),
                                content <- 1 .. length + acked, phase <- UploadPhase

KeepsPromise == Promise!USpec
===============================================================================
