------------------------------- MODULE Pipeline -------------------------------
(***************************************************************************)
(* PipelineImpl (Pipeline.cpp): one block on its way to a chain of         *)
(* datanodes.  The thread that writes sends packets and reads acks; when   *)
(* that fails it drops the datanode it blames, brings the others to a new  *)
(* generation stamp, and sends again what was not acknowledged.            *)
(*                                                                         *)
(* A call is the list `todo' of the steps it has left:                     *)
(*   "alloc"  buildForNewBlock        "push", "spill", "write", "poll"     *)
(*   "flush"  waitForAcks(true)                     the parts of send      *)
(*   "last"   close marks its packet  "throw"  an exception on its way up  *)
(* and `link' says how far the connection is set up.  The datanode that    *)
(* errorIndex points to is dropped in the step that finds it.              *)
(***************************************************************************)
EXTENDS Cluster

CONSTANTS Replication,
          PoolSize,    \* output.packetpool.size
          WriteRetry,  \* output.write.retry
          CanAdd       \* output.replace-datanode-on-failure

ASSUME PipelineAssumption == /\ Replication \in Nat \ {0} /\ PoolSize \in Nat
                             /\ WriteRetry \in Nat \ {0} /\ CanAdd \in BOOLEAN

VARIABLES todo,
          link,      \* "none", "create", "abandon", "up", "extend", "connect", "update", "resend"
          nodes,     \* the chain of datanodes
          excluded,  \* datanodes this attempt has given up
          retry,     \* of the counters retry and retryAllocNewBlock the one in use
          closing,   \* the stage is PIPELINE_CLOSE
          held,      \* the packet being filled or sent, or None
          packets,   \* those sent and not acknowledged
          acked,     \* bytesAcked and
          sent,      \* bytesSent, in units of the block
          wire,      \* what was written to the connection, up to the last ack read
          got        \* how much of that each of the nodes has received

setup == <<link, nodes, excluded, retry, closing>>
queue == <<held, packets, acked, sent>>
conn  == <<wire, got>>
pipeline == <<todo, setup, queue, conn>>

None == [seq |-> 0, start |-> 0, end |-> 0, last |-> FALSE]
Packet == [seq : Nat, start : Nat, end : Nat, last : BOOLEAN]

PipelineTypeOK ==
  /\ ClusterTypeOK
  /\ todo \in Seq({"alloc", "push", "spill", "write", "poll", "flush", "last", "fsync",
                   "complete", "throw"})
  /\ link \in {"none", "create", "abandon", "up", "extend", "connect", "update", "resend"}
  /\ nodes \in Seq(Datanode) /\ excluded \subseteq Datanode
  /\ {retry, acked, sent} \subseteq Nat
  /\ closing \in BOOLEAN
  /\ held \in Packet
  /\ {packets, wire} \subseteq Seq(Packet)
  /\ got \in [DOMAIN nodes -> Nat]

PipelineInit == /\ todo = <<>> /\ link = "none"
                /\ nodes = <<>> /\ excluded = {} /\ retry = 0 /\ closing = FALSE
                /\ held = None /\ packets = <<>> /\ acked = 0 /\ sent = 0
                /\ wire = <<>> /\ got = <<>>

-------------------------------------------------------------------------------
Thread(step) == todo # <<>> /\ Head(todo) = step

Chain == ToSet(nodes)
Dead  == Chain \ up

MaxOf(a, b) == IF a > b THEN a ELSE b

Throw == todo' = <<"throw">>

(* Whom a failure is blamed on: a datanode that is down, the first one     *)
(* when any of them is, and after a fault of the network just anyone.      *)
Blames(i) == /\ i \in DOMAIN nodes
             /\ \/ nodes[i] \in Dead /\ UNCHANGED faults
                \/ i = 1 /\ Dead # {} /\ UNCHANGED faults
                \/ Fault

(* A fresh connection has nothing on it.                                   *)
Fresh_OldAcks(chain) == wire' = <<>> /\ UNCHANGED got

Fresh(chain) == wire' = <<>> /\ got' = [i \in DOMAIN chain |-> 0]

-------------------------------------------------------------------------------
(* buildForNewBlock.                                                       *)

(* locateNextBlock, and up to the check that there are nodes at all.       *)
Alloc ==
  /\ Thread("alloc") /\ link = "none"
  /\ \E offered \in Offers(Datanode \ excluded, Replication) :
     \/ /\ offered # <<>>
        /\ AddBlock(acked)
        /\ acked' = 0 /\ sent' = 0
        /\ link' = "create" /\ nodes' = offered /\ retry' = 0
        /\ Fresh(offered)
        /\ UNCHANGED <<todo, excluded, closing, held, packets, up, file, faults>>
     \/ /\ IF offered = <<>> THEN UNCHANGED faults ELSE Fault
        /\ \/ retry > WriteRetry /\ Throw /\ UNCHANGED retry
           \/ retry <= WriteRetry /\ retry' = retry + 1 /\ UNCHANGED todo
        /\ UNCHANGED <<link, nodes, excluded, closing, queue, conn,
                       up, replica, stamp, issued, length, file>>

(* createBlockOutputStream for a new block.                                *)
Create ==
  /\ Thread("alloc") /\ link = "create"
  /\ \/ /\ Dead = {}
        /\ link' = "up" /\ todo' = Tail(todo)
        /\ replica' = Stamped(Chain, stamp)
        /\ excluded' = {}
        /\ UNCHANGED faults
     \/ \E i \in DOMAIN nodes :
          /\ Blames(i)
          /\ link' = "abandon" /\ excluded' = excluded \cup {nodes[i]}
          /\ UNCHANGED <<todo, replica>>
  /\ UNCHANGED <<nodes, retry, closing, queue, conn, up, stamp, issued, length, file>>

Abandon ==
  /\ link = "abandon" /\ Thread("alloc")
  /\ \/ /\ link' = "none" /\ stamp' = 0 /\ nodes' = <<>> /\ Fresh(<<>>)
        /\ UNCHANGED <<todo, faults>>
     \/ Fault /\ Throw /\ UNCHANGED <<link, nodes, stamp, conn>>
  /\ UNCHANGED <<excluded, retry, closing, queue, up, replica, issued, length, file>>

-------------------------------------------------------------------------------
(* send and waitForAcks.                                                   *)

(* The packet joins the queue; a queue longer than the pool has to shrink  *)
(* before it is written.                                                   *)
TooMany(n) == n > PoolSize

Push == /\ Thread("push")
        /\ packets' = Append(packets, held)
        /\ todo' = IF TooMany(Len(packets')) THEN Tail(todo) ELSE Tail(Tail(todo))
        /\ UNCHANGED <<setup, held, acked, sent, conn, cluster>>

(* waitForAcks, which returns early unless it is to wait for all.          *)
Enough_WhenEmpty == packets = <<>>

Enough == packets = <<>> \/ (Thread("spill") /\ Len(packets) < PoolSize)
AtWait == link = "up" /\ (Thread("flush") \/ Thread("spill"))
Waits  == AtWait /\ ~Enough

EndWait == /\ AtWait /\ Enough
           /\ todo' = Tail(todo)
           /\ UNCHANGED <<setup, queue, conn, cluster>>

SentTo_Unchanged(p) == sent

SentTo(p) == MaxOf(sent, p.end)

Write == /\ Thread("write") /\ link = "up"
         /\ wire' = Append(wire, held)
         /\ sent' = SentTo(held)
         /\ todo' = Tail(todo)
         /\ UNCHANGED <<setup, held, packets, acked, got, cluster>>

(* send returns; the output stream lets go of its packet.                  *)
EndSend == todo' = Tail(todo) /\ held' = None

Readable == wire # <<>> /\ \A i \in DOMAIN nodes : got[i] > 0

NoAckYet == /\ Thread("poll") /\ link = "up" /\ ~Readable
            /\ EndSend
            /\ UNCHANGED <<setup, packets, acked, sent, conn, cluster>>

(* processAck for the ack of the packet that is first in the queue.        *)
ReadAck ==
  /\ Waits \/ (Thread("poll") /\ link = "up")
  /\ Readable /\ packets # <<>> /\ Head(wire).seq = Head(packets).seq
  /\ acked' = MaxOf(acked, Head(packets).end)
  /\ packets' = Tail(packets)
  /\ wire' = Tail(wire) /\ got' = [i \in DOMAIN got |-> got[i] - 1]
  /\ IF Thread("poll") THEN EndSend ELSE UNCHANGED <<todo, held>>
  /\ UNCHANGED <<setup, sent, cluster>>

-------------------------------------------------------------------------------
(* buildForAppendOrRecovery.                                               *)

(* It is called from send and waitForAcks, until one of its steps throws.  *)
Recovers(stage) == link = stage /\ (Thread("spill") \/ Thread("poll") \/ Thread("flush"))

(* How it goes on with these nodes.                                        *)
Rebuild(chain) == IF ~closing /\ Len(chain) < Replication /\ CanAdd THEN "extend" ELSE "connect"

(* The node errorIndex points to is excluded and taken out of the chain.   *)
DropNode(chain, i, out) ==
  LET rest == RemoveAt(chain, i) IN
  /\ nodes' = rest /\ excluded' = out \cup {chain[i]}
  /\ Fresh(rest)
  /\ IF rest = <<>> THEN Throw /\ UNCHANGED link
     ELSE /\ link' = Rebuild(rest)
          /\ todo' = IF Thread("write") THEN Tail(todo) ELSE todo

(* An IOException in send or waitForAcks: the connection broke, an ack     *)
(* reports a bad node, or has another number than the first packet, or     *)
(* does not come at all.                                                   *)
WrongAck == Readable /\ packets # <<>> /\ Head(wire).seq # Head(packets).seq
NoneDue  == Waits /\ wire = <<>>

Fail ==
  /\ link = "up"
  /\ Thread("write") \/ Thread("poll") \/ Waits
  /\ \E i \in DOMAIN nodes :
       /\ \/ Blames(i)
          \/ i = 1 /\ ~Thread("write") /\ (WrongAck \/ NoneDue) /\ UNCHANGED faults
       /\ DropNode(nodes, i, {})
  /\ retry' = WriteRetry
  /\ UNCHANGED <<closing, queue, up, replica, stamp, issued, length, file>>

(* A datanode that stalls makes a write run into its timeout, which is not *)
(* an IOException and is not caught.                                       *)
WriteTimesOut == /\ (Thread("write") /\ link = "up") \/ Recovers("resend")
                 /\ Fault /\ Throw
                 /\ UNCHANGED <<setup, queue, conn, up, replica, stamp, issued, length, file>>

(* An attempt that failed and blames no node costs a retry.                *)
RetriesLeft_Unchanged == retry

RetriesLeft == retry - 1

Again == IF RetriesLeft = 0 THEN Throw /\ UNCHANGED <<link, retry>>
         ELSE retry' = RetriesLeft /\ link' = Rebuild(nodes) /\ UNCHANGED todo

(* addDatanodeToPipeline: a new node joins at either end and is given a    *)
(* copy by its neighbour; if that fails it is the new node's fault.        *)
Extend ==
  /\ Recovers("extend")
  /\ LET free == Datanode \ (Chain \cup excluded) IN
     \/ \E d \in free, front \in BOOLEAN :
          /\ <<d>> \in Offers(free, 1)
          /\ LET chain  == IF front THEN <<d>> \o nodes ELSE Append(nodes, d)
                 source == IF front THEN nodes[1] ELSE Last(nodes)
             IN
             \/ /\ {source, d} \subseteq up
                /\ replica' = [replica EXCEPT ![d] = [len |-> replica[source].len, stamp |-> stamp]]
                /\ nodes' = chain /\ Fresh(chain) /\ link' = "connect"
                /\ UNCHANGED <<todo, excluded, retry, faults>>
             \/ /\ IF {source, d} \subseteq up THEN Fault ELSE UNCHANGED faults
                /\ DropNode(chain, IF front THEN 1 ELSE Len(chain), excluded)
                /\ UNCHANGED <<replica, retry>>
     \/ /\ IF free = {} THEN UNCHANGED faults ELSE Fault
        /\ Again
        /\ UNCHANGED <<replica, nodes, excluded, conn>>
  /\ UNCHANGED <<closing, queue, up, stamp, issued, length, file>>

(* updateBlockForPipeline and createBlockOutputStream: the datanodes take  *)
(* the new stamp one after the other, up to the one that fails.            *)
Connect ==
  /\ Recovers("connect")
  /\ \/ /\ Fault /\ Again
        /\ UNCHANGED <<replica, issued, nodes, excluded, conn>>
     \/ /\ issued' = issued + 1
        /\ UNCHANGED retry
        /\ \/ /\ Dead = {}
              /\ replica' = Stamped(Chain, issued')
              /\ link' = "update"
              /\ UNCHANGED <<todo, faults, nodes, excluded, conn>>
           \/ \E i \in DOMAIN nodes :
                /\ Blames(i)
                /\ replica' = Stamped({nodes[j] : j \in 1 .. i - 1} \cap up, issued')
                /\ DropNode(nodes, i, excluded)
  /\ UNCHANGED <<closing, queue, up, stamp, length, file>>

(* updatePipeline: tells the namenode.  When the block was being closed    *)
(* all there was to send was its last packet, and the datanodes know.      *)
NewStamp_Kept == stamp

NewStamp == issued

Update ==
  /\ Recovers("update")
  /\ \/ /\ stamp' = NewStamp /\ UNCHANGED faults
        /\ replica' = Counted(stamp')
        /\ excluded' = {} /\ retry' = 0
        /\ IF closing
           THEN /\ link' = "up" /\ packets' = <<>>
                /\ IF Thread("poll") THEN EndSend ELSE UNCHANGED <<todo, held>>
           ELSE link' = "resend" /\ UNCHANGED <<todo, held, packets>>
     \/ /\ Fault /\ Throw /\ stamp' \in {stamp, issued}
        /\ UNCHANGED <<link, held, packets, excluded, retry, replica>>
  /\ UNCHANGED <<nodes, closing, acked, sent, conn, up, issued, length, file>>

ToResend_NotTheFirst == Tail(packets)

ToResend == packets

Resend ==
  /\ Recovers("resend")
  /\ wire' = ToResend
  /\ sent' = IF packets = <<>> THEN sent ELSE SentTo(Last(packets))
  /\ link' = "up"
  /\ UNCHANGED <<todo, nodes, excluded, retry, closing, held, packets, acked, got, cluster>>

-------------------------------------------------------------------------------
(* A datanode receives the next packet, after the one before it in the     *)
(* chain, and adds it to its replica.                                      *)
Receive(i) ==
  /\ nodes[i] \in up /\ got[i] < Len(wire)
  /\ i > 1 => got[i] < got[i - 1]
  /\ got' = [got EXCEPT ![i] = @ + 1]
  /\ replica' = [replica EXCEPT ![nodes[i]].len = MaxOf(@, wire[got'[i]].end)]
  /\ UNCHANGED <<todo, setup, queue, wire, up, stamp, issued, length, file, faults>>

PipelineStep == \/ Alloc \/ Create \/ Abandon
                \/ Push \/ EndWait \/ Write \/ NoAckYet \/ ReadAck
                \/ Fail \/ WriteTimesOut \/ Extend \/ Connect \/ Update \/ Resend
===============================================================================
