------------------------------- MODULE Cluster -------------------------------
(***************************************************************************)
(* The namenode and the datanodes, as far as the client that writes one    *)
(* file sees them.  Both are external: what they do is taken from the      *)
(* requests libhdfs3 sends them and the answers it is prepared for.        *)
(*                                                                         *)
(* Lengths are counted in units, of which a checksum chunk has several.    *)
(***************************************************************************)
EXTENDS Naturals, FiniteSets, SequencesExt

CONSTANTS Datanode,    \* a set of numbers
          MaxFaults    \* bound: crashes, lost answers and broken connections together

ASSUME ClusterAssumption == Datanode \subseteq Nat /\ MaxFaults \in Nat

VARIABLES up,       \* the datanodes that have not crashed
          replica,  \* of the file's last block: its length and generation stamp on each datanode
          stamp,    \* the generation stamp of the last block at the namenode, 0 if it has none
          issued,   \* the last generation stamp the namenode gave out for it
          length,   \* units in the blocks before the last one
          file,     \* at the namenode: "none", "construction" or "complete"
          faults    \* faults that have happened

cluster == <<up, replica, stamp, issued, length, file, faults>>

NoReplica == [len |-> 0, stamp |-> 0]

ClusterTypeOK == /\ up \subseteq Datanode
                 /\ replica \in [Datanode -> [len : Nat, stamp : Nat]]
                 /\ {stamp, issued, length} \subseteq Nat
                 /\ file \in {"none", "construction", "complete"}
                 /\ faults \in 0 .. MaxFaults

ClusterInit == /\ up = Datanode
               /\ replica = [d \in Datanode |-> NoReplica]
               /\ stamp = 0 /\ issued = 0 /\ length = 0
               /\ file = "none"
               /\ faults = 0

(* Something that goes wrong without anybody's doing.                      *)
Fault == faults < MaxFaults /\ faults' = faults + 1

Crash(d) == /\ d \in up /\ Fault
            /\ up' = up \ {d}
            /\ replica' = [replica EXCEPT ![d] = NoReplica]
            /\ UNCHANGED <<stamp, issued, length, file>>

(* The datanodes the namenode offers for a block, and whether they live is *)
(* not known to it: the first n of those it may offer, in their order.     *)
Offers(free, n) ==
  {s \in UNION {[1 .. k -> free] : k \in 0 .. n} :
     /\ \A i, j \in DOMAIN s : i < j => s[i] < s[j]
     /\ \A d \in free \ ToSet(s) : Len(s) = n /\ \A i \in 1 .. n : s[i] < d}

(* addBlock: the block before is committed with the length the client      *)
(* gives, and a new one allocated.                                         *)
AddBlock(committed) == /\ length' = length + committed
                       /\ stamp' = 1 /\ issued' = 1
                       /\ replica' = [d \in Datanode |-> NoReplica]

(* A datanode that answers to the new stamp gives it to its replica.       *)
Stamped(ds, s) == [d \in Datanode |-> IF d \in ds THEN [replica[d] EXCEPT !.stamp = s]
                                      ELSE replica[d]]

(* Replicas of another stamp than the namenode's are not counted any more, *)
(* and deleted.                                                            *)
Counted(s) == [d \in Datanode |-> IF replica[d].stamp = s THEN replica[d] ELSE NoReplica]

(* complete() succeeds when a datanode has reported the last block.        *)
Reported(committed) ==
  stamp = 0 \/ \E d \in up : replica[d].stamp = stamp /\ replica[d].len >= committed
===============================================================================
