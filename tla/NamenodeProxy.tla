----------------------------- MODULE NamenodeProxy -----------------------------
(***************************************************************************)
(* NamenodeProxy (NamenodeProxy.cpp) over the channels to its namenodes: a *)
(* call that meets a standby namenode, or one that cannot be reached, goes *)
(* to the next, which becomes the namenode of all threads.                 *)
(***************************************************************************)
EXTENDS RpcChannel

CONSTANT MaxRetry  \* maxNamenodeHARetry

ASSUME ProxyAssumption == MaxRetry \in Nat

VARIABLES current,  \* currentNamenode
          count     \* __count of each thread's call

vars == <<rpc, current, count>>

Init == ChannelInit /\ current \in Server /\ count = [t \in Thread |-> 0]

(* getActiveNamenode; the call is made there.                              *)
At(t) == /\ at' = [at EXCEPT ![t] = current]
         /\ Goes(t, "send")

(* A thread calls a method of the proxy.                                   *)
Call(t) ==
  /\ pc[t] = "idle" /\ At(t)
  /\ UNCHANGED <<channel, retried, done, target, error, outside, current, count>>

Pick(t) ==
  /\ pc[t] = "pick" /\ At(t)
  /\ UNCHANGED <<channel, retried, done, target, error, outside, current, count>>

(* NAMENODE_HA_RETRY_END: the call returns, or moves all threads on to the *)
(* next namenode (failoverToNextNamenode) unless another has moved them    *)
(* already, and tries the one that is then the current.                    *)
TriesAnother(t) == /\ done[t] \in {"standby", "failover"}
                   /\ Namenodes > 1 /\ count[t] <= MaxRetry

Counted_Never(t) == count[t]

Counted(t) == count[t] + 1

Over(t) ==
  /\ pc[t] = "over"
  /\ \/ /\ TriesAnother(t)
        /\ current' = IF at[t] = current THEN (current + 1) % Namenodes ELSE current
        /\ Goes(t, "pick")
        /\ count' = [count EXCEPT ![t] = Counted(t)]
        /\ UNCHANGED ran
     \/ /\ ~TriesAnother(t)
        /\ Goes(t, "idle")
        /\ count' = [count EXCEPT ![t] = 0]
        /\ ran' = [ran EXCEPT ![t] = 0]
        /\ UNCHANGED current
  /\ at' = [at EXCEPT ![t] = 0]
  /\ done' = [done EXCEPT ![t] = "no"]
  /\ retried' = [retried EXCEPT ![t] = FALSE]
  /\ UNCHANGED <<channel, target, error, active, faults, stalls>>

Acts(t) == \/ Invokes(t) /\ UNCHANGED <<current, count>>
           \/ Pick(t) \/ Over(t)

Outside == World /\ UNCHANGED <<current, count>>

Next == Outside \/ \E t \in Thread : Call(t) \/ Acts(t)

Spec == Init /\ [][Next]_vars /\ (\A t \in Thread : WF_vars(Acts(t)))
             /\ WF_vars((\E s \in Server : Serve(s)) /\ UNCHANGED <<current, count>>)

-------------------------------------------------------------------------------
(* Types; readMut has one holder, and whoever reads holds it.               *)
TypeOK == ChannelTypeOK /\ current \in Server /\ count \in [Thread -> 0 .. MaxRetry + 1]

(* An answer on a connection finds its call on the list (else the caller   *)
(* that reads it dies of a "protocol mismatch"), and a call that returns   *)
(* without an exception was carried out, however often the connection was  *)
(* shut down, re-established or read by others meanwhile.                  *)
AnswersReachTheirCalls ==
  /\ \A s \in Server : \A a \in answers[s] : a.to \in pending[s]
  /\ \A t \in Thread : pc[t] = "over" /\ done[t] = "ok" => ran[t] > 0

(* A call that is not idempotent is carried out once at most, unless there *)
(* was a timeout or a namenode that could not be reached: for that error   *)
(* also ends the calls of the other threads, sent or not, as if they had   *)
(* met a namenode to leave (HdfsFailoverException).                        *)
OnceUnlessStalled == \A t \in Thread \ Idempotent : stalls = 0 => ran[t] <= 1

(* Every call returns, once no new ones are made; a thread that nobody     *)
(* reads for, or that waits in vain, does not stay so.                     *)
Quiet == <>[][\A t \in Thread : pc[t] = "idle" => pc'[t] = "idle"]_vars

CallsReturn == Quiet => \A t \in Thread : pc[t] # "idle" ~> pc[t] = "idle"

-------------------------------------------------------------------------------
(* "Another thread checks response, just wait": a call that is not done    *)
(* is on the list, or another thread is reading its answer.                *)
JustWaits ==
  \A t \in Thread : pc[t] \in {"wait", "try"} /\ done[t] = "no"
                     => t \in pending[at[t]] \/ \E u \in Thread : t \in target[u]
===============================================================================
