------------------------------- MODULE RpcChannel -------------------------------
(***************************************************************************)
(* RpcChannelImpl (RpcChannel.cpp): the one connection to a namenode that  *)
(* all threads of the process share.  A thread sends its call under        *)
(* writeMut; of those that wait one holds readMut and reads whatever       *)
(* answer comes, for itself or for another.  Whoever meets an error shuts  *)
(* the connection down and cancels the calls of all the others.            *)
(*                                                                         *)
(* The exceptions a call may end with are "rpc" (HdfsRpcException),        *)
(* "failover" (HdfsFailoverException) and "standby"                        *)
(* (NameNodeStandbyException).  The process does not exit meanwhile.       *)
(***************************************************************************)
EXTENDS Naturals, FiniteSets

CONSTANTS Thread,
          Idempotent, \* the threads that make idempotent calls, the others do not
          Namenodes,   \* how many there are
          MaxFaults   \* bound: broken connections, stalls and changes of the active namenode

ASSUME ChannelAssumption == Idempotent \subseteq Thread /\ Namenodes \in Nat \ {0} /\ MaxFaults \in Nat

Server == 0 .. Namenodes - 1

VARIABLES
  link,     \* of each server's connection: "closed", "up" or "broken"
  reader,   \* who holds its readMut, as a set
  pending,  \* pendingCalls, by the thread whose call it is
  asked,    \* requests the server has received on the connection and not served,
  answers,  \* and its answers on the way
  pc,       \* what each thread does
  at,       \* the server it calls
  retried,  \* retry: its idempotent call has been sent a second time
  done,     \* its `complete' and `error': "no", "ok" or the exception
  target,   \* the call whose answer the thread is reading, as a set
  error,    \* lastError
  ran,      \* how many times its call was carried out, 2 standing for more
  active,   \* the active namenode, as a set, for there may be none
  faults, stalls  \* faults that have happened, and timeouts among them

channel == <<link, reader, pending, asked, answers>>
calls   == <<pc, at, retried, done, target, error>>
outside == <<ran, active, faults, stalls>>
rpc     == <<channel, calls, outside>>

Errors == {"rpc", "failover", "standby"}

ChannelTypeOK ==
  /\ link \in [Server -> {"closed", "up", "broken"}]
  /\ reader \in [Server -> SUBSET Thread] /\ \A s \in Server : Cardinality(reader[s]) <= 1
  /\ {pending[s] : s \in Server} \cup {asked[s] : s \in Server} \subseteq SUBSET Thread
  /\ answers \in [Server -> SUBSET [to : Thread, what : {"ok", "standby"}]]
  /\ pc \in [Thread -> {"idle", "pick", "send", "wait", "try", "read", "body", "torn",
                        "fail", "again", "third", "over"}]
  /\ at \in [Thread -> Server]
  /\ retried \in [Thread -> BOOLEAN]
  /\ done \in [Thread -> {"no", "ok"} \cup Errors] /\ error \in [Thread -> {"no"} \cup Errors]
  /\ target \in [Thread -> SUBSET Thread]
  /\ ran \in [Thread -> 0 .. 2]
  /\ active \subseteq Server /\ Cardinality(active) <= 1
  /\ faults \in 0 .. MaxFaults /\ stalls \in 0 .. faults
  \* A mutex is held by the thread that reads, and by no other.
  /\ \A t \in Thread : pc[t] \in {"read", "body", "torn"} <=> t \in reader[at[t]]

ChannelInit ==
  /\ link = [s \in Server |-> "closed"] /\ reader = [s \in Server |-> {}]
  /\ pending = [s \in Server |-> {}] /\ asked = [s \in Server |-> {}]
  /\ answers = [s \in Server |-> {}]
  /\ pc = [t \in Thread |-> "idle"] /\ at = [t \in Thread |-> 0]
  /\ retried = [t \in Thread |-> FALSE]
  /\ done = [t \in Thread |-> "no"] /\ target = [t \in Thread |-> {}]
  /\ error = [t \in Thread |-> "no"]
  /\ ran = [t \in Thread |-> 0]
  /\ active \in {{s} : s \in Server} /\ faults = 0 /\ stalls = 0

-------------------------------------------------------------------------------
(* What goes wrong without anybody's doing; a stall ends in an             *)
(* HdfsTimeoutException or, when connecting, in no connection.             *)
Fault == faults < MaxFaults /\ faults' = faults + 1 /\ UNCHANGED stalls
Stall == faults < MaxFaults /\ faults' = faults + 1 /\ stalls' = stalls + 1
Fine  == UNCHANGED <<faults, stalls>>

(* The thread that reads an answer on s has its connection taken away.     *)
Torn(s) == [t \in Thread |-> IF t \in reader[s] /\ pc[t] = "body" THEN "torn" ELSE pc[t]]

(* The namenode carries out a request, or says that it is not the active   *)
(* one.                                                                    *)
Serve(s) ==
  \E t \in asked[s] :
    /\ asked' = [asked EXCEPT ![s] = @ \ {t}]
    /\ answers' = [answers EXCEPT ![s] =
                     @ \cup {[to |-> t, what |-> IF s \in active THEN "ok" ELSE "standby"]}]
    /\ ran' = IF s \in active /\ ran[t] < 2 THEN [ran EXCEPT ![t] = @ + 1] ELSE ran
    /\ UNCHANGED <<link, reader, pending, calls, active, faults, stalls>>

Break(s) ==
  /\ link[s] = "up" /\ Fault
  /\ link' = [link EXCEPT ![s] = "broken"]
  /\ asked' = [asked EXCEPT ![s] = {}] /\ answers' = [answers EXCEPT ![s] = {}]
  /\ pc' = Torn(s)
  /\ UNCHANGED <<reader, pending, at, retried, done, target, error, ran, active>>

Elect ==
  /\ Fault
  /\ active' \in {{}} \cup {{s} : s \in Server} /\ active' # active
  /\ UNCHANGED <<channel, calls, ran>>

-------------------------------------------------------------------------------
(* invokeInternal.                                                         *)

Goes(t, place) == pc' = [pc EXCEPT ![t] = place]

(* An exception: what the catch clauses make of it.                        *)
Fails(t, e) == Goes(t, "fail") /\ error' = [error EXCEPT ![t] = e]

(* Connect if need be, and send, under writeMut.  On a connection that the *)
(* other end has broken the write may fail or not.                         *)
Send(t) ==
  LET s == at[t] IN
  /\ pc[t] = "send"
  /\ \/ /\ link[s] = "broken" => UNCHANGED asked
        /\ link[s] # "broken" => asked' = [asked EXCEPT ![s] = @ \cup {t}]
        /\ link' = [link EXCEPT ![s] = IF @ = "closed" THEN "up" ELSE @]
        /\ pending' = [pending EXCEPT ![s] = @ \cup {t}]
        /\ Goes(t, "wait") /\ Fine
        /\ UNCHANGED error
     \/ /\ \/ Stall /\ Fails(t, "failover")
           \/ link[s] = "closed" /\ Fault /\ Fails(t, "rpc")
           \/ link[s] = "broken" /\ Fine /\ Fails(t, "rpc")
        /\ UNCHANGED <<link, asked, pending>>
  /\ UNCHANGED <<reader, answers, at, retried, done, target, ran, active>>

(* A call that is complete wakes another up, to read; they would wake up   *)
(* by themselves after half a second.                                      *)
Finish(t) ==
  /\ pc[t] = "wait" /\ done[t] # "no"
  /\ Goes(t, "over")
  /\ UNCHANGED <<channel, at, retried, done, target, error, outside>>

(* The others try to become the one that reads; by then the call may be    *)
(* complete, for another read its answer.                                  *)
Tries(t) ==
  /\ pc[t] = "wait" /\ done[t] = "no"
  /\ Goes(t, "try")
  /\ UNCHANGED <<channel, at, retried, done, target, error, outside>>

StartRead(t) ==
  /\ pc[t] = "try"
  /\ \/ /\ reader[at[t]] = {}
        /\ reader' = [reader EXCEPT ![at[t]] = {t}]
        /\ Goes(t, "read")
     \/ /\ reader[at[t]] # {}
        /\ Goes(t, "wait")
        /\ UNCHANGED reader
  /\ UNCHANGED <<link, pending, asked, answers, at, retried, done, target, error, outside>>

(* The lock goes with the scope, which an exception leaves too.            *)
Unlock_Kept(t) == UNCHANGED reader

Unlock(t) == reader' = [reader EXCEPT ![at[t]] = {}]

(* readOneResponse: the header tells whose answer it is, and the call is   *)
(* taken off the list before its answer is read.                           *)
Header(t) ==
  LET s == at[t] IN
  /\ pc[t] = "read"
  /\ \E a \in answers[s] :
       /\ answers' = [answers EXCEPT ![s] = @ \ {a}]
       /\ \/ /\ a.to \in pending[s] /\ a.what = "ok"
             /\ target' = [target EXCEPT ![t] = {a.to}]
             /\ Goes(t, "body")
             /\ UNCHANGED <<reader, done, error>>
          \/ /\ a.to \in pending[s] /\ a.what = "standby"
             /\ done' = [done EXCEPT ![a.to] = "standby"]
             /\ Unlock(t) /\ Goes(t, "wait")
             /\ UNCHANGED <<target, error>>
          \/ /\ a.to \notin pending[s]
             /\ Unlock(t) /\ Fails(t, "rpc")
             /\ UNCHANGED <<target, done>>
       /\ pending' = [pending EXCEPT ![s] = @ \ {a.to}]
  /\ UNCHANGED <<link, asked, at, retried, outside>>

(* The call whose answer is being read is done ...                         *)
Served_Reader(t) == {t}

Served(t) == target[t]

Body(t) ==
  /\ pc[t] = "body"
  /\ done' = [u \in Thread |-> IF u \in Served(t) THEN "ok" ELSE done[u]]
  /\ target' = [target EXCEPT ![t] = {}]
  /\ Unlock(t) /\ Goes(t, "wait")
  /\ UNCHANGED <<link, pending, asked, answers, at, retried, error, outside>>

(* ... unless the connection breaks, or stalls; a reader that waits for an *)
(* answer finds it broken or closed too, or gives up when none has come    *)
(* for long enough.                                                        *)
ReadFails(t) ==
  LET s == at[t] IN
  /\ \/ pc[t] = "torn" /\ Fine /\ Fails(t, "rpc")
     \/ pc[t] = "body" /\ Stall /\ Fails(t, "failover")
     \/ pc[t] = "read" /\ (link[s] # "up" \/ asked[s] \cup {a.to : a \in answers[s]} = {})
                       /\ Fine /\ Fails(t, "rpc")
     \/ pc[t] = "read" /\ link[s] = "up" /\ Stall /\ Fails(t, "rpc")
  /\ target' = [target EXCEPT ![t] = {}]
  /\ Unlock(t)
  /\ UNCHANGED <<link, pending, asked, answers, at, retried, done, ran, active>>

-------------------------------------------------------------------------------
(* invoke: after an error.                                                 *)

(* shutdown, under writeMut: whoever waits for an answer on s is cancelled *)
(* and the connection closed.                                              *)
Closed_KeepsAnswers(s) == UNCHANGED <<asked, answers>>

Closed(s) == asked' = [asked EXCEPT ![s] = {}] /\ answers' = [answers EXCEPT ![s] = {}]

Shutdown(t, place) ==
  LET s == at[t] IN
  /\ link' = [link EXCEPT ![s] = "closed"]
  /\ Closed(s)
  /\ pending' = [pending EXCEPT ![s] = {}]
  /\ pc' = [Torn(s) EXCEPT ![t] = place]

Cancelled(t) == [u \in Thread |-> IF u \in pending[at[t]] THEN error[t] ELSE done[u]]

(* An idempotent call is sent once more, as a new RpcRemoteCall ...        *)
Retries_AnyCall(t) == ~retried[t]

Retries(t) == t \in Idempotent /\ ~retried[t]

Fail(t) ==
  /\ pc[t] = "fail"
  /\ IF Retries(t)
     THEN /\ Shutdown(t, "send")
          /\ done' = [Cancelled(t) EXCEPT ![t] = "no"]
          /\ retried' = [retried EXCEPT ![t] = TRUE]
          /\ error' = [error EXCEPT ![t] = "no"]
     ELSE /\ Shutdown(t, "again")
          /\ done' = Cancelled(t)
          /\ UNCHANGED <<retried, error>>
  /\ UNCHANGED <<reader, at, target, outside>>

(* ... and another is given up, with a second shutdown in the handler, and *)
(* a third if the call is not finished by then.                            *)
Again(t) ==
  /\ pc[t] = "again"
  /\ done' = Cancelled(t)
  /\ Shutdown(t, IF done'[t] = "no" THEN "third" ELSE "over")
  /\ error' = [error EXCEPT ![t] = IF done'[t] = "no" THEN @ ELSE "no"]
  /\ UNCHANGED <<reader, at, retried, target, outside>>

Third(t) ==
  /\ pc[t] = "third"
  /\ done' = [Cancelled(t) EXCEPT ![t] = error[t]]
  /\ Shutdown(t, "over")
  /\ error' = [error EXCEPT ![t] = "no"]
  /\ UNCHANGED <<reader, at, retried, target, outside>>

Invokes(t) == \/ Send(t) \/ Finish(t) \/ Tries(t) \/ StartRead(t) \/ Header(t) \/ Body(t) \/ ReadFails(t)
              \/ Fail(t) \/ Again(t) \/ Third(t)

World == (\E s \in Server : Serve(s) \/ Break(s)) \/ Elect
===============================================================================
