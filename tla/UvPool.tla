-------------------------------- MODULE UvPool --------------------------------
(***************************************************************************)
(* The work queue behind every asynchronous call of the addon.  A          *)
(* Napi::AsyncWorker is queued on the JavaScript thread, executed by one   *)
(* of libuv's pool threads, and its OnOK callback is run by the event loop *)
(* on the JavaScript thread.  Waiting work is picked up first in, first    *)
(* out, and finished work is delivered in the order in which it finished.  *)
(*                                                                         *)
(* The two queues are not kept as sequences: ahead[k] is the set of tasks  *)
(* that were already standing in the queue when k joined it, so k is at    *)
(* its head when none of them stands there any more.                       *)
(***************************************************************************)
EXTENDS Naturals, FiniteSets

CONSTANTS Task,     \* the workers the client can create
          Threads   \* the number of pool threads (UV_THREADPOOL_SIZE)

VARIABLES stage,    \* where each worker is in its life
          ahead     \* the workers in front of it in the queue it stands in

Stages == {"idle", "queued", "running", "done", "delivered"}

In(s) == {k \in Task : stage[k] = s}

AtHead(k) == ahead[k] \cap In(stage[k]) = {}

PoolTypeOK == /\ stage \in [Task -> Stages]
              /\ ahead \in [Task -> SUBSET Task]

PoolInit == /\ stage = [k \in Task |-> "idle"]
            /\ ahead = [k \in Task |-> {}]

(* One turn of the JavaScript thread: it runs the callbacks of the workers *)
(* in done (at most one) and queues the workers in new (at most one).      *)
Turn(done, new) ==
  /\ \A k \in done : stage[k] = "done" /\ AtHead(k)
  /\ \A k \in new  : stage[k] = "idle"
  /\ stage' = [k \in Task |-> IF k \in done THEN "delivered"
                              ELSE IF k \in new THEN "queued" ELSE stage[k]]
  /\ ahead' = [k \in Task |-> IF k \in new THEN In("queued") ELSE ahead[k]]

(* A free pool thread takes the worker at the head of the queue.           *)
Start(k) == /\ stage[k] = "queued" /\ AtHead(k)
            /\ Cardinality(In("running")) < Threads
            /\ stage' = [stage EXCEPT ![k] = "running"]
            /\ UNCHANGED ahead

(* Its Execute() returns and the worker joins the finished ones.           *)
Finish(k) == /\ stage[k] = "running"
             /\ stage' = [stage EXCEPT ![k] = "done"]
             /\ ahead' = [ahead EXCEPT ![k] = In("done")]

===============================================================================
