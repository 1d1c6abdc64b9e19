-------------------------------- MODULE HStream --------------------------------
(***************************************************************************)
(* What HReadStream and HWriteStream (lib/nhdfs.js) have in common: their  *)
(* flags, close(), and what follows when the Close worker calls back.      *)
(*                                                                         *)
(* The client is any program that uses a stream, except that of the bad    *)
(* habits a client can have it has only those in Habits.                   *)
(***************************************************************************)
EXTENDS NativeFile

CONSTANTS Habits,
          MaxTicks  \* bound: the client calls close() with fewer ticks pending

VARIABLES opened, destroyed, closed,  \* the stream's flags
          ticks,      \* process.nextTick callbacks that will emit 'close'
          closeSeen,  \* 'close' was emitted
          errorSeen,  \* 'error' was emitted
          dropped     \* the client let go of the stream and it was collected

events == <<closeSeen, errorSeen, dropped>>
stream == <<opened, destroyed, closed, ticks, events>>

StreamTypeOK ==
  /\ NativeTypeOK
  /\ {opened, destroyed, closed, closeSeen, errorSeen, dropped} \subseteq BOOLEAN
  /\ ticks \in Nat

StreamInit == /\ NativeInit
              /\ opened = FALSE /\ destroyed = FALSE /\ closed = FALSE
              /\ ticks = 0 /\ closeSeen = FALSE /\ errorSeen = FALSE /\ dropped = FALSE

Client(habit) == habit \in Habits

(* Of n calls of close() in one turn the first queues the Close worker,    *)
(* unless one was queued before; the others each emit 'close' on a tick.   *)
FirstClose(n) == n > 0 /\ ~closed

CloseTicks_OneTooFew(n) == n - 1

CloseTicks(n) == IF FirstClose(n) THEN n - 1 ELSE n

(* A turn of the JavaScript thread with n calls of close(), in which the   *)
(* workers done call back and the workers new are queued.                  *)
CloseTurn(n, done, new) ==
  /\ Pool!Turn(done, IF FirstClose(n) THEN new \cup {CloseOp} ELSE new)
  /\ closed' = (closed \/ n > 0)
  /\ ticks' = ticks + CloseTicks(n)
  /\ UNCHANGED <<file, inside, connected, result, broken>>

(* destroy() is _destroy, which calls close(), but only once.              *)
DestroyCalls_None == 0

DestroyCalls == IF destroyed THEN 0 ELSE 1

(* A worker's callback runs when no tick is left to run.                   *)
Callback_AnyResult(k, r) == ticks = 0

Callback(k, r) == ticks = 0 /\ result[k] = r

(* The client calls close(), or destroy() if it is the first.              *)
ClientClose(destroy) ==
  /\ ~dropped /\ ticks < MaxTicks
  /\ destroy => ~destroyed
  /\ destroyed' = (destroyed \/ destroy)
  /\ CloseTurn(1, {}, {})
  /\ UNCHANGED <<opened, events>>

(* The Close worker calls back.                                            *)
CloseEvent_NoError ==
  \/ Callback(CloseOp, "ok") /\ closeSeen' = TRUE /\ UNCHANGED errorSeen
  \/ Callback(CloseOp, "err") /\ UNCHANGED <<errorSeen, closeSeen>>

CloseEvent ==
  \/ Callback(CloseOp, "ok") /\ closeSeen' = TRUE /\ UNCHANGED errorSeen
  \/ Callback(CloseOp, "err") /\ errorSeen' = TRUE /\ UNCHANGED closeSeen

OnClosed == /\ CloseEvent
            /\ CloseTurn(0, {CloseOp}, {})
            /\ UNCHANGED <<opened, destroyed, dropped>>

Tick == /\ ticks > 0
        /\ ticks' = ticks - 1
        /\ closeSeen' = TRUE
        /\ UNCHANGED <<native, opened, destroyed, closed, errorSeen, dropped>>

(* The client lets go of the FileSystem it got the stream from: a bad      *)
(* habit before the Open worker has called back.                           *)
DropFs == /\ Client("dropFs") \/ stage[OpenOp] = "delivered"
          /\ Disconnect
          /\ UNCHANGED stream

(* The client keeps no reference, no callback is due, and the collector    *)
(* destroys the native object.                                             *)
Collected == /\ ticks = 0 /\ ~dropped
             /\ dropped' = TRUE
             /\ Destructor
             /\ UNCHANGED <<opened, destroyed, closed, ticks, closeSeen, errorSeen>>

===============================================================================
