------------------------------ MODULE NativeFile ------------------------------
(***************************************************************************)
(* The native half of a stream: a FileReader or a FileWriter, whose member *)
(* `file' is shared without a lock by the workers that Open, Read or       *)
(* Write, and Close queue on the pool.                                     *)
(*                                                                         *)
(* An Execute() is two steps, its entry (where it reads `file') and its    *)
(* return, so that two of them overlap on two threads.  An access through  *)
(* an uninitialised or freed `file', or a freed hdfsFS, and two threads    *)
(* inside one libhdfs3 stream at a time (its methods take no lock), are    *)
(* undefined behaviour: `broken' records it and nothing is said of what    *)
(* follows.                                                                *)
(***************************************************************************)
EXTENDS Naturals, FiniteSets

CONSTANTS Ops,      \* bound: Read or Write workers that may be created
          Threads   \* threads of the pool

ASSUME NativeAssumption == Ops \in Nat /\ Threads \in Nat

VARIABLES stage, ahead,  \* the pool
          file,          \* "wild": uninitialised, "null", "open", "freed": null after a close
          inside,        \* the workers inside the libhdfs3 stream that `file' points to
          connected,     \* the FileSystem object, whose hdfsFS the stream points to, is there
          result,        \* the result of each worker's Execute()
          broken         \* undefined behaviour has happened

native == <<stage, ahead, file, inside, connected, result, broken>>

OpenOp  == 0
CloseOp == Ops + 1
DataOp  == 1 .. Ops
Op      == 0 .. Ops + 1

Pool == INSTANCE UvPool WITH Task <- Op

InFlight(k) == stage[k] \in {"queued", "running", "done"}

NativeTypeOK == /\ Pool!PoolTypeOK
                /\ file \in {"wild", "null", "open", "freed"}
                /\ inside \in SUBSET Op
                /\ result \in [Op -> {"none", "ok", "eof", "err"}]
                /\ {connected, broken} \subseteq BOOLEAN

(* The constructor leaves `file' uninitialised (whatever the heap held)    *)
(* and the stream's constructor queues the Open worker at once.            *)
NativeInit == /\ stage = [k \in Op |-> IF k = OpenOp THEN "queued" ELSE "idle"]
              /\ ahead = [k \in Op |-> {}]
              /\ file \in {"wild", "null"}
              /\ inside = {} /\ connected = TRUE
              /\ result = [k \in Op |-> "none"]
              /\ broken = FALSE

(* hdfsOpenFile does not look at `file', but follows the hdfsFS.           *)
StartOpen == /\ Pool!Start(OpenOp)
             /\ broken' = ~connected
             /\ UNCHANGED <<file, inside, connected, result>>

FinishOpen(r) ==
  /\ Pool!Finish(OpenOp)
  /\ file' = IF r = "ok" THEN "open" ELSE "null"
  /\ result' = [result EXCEPT ![OpenOp] = r]
  /\ UNCHANGED <<inside, connected, broken>>

(* A worker other than Open starts and follows `file'.  A null pointer,    *)
(* and a length that is not positive, are refused before that.             *)
Enter(k, valid) ==
  /\ Pool!Start(k)
  /\ inside' = IF valid /\ file = "open" THEN inside \cup {k} ELSE inside
  /\ broken' = (valid /\ (file = "wild" \/ (file = "open" /\ inside # {})))
  /\ UNCHANGED <<file, connected, result>>

FinishData(k, r) ==
  /\ Pool!Finish(k)
  /\ k \notin inside => r = "err"
  /\ inside' = inside \ {k}
  /\ result' = [result EXCEPT ![k] = r]
  /\ UNCHANGED <<file, connected, broken>>

(* hdfsCloseFile frees the stream whether or not it reports an error; on a *)
(* null pointer the close is skipped and succeeds.                         *)
FinishClose(r) ==
  /\ Pool!Finish(CloseOp)
  /\ CloseOp \notin inside => r = "ok"
  /\ inside' = inside \ {CloseOp}
  /\ file' = IF CloseOp \in inside THEN "freed" ELSE file
  /\ result' = [result EXCEPT ![CloseOp] = r]
  /\ UNCHANGED <<connected, broken>>

(* The destructor, run by the garbage collector on the JavaScript thread   *)
(* once no worker holds the object, closes the file too.                   *)
Idle == \A k \in Op : ~InFlight(k)
Destructor == /\ Idle
              /\ file' = IF file = "open" THEN "freed" ELSE file
              /\ UNCHANGED <<stage, ahead, inside, connected, result, broken>>

(* The destructor of a FileSystem frees the hdfsFS, whatever streams there *)
(* are; an open one keeps what it needs.                                   *)
Disconnect == /\ connected /\ connected' = FALSE
              /\ broken' \in {FALSE, stage[OpenOp] = "running"}
              /\ UNCHANGED <<stage, ahead, file, inside, result>>

===============================================================================
