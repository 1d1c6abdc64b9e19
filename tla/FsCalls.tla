-------------------------------- MODULE FsCalls --------------------------------
(***************************************************************************)
(* The promise methods of FileSystem and ClusterInfo (lib/nhdfs.js): each  *)
(* queues one worker (SimpleResWorker, ValueWorker, ListWorker,            *)
(* PathInfoWorker, HANameNodesWorker) that calls one function of the       *)
(* libhdfs3 C interface on a pool thread, and settles its promise from the *)
(* worker's callback.                                                      *)
(*                                                                         *)
(* libhdfs3 keeps the text of an error in a buffer of the thread that met  *)
(* it; a text is modelled by the call it is about, 0 being the "Success"   *)
(* that the buffer holds at first.  The file system also has a working     *)
(* directory, modelled by the call that set it.  Relative paths are        *)
(* resolved against it by the pool threads, those of a rename one after    *)
(* the other, and getWorkingDirectory copies it without a lock.            *)
(***************************************************************************)
EXTENDS Naturals, FiniteSets

CONSTANTS Call,    \* bound: the calls the client makes, 1 .. n
          Thread,  \* threads of the pool
          Used,    \* the kinds of calls it makes
          Habits   \* "chdirUnawaited": not to await setWorkingDirectory, or what it may overtake

(* Of the calls that libhdfs3 answers with a boolean, "check" is delete,   *)
(* mkdir and setReplication; "plain" is chown, chmod and utime, "offset"   *)
(* getDefaultBlockSize, getCapacity and getUsed, "info" list and stats,    *)
(* "chdir" and "where" set and get the working directory; "nodes" is       *)
(* ClusterInfo.namenodes.                                                  *)
Asks  == {"exists", "check", "rename", "truncate"}
Kinds == Asks \cup {"plain", "chdir", "where", "offset", "info", "nodes"}

(* Those that need the working directory, and those that look at it twice. *)
Located == Kinds \ {"offset", "nodes"}
Twice   == {"rename", "where"}

ASSUME CallAssumption == /\ Call \subseteq Nat \ {0}
                         /\ IsFiniteSet(Thread)
                         /\ Used \subseteq Kinds

VARIABLES stage, ahead,  \* the pool
          on,      \* the thread that each worker is running on, as a set
          last,    \* the text in each thread's buffer
          kind,    \* what was called
          answer,  \* what libhdfs3 made of it: "yes", "no" (it returned false) or "thrown"
          text,    \* the text a failed worker carries to JavaScript
          promise,
          value,   \* what it is resolved or rejected with
          wd,      \* the working directory
          bases,   \* the directories a call's paths were resolved against
          believed, expected  \* the directory the client believes in, and did at each call

pool  == <<stage, ahead>>
world == <<on, last, answer, text, wd, bases>>
vars  == <<pool, world, kind, promise, value, believed, expected>>

Pool == INSTANCE UvPool WITH Task <- Call, Threads <- Cardinality(Thread)

Values == {"none", "undefined", "true", "false", "null", "number", "minusOne", "object", "path",
           "error", "string"}
Text   == Call \cup {0}

TypeOK ==
  /\ Pool!PoolTypeOK
  /\ on \in [Call -> SUBSET Thread] /\ last \in [Thread -> Text]
  /\ kind \in [Call -> Kinds \cup {"none"}]
  /\ answer \in [Call -> {"none", "yes", "no", "thrown"}]
  /\ text \in [Call -> Text]
  /\ value \in [Call -> Values]
  /\ {wd, believed} \subseteq Text /\ bases \in [Call -> SUBSET Text]
  /\ expected \in [Call -> Text]
  /\ promise \in [Call -> {"none", "pending", "resolved", "rejected"}]
  /\ \A c \in Call : promise[c] = "pending" <=> stage[c] \in {"queued", "running", "done"}

Init == /\ Pool!PoolInit
        /\ on = [c \in Call |-> {}] /\ last = [t \in Thread |-> 0]
        /\ kind = [c \in Call |-> "none"] /\ answer = [c \in Call |-> "none"]
        /\ text = [c \in Call |-> 0]
        /\ promise = [c \in Call |-> "none"] /\ value = [c \in Call |-> "none"]
        /\ wd = 0 /\ bases = [c \in Call |-> {}]
        /\ believed = 0 /\ expected = [c \in Call |-> 0]

-------------------------------------------------------------------------------
Pending == {c \in Call : promise[c] = "pending"}

(* A worker goes in line.                                                  *)
Queue(c) == Pool!Turn({}, {c})

(* The client makes its next call.  One without the habit waits for        *)
(* setWorkingDirectory, and lets nothing run beside it.                    *)
IsNext(c) == promise[c] = "none" /\ \A d \in Call : d < c => promise[d] # "none"

Issue(c, k) ==
  /\ IsNext(c)
  /\ (k = "chdir" /\ Pending # {}) => "chdirUnawaited" \in Habits
  /\ (\E d \in Pending : kind[d] = "chdir") => "chdirUnawaited" \in Habits
  /\ Queue(c)
  /\ kind' = [kind EXCEPT ![c] = k]
  /\ promise' = [promise EXCEPT ![c] = "pending"]
  /\ expected' = [expected EXCEPT ![c] = believed]
  /\ UNCHANGED <<world, value, believed>>

(* Arguments of the wrong types are refused on the spot: the exception is  *)
(* thrown where the promise is made, and rejects it.                       *)
Refusal_Queued(c) == Queue(c)

Refusal(c) == UNCHANGED pool

Refuse(c) ==
  /\ IsNext(c)
  /\ Refusal(c)
  /\ promise' = [promise EXCEPT ![c] = "rejected"]
  /\ value' = [value EXCEPT ![c] = "error"]
  /\ text' = [text EXCEPT ![c] = c]
  /\ UNCHANGED <<on, last, answer, wd, bases, kind, believed, expected>>

(* A pool thread enters libhdfs3, which resolves the (first) path.         *)
Enter(c, t) ==
  /\ Pool!Start(c)
  /\ \A d \in Call : t \notin on[d]
  /\ on' = [on EXCEPT ![c] = {t}]
  /\ bases' = [bases EXCEPT ![c] = IF kind[c] \in Located THEN {wd} ELSE {}]
  /\ UNCHANGED <<last, kind, answer, text, promise, value, wd, believed, expected>>

(* A worker fails if the C function returned a negative number.  The three *)
(* offset functions do so too, but their lambdas pass on success.          *)
Fails_OnlyThrown(k, a) == a = "thrown" /\ k # "offset"

Fails(k, a) == \/ a = "thrown" /\ k # "offset"
               \/ a = "no" /\ k # "truncate"

(* It takes the text of the error from its thread's buffer, in which only  *)
(* an exception has left a new one.                                        *)
TextOf_Before(c, t, a) == last[t]

TextOf(c, t, a) == IF a = "thrown" THEN c ELSE last[t]

(* setWorkingDirectory replaces the directory if its path is valid.        *)
Moves_Always(c, a) == kind[c] = "chdir"

Moves(c, a) == kind[c] = "chdir" /\ a = "yes"

(* libhdfs3 returns: the namenode did it, answered false, or an exception  *)
(* was thrown on the way.                                                  *)
Return(c, t, a) ==
  /\ on[c] = {t} /\ on' = [on EXCEPT ![c] = {}]
  /\ a = "no" => kind[c] \in Asks
  /\ Pool!Finish(c)
  /\ answer' = [answer EXCEPT ![c] = a]
  /\ last' = [last EXCEPT ![t] = IF a = "thrown" THEN c ELSE @]
  /\ text' = [text EXCEPT ![c] = IF Fails(kind[c], a) THEN TextOf(c, t, a) ELSE @]
  /\ wd' = IF Moves(c, a) THEN c ELSE wd
  /\ bases' = [bases EXCEPT ![c] = IF kind[c] \in Twice THEN @ \cup {wd} ELSE @]
  /\ UNCHANGED <<kind, promise, value, believed, expected>>

(* What the JavaScript callback does with the error it is given ...        *)
Settle_Forgets(k, failed) == IF failed THEN "pending" ELSE "resolved"

Settle(k, failed) == IF failed /\ k # "exists" THEN "rejected" ELSE "resolved"

(* ... and with the value.  ListWorker and PathInfoWorker make the error a *)
(* plain string, the others, HANameNodesWorker too, an object with a       *)
(* message.                                                                *)
OrError(failed, v) == IF failed THEN "error" ELSE v
InfoValue(failed)  == IF failed THEN "string" ELSE "object"
NodesValue(failed) == IF failed THEN "error" ELSE "object"

ValueOf(k, failed, a) ==
  CASE k = "exists" -> IF failed THEN "false" ELSE "true"
    [] k = "info"   -> InfoValue(failed)
    [] k = "nodes"  -> NodesValue(failed)
    [] k = "offset" -> IF a = "thrown" THEN "minusOne" ELSE "number"
    [] k = "where"  -> OrError(failed, "path")
    [] k = "truncate" -> OrError(failed, "null")
    [] k \in {"check", "rename", "plain", "chdir"} -> OrError(failed, "undefined")

Callback(c) ==
  LET failed == Fails(kind[c], answer[c]) IN
  /\ Pool!Turn({c}, {})
  /\ promise' = [promise EXCEPT ![c] = Settle(kind[c], failed)]
  /\ value' = [value EXCEPT ![c] = ValueOf(kind[c], failed, answer[c])]
  /\ believed' = IF kind[c] = "chdir" /\ promise'[c] = "resolved" THEN c ELSE believed
  /\ UNCHANGED <<world, kind, expected>>

Answers == {"yes", "no", "thrown"}

Next == \E c \in Call : \/ Refuse(c) \/ \E k \in Used : Issue(c, k)
                        \/ \E t \in Thread : Enter(c, t) \/ \E a \in Answers : Return(c, t, a)
                        \/ Callback(c)

(* The event loop and the pool run on; libhdfs3 always returns, since its  *)
(* calls to the namenode time out.                                         *)
Fairness == \A c \in Call : /\ WF_vars(\E t \in Thread : Enter(c, t))
                            /\ WF_vars(\E t \in Thread, a \in Answers : Return(c, t, a))
                            /\ WF_vars(Callback(c))

Spec == Init /\ [][Next]_vars /\ Fairness

-------------------------------------------------------------------------------
(* Properties.                                                             *)

Rejected == {c \in Call : promise[c] = "rejected"}
Resolved == {c \in Call : promise[c] = "resolved"}

(* A call that fails with an exception is rejected with the text of that   *)
(* exception, whatever failed before on the same thread and whatever runs  *)
(* beside it on others.                                                    *)
OwnException == \A c \in Rejected : answer[c] = "thrown" => text[c] = c

(* Except for the offset and truncate calls, whose answer is lost, what    *)
(* the promise says is what the file system did.                           *)
Truthful == \A c \in Call : kind[c] \notin {"offset", "truncate"} =>
              /\ c \in Rejected => answer[c] # "yes"
              /\ c \in Resolved /\ value[c] # "false" => answer[c] = "yes"

(* Every promise is settled.                                               *)
Settles == \A c \in Call : promise[c] = "pending" ~> promise[c] # "pending"

(* The paths of a call are resolved against one directory, and that is the *)
(* one getWorkingDirectory gives: the last one set by a call that was      *)
(* resolved.  One that was rejected had no effect.                         *)
OneDirectory == \A c \in Call : bases[c] \subseteq {expected[c]}

-------------------------------------------------------------------------------
(* Properties that the documentation states and the code does not have.    *)

(* hdfsGetLastError "[r]eturn[s] error information of last failed          *)
(* operation": a rejected call carries an error text about itself.         *)
OwnText == \A c \in Rejected : text[c] = c

(* getDefaultBlockSize, getCapacity and getUsed give the number "or        *)
(* error", and resolve only if libhdfs3 returned one; truncate resolves to *)
(* true or false, as the recovery needs to be waited for or not.           *)
Documented(k) == CASE k = "offset"   -> {"number"}
                   [] k = "truncate" -> {"true", "false"}
                   [] OTHER          -> Values

DocumentedValue == \A c \in Resolved : value[c] \in Documented(kind[c])
===============================================================================
