----------------------------- MODULE FsCallsProofs -----------------------------
(* Theorems about FsCalls, for every number of calls and threads.          *)
EXTENDS FsCalls, TLAPS

-------------------------------------------------------------------------------
(* Types.                                                                  *)

(* Queueing workers and calling them back keeps the pool's types, and      *)
(* moves no other worker.                                                  *)
LEMMA PoolTurn ==
  ASSUME Pool!PoolTypeOK, NEW done, NEW new, Pool!Turn(done, new)
  PROVE  /\ Pool!PoolTypeOK'
         /\ \A c \in Call : stage'[c] = IF c \in done THEN "delivered"
                                        ELSE IF c \in new THEN "queued" ELSE stage[c]
         /\ \A c \in done : stage[c] = "done"
BY DEF Pool!PoolTypeOK, Pool!Turn, Pool!Stages, Pool!In

(* The same for a thread that starts a worker, or is done with it.         *)
LEMMA PoolStart ==
  ASSUME Pool!PoolTypeOK, NEW c \in Call, Pool!Start(c)
  PROVE  /\ Pool!PoolTypeOK'
         /\ stage[c] = "queued"
         /\ \A d \in Call : stage'[d] = IF d = c THEN "running" ELSE stage[d]
BY DEF Pool!PoolTypeOK, Pool!Start, Pool!Stages

(* When a thread is done with a call.                                      *)
LEMMA PoolFinish ==
  ASSUME Pool!PoolTypeOK, NEW c \in Call, Pool!Finish(c)
  PROVE  /\ Pool!PoolTypeOK'
         /\ stage[c] = "running"
         /\ \A d \in Call : stage'[d] = IF d = c THEN "done" ELSE stage[d]
BY DEF Pool!PoolTypeOK, Pool!Finish, Pool!Stages, Pool!In

(* What was called is known of every pending promise; else the value it    *)
(* settles with would not be defined.                                      *)
Typed == TypeOK /\ \A c \in Call : promise[c] = "pending" => kind[c] \in Kinds

(* Every step keeps the variables in their types, and the pending promises *)
(* those of the workers in flight.                                         *)
LEMMA TypeStep == Typed /\ [Next]_vars => Typed'
<1> SUFFICES ASSUME Typed, [Next]_vars PROVE Typed'
  OBVIOUS
<1> USE DEF Typed, TypeOK, Text, world
<1>1. ASSUME NEW c \in Call, Refuse(c) PROVE Typed'
  <2>1. stage[c] \notin {"queued", "running", "done"} /\ UNCHANGED pool
    BY <1>1 DEF Refuse, IsNext, Refusal
  <2>2. Pool!PoolTypeOK'
    BY <2>1 DEF pool, Pool!PoolTypeOK
  <2>3. QED
    BY <1>1, <2>1, <2>2 DEF Refuse, Values, pool
<1>2. ASSUME NEW c \in Call, NEW k \in Used, Issue(c, k) PROVE Typed'
  BY <1>2, PoolTurn, CallAssumption DEF Issue, Queue
<1>3. ASSUME NEW c \in Call, NEW t \in Thread, Enter(c, t) PROVE Typed'
  BY <1>3, PoolStart DEF Enter, Pool!PoolTypeOK
<1>4. ASSUME NEW c \in Call, NEW t \in Thread, NEW a \in Answers, Return(c, t, a) PROVE Typed'
  BY <1>4, PoolFinish DEF Return, Answers, TextOf, Pool!PoolTypeOK
<1>5. ASSUME NEW c \in Call, Callback(c) PROVE Typed'
  <2>1. Settle(kind[c], Fails(kind[c], answer[c])) \in {"resolved", "rejected"}
    BY DEF Settle
  <2>2. stage[c] = "done"
    BY <1>5, PoolTurn DEF Callback
  <2>3. kind[c] \in Kinds
    BY <2>2
  <2>4. ValueOf(kind[c], Fails(kind[c], answer[c]), answer[c]) \in Values
    BY <2>3 DEF ValueOf, Values, OrError, InfoValue, NodesValue, Kinds, Asks
  <2> HIDE DEF Values
  <2>5. QED
    BY <1>5, <2>1, <2>2, <2>4, PoolTurn DEF Callback
<1>6. CASE UNCHANGED vars
  BY <1>6 DEF vars, pool, Pool!PoolTypeOK
<1>7. QED
  BY <1>1, <1>2, <1>3, <1>4, <1>5, <1>6 DEF Next

(* Nothing has been called at first.                                       *)
LEMMA TypeInit == Init => Typed
BY DEF Init, Typed, TypeOK, Text, Values, Pool!PoolInit, Pool!PoolTypeOK, Pool!Stages

(* The variables range over their types, and a promise is pending exactly  *)
(* as long as its worker is in flight.                                     *)
THEOREM TypeCorrect == Spec => []TypeOK
<1>1. Typed => TypeOK
  BY DEF Typed
<1>2. QED
  BY <1>1, TypeInit, TypeStep, PTL DEF Spec

-------------------------------------------------------------------------------
(* Errors and answers.                                                     *)

(* What a call knows of its answer: an exception has left its own text     *)
(* with it, and the way its promise was settled is that of its answer.     *)
Answered ==
  \A c \in Call :
    /\ promise[c] = "none" => answer[c] = "none"
    /\ stage[c] = "done" => answer[c] \in Answers
    /\ answer[c] = "thrown" /\ kind[c] # "offset" => text[c] = c
    /\ promise[c] = "rejected" => answer[c] = "none" \/ Fails(kind[c], answer[c])
    /\ promise[c] = "resolved" =>
         answer[c] \in Answers /\ (Fails(kind[c], answer[c]) => value[c] = "false")

(* Answered is inductive: only Return gives a call an answer, in the same  *)
(* step as the text, and only while the promise is pending.                *)
LEMMA AnsweredStep == Typed /\ Answered /\ [Next]_vars => Answered'
<1> SUFFICES ASSUME Typed, Answered, [Next]_vars PROVE Answered'
  OBVIOUS
<1> USE DEF Typed, TypeOK, Answered, world
<1>1. ASSUME NEW c \in Call, Refuse(c) PROVE Answered'
  BY <1>1 DEF Refuse, IsNext, Refusal, pool
<1>2. ASSUME NEW c \in Call, NEW k \in Used, Issue(c, k) PROVE Answered'
  BY <1>2, PoolTurn DEF Issue, Queue, IsNext
<1>3. ASSUME NEW c \in Call, NEW t \in Thread, Enter(c, t) PROVE Answered'
  BY <1>3, PoolStart DEF Enter
<1>4. ASSUME NEW c \in Call, NEW t \in Thread, NEW a \in Answers, Return(c, t, a)
      PROVE  Answered'
  <2>1. /\ promise[c] = "pending" /\ promise' = promise /\ kind' = kind /\ value' = value
        /\ \A d \in Call : stage'[d] = IF d = c THEN "done" ELSE stage[d]
        /\ answer' = [answer EXCEPT ![c] = a]
        /\ \A d \in Call \ {c} : text'[d] = text[d]
        /\ a = "thrown" /\ kind[c] # "offset" => text'[c] = c
    BY <1>4, PoolFinish DEF Return, TextOf, Fails
  <2>2. QED
    BY <2>1
<1>5. ASSUME NEW c \in Call, Callback(c) PROVE Answered'
  <2>1. /\ stage[c] = "done" /\ answer[c] \in Answers /\ kind[c] \in Kinds
        /\ UNCHANGED <<answer, kind, text>>
    BY <1>5, PoolTurn DEF Callback
  <2>2. /\ promise'[c] = "rejected" => Fails(kind[c], answer[c])
        /\ promise'[c] = "resolved" /\ Fails(kind[c], answer[c]) => value'[c] = "false"
    BY <1>5, <2>1 DEF Callback, Settle, ValueOf
  <2>3. \A d \in Call \ {c} :
          promise'[d] = promise[d] /\ value'[d] = value[d] /\ stage'[d] = stage[d]
    BY <1>5, PoolTurn DEF Callback
  <2>4. stage'[c] = "delivered" /\ promise'[c] # "none"
    BY <1>5, PoolTurn DEF Callback, Settle
  <2>5. promise'[c] = "rejected" =>
          answer'[c] = "none" \/ Fails(kind'[c], answer'[c])
    BY <2>1, <2>2
  <2>6. promise'[c] = "resolved" =>
          answer'[c] \in Answers /\ (Fails(kind'[c], answer'[c]) => value'[c] = "false")
    BY <2>1, <2>2
  <2>7. QED
    BY <2>1, <2>3, <2>4, <2>5, <2>6
<1>6. CASE UNCHANGED vars
  BY <1>6 DEF vars, pool
<1>7. QED
  BY <1>1, <1>2, <1>3, <1>4, <1>5, <1>6 DEF Next

(* At first there are no answers.                                          *)
LEMMA AnsweredInit == Init => Answered
BY DEF Init, Answered, Pool!PoolInit

(* A call that meets an exception and is rejected carries the text of that *)
(* exception, whatever its thread or the other threads met before.         *)
THEOREM ErrorsAreOwn == Spec => []OwnException
<1>1. Answered => OwnException
  BY DEF Answered, OwnException, Rejected, Fails
<1>2. QED
  BY <1>1, TypeInit, TypeStep, AnsweredInit, AnsweredStep, PTL DEF Spec

(* Except for the calls whose answer is lost, a promise is rejected only   *)
(* if the file system did not do it, and resolved only if it did.          *)
THEOREM PromisesAreTrue == Spec => []Truthful
<1>1. Answered => Truthful
  BY DEF Answered, Truthful, Rejected, Resolved, Fails, Answers
<1>2. QED
  BY <1>1, TypeInit, TypeStep, AnsweredInit, AnsweredStep, PTL DEF Spec

-------------------------------------------------------------------------------
(* The working directory.                                                  *)

(* The directory that the client will believe in when all is settled.      *)
Coming(c) == IF stage[c] = "done" /\ answer[c] = "yes" THEN c ELSE believed

(* A client that awaits setWorkingDirectory has nothing else pending       *)
(* beside it.  Without one the directory is where the client believes it   *)
(* to be, and a pending call was made in that belief.                      *)
Settled ==
  /\ \A c \in Pending : expected[c] = believed
  /\ \A c \in Pending : kind[c] = "chdir" => Pending = {c} /\ wd = Coming(c)
  /\ (\A c \in Pending : kind[c] # "chdir") => wd = believed
  /\ \A c \in Call : kind[c] = "chdir" => answer[c] # "no"
  /\ \A c \in Call : promise[c] = "none" => bases[c] = {}
  /\ OneDirectory

(* Settled is inductive for a client that awaits setWorkingDirectory.      *)
LEMMA SettledStep ==
  ASSUME "chdirUnawaited" \notin Habits, Typed, Answered, Settled, [Next]_vars
  PROVE  Settled'
<1> USE DEF Typed, TypeOK, Settled, Pending, Coming, OneDirectory, world
<1>1. ASSUME NEW c \in Call, Refuse(c) PROVE Settled'
  BY <1>1 DEF Refuse, IsNext, Refusal, pool
<1>2. ASSUME NEW c \in Call, NEW k \in Used, Issue(c, k) PROVE Settled'
  BY <1>2, PoolTurn DEF Issue, Queue, IsNext, Answered
<1>3. ASSUME NEW c \in Call, NEW t \in Thread, Enter(c, t) PROVE Settled'
  BY <1>3, PoolStart DEF Enter
<1>4. ASSUME NEW c \in Call, NEW t \in Thread, NEW a \in Answers, Return(c, t, a)
      PROVE  Settled'
  BY <1>4, PoolFinish DEF Return, Moves, Twice, Asks, Answers
<1>5. ASSUME NEW c \in Call, Callback(c) PROVE Settled'
  BY <1>5, PoolTurn DEF Callback, Settle, Fails, Answered, Answers
<1>6. CASE UNCHANGED vars
  BY <1>6 DEF vars, pool
<1>7. QED
  BY <1>1, <1>2, <1>3, <1>4, <1>5, <1>6 DEF Next

(* At first the client is where it believes itself to be.                  *)
LEMMA SettledInit == Init => Settled
BY DEF Init, Settled, Pending, OneDirectory

(* As long as setWorkingDirectory is awaited, every path of a call is      *)
(* resolved against the directory the client believed in when it called.   *)
THEOREM DirectoryIsOne ==
  ASSUME "chdirUnawaited" \notin Habits PROVE Spec => []OneDirectory
<1> DEFINE Inv == Typed /\ Answered /\ Settled
<1>1. Init => Inv
  BY TypeInit, AnsweredInit, SettledInit
<1>2. Inv /\ [Next]_vars => Inv'
  BY "chdirUnawaited" \notin Habits, TypeStep, AnsweredStep, SettledStep
<1>3. Inv => OneDirectory
  BY DEF Settled
<1>4. QED
  BY <1>1, <1>2, <1>3, PTL DEF Spec
===============================================================================
