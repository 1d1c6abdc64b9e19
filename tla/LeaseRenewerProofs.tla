--------------------------- MODULE LeaseRenewerProofs ---------------------------
(* Theorems about LeaseRenewer, for every number of streams and clients.   *)
EXTENDS LeaseRenewer, FiniteSetTheorems, TLAPS

-------------------------------------------------------------------------------
(* The thread and the mutex.                                               *)

(* `stop' is true exactly while no thread runs that may use the mutex, and *)
(* a caller keeps the mutex only if it found `stop' true.                  *)
Handover == /\ stop <=> pc \in {"none", "stopped", "gone"}
            /\ mut \in {{s} : s \in Stream} => stop
            /\ mut = {Renewer} <=> pc = "renewing"
            /\ mut \in {{}, {Renewer}} \cup {{s} : s \in Stream}

(* Handover holds at first ...                                             *)
LEMMA HandoverInit == Init => Handover
BY LeaseAssumption DEF Init, Handover

(* ... and every step of the thread and of the streams preserves it.       *)
LEMMA HandoverStep == Handover /\ [Next]_vars => Handover'
<1> SUFFICES ASSUME Handover, [Next]_vars PROVE Handover'
  OBVIOUS
<1> USE LeaseAssumption DEF Handover
<1>1. ASSUME NEW s \in Stream, StartRenew(s) PROVE Handover'
  BY <1>1 DEF StartRenew, NeedsThread
<1>2. ASSUME NEW s \in Stream, Spawn(s) PROVE Handover'
  BY <1>2 DEF Spawn
<1>3. ASSUME NEW s \in Stream, StopRenew(s) PROVE Handover'
  BY <1>3 DEF StopRenew
<1>4. CASE Born \/ Sleep \/ Leave \/ Return
  BY <1>4 DEF Born, Sleep, Leave, Return
<1>5. CASE Wake
  BY <1>5 DEF Wake
<1>6. CASE EndRound
  BY <1>6 DEF EndRound, NextRound
<1>7. ASSUME NEW c \in Client, NEW renewed \in BOOLEAN, Renew(c, renewed) PROVE Handover'
  BY <1>7 DEF Renew
<1>8. CASE UNCHANGED vars
  BY <1>8 DEF vars
<1>9. QED
  BY <1>1, <1>2, <1>3, <1>4, <1>5, <1>6, <1>7, <1>8 DEF Next, RenewerStep

(* A StartRenew that joins the old thread while it holds the mutex never   *)
(* waits for a thread that waits for the mutex.                            *)
THEOREM JoinSafe == Spec => []JoinReturns
<1>1. Handover => JoinReturns
  BY LeaseAssumption DEF Handover, JoinReturns
<1>2. QED
  BY <1>1, HandoverInit, HandoverStep, PTL DEF Spec

-------------------------------------------------------------------------------
(* The count of a client's streams and its registration.                   *)

(* openedOutputStream counts the open streams of a client, which is what   *)
(* StopRenew goes by when it drops the client.                             *)
Counted == /\ life \in [Stream -> {"new", "joining", "open", "closed"}]
           /\ openedOutputStream \in [Client -> Nat]
           /\ \A c \in Client : openedOutputStream[c] = Cardinality(Open(c))
           /\ Registered

(* The streams of a client that are open are finitely many.                *)
LEMMA OpenFinite ==
  ASSUME NEW c \in Client
  PROVE  IsFiniteSet(Open(c)) /\ Cardinality(Open(c)) \in Nat
BY LeaseAssumption, FS_Subset, FS_CardinalityType DEF Open

(* No stream is open at first.                                             *)
LEMMA CountedInit == Init => Counted
<1> SUFFICES ASSUME Init PROVE Counted
  OBVIOUS
<1>1. \A c \in Client : Open(c) = {}
  BY DEF Init, Open
<1>2. QED
  BY <1>1, FS_EmptySet DEF Init, Counted, Registered

(* A step that opens no stream and closes none, and drops only clients     *)
(* that lapse, keeps the count and the registration.                       *)
LEMMA CountedKept ==
  ASSUME Counted, openedOutputStream' = openedOutputStream,
         life' \in [Stream -> {"new", "joining", "open", "closed"}],
         \A c \in Client : Open(c)' = Open(c),
         maps' \subseteq maps, maps \cup lapsed \subseteq maps' \cup lapsed'
  PROVE  Counted'
BY DEF Counted, Registered

(* StartRenew counts the stream it opens and registers its client.         *)
LEMMA CountedStart ==
  ASSUME Counted, NEW s \in Stream, StartRenew(s)
  PROVE  Counted'
<1> DEFINE a == fs[s]
<1>1. a \in Client
  BY LeaseAssumption
<1>2. /\ Open(a)' = Open(a) \cup {s}
      /\ s \notin Open(a)
      /\ \A c \in Client \ {a} : Open(c)' = Open(c)
  BY DEF StartRenew, Open, Counted
<1>3. Cardinality(Open(a)') = Cardinality(Open(a)) + 1
  BY <1>1, <1>2, OpenFinite, FS_AddElement
<1>4. /\ life' \in [Stream -> {"new", "joining", "open", "closed"}]
      /\ openedOutputStream' = [openedOutputStream EXCEPT ![a] = @ + 1]
      /\ maps' = maps \cup {a}
      /\ lapsed' = lapsed \ {a}
  BY DEF StartRenew, Counted
<1>5. openedOutputStream' \in [Client -> Nat]
  BY <1>1, <1>4 DEF Counted
<1>6. \A c \in Client : openedOutputStream'[c] = Cardinality(Open(c)')
  BY <1>1, <1>2, <1>3, <1>4 DEF Counted
<1>7. Registered'
  BY <1>1, <1>2, <1>4 DEF Counted, Registered
<1>8. QED
  BY <1>4, <1>5, <1>6, <1>7 DEF Counted

(* StopRenew drops the client exactly when it closes its last stream.      *)
LEMMA CountedStop ==
  ASSUME Counted, NEW s \in Stream, StopRenew(s)
  PROVE  Counted'
<1> DEFINE a == fs[s]
<1> DEFINE n == openedOutputStream[a]
<1>1. a \in Client /\ n \in Nat /\ n = Cardinality(Open(a))
  BY LeaseAssumption DEF Counted
<1>2. /\ Open(a)' = Open(a) \ {s}
      /\ s \in Open(a)
      /\ \A c \in Client \ {a} : Open(c)' = Open(c)
  BY DEF StopRenew, Open, Counted
<1>3. n > 0 /\ Cardinality(Open(a)') = n - 1
  BY <1>1, <1>2, OpenFinite, FS_RemoveElement, FS_EmptySet
<1>4. n - 1 = 0 <=> Open(a)' = {}
  <2>1. IsFiniteSet(Open(a)')
    BY <1>1, <1>2, OpenFinite, FS_RemoveElement
  <2>2. QED
    BY <1>3, <2>1, FS_EmptySet
<1>5. Unregister(n) = n - 1
  BY <1>1, <1>3 DEF Unregister
<1>6. /\ life' \in [Stream -> {"new", "joining", "open", "closed"}]
      /\ openedOutputStream' = [openedOutputStream EXCEPT ![a] = n - 1]
      /\ maps' = IF n - 1 = 0 THEN maps \ {a} ELSE maps
      /\ lapsed' = lapsed
  BY <1>5 DEF StopRenew, Counted, NoneLeft
<1>7. openedOutputStream' \in [Client -> Nat]
  BY <1>1, <1>3, <1>6 DEF Counted
<1>8. \A c \in Client : openedOutputStream'[c] = Cardinality(Open(c)')
  BY <1>1, <1>2, <1>3, <1>6 DEF Counted
<1>9. Registered'
  BY <1>1, <1>2, <1>4, <1>6 DEF Counted, Registered
<1>10. QED
  BY <1>6, <1>7, <1>8, <1>9 DEF Counted

(* Every step keeps the count and the registration.                        *)
LEMMA CountedStep == Counted /\ [Next]_vars => Counted'
<1> SUFFICES ASSUME Counted, [Next]_vars PROVE Counted'
  OBVIOUS
<1>1. ASSUME NEW s \in Stream, Spawn(s) PROVE Counted'
  BY <1>1, CountedKept DEF Spawn, Open, Counted
<1>2. CASE UNCHANGED <<maps, openedOutputStream, life, lapsed>>
  BY <1>2, CountedKept DEF Open, Counted
<1>3. ASSUME NEW c \in Client, NEW renewed \in BOOLEAN, Renew(c, renewed) PROVE Counted'
  BY <1>3, CountedKept DEF Renew, Open, Counted
<1>4. QED
  BY <1>1, <1>2, <1>3, CountedStart, CountedStop
  DEF Next, RenewerStep, Born, Sleep, Wake, EndRound, Leave, Return, vars

(* A file system with a file open for writing stays registered until a     *)
(* renewal of its lease fails, and one without is not registered.          *)
THEOREM RegisteredAlways == Spec => []Registered
<1>1. Counted => Registered
  BY DEF Counted
<1>2. QED
  BY <1>1, CountedInit, CountedStep, PTL DEF Spec

-------------------------------------------------------------------------------
(* The sets of clients and the thread's place in its program.              *)
Ranges == /\ {maps, todo, lapsed} \subseteq SUBSET Client
          /\ stop \in BOOLEAN
          /\ pc \in {"none", "born", "head", "waiting", "renewing", "leaving", "stopped", "gone"}

(* Every step keeps them in their ranges.                                  *)
LEMMA RangesStep == Ranges /\ [Next]_vars => Ranges'
<1> SUFFICES ASSUME Ranges, [Next]_vars PROVE Ranges'
  OBVIOUS
<1> USE LeaseAssumption DEF Ranges
<1>1. ASSUME NEW s \in Stream, StartRenew(s) \/ Spawn(s) \/ StopRenew(s) PROVE Ranges'
  <2>1. fs[s] \in Client
    OBVIOUS
  <2>2. CASE StartRenew(s)
    BY <2>1, <2>2 DEF StartRenew
  <2>3. CASE Spawn(s)
    BY <2>3 DEF Spawn
  <2>4. CASE StopRenew(s)
    BY <2>4 DEF StopRenew
  <2>5. QED
    BY <1>1, <2>2, <2>3, <2>4
<1>2. CASE Born \/ Sleep \/ EndRound \/ Leave \/ Return
  BY <1>2 DEF Born, Sleep, EndRound, NextRound, Leave, Return
<1>3. CASE Wake
  BY <1>3 DEF Wake
<1>4. ASSUME NEW c \in Client, NEW renewed \in BOOLEAN, Renew(c, renewed) PROVE Ranges'
  BY <1>4 DEF Renew
<1>5. CASE UNCHANGED vars
  BY <1>5 DEF vars
<1>6. QED
  BY <1>1, <1>2, <1>3, <1>4, <1>5 DEF Next, RenewerStep

(* The LeaseRenewer's variables range over their types, and its counters   *)
(* count, whatever the streams do.                                         *)
THEOREM TypeCorrect == Spec => []TypeOK
<1> DEFINE Inv == Handover /\ Counted /\ Ranges
<1>1. Init => Inv
  BY HandoverInit, CountedInit DEF Init, Ranges
<1>2. Inv /\ [Next]_vars => Inv'
  BY HandoverStep, CountedStep, RangesStep
<1>3. Inv => TypeOK
  BY DEF Handover, Counted, Ranges, TypeOK
<1>4. QED
  BY <1>1, <1>2, <1>3, PTL DEF Spec
===============================================================================
