------------------------------ MODULE LeaseRenewer ------------------------------
(***************************************************************************)
(* The process-wide LeaseRenewer of libhdfs3 and the thread it runs while  *)
(* files are open for writing.  StartRenew and StopRenew are called by the *)
(* pool threads that open and close output streams; they and the renewing  *)
(* thread share `maps' under a mutex, and `stop', an atomic, without it.   *)
(*                                                                         *)
(* A waiting thread is woken by its interval of 60 seconds.  The thread's  *)
(* exit at the end of the process, and running out of memory, are left     *)
(* out: otherwise only the thread itself sets `stop'.                      *)
(***************************************************************************)
EXTENDS Naturals, FiniteSets

CONSTANTS Stream,  \* bound: the output streams opened
          Client,  \* the file systems they belong to
          fs       \* the file system of each

Renewer == "renewer"

ASSUME LeaseAssumption == /\ fs \in [Stream -> Client]
                          /\ IsFiniteSet(Stream) /\ Renewer \notin Stream

VARIABLES mut,      \* who holds the mutex: a stream's caller, as {s}, {"renewer"} or {}
          maps,     \* the clients whose leases are renewed
          openedOutputStream,  \* of each client
          stop,
          pc,       \* where the renewing thread is, "none" if there was none yet
          todo,     \* the clients this round has yet to renew
          life,     \* of each stream; "joining" is inside StartRenew, at join()
          lapsed    \* clients dropped from maps because a renewal failed

vars == <<mut, maps, openedOutputStream, stop, pc, todo, life, lapsed>>

Open(c) == {s \in Stream : life[s] \in {"joining", "open"} /\ fs[s] = c}

(* The variables range over their types, and a counter counts the streams  *)
(* of its client that are open.                                            *)
TypeOK == /\ mut \in {{}, {Renewer}} \cup {{s} : s \in Stream}
          /\ {maps, todo, lapsed} \subseteq SUBSET Client
          /\ openedOutputStream \in [Client -> Nat]
          /\ \A c \in Client : openedOutputStream[c] = Cardinality(Open(c))
          /\ stop \in BOOLEAN
          /\ pc \in {"none", "born", "head", "waiting", "renewing", "leaving", "stopped", "gone"}
          /\ life \in [Stream -> {"new", "joining", "open", "closed"}]

Init == /\ mut = {} /\ maps = {} /\ todo = {} /\ lapsed = {}
        /\ openedOutputStream = [c \in Client |-> 0]
        /\ stop = TRUE /\ pc = "none"
        /\ life = [s \in Stream |-> "new"]

-------------------------------------------------------------------------------
(* A thread is needed when the last one has set `stop'.                    *)
NeedsThread_FirstClient == maps = {}

NeedsThread == stop

StartRenew(s) ==
  /\ life[s] = "new" /\ mut = {}
  /\ maps' = maps \cup {fs[s]}
  /\ openedOutputStream' = [openedOutputStream EXCEPT ![fs[s]] = @ + 1]
  /\ lapsed' = lapsed \ {fs[s]}
  /\ IF NeedsThread
     THEN mut' = {s} /\ life' = [life EXCEPT ![s] = "joining"]
     ELSE mut' = {}  /\ life' = [life EXCEPT ![s] = "open"]
  /\ UNCHANGED <<stop, pc, todo>>

(* StartRenew, still holding the mutex, has joined the old thread.         *)
Spawn(s) ==
  /\ life[s] = "joining" /\ pc \in {"none", "gone"}
  /\ stop' = FALSE /\ pc' = "born"
  /\ mut' = {} /\ life' = [life EXCEPT ![s] = "open"]
  /\ UNCHANGED <<maps, openedOutputStream, todo, lapsed>>

(* StopRenew drops a client with no stream left.                           *)
Unregister_LastOnly(n) == IF n = 1 THEN 0 ELSE n

Unregister(n) == IF n > 0 THEN n - 1 ELSE 0

NoneLeft_AnyStream(n) == TRUE

NoneLeft(n) == Unregister(n) = 0

StopRenew(s) ==
  LET n == openedOutputStream[fs[s]] IN
  /\ life[s] = "open" /\ mut = {}
  /\ openedOutputStream' = [openedOutputStream EXCEPT ![fs[s]] = Unregister(n)]
  /\ maps' = IF NoneLeft(n) THEN maps \ {fs[s]} ELSE maps
  /\ life' = [life EXCEPT ![s] = "closed"]
  /\ UNCHANGED <<mut, stop, pc, todo, lapsed>>

-------------------------------------------------------------------------------
(* The renewing thread.                                                    *)

Born == /\ pc = "born" /\ pc' = "head"
        /\ UNCHANGED <<mut, maps, openedOutputStream, stop, todo, life, lapsed>>

(* It takes the mutex and lets go of it in wait_for ...                    *)
Sleep == /\ pc = "head" /\ ~stop /\ mut = {}
         /\ pc' = "waiting"
         /\ UNCHANGED <<mut, maps, openedOutputStream, stop, todo, life, lapsed>>

(* ... wakes up holding it, and leaves if there is nothing to do.          *)
Wake == /\ pc = "waiting" /\ mut = {}
        /\ IF stop \/ maps = {}
           THEN pc' = "leaving" /\ UNCHANGED <<mut, todo>>
           ELSE pc' = "renewing" /\ mut' = {Renewer} /\ todo' = maps
        /\ UNCHANGED <<maps, openedOutputStream, stop, life, lapsed>>

(* The namenode is called with the mutex held.  FileSystemImpl::renewLease *)
(* turns a failure into FALSE, on which the client is dropped.             *)
Renew(c, renewed) ==
  /\ pc = "renewing" /\ c \in todo
  /\ renewed => openedOutputStream[c] > 0
  /\ todo' = todo \ {c}
  /\ IF renewed
     THEN UNCHANGED <<maps, lapsed>>
     ELSE maps' = maps \ {c} /\ lapsed' = lapsed \cup {c}
  /\ UNCHANGED <<mut, openedOutputStream, stop, pc, life>>

NextRound_AllRenewed == IF lapsed # {} THEN "leaving" ELSE "head"

NextRound == IF maps = {} THEN "leaving" ELSE "head"

EndRound == /\ pc = "renewing" /\ todo = {}
            /\ mut' = {} /\ pc' = NextRound
            /\ UNCHANGED <<maps, openedOutputStream, stop, todo, life, lapsed>>

(* `stop' is set after the mutex was released.                             *)
Leave == /\ pc = "leaving"
         /\ stop' = TRUE /\ pc' = "stopped"
         /\ UNCHANGED <<mut, maps, openedOutputStream, todo, life, lapsed>>

Return == /\ pc = "stopped" /\ pc' = "gone"
          /\ UNCHANGED <<mut, maps, openedOutputStream, stop, todo, life, lapsed>>

RenewerStep == \/ Born \/ Sleep \/ Wake \/ EndRound \/ Leave \/ Return
               \/ \E c \in Client, renewed \in BOOLEAN : Renew(c, renewed)

Next == \/ \E s \in Stream : StartRenew(s) \/ Spawn(s) \/ StopRenew(s)
        \/ RenewerStep

(* The thread runs on, and a join() whose thread has gone returns.  Files  *)
(* need not be opened or closed.                                           *)
Fairness == WF_vars(RenewerStep) /\ \A s \in Stream : WF_vars(Spawn(s))

Spec == Init /\ [][Next]_vars /\ Fairness

-------------------------------------------------------------------------------
(* Properties.                                                             *)

(* A client that has a file open for writing is registered for renewal,    *)
(* whichever of its files were closed before, unless a renewal failed; and *)
(* one that has none is not.                                               *)
Registered == \A c \in Client : /\ Open(c) # {} => c \in maps \cup lapsed
                                /\ c \in maps => Open(c) # {}

(* StartRenew joins the old thread with the mutex held; a thread it joins  *)
(* never needs that mutex again, so that neither waits for the other.      *)
JoinReturns == mut \subseteq Stream /\ mut # {} => pc \in {"none", "stopped", "gone"}

(* While the thread has not decided to leave, it comes to every registered *)
(* client in the end.                                                      *)
Watched(c) == c \in maps /\ pc \in {"born", "head", "waiting", "renewing"}
RenewsWatched == \A c \in Client : Watched(c) ~> c \in todo \/ c \notin maps

-------------------------------------------------------------------------------
(* "A client tells the NameNode that it is still alive by periodically     *)
(* calling renewLease()": the lease of every registered client is renewed  *)
(* in the end.                                                             *)
RenewsPeriodically == \A c \in Client : c \in maps ~> c \in todo \/ c \notin maps
===============================================================================
