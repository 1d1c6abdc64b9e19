--------------------------- MODULE OutputStreamProofs ---------------------------
(* Theorems about OutputStream and the Pipeline and Cluster below it: what *)
(* was acknowledged is kept, and the assertions of the code hold, through  *)
(* any number of faults and recoveries.                                    *)
EXTENDS OutputStream, SequenceTheorems, TLAPS

-------------------------------------------------------------------------------
(* The thread's list of steps: which may follow which, and which ends the  *)
(* list of a method.                                                       *)
Steps == {"alloc", "push", "spill", "write", "poll", "flush", "last", "fsync", "complete", "throw"}

Follows(s, t) ==
  \/ s = "alloc" /\ t = "push"
  \/ s = "push"  /\ t = "spill"
  \/ s = "spill" /\ t = "write"
  \/ s = "write" /\ t = "poll"
  \/ s = "poll"  /\ t = "flush"
  \/ s = "flush" /\ t \in {"last", "fsync"}
  \/ s = "last"  /\ t = "push"
  \/ s = "fsync" /\ t = "complete"

EndOf(method, t) ==
  \/ method # "none" /\ t = "throw"
  \/ method = "append" /\ t \in {"poll", "fsync"}
  \/ method \in {"flush", "sync"} /\ t = "flush"
  \/ method = "close" /\ t = "complete"

Listing(q, method) ==
  /\ q \in Seq(Steps)
  /\ \A i \in 1 .. Len(q) - 1 : Follows(q[i], q[i + 1])
  /\ \A i, j \in 1 .. Len(q) : q[i] = "last" /\ q[j] = "last" => i = j
  /\ (\E i \in 1 .. Len(q) : q[i] = "last") => q[Len(q)] \in {"fsync", "complete"}
  /\ q # <<>> => EndOf(method, q[Len(q)])

Listed == Listing(todo, call)

(* The types of the variables, but for the bounds of some of them.         *)

KindsCluster ==
  /\ up \in SUBSET Datanode /\ replica \in [Datanode -> [len : Nat, stamp : Nat]]
  /\ stamp \in Nat /\ issued \in Nat /\ length \in Nat
  /\ file \in {"none", "construction", "complete"}
  /\ faults \in 0 .. MaxFaults

KindsSetup ==
  /\ link \in {"none", "create", "abandon", "up", "extend", "connect", "update", "resend"}
  /\ nodes \in Seq(Datanode) /\ excluded \in SUBSET Datanode
  /\ got \in [DOMAIN nodes -> Nat]
  /\ retry \in Nat /\ (link \in {"extend", "connect"} => retry > 0)
  /\ closing \in BOOLEAN

KindsQueue ==
  /\ held \in Packet /\ packets \in Seq(Packet) /\ wire \in Seq(Packet)
  /\ acked \in Nat /\ sent \in Nat

KindsLocal ==
  /\ phase \in {"new", "open", "closed", "failed"}
  /\ call \in Methods \cup {"none"}
  /\ passed \in 0 .. Limit
  /\ cursor \in Nat /\ written \in Nat /\ lastFlushed \in Nat /\ seqno \in Nat
  /\ position \in 0 .. Chunk - 1
  /\ lastError \in BOOLEAN /\ told \in BOOLEAN

Kinds == Listed /\ KindsCluster /\ KindsSetup /\ KindsQueue /\ KindsLocal

(* One unit more in the chunk, or none: it begins anew.                    *)
LEMMA NextPosition ==
  ASSUME NEW n \in 0 .. Chunk - 1
  PROVE  (n + 1) % Chunk = IF n + 1 = Chunk THEN 0 ELSE n + 1
BY OutputAssumption

(* What is left of a sequence without one of its elements.                 *)
LEMMA Removed ==
  ASSUME NEW S, NEW q \in Seq(S), NEW i \in 1 .. Len(q)
  PROVE  /\ RemoveAt(q, i) \in Seq(S)
         /\ Len(RemoveAt(q, i)) = Len(q) - 1
         /\ \A j \in 1 .. Len(q) - 1 : RemoveAt(q, i)[j] = IF j < i THEN q[j] ELSE q[j + 1]
<1> DEFINE a == SubSeq(q, 1, i - 1)
           b == SubSeq(q, i + 1, Len(q))
<1>1. a \in Seq(S) /\ Len(a) = i - 1 /\ \A j \in 1 .. i - 1 : a[j] = q[j]
  OBVIOUS
<1>2. b \in Seq(S) /\ Len(b) = Len(q) - i /\ \A j \in 1 .. Len(q) - i : b[j] = q[i + j]
  <2>1. b \in Seq(S) /\ Len(b) = Len(q) - i
    OBVIOUS
  <2>2. ASSUME NEW j \in 1 .. Len(q) - i PROVE b[j] = q[i + j]
    OBVIOUS
  <2>3. QED
    BY <2>1, <2>2
<1> HIDE DEF a, b
<1>3. /\ a \o b \in Seq(S) /\ Len(a \o b) = Len(a) + Len(b)
      /\ \A j \in 1 .. Len(a) + Len(b) : (a \o b)[j] = IF j <= Len(a) THEN a[j] ELSE b[j - Len(a)]
  BY <1>1, <1>2, ConcatProperties
<1>4. Len(a) + Len(b) = Len(q) - 1
  BY <1>1, <1>2
<1>5. ASSUME NEW j \in 1 .. Len(q) - 1
      PROVE  (a \o b)[j] = IF j < i THEN q[j] ELSE q[j + 1]
  <2>1. (a \o b)[j] = IF j <= Len(a) THEN a[j] ELSE b[j - Len(a)]
    BY <1>3, <1>4
  <2>2. CASE j < i
    BY <1>1, <2>1, <2>2
  <2>3. CASE j >= i
    <3>1. j - Len(a) \in 1 .. Len(q) - i /\ i + (j - Len(a)) = j + 1 /\ ~(j <= Len(a))
      BY <1>1, <2>3
    <3>2. b[j - Len(a)] = q[i + (j - Len(a))]
      BY <1>2, <3>1
    <3>3. QED
      BY <2>1, <2>3, <3>1, <3>2
  <2>4. j < i \/ j >= i
    OBVIOUS
  <2>5. QED
    BY <2>2, <2>3, <2>4
<1>6. RemoveAt(q, i) = a \o b
  BY DEF RemoveAt, a, b
<1>7. QED
  BY <1>3, <1>4, <1>5, <1>6

(* The datanodes offered.                                                  *)
LEMMA Offered ==
  ASSUME NEW free, NEW n \in Nat, NEW s \in Offers(free, n)
  PROVE  s \in Seq(free) /\ Len(s) <= n
BY DEF Offers

-------------------------------------------------------------------------------
(* The types.                                                              *)

(* The lists there are, and what is left of one.                           *)
LEMMA ListTail ==
  ASSUME NEW method, NEW q, Listing(q, method), q # <<>>
  PROVE  /\ Listing(Tail(q), method)
         /\ Head(q) \notin {"poll", "flush", "fsync", "complete", "throw"} => Tail(q) # <<>>
         /\ Tail(q) # <<>> => Follows(Head(q), Head(Tail(q)))
<1> DEFINE t == Tail(q)
           n == Len(q)
<1>1. /\ q \in Seq(Steps) /\ n \in Nat \ {0} /\ Head(q) = q[1]
      /\ t \in Seq(Steps) /\ Len(t) = n - 1 /\ \A i \in 1 .. n - 1 : t[i] = q[i + 1]
      /\ t # <<>> => n > 1 /\ Head(t) = q[2]
      /\ t = <<>> => n = 1
  <2>1. q \in Seq(Steps) /\ n \in Nat \ {0} /\ Head(q) = q[1]
    BY DEF Listing
  <2>2. t \in Seq(Steps) /\ Len(t) = n - 1 /\ \A i \in 1 .. n - 1 : t[i] = q[i + 1]
    BY <2>1, HeadTailProperties
  <2> HIDE DEF t
  <2>3. QED
    BY <2>1, <2>2
<1> HIDE DEF t, n
<1>2. /\ \A i \in 1 .. n - 1 : Follows(q[i], q[i + 1])
      /\ \A i, j \in 1 .. n : q[i] = "last" /\ q[j] = "last" => i = j
      /\ (\E i \in 1 .. n : q[i] = "last") => q[n] \in {"fsync", "complete"}
      /\ EndOf(method, q[n])
  BY DEF Listing, n
<1>3. Listing(t, method)
  <2>1. ASSUME NEW i \in 1 .. Len(t) - 1 PROVE Follows(t[i], t[i + 1])
    <3>1. i + 1 \in 1 .. n - 1 /\ i \in 1 .. n - 1
      BY <1>1
    <3>2. QED
      BY <1>1, <1>2, <3>1
  <2>2. ASSUME NEW i \in 1 .. Len(t), NEW j \in 1 .. Len(t), t[i] = "last", t[j] = "last" PROVE i = j
    <3>1. i + 1 \in 1 .. n /\ j + 1 \in 1 .. n /\ q[i + 1] = "last" /\ q[j + 1] = "last"
      BY <1>1, <2>2
    <3>2. i + 1 = j + 1
      BY <1>2, <3>1
    <3>3. QED
      BY <3>2
  <2>3. ASSUME NEW i \in 1 .. Len(t), t[i] = "last" PROVE t[Len(t)] \in {"fsync", "complete"}
    <3>1. i + 1 \in 1 .. n /\ q[i + 1] = "last" /\ t[Len(t)] = q[n]
      BY <1>1, <2>3
    <3>2. QED
      BY <1>2, <3>1
  <2>4. t # <<>> => t[Len(t)] = q[n]
    BY <1>1
  <2>5. QED
    BY <1>1, <1>2, <2>1, <2>2, <2>3, <2>4 DEF Listing
<1>4. Head(q) \notin {"poll", "flush", "fsync", "complete", "throw"} => t # <<>>
  BY <1>1, <1>2 DEF EndOf
<1>5. t # <<>> => Follows(Head(q), Head(t))
  BY <1>1, <1>2
<1>6. QED
  BY <1>3, <1>4, <1>5 DEF t

(* What is left when a method gives up, and when it is over, are lists.    *)
LEMMA ListThrown ==
  ASSUME NEW method
  PROVE  Listing(<<>>, method) /\ (method # "none" => Listing(<<"throw">>, method))
<1>1. ASSUME NEW q, q = <<"throw">> PROVE method # "none" => Listing(q, method)
  BY <1>1 DEF Listing, Steps, EndOf
<1>2. QED
  BY <1>1 DEF Listing

(* A list that goes on.                                                    *)
LEMMA ListConcat ==
  ASSUME NEW method, NEW a \in Seq(Steps), NEW b, Listing(b, method), a # <<>>, b # <<>>,
         \A i \in 1 .. Len(a) - 1 : Follows(a[i], a[i + 1]),
         \A i \in 1 .. Len(a) : a[i] # "last",
         Follows(a[Len(a)], b[1])
  PROVE  Listing(a \o b, method)
<1> DEFINE c == a \o b
           m == Len(a)
           n == Len(b)
<1>1. m \in Nat \ {0} /\ b \in Seq(Steps) /\ n \in Nat \ {0}
  BY DEF Listing
<1>2. c \in Seq(Steps) /\ Len(c) = m + n /\ \A i \in 1 .. m + n : c[i] = IF i <= m THEN a[i] ELSE b[i - m]
  BY <1>1, ConcatProperties
<1>3. /\ \A i \in 1 .. n - 1 : Follows(b[i], b[i + 1])
      /\ \A i, j \in 1 .. n : b[i] = "last" /\ b[j] = "last" => i = j
      /\ (\E i \in 1 .. n : b[i] = "last") => b[n] \in {"fsync", "complete"}
      /\ EndOf(method, b[n])
  BY DEF Listing
<1>4. /\ \A i \in 1 .. m - 1 : Follows(a[i], a[i + 1])
      /\ \A i \in 1 .. m : a[i] # "last"
      /\ Follows(a[m], b[1])
  OBVIOUS
<1> HIDE DEF c, m, n
<1>5. ASSUME NEW i \in 1 .. Len(c) - 1 PROVE Follows(c[i], c[i + 1])
  <2>1. CASE i < m
    <3>1. i \in 1 .. m - 1 /\ c[i] = a[i] /\ c[i + 1] = a[i + 1]
      BY <1>1, <1>2, <2>1
    <3>2. QED
      BY <1>4, <3>1
  <2>2. CASE i = m
    <3>1. c[i] = a[m] /\ c[i + 1] = b[1]
      BY <1>1, <1>2, <2>2
    <3>2. QED
      BY <1>4, <3>1
  <2>3. CASE i > m
    <3>1. i - m \in 1 .. n - 1 /\ c[i] = b[i - m] /\ c[i + 1] = b[(i - m) + 1]
      BY <1>1, <1>2, <2>3
    <3>2. QED
      BY <1>3, <3>1
  <2>4. QED
    BY <1>1, <2>1, <2>2, <2>3
<1>6. ASSUME NEW i \in 1 .. Len(c), c[i] = "last" PROVE i - m \in 1 .. n /\ b[i - m] = "last"
  BY <1>1, <1>2, <1>4, <1>6
<1>7. ASSUME NEW i \in 1 .. Len(c), NEW j \in 1 .. Len(c), c[i] = "last", c[j] = "last" PROVE i = j
  <2>1. i - m = j - m
    BY <1>3, <1>6, <1>7
  <2>2. QED
    BY <1>1, <1>2, <2>1
<1>8. c[Len(c)] = b[n] /\ c # <<>>
  BY <1>1, <1>2
<1>9. QED
  BY <1>2, <1>3, <1>5, <1>6, <1>7, <1>8 DEF Listing, c

(* A packet is sent.                                                       *)
LEMMA Sends ==
  /\ SendSteps \in Seq(Steps) /\ SendSteps # <<>>
  /\ \A i \in 1 .. Len(SendSteps) - 1 : Follows(SendSteps[i], SendSteps[i + 1])
  /\ \A i \in 1 .. Len(SendSteps) : SendSteps[i] # "last"
  /\ SendSteps[Len(SendSteps)] = "poll"
  /\ Head(SendSteps) = IF link = "none" THEN "alloc" ELSE "push"
<1> DEFINE s == <<"push", "spill", "write", "poll">>
<1>1. s \in Seq(Steps) /\ <<"alloc">> \in Seq(Steps) /\ <<>> \in Seq(Steps)
  BY DEF Steps
<1>2. CASE link = "none"
  <2> DEFINE c == <<"alloc">> \o s
  <2>1. c \in Seq(Steps) /\ Len(c) = 5 /\ \A i \in 1 .. 5 : c[i] = IF i <= 1 THEN <<"alloc">>[i] ELSE s[i - 1]
    BY <1>1, ConcatProperties
  <2>2. c[1] = "alloc" /\ c[2] = "push" /\ c[3] = "spill" /\ c[4] = "write" /\ c[5] = "poll"
    BY <2>1
  <2> HIDE DEF c
  <2>3. SendSteps = c
    BY <1>2 DEF SendSteps, c
  <2>4. ASSUME NEW i \in 1 .. 4 PROVE Follows(c[i], c[i + 1]) /\ c[i] # "last"
    <3>1. i = 1 \/ i = 2 \/ i = 3 \/ i = 4
      OBVIOUS
    <3>2. QED
      BY <2>2, <3>1 DEF Follows
  <2>5. ASSUME NEW i \in 1 .. 5 PROVE c[i] # "last"
    <3>1. i \in 1 .. 4 \/ i = 5
      OBVIOUS
    <3>2. QED
      BY <2>2, <2>4, <3>1
  <2>6. c # <<>> /\ Head(c) = "alloc" /\ c[Len(c)] = "poll" /\ Len(c) - 1 = 4
    BY <2>1, <2>2
  <2>7. QED
    BY <1>2, <2>1, <2>3, <2>4, <2>5, <2>6
<1>3. CASE link # "none"
  <2>1. SendSteps = s
    BY <1>3 DEF SendSteps
  <2>2. QED
    BY <1>1, <1>3, <2>1 DEF Follows
<1>4. QED
  BY <1>2, <1>3

(* A pipeline is closed.                                                   *)
LEMMA Closes ==
  /\ CloseSteps \in Seq(Steps) /\ CloseSteps # <<>> /\ CloseSteps[1] = "flush"
  /\ Listing(CloseSteps, "append")
  /\ CloseSteps \o <<"complete">> # <<>> /\ (CloseSteps \o <<"complete">>)[1] = "flush"
  /\ Listing(CloseSteps \o <<"complete">>, "close")
<1>1. ASSUME NEW q, q = CloseSteps PROVE q \in Seq(Steps) /\ q # <<>> /\ q[1] = "flush" /\ Listing(q, "append")
  BY <1>1 DEF CloseSteps, Listing, Steps, Follows, EndOf
<1> DEFINE c == CloseSteps \o <<"complete">>
<1>2. /\ c \in Seq(Steps) /\ Len(c) = 9
      /\ \A i \in 1 .. 9 : c[i] = IF i <= 8 THEN CloseSteps[i] ELSE <<"complete">>[i - 8]
  <2>1. Len(CloseSteps) = 8 /\ <<"complete">> \in Seq(Steps) /\ Len(<<"complete">>) = 1
    BY DEF CloseSteps, Steps
  <2>2. CloseSteps \in Seq(Steps)
    BY <1>1
  <2> DEFINE e == <<"complete">>
             n == Len(CloseSteps)
             m == Len(e)
  <2>3. e \in Seq(Steps) /\ n = 8 /\ m = 1
    BY <2>1
  <2> HIDE DEF e
  <2>4. /\ CloseSteps \o e \in Seq(Steps) /\ Len(CloseSteps \o e) = n + m
        /\ \A i \in 1 .. n + m : (CloseSteps \o e)[i] = IF i <= n THEN CloseSteps[i] ELSE e[i - n]
    BY <2>2, <2>3, ConcatProperties
  <2> HIDE DEF n, m
  <2>5. n + m = 9
    BY <2>3
  <2>6. QED
    BY <2>3, <2>4, <2>5 DEF e
<1>3. /\ c[1] = "flush" /\ c[2] = "last" /\ c[3] = "push" /\ c[4] = "spill" /\ c[5] = "write"
      /\ c[6] = "poll" /\ c[7] = "flush" /\ c[8] = "fsync" /\ c[9] = "complete"
  BY <1>2 DEF CloseSteps
<1> HIDE DEF c
<1>4. ASSUME NEW i \in 1 .. 8 PROVE Follows(c[i], c[i + 1]) /\ (c[i] = "last" => i = 2)
  <2>1. i = 1 \/ i = 2 \/ i = 3 \/ i = 4 \/ i = 5 \/ i = 6 \/ i = 7 \/ i = 8
    OBVIOUS
  <2>2. QED
    BY <1>3, <2>1 DEF Follows
<1>5. ASSUME NEW i \in 1 .. 9, c[i] = "last" PROVE i = 2
  <2>1. i \in 1 .. 8 \/ i = 9
    OBVIOUS
  <2>2. QED
    BY <1>3, <1>4, <1>5, <2>1
<1>6. Len(c) - 1 = 8 /\ c # <<>> /\ c[Len(c)] = "complete" /\ EndOf("close", "complete")
  BY <1>2, <1>3 DEF EndOf
<1>7. Listing(c, "close")
  BY <1>2, <1>4, <1>5, <1>6 DEF Listing
<1>8. QED
  BY <1>1, <1>3, <1>6, <1>7 DEF c

(* The steps append() begins with make a list.                             *)
LEMMA ListAppend ==
  /\ Listing(SendSteps \o <<>>, "append")
  /\ Listing(SendSteps \o CloseSteps, "append")
<1>1. SendSteps \o <<>> = SendSteps
  BY Sends, ConcatEmptySeq
<1>2. Listing(SendSteps, "append")
  BY Sends DEF Listing, EndOf
<1>3. Follows(SendSteps[Len(SendSteps)], CloseSteps[1])
  BY Sends, Closes DEF Follows
<1>4. Listing(SendSteps \o CloseSteps, "append")
  BY <1>3, Sends, Closes, ListConcat
<1>5. QED
  BY <1>1, <1>2, <1>4

(* So do those of flush() and sync(),                                      *)
LEMMA ListFlush ==
  ASSUME NEW p, NEW method \in {"flush", "sync"}
  PROVE  Listing(FlushSteps(p), method)
<1>1. ASSUME NEW q, q = <<"flush">> PROVE Listing(q, method) /\ q # <<>> /\ q[1] = "flush" /\ q \in Seq(Steps)
  BY <1>1 DEF Listing, Steps, EndOf
<1>2. CASE p # None
  <2>1. Follows(SendSteps[Len(SendSteps)], <<"flush">>[1])
    BY Sends DEF Follows
  <2>2. Listing(SendSteps \o <<"flush">>, method)
    BY <1>1, <2>1, Sends, ListConcat
  <2>3. QED
    BY <1>2, <2>2 DEF FlushSteps
<1>3. CASE p = None
  <2>1. FlushSteps(p) \in {<<"flush">>, <<>>}
    BY <1>1, <1>3, ConcatEmptySeq DEF FlushSteps
  <2>2. QED
    BY <1>1, <2>1, ListThrown
<1>4. QED
  BY <1>2, <1>3

(* and those of close(), whatever is left to send.                         *)
LEMMA ListClose ==
  /\ Listing((SendSteps \o CloseSteps) \o <<"complete">>, "close")
  /\ Listing((<<>> \o CloseSteps) \o <<"complete">>, "close")
  /\ Listing((<<>> \o <<>>) \o <<"complete">>, "close")
<1>1. ASSUME NEW q, q = <<"complete">> PROVE Listing(q, "close") /\ q \in Seq(Steps)
  BY <1>1 DEF Listing, Steps, EndOf
<1>2. Listing((SendSteps \o CloseSteps) \o <<"complete">>, "close")
  <2>1. (SendSteps \o CloseSteps) \o <<"complete">> = SendSteps \o (CloseSteps \o <<"complete">>)
    <3>1. SendSteps \in Seq(Steps) /\ CloseSteps \in Seq(Steps) /\ <<"complete">> \in Seq(Steps)
      BY <1>1, Sends, Closes
    <3>2. QED
      BY <3>1, ConcatAssociative
  <2>2. Follows(SendSteps[Len(SendSteps)], (CloseSteps \o <<"complete">>)[1])
    BY Sends, Closes DEF Follows
  <2> DEFINE c == CloseSteps \o <<"complete">>
  <2>3. Listing(c, "close") /\ c # <<>> /\ Follows(SendSteps[Len(SendSteps)], c[1])
    BY <2>2, Closes
  <2> HIDE DEF c
  <2>4. Listing(SendSteps \o c, "close")
    BY <2>3, Sends, ListConcat
  <2>5. QED
    BY <2>1, <2>4 DEF c
<1>3. Listing((<<>> \o CloseSteps) \o <<"complete">>, "close")
  <2>1. <<>> \o CloseSteps = CloseSteps
    BY Closes, ConcatEmptySeq
  <2>2. QED
    BY <2>1, Closes
<1>4. Listing((<<>> \o <<>>) \o <<"complete">>, "close")
  <2>1. (<<>> \o <<>>) \o <<"complete">> = <<"complete">>
    BY <1>1, ConcatEmptySeq
  <2>2. QED
    BY <1>1, <2>1
<1>5. QED
  BY <1>2, <1>3, <1>4

(* A datanode is dropped.                                                  *)
LEMMA Dropped ==
  ASSUME KindsSetup, NEW chain \in Seq(Datanode), NEW i \in DOMAIN chain, NEW out \in SUBSET Datanode,
         DropNode(chain, i, out)
  PROVE  /\ nodes' = RemoveAt(chain, i) /\ nodes' \in Seq(Datanode)
         /\ ToSet(nodes') \subseteq ToSet(chain)
         /\ excluded' \in SUBSET Datanode
         /\ wire' = <<>> /\ got' = [j \in DOMAIN nodes' |-> 0] /\ got' \in [DOMAIN nodes' -> Nat]
         /\ \/ nodes' = <<>> /\ Throw /\ link' = link
            \/ /\ nodes' # <<>> /\ link' \in {"extend", "connect"}
               /\ todo' = IF Thread("write") THEN Tail(todo) ELSE todo
<1>1. i \in 1 .. Len(chain) /\ chain[i] \in Datanode
  OBVIOUS
<1>2. /\ RemoveAt(chain, i) \in Seq(Datanode) /\ Len(RemoveAt(chain, i)) = Len(chain) - 1
      /\ \A j \in 1 .. Len(chain) - 1 : RemoveAt(chain, i)[j] = IF j < i THEN chain[j] ELSE chain[j + 1]
  BY <1>1, Removed
<1>3. nodes' = RemoveAt(chain, i)
  BY DEF DropNode
<1>4. ASSUME NEW d \in ToSet(nodes') PROVE d \in ToSet(chain)
  <2>1. PICK j \in 1 .. Len(chain) - 1 : d = nodes'[j]
    BY <1>2, <1>3, <1>4 DEF ToSet
  <2>2. j \in DOMAIN chain /\ j + 1 \in DOMAIN chain
    OBVIOUS
  <2>3. d = chain[j] \/ d = chain[j + 1]
    BY <1>2, <1>3, <2>1
  <2>4. QED
    BY <2>2, <2>3 DEF ToSet
<1>5. QED
  BY <1>1, <1>2, <1>3, <1>4 DEF DropNode, Fresh, Rebuild

(* A datanode that was joined to the chain and dropped leaves it as it was.*)
LEMMA Undone ==
  ASSUME NEW S, NEW q \in Seq(S), NEW d \in S
  PROVE  /\ <<d>> \o q \in Seq(S) /\ Append(q, d) \in Seq(S)
         /\ RemoveAt(<<d>> \o q, 1) = q
         /\ RemoveAt(Append(q, d), Len(Append(q, d))) = q
<1> DEFINE f == <<d>> \o q
           b == Append(q, d)
<1>1. /\ f \in Seq(S) /\ Len(f) = 1 + Len(q)
      /\ \A i \in 1 .. 1 + Len(q) : f[i] = IF i <= 1 THEN <<d>>[i] ELSE q[i - 1]
  BY ConcatProperties, <<d>> \in Seq(S), Len(<<d>>) = 1
<1>2. /\ b \in Seq(S) /\ Len(b) = Len(q) + 1 /\ \A i \in 1 .. Len(q) : b[i] = q[i]
  BY AppendProperties
<1> HIDE DEF f, b
<1>3. RemoveAt(f, 1) = q
  <2>1. 1 \in 1 .. Len(f)
    BY <1>1
  <2>2. /\ RemoveAt(f, 1) \in Seq(S) /\ Len(RemoveAt(f, 1)) = Len(f) - 1
        /\ \A j \in 1 .. Len(f) - 1 : RemoveAt(f, 1)[j] = IF j < 1 THEN f[j] ELSE f[j + 1]
    BY <1>1, <2>1, Removed
  <2>3. Len(f) - 1 = Len(q) /\ Len(q) \in Nat
    BY <1>1
  <2>4. ASSUME NEW j \in 1 .. Len(q) PROVE RemoveAt(f, 1)[j] = q[j]
    <3>1. j + 1 \in 1 .. 1 + Len(q) /\ (j + 1) - 1 = j /\ ~(j + 1 <= 1) /\ ~(j < 1)
      BY <2>3
    <3>2. f[j + 1] = q[(j + 1) - 1]
      BY <1>1, <3>1
    <3>3. QED
      BY <2>2, <2>3, <3>1, <3>2
  <2>5. QED
    BY <2>2, <2>3, <2>4, SeqEqual
<1>4. RemoveAt(b, Len(b)) = q
  <2>1. Len(b) \in 1 .. Len(b) /\ Len(b) - 1 = Len(q) /\ Len(q) \in Nat
    BY <1>2
  <2>2. /\ RemoveAt(b, Len(b)) \in Seq(S) /\ Len(RemoveAt(b, Len(b))) = Len(b) - 1
        /\ \A j \in 1 .. Len(b) - 1 : RemoveAt(b, Len(b))[j] = IF j < Len(b) THEN b[j] ELSE b[j + 1]
    BY <1>2, <2>1, Removed
  <2>3. ASSUME NEW j \in 1 .. Len(q) PROVE RemoveAt(b, Len(b))[j] = q[j]
    BY <1>2, <2>1, <2>2
  <2>4. QED
    BY <2>1, <2>2, <2>3, SeqEqual
<1>5. QED
  BY <1>1, <1>2, <1>3, <1>4 DEF f, b

(* addDatanodeToPipeline: one joins, one is tried in vain, or none is.     *)
Joined ==
  \E d \in up, source \in up :
    /\ nodes # <<>> => source \in Chain
    /\ replica' = [replica EXCEPT ![d] = [len |-> replica[source].len, stamp |-> stamp]]
    /\ nodes' \in Seq(Datanode) /\ nodes' # <<>> /\ ToSet(nodes') \subseteq Chain \cup {d}
    /\ Fresh(nodes') /\ link' = "connect"
    /\ UNCHANGED <<todo, excluded, retry, faults>>

Untried ==
  /\ nodes' = nodes /\ Fresh(nodes) /\ excluded' \in SUBSET Datanode
  /\ \/ nodes = <<>> /\ Throw /\ link' = link
     \/ nodes # <<>> /\ link' \in {"extend", "connect"} /\ todo' = todo
  /\ UNCHANGED <<replica, retry>> /\ (Fault \/ UNCHANGED faults)

Unmoved ==
  /\ Again
  /\ UNCHANGED <<replica, nodes, excluded, conn>> /\ (Fault \/ UNCHANGED faults)

(* Extend does one of the three.                                           *)
LEMMA Extended ==
  ASSUME Kinds, Extend
  PROVE  Joined \/ Untried \/ Unmoved
<1> DEFINE Longer(d, front) == IF front THEN <<d>> \o nodes ELSE Append(nodes, d)
           Neighbour(front) == IF front THEN nodes[1] ELSE Last(nodes)
<1>1. nodes \in Seq(Datanode) /\ up \subseteq Datanode /\ excluded \in SUBSET Datanode
  BY DEF Kinds, KindsSetup, KindsCluster
<1>2. ASSUME NEW d \in Datanode, NEW front \in BOOLEAN, NEW chain, NEW source,
             chain = Longer(d, front), source = Neighbour(front)
      PROVE  /\ chain \in Seq(Datanode) /\ chain # <<>> /\ ToSet(chain) \subseteq Chain \cup {d}
             /\ RemoveAt(chain, IF front THEN 1 ELSE Len(chain)) = nodes
             /\ (IF front THEN 1 ELSE Len(chain)) \in DOMAIN chain
             /\ nodes # <<>> => source \in Chain
  <2>1. CASE front
    <3> DEFINE f == <<d>> \o nodes
    <3>1. f \in Seq(Datanode) /\ RemoveAt(f, 1) = nodes
      BY <1>1, Undone
    <3>2. Len(f) = 1 + Len(nodes) /\ \A i \in 1 .. 1 + Len(nodes) : f[i] = IF i <= 1 THEN <<d>>[i] ELSE nodes[i - 1]
      BY <1>1, ConcatProperties, <<d>> \in Seq(Datanode), Len(<<d>>) = 1
    <3> HIDE DEF f
    <3>3. ASSUME NEW i \in DOMAIN f PROVE f[i] \in Chain \cup {d}
      <4>1. i \in 1 .. 1 + Len(nodes)
        BY <3>1, <3>2
      <4>2. CASE i = 1
        BY <3>2, <4>1, <4>2
      <4>3. CASE i # 1
        <5>1. i - 1 \in 1 .. Len(nodes) /\ f[i] = nodes[i - 1]
          BY <1>1, <3>2, <4>1, <4>3
        <5>2. QED
          BY <1>1, <5>1 DEF Chain, ToSet
      <4>4. QED
        BY <4>2, <4>3
    <3>4. f # <<>> /\ 1 \in DOMAIN f
      BY <3>1, <3>2, <1>1
    <3>5. ToSet(f) \subseteq Chain \cup {d}
      BY <3>3 DEF ToSet
    <3>6. nodes # <<>> => nodes[1] \in Chain
      BY <1>1 DEF Chain, ToSet
    <3>7. QED
      BY <1>2, <2>1, <3>1, <3>4, <3>5, <3>6 DEF f
  <2>2. CASE ~front
    <3> DEFINE b == Append(nodes, d)
    <3>1. b \in Seq(Datanode) /\ RemoveAt(b, Len(b)) = nodes
      BY <1>1, Undone
    <3>2. Len(b) = Len(nodes) + 1 /\ b[Len(nodes) + 1] = d /\ \A i \in 1 .. Len(nodes) : b[i] = nodes[i]
      BY <1>1, AppendProperties
    <3> HIDE DEF b
    <3>3. ASSUME NEW i \in DOMAIN b PROVE b[i] \in Chain \cup {d}
      <4>1. i \in 1 .. Len(nodes) + 1
        BY <3>1, <3>2
      <4>2. CASE i = Len(nodes) + 1
        BY <3>2, <4>2
      <4>3. CASE i # Len(nodes) + 1
        <5>1. i \in 1 .. Len(nodes) /\ b[i] = nodes[i]
          BY <1>1, <3>2, <4>1, <4>3
        <5>2. QED
          BY <1>1, <5>1 DEF Chain, ToSet
      <4>4. QED
        BY <4>2, <4>3
    <3>4. b # <<>> /\ Len(b) \in DOMAIN b
      BY <3>1, <3>2, <1>1
    <3>5. ToSet(b) \subseteq Chain \cup {d}
      BY <3>3 DEF ToSet
    <3>6. nodes # <<>> => Last(nodes) \in Chain
      BY <1>1 DEF Chain, ToSet, Last
    <3>7. QED
      BY <1>2, <2>2, <3>1, <3>4, <3>5, <3>6 DEF b
  <2>3. QED
    BY <2>1, <2>2
<1>3. ASSUME NEW d \in Datanode \ (Chain \cup excluded), NEW front \in BOOLEAN,
             {Neighbour(front), d} \subseteq up,
             replica' = [replica EXCEPT ![d] = [len |-> replica[Neighbour(front)].len, stamp |-> stamp]],
             nodes' = Longer(d, front), Fresh(Longer(d, front)), link' = "connect",
             UNCHANGED <<todo, excluded, retry, faults>>
      PROVE  Joined
  <2>1. /\ Longer(d, front) \in Seq(Datanode) /\ Longer(d, front) # <<>> /\ ToSet(Longer(d, front)) \subseteq Chain \cup {d}
        /\ nodes # <<>> => Neighbour(front) \in Chain
    BY <1>2, <1>3
  <2>2. d \in up /\ Neighbour(front) \in up
    BY <1>3
  <2>3. QED
    BY <1>3, <2>1, <2>2 DEF Joined
<1>4. ASSUME NEW d \in Datanode \ (Chain \cup excluded), NEW front \in BOOLEAN,
             IF {Neighbour(front), d} \subseteq up THEN Fault ELSE UNCHANGED faults,
             DropNode(Longer(d, front), IF front THEN 1 ELSE Len(Longer(d, front)), excluded),
             UNCHANGED <<replica, retry>>
      PROVE  Untried
  <2> DEFINE k == IF front THEN 1 ELSE Len(Longer(d, front))
  <2>1. Longer(d, front) \in Seq(Datanode) /\ RemoveAt(Longer(d, front), k) = nodes /\ k \in DOMAIN Longer(d, front)
    BY <1>2, <1>4
  <2>2. DropNode(Longer(d, front), k, excluded) /\ (Fault \/ UNCHANGED faults)
    BY <1>4
  <2> HIDE DEF k
  <2>3. /\ nodes' = nodes /\ excluded' \in SUBSET Datanode
        /\ wire' = <<>> /\ got' = [j \in DOMAIN nodes' |-> 0]
        /\ \/ nodes' = <<>> /\ Throw /\ link' = link
           \/ /\ nodes' # <<>> /\ link' \in {"extend", "connect"}
              /\ todo' = IF Thread("write") THEN Tail(todo) ELSE todo
    BY <1>1, <2>1, <2>2, Dropped DEF Kinds
  <2>4. ~Thread("write")
    BY DEF Extend, Recovers, Thread
  <2>5. QED
    BY <1>4, <2>2, <2>3, <2>4 DEF Untried, Fresh
<1> HIDE DEF Longer, Neighbour
<1>5. \/ \E d \in Datanode \ (Chain \cup excluded), front \in BOOLEAN :
           \/ /\ {Neighbour(front), d} \subseteq up
              /\ replica' = [replica EXCEPT ![d] = [len |-> replica[Neighbour(front)].len, stamp |-> stamp]]
              /\ nodes' = Longer(d, front) /\ Fresh(Longer(d, front)) /\ link' = "connect"
              /\ UNCHANGED <<todo, excluded, retry, faults>>
           \/ /\ IF {Neighbour(front), d} \subseteq up THEN Fault ELSE UNCHANGED faults
              /\ DropNode(Longer(d, front), IF front THEN 1 ELSE Len(Longer(d, front)), excluded)
              /\ UNCHANGED <<replica, retry>>
      \/ Unmoved
  BY DEF Extend, Unmoved, Longer, Neighbour
<1>6. QED
  BY <1>3, <1>4, <1>5

(* The variables have these types at first.                                *)
LEMMA KindsInit == Init => Kinds
<1> SUFFICES ASSUME Init PROVE Kinds
  OBVIOUS
<1>1. /\ 0 \in 0 .. MaxFaults /\ 0 \in 0 .. Limit /\ 0 \in 0 .. Chunk - 1
  BY ClusterAssumption, OutputAssumption
<1>2. replica \in [Datanode -> [len : Nat, stamp : Nat]] /\ held \in Packet
  BY DEF Init, ClusterInit, PipelineInit, NoReplica, None, Packet
<1>3. Listed /\ nodes \in Seq(Datanode) /\ packets \in Seq(Packet)
      /\ wire \in Seq(Packet) /\ got \in [DOMAIN nodes -> Nat]
  BY ListThrown DEF Init, PipelineInit, Listed
<1>4. QED
  BY <1>1, <1>2, <1>3
  DEF Init, ClusterInit, PipelineInit, Kinds, KindsCluster, KindsSetup, KindsQueue, KindsLocal, Methods

(* What happens to the cluster.                                            *)
LEMMA ClusterStep == ASSUME Kinds, [Next]_vars PROVE KindsCluster'
<1> SUFFICES ASSUME Next PROVE KindsCluster'
  BY DEF vars, cluster, Kinds, KindsCluster
<1> USE DEF KindsCluster
<1>0. KindsCluster /\ acked \in Nat /\ MaxFaults \in Nat
  BY ClusterAssumption DEF Kinds, KindsQueue
<1>1. CASE UNCHANGED cluster
  BY <1>0, <1>1 DEF cluster
<1>2. CASE Alloc
  BY <1>0, <1>2 DEF Alloc, AddBlock, Fault, NoReplica
<1>3. CASE Create
  <2>1. stamp \in Nat /\ replica' \in [Datanode -> [len : Nat, stamp : Nat]]
    BY <1>0, <1>3 DEF Create, Stamped
  <2>2. QED
    BY <1>0, <1>3, <2>1 DEF Create, Blames, Fault
<1>4. CASE Abandon
  BY <1>0, <1>4 DEF Abandon, Fault
<1>5. CASE Fail
  BY <1>0, <1>5 DEF Fail, Blames, Fault
<1>6. CASE WriteTimesOut
  BY <1>0, <1>6 DEF WriteTimesOut, Fault
<1>7. CASE Extend
  <2>0. Kinds
    OBVIOUS
  <2>1. (Fault \/ UNCHANGED faults) /\ (replica' = replica \/ \E d \in up, source \in up :
           replica' = [replica EXCEPT ![d] = [len |-> replica[source].len, stamp |-> stamp]])
    BY <1>7, <2>0, Extended DEF Joined, Untried, Unmoved
  <2>2. ASSUME NEW d \in up, NEW source \in up
        PROVE  [replica EXCEPT ![d] = [len |-> replica[source].len, stamp |-> stamp]]
                 \in [Datanode -> [len : Nat, stamp : Nat]]
    BY <1>0
  <2>3. replica' \in [Datanode -> [len : Nat, stamp : Nat]] /\ faults' \in 0 .. MaxFaults
    BY <1>0, <2>1, <2>2 DEF Fault
  <2>4. QED
    BY <1>0, <1>7, <2>3 DEF Extend
<1>8. CASE Connect
  <2>1. \A ds, n : n \in Nat => Stamped(ds, n) \in [Datanode -> [len : Nat, stamp : Nat]]
    BY <1>0 DEF Stamped
  <2>2. CASE Fault /\ UNCHANGED <<replica, issued>>
    BY <1>0, <1>8, <2>2 DEF Connect, Fault
  <2>3. ASSUME NEW ds, issued' = issued + 1, replica' = Stamped(ds, issued'),
               UNCHANGED faults \/ Fault
        PROVE  KindsCluster'
    <3>1. issued' \in Nat /\ replica' \in [Datanode -> [len : Nat, stamp : Nat]]
      BY <1>0, <2>1, <2>3
    <3>2. QED
      BY <1>0, <1>8, <2>3, <3>1 DEF Connect, Fault
  <2>4. QED
    BY <1>8, <2>2, <2>3 DEF Connect, Blames
<1>9. CASE Update
  <2>1. replica' \in [Datanode -> [len : Nat, stamp : Nat]]
    BY <1>0, <1>9 DEF Update, Counted, NoReplica
  <2>2. QED
    BY <1>0, <1>9, <2>1 DEF Update, Fault, NewStamp
<1>10. ASSUME NEW i \in DOMAIN nodes, Receive(i) PROVE KindsCluster'
  <2>1. replica' \in [Datanode -> [len : Nat, stamp : Nat]]
    <3>1. got[i] + 1 \in 1 .. Len(wire) /\ got' = [got EXCEPT ![i] = got[i] + 1]
      BY <1>10 DEF Receive, Kinds, KindsSetup, KindsQueue
    <3>2. wire[got[i] + 1].end \in Nat /\ got'[i] = got[i] + 1
      <4>1. wire[got[i] + 1] \in Packet /\ i \in DOMAIN got
        BY <3>1 DEF Kinds, KindsSetup, KindsQueue
      <4>2. QED
        BY <3>1, <4>1 DEF Packet
    <3>3. QED
      BY <1>0, <1>10, <3>2 DEF Receive, MaxOf
  <2>2. QED
    BY <1>0, <1>10, <2>1 DEF Receive
<1>11. ASSUME NEW d \in Datanode, Crash(d) PROVE KindsCluster'
  <2>1. replica' \in [Datanode -> [len : Nat, stamp : Nat]]
    BY <1>0, <1>11 DEF Crash, NoReplica
  <2>2. QED
    BY <1>0, <1>11, <2>1 DEF Crash, Fault
<1>12. CASE Open \/ Fsync \/ Complete
  BY <1>0, <1>12 DEF Open, Fsync, Complete, Fault
<1>13. CASE Push \/ EndWait \/ Write \/ NoAckYet \/ ReadAck \/ Resend
  BY <1>1, <1>13 DEF Push, EndWait, Write, NoAckYet, ReadAck, Resend
<1>14. CASE Append1 \/ (\E sync \in BOOLEAN : Flushing(sync)) \/ Close \/ MarkLast \/ Rethrow \/ Return
  BY <1>1, <1>14 DEF Append1, Flushing, Close, MarkLast, Rethrow, Return
<1>15. QED
  BY <1>2, <1>3, <1>4, <1>5, <1>6, <1>7, <1>8, <1>9, <1>10, <1>11, <1>12, <1>13, <1>14
  DEF Next, ClientStep, CallStep, PipelineStep, Delivery, Crashes

(* What a step of the pipeline leaves of the list.                         *)
LEMMA PipelineTodo ==
  ASSUME Kinds, PipelineStep
  PROVE  /\ todo # <<>> /\ Head(todo) \in {"alloc", "push", "spill", "write", "poll", "flush"}
         /\ \/ todo' \in {todo, Tail(todo), <<"throw">>}
            \/ Thread("push") /\ todo' = Tail(Tail(todo))
<1>1. CASE Alloc \/ Create \/ Abandon
  BY <1>1 DEF Alloc, Create, Abandon, Thread, Throw
<1>2. CASE Push
  BY <1>2 DEF Push, Thread
<1>3. CASE EndWait \/ Write \/ NoAckYet \/ ReadAck
  BY <1>3 DEF EndWait, AtWait, Write, NoAckYet, ReadAck, EndSend, Waits, Thread
<1>4. CASE Fail
  BY <1>4 DEF Fail, DropNode, Waits, AtWait, Thread, Throw
<1>5. CASE WriteTimesOut \/ Connect \/ Update \/ Resend
  BY <1>5 DEF WriteTimesOut, Connect, Update, Resend, Recovers, Again, DropNode, EndSend, Thread, Throw
<1>6. CASE Extend
  <2>1. Joined \/ Untried \/ Unmoved
    BY <1>6, Extended
  <2>2. todo # <<>> /\ Head(todo) \in {"alloc", "push", "spill", "write", "poll", "flush"}
    BY <1>6 DEF Extend, Recovers, Thread
  <2>3. QED
    BY <2>1, <2>2 DEF Joined, Untried, Unmoved, Again, Throw
<1>7. QED
  BY <1>1, <1>2, <1>3, <1>4, <1>5, <1>6 DEF PipelineStep

(* What the thread has to do stays such a list.                            *)
LEMMA ListedStep == ASSUME Kinds, [Next]_vars PROVE Listed'
<1> USE DEF Listed
<1>0. /\ Listing(todo, call) /\ Listing(<<>>, call) /\ Listing(<<>>, "none")
      /\ todo # <<>> => /\ Listing(Tail(todo), call) /\ Listing(<<"throw">>, call)
                        /\ Thread("push") => Listing(Tail(Tail(todo)), call)
  <2>1. Listing(todo, call)
    BY DEF Kinds
  <2>2. todo # <<>> => call # "none"
    BY <2>1 DEF Listing, EndOf
  <2>3. todo # <<>> => Listing(Tail(todo), call)
    BY <2>1, ListTail
  <2>4. Thread("push") => Tail(todo) # <<>>
    BY <2>1, ListTail DEF Thread
  <2>5. Thread("push") => Listing(Tail(Tail(todo)), call)
    BY <2>3, <2>4, ListTail DEF Thread
  <2>6. QED
    BY <2>1, <2>2, <2>3, <2>5, ListThrown
<1>1. CASE UNCHANGED <<todo, call>>
  BY <1>0, <1>1
<1>2. ASSUME PipelineStep, UNCHANGED call PROVE Listed'
  <2>1. \/ todo' = todo
        \/ todo # <<>> /\ todo' \in {Tail(todo), <<"throw">>}
        \/ Thread("push") /\ todo' = Tail(Tail(todo))
    BY <1>2, PipelineTodo
  <2>2. Listing(todo', call)
    <3>1. Thread("push") => todo # <<>>
      BY DEF Thread
    <3>2. QED
      BY <1>0, <2>1, <3>1
  <2>3. QED
    BY <1>2, <2>2
<1>3. CASE MarkLast \/ Fsync \/ Complete
  <2>1. todo # <<>> /\ todo' \in {Tail(todo), <<"throw">>} /\ call' = call
    BY <1>3 DEF MarkLast, Fsync, Complete, Thread, Throw, local
  <2>2. QED
    BY <1>0, <2>1
<1>4. CASE Rethrow \/ Return
  <2>1. todo' = <<>> /\ call' = "none"
    BY <1>4 DEF Rethrow, Return, pipeline
  <2>2. QED
    BY <1>0, <2>1
<1>5. CASE Append1
  <2>1. call' = "append" /\ todo' \in {SendSteps \o CloseSteps, SendSteps \o <<>>, <<>>}
    BY <1>5 DEF Append1
  <2>2. QED
    BY <2>1, ListAppend, ListThrown
<1>6. ASSUME NEW sync \in BOOLEAN, Flushing(sync) PROVE Listed'
  <2>1. call' \in {"flush", "sync"} /\ (todo' = todo \/ \E p : todo' = FlushSteps(p))
    BY <1>6 DEF Flushing
  <2>2. todo = <<>>
    BY <1>0, <1>6 DEF Flushing, Ready, Listing, EndOf
  <2>3. QED
    BY <2>1, <2>2, ListFlush, ListThrown
<1>7. CASE Close
  <2>1. /\ call' = "close"
        /\ todo' \in {todo, (SendSteps \o CloseSteps) \o <<"complete">>,
                      (<<>> \o CloseSteps) \o <<"complete">>, (<<>> \o <<>>) \o <<"complete">>}
    BY <1>7 DEF Close
  <2>2. todo = <<>>
    BY <1>0, <1>7 DEF Close, Ready, Listing, EndOf
  <2>3. QED
    BY <2>1, <2>2, ListClose, ListThrown
<1>8. CASE Open
  BY <1>1, <1>8 DEF Open, pipeline
<1>9. CASE Delivery \/ Crashes
  BY <1>1, <1>9 DEF Delivery, Crashes, Receive, pipeline, local
<1>10. CASE UNCHANGED vars
  BY <1>1, <1>10 DEF vars, pipeline, local
<1>11. QED
  BY <1>2, <1>3, <1>4, <1>5, <1>6, <1>7, <1>8, <1>9, <1>10
  DEF Next, ClientStep, CallStep, local

(* How far the connection is set up, and with which datanodes.             *)
LEMMA SetupStep == ASSUME Kinds, [Next]_vars PROVE KindsSetup'
<1> USE DEF KindsSetup
<1>0. KindsSetup /\ KindsCluster
  BY DEF Kinds
<1>1. CASE UNCHANGED <<setup, got>>
  BY <1>0, <1>1 DEF setup
<1>2. CASE Alloc
  <2>1. CASE UNCHANGED <<link, nodes, excluded, closing, conn>>
    <3>1. retry' \in Nat
      BY <1>0, <1>2 DEF Alloc
    <3>2. link = "none"
      BY <1>2 DEF Alloc
    <3>3. QED
      BY <1>0, <2>1, <3>1, <3>2 DEF conn
  <2>2. ASSUME NEW s \in Offers(Datanode \ excluded, Replication),
               link' = "create", nodes' = s, retry' = 0, Fresh(s), UNCHANGED <<excluded, closing>>
        PROVE  KindsSetup'
    <3>1. s \in Seq(Datanode \ excluded)
      BY Offered, PipelineAssumption
    <3>2. s \in Seq(Datanode)
      BY <3>1
    <3>3. QED
      BY <1>0, <2>2, <3>2 DEF Fresh
  <2>3. QED
    BY <1>2, <2>1, <2>2 DEF Alloc
<1>3. CASE Create
  BY <1>0, <1>3 DEF Create, Blames, conn
<1>E. ASSUME nodes' = <<>>, Fresh(<<>>) PROVE nodes' \in Seq(Datanode) /\ got' \in [DOMAIN nodes' -> Nat]
  BY <1>E DEF Fresh
<1>4. CASE Abandon
  <2>1. CASE link' = "none" /\ nodes' = <<>> /\ Fresh(<<>>)
    BY <1>0, <1>4, <1>E, <2>1 DEF Abandon
  <2>2. CASE UNCHANGED <<link, nodes, conn>>
    BY <1>0, <1>4, <2>2 DEF Abandon, conn
  <2>3. QED
    BY <1>4, <2>1, <2>2 DEF Abandon
<1>5. CASE Fail
  <2>1. PICK i \in DOMAIN nodes : DropNode(nodes, i, {})
    BY <1>5 DEF Fail
  <2>2. {} \in SUBSET Datanode
    OBVIOUS
  <2>3. /\ nodes' \in Seq(Datanode) /\ excluded' \in SUBSET Datanode /\ got' \in [DOMAIN nodes' -> Nat]
        /\ link' = link \/ link' \in {"extend", "connect"}
    BY <1>0, <2>1, <2>2, Dropped
  <2>4. retry' \in Nat /\ retry' > 0 /\ closing' = closing
    BY <1>5, PipelineAssumption DEF Fail
  <2>5. QED
    BY <1>0, <2>3, <2>4
<1>6. CASE Again /\ retry > 0 /\ UNCHANGED <<nodes, excluded, closing, conn>>
  <2>1. CASE UNCHANGED <<link, retry>>
    BY <1>0, <1>6, <2>1 DEF conn
  <2>2. CASE RetriesLeft # 0 /\ retry' = RetriesLeft /\ link' = Rebuild(nodes)
    <3>1. retry' \in Nat /\ retry' > 0 /\ link' \in {"extend", "connect"}
      BY <1>0, <1>6, <2>2 DEF RetriesLeft, Rebuild
    <3>2. QED
      BY <1>0, <1>6, <3>1 DEF conn
  <2>3. QED
    BY <1>6, <2>1, <2>2 DEF Again
<1>7. CASE Extend
  <2>1. closing' = closing /\ retry > 0
    BY <1>0, <1>7 DEF Extend, Recovers
  <2>2. CASE Joined
    BY <1>0, <2>1, <2>2 DEF Joined, Fresh
  <2>3. CASE Untried
    <3>1. got' \in [DOMAIN nodes' -> Nat]
      BY <2>3 DEF Untried, Fresh
    <3>2. link' \in {link, "extend", "connect"} /\ nodes' = nodes /\ retry' = retry
          /\ excluded' \in SUBSET Datanode
      BY <2>3 DEF Untried
    <3>3. QED
      BY <1>0, <2>1, <3>1, <3>2
  <2>4. CASE Unmoved
    BY <1>6, <2>1, <2>4 DEF Unmoved
  <2>5. QED
    BY <1>7, <2>2, <2>3, <2>4, Extended
<1>8. CASE Connect
  <2>0. closing' = closing /\ retry > 0
    BY <1>0, <1>8 DEF Connect, Recovers
  <2>1. CASE Again /\ UNCHANGED <<nodes, excluded, conn>>
    BY <1>6, <2>0, <2>1
  <2>2. CASE link' = "update" /\ UNCHANGED <<retry, nodes, excluded, conn>>
    BY <1>0, <2>0, <2>2 DEF conn
  <2>3. ASSUME NEW i \in DOMAIN nodes, DropNode(nodes, i, excluded), retry' = retry
        PROVE  KindsSetup'
    <3>1. /\ nodes' \in Seq(Datanode) /\ excluded' \in SUBSET Datanode /\ got' \in [DOMAIN nodes' -> Nat]
          /\ link' = link \/ link' \in {"extend", "connect"}
      BY <1>0, <2>3, Dropped
    <3>2. QED
      BY <1>0, <2>0, <2>3, <3>1
  <2>4. QED
    BY <1>8, <2>1, <2>2, <2>3 DEF Connect
<1>9. CASE Update
  BY <1>0, <1>9 DEF Update, conn
<1>10. CASE Resend
  BY <1>0, <1>10 DEF Resend
<1>11. CASE ReadAck
  <2>1. \A i \in DOMAIN nodes : got[i] - 1 \in Nat
    BY <1>0, <1>11 DEF ReadAck, Readable
  <2>2. got' \in [DOMAIN nodes' -> Nat]
    BY <1>0, <1>11, <2>1 DEF ReadAck, setup
  <2>3. QED
    BY <1>0, <1>11, <2>2 DEF ReadAck, setup
<1>12. ASSUME NEW i \in DOMAIN nodes, Receive(i) PROVE KindsSetup'
  BY <1>0, <1>12 DEF Receive, setup
<1>13. CASE MarkLast \/ Fsync
  <2>1. CASE MarkLast
    BY <1>0, <2>1 DEF MarkLast, conn
  <2>2. CASE Fsync
    BY <1>0, <1>E, <2>2 DEF Fsync
  <2>3. QED
    BY <1>13, <2>1, <2>2
<1>14. CASE Push \/ EndWait \/ Write \/ NoAckYet \/ WriteTimesOut
  BY <1>1, <1>14 DEF Push, EndWait, Write, NoAckYet, WriteTimesOut, conn
<1>15. CASE Complete \/ Rethrow \/ Return \/ ClientStep \/ Crashes \/ UNCHANGED vars
  BY <1>1, <1>15 DEF Complete, Rethrow, Return, ClientStep, Open, Append1, Flushing, Close, Crashes,
                     vars, pipeline, conn
<1>16. QED
  BY <1>2, <1>3, <1>4, <1>5, <1>7, <1>8, <1>9, <1>10, <1>11, <1>12, <1>13, <1>14, <1>15
  DEF Next, CallStep, PipelineStep, Delivery

(* A chunk joins a packet.                                                 *)
LEMMA PacketKinds ==
  ASSUME Kinds
  PROVE  /\ None \in Packet
         /\ \A last \in BOOLEAN : NewPacket(last) \in Packet
         /\ \A n \in Nat : /\ Filled(n) \in Packet
                           /\ Filled(n).end = (IF held = None THEN written ELSE held.end) + n
                           /\ Filled(n).start = (IF held = None THEN written ELSE held.start)
                           /\ Filled(n).seq = (IF held = None THEN seqno ELSE held.seq)
                           /\ Filled(n).last = (IF held = None THEN FALSE ELSE held.last)
<1>1. held \in Packet /\ written \in Nat /\ seqno \in Nat
  BY DEF Kinds, KindsQueue, KindsLocal
<1>2. None \in Packet /\ \A last \in BOOLEAN : NewPacket(last) \in Packet
  BY <1>1 DEF None, NewPacket, Packet
<1>3. ASSUME NEW n \in Nat
      PROVE  /\ Filled(n) \in Packet
             /\ Filled(n).end = (IF held = None THEN written ELSE held.end) + n
             /\ Filled(n).start = (IF held = None THEN written ELSE held.start)
             /\ Filled(n).seq = (IF held = None THEN seqno ELSE held.seq)
             /\ Filled(n).last = (IF held = None THEN FALSE ELSE held.last)
  <2> DEFINE p == IF held = None THEN NewPacket(FALSE) ELSE held
  <2>1. /\ p \in Packet
        /\ p.end = (IF held = None THEN written ELSE held.end)
        /\ p.start = (IF held = None THEN written ELSE held.start)
        /\ p.seq = (IF held = None THEN seqno ELSE held.seq)
        /\ p.last = (IF held = None THEN FALSE ELSE held.last)
    <3>1. CASE held = None
      BY <1>2, <3>1 DEF NewPacket
    <3>2. CASE held # None
      BY <1>1, <3>2
    <3>3. QED
      BY <3>1, <3>2
  <2>2. Filled(n) = [p EXCEPT !.end = p.end + n]
    BY DEF Filled
  <2> HIDE DEF p
  <2>3. [p EXCEPT !.end = p.end + n] \in Packet
    BY <2>1 DEF Packet
  <2>4. /\ [p EXCEPT !.end = p.end + n].end = p.end + n
        /\ [p EXCEPT !.end = p.end + n].start = p.start
        /\ [p EXCEPT !.end = p.end + n].seq = p.seq
        /\ [p EXCEPT !.end = p.end + n].last = p.last
    BY <2>1 DEF Packet
  <2>5. QED
    BY <2>1, <2>2, <2>3, <2>4
<1>4. QED
  BY <1>2, <1>3

(* The packets.                                                            *)
LEMMA QueueStep == ASSUME Kinds, [Next]_vars PROVE KindsQueue'
<1> USE DEF KindsQueue
<1>0. /\ KindsQueue /\ None \in Packet /\ <<>> \in Seq(Packet)
      /\ packets # <<>> => Tail(packets) \in Seq(Packet) /\ Head(packets) \in Packet
                           /\ Last(packets) \in Packet
      /\ wire # <<>> => Tail(wire) \in Seq(Packet)
      /\ \A p \in Packet : p.end \in Nat
  <2>1. KindsQueue
    BY DEF Kinds
  <2>2. packets # <<>> => Tail(packets) \in Seq(Packet) /\ Head(packets) \in Packet /\ Last(packets) \in Packet
    BY <2>1, HeadTailProperties DEF Last
  <2>3. wire # <<>> => Tail(wire) \in Seq(Packet)
    BY <2>1, HeadTailProperties
  <2>4. None \in Packet /\ <<>> \in Seq(Packet)
    BY PacketKinds
  <2>5. \A p \in Packet : p.end \in Nat
    BY DEF Packet
  <2>6. QED
    BY <2>1, <2>2, <2>3, <2>4, <2>5
<1>1. CASE UNCHANGED <<queue, wire>>
  BY <1>0, <1>1 DEF queue
<1>2. CASE queue' = queue /\ wire' = <<>>
  BY <1>0, <1>2 DEF queue
<1>3. CASE Alloc
  <2>1. CASE UNCHANGED <<queue, conn>>
    BY <1>1, <2>1 DEF conn
  <2>2. CASE acked' = 0 /\ sent' = 0 /\ wire' = <<>> /\ UNCHANGED <<held, packets>>
    BY <1>0, <2>2
  <2>3. QED
    BY <1>3, <2>1, <2>2 DEF Alloc, Fresh
<1>4. CASE Create \/ EndWait \/ WriteTimesOut
  BY <1>1, <1>4 DEF Create, EndWait, WriteTimesOut, conn
<1>5. CASE Abandon \/ Fail \/ Connect
  BY <1>1, <1>2, <1>5 DEF Abandon, Fail, Connect, DropNode, Fresh, conn
<1>6. CASE Extend
  BY <1>1, <1>2, <1>6, Extended DEF Extend, Joined, Untried, Unmoved, Fresh, conn
<1>7. CASE Push
  <2>1. packets' \in Seq(Packet)
    BY <1>0, <1>7 DEF Push
  <2>2. QED
    BY <1>0, <1>7, <2>1 DEF Push, conn
<1>8. CASE Write
  <2>1. wire' \in Seq(Packet) /\ sent' \in Nat
    BY <1>0, <1>8 DEF Write, SentTo, MaxOf
  <2>2. QED
    BY <1>0, <1>8, <2>1 DEF Write
<1>9. CASE NoAckYet
  BY <1>0, <1>9 DEF NoAckYet, EndSend, conn
<1>10. CASE ReadAck
  <2>1. held' \in {held, None}
    BY <1>10 DEF ReadAck, EndSend
  <2>2. wire' = Tail(wire) /\ packets' = Tail(packets) /\ acked' = MaxOf(acked, Head(packets).end)
        /\ wire # <<>> /\ packets # <<>> /\ sent' = sent
    BY <1>10 DEF ReadAck, Readable
  <2>3. QED
    BY <1>0, <2>1, <2>2 DEF MaxOf
<1>11. CASE Update
  BY <1>0, <1>11 DEF Update, EndSend, conn
<1>12. CASE Resend
  BY <1>0, <1>12 DEF Resend, ToResend, SentTo, MaxOf
<1>13. CASE Delivery \/ Crashes \/ Complete \/ Rethrow \/ Return \/ Open \/ UNCHANGED vars
  BY <1>1, <1>13 DEF Delivery, Receive, Crashes, Complete, Rethrow, Return, Open, vars, pipeline, conn
<1>14. CASE Fsync
  BY <1>2, <1>14 DEF Fsync, Fresh
<1>15. CASE UNCHANGED <<packets, acked, sent, conn>> /\ held' \in Packet
  BY <1>0, <1>15 DEF conn
<1>16. CASE MarkLast
  BY <1>15, <1>16, PacketKinds DEF MarkLast, Hold
<1>17. CASE Append1
  <2>1. held' \in Packet
    BY <1>0, <1>17, PacketKinds, OutputAssumption DEF Append1, Hold
  <2>2. QED
    BY <1>15, <1>17, <2>1 DEF Append1
<1>18. ASSUME NEW sync \in BOOLEAN, Flushing(sync) PROVE KindsQueue'
  <2>1. position \in Nat
    BY OutputAssumption DEF Kinds, KindsLocal
  <2>2. held' \in Packet
    BY <1>0, <1>18, <2>1, PacketKinds DEF Flushing, Hold
  <2>3. QED
    BY <1>15, <1>18, <2>2 DEF Flushing
<1>19. CASE Close
  <2>1. position \in Nat
    BY OutputAssumption DEF Kinds, KindsLocal
  <2>2. held' \in Packet
    BY <1>0, <1>19, <2>1, PacketKinds DEF Close, Hold
  <2>3. QED
    BY <1>15, <1>19, <2>2 DEF Close
<1>20. QED
  BY <1>3, <1>4, <1>5, <1>6, <1>7, <1>8, <1>9, <1>10, <1>11, <1>12, <1>13, <1>14, <1>16, <1>17, <1>18, <1>19
  DEF Next, ClientStep, CallStep, PipelineStep

(* The output stream's own variables.                                      *)
LEMMA Holds == ASSUME Kinds, NEW p, Hold(p) PROVE seqno' \in Nat /\ seqno' >= seqno
<1>1. seqno \in Nat
  BY DEF Kinds, KindsLocal
<1>2. seqno' = seqno + 1 \/ seqno' = seqno
  BY DEF Hold
<1>3. QED
  BY <1>1, <1>2

(* The variables of the stream keep their types.                           *)
LEMMA LocalStep == ASSUME Kinds, [Next]_vars PROVE KindsLocal'
<1> USE DEF KindsLocal, Methods
<1>0. KindsLocal /\ Chunk \in Nat \ {0}
  BY OutputAssumption DEF Kinds
<1>1. CASE UNCHANGED local
  BY <1>0, <1>1 DEF local
<1>2. CASE Open
  BY <1>0, <1>2 DEF Open
<1>3. CASE Append1
  <2>1. position' \in 0 .. Chunk - 1
    BY <1>0, <1>3, NextPosition DEF Append1
  <2>2. passed' \in 0 .. Limit
    BY <1>0, <1>3, OutputAssumption DEF Append1
  <2>3. seqno' \in Nat
    BY <1>3, Holds DEF Append1
  <2>4. QED
    BY <1>0, <1>3, <2>1, <2>2, <2>3 DEF Append1
<1>4. ASSUME NEW sync \in BOOLEAN, Flushing(sync) PROVE KindsLocal'
  <2>1. seqno' \in Nat
    BY <1>0, <1>4, Holds DEF Flushing
  <2>2. QED
    BY <1>0, <1>4, <2>1 DEF Flushing
<1>5. CASE Close
  <2>1. seqno' \in Nat
    BY <1>0, <1>5, Holds DEF Close
  <2>2. QED
    BY <1>0, <1>5, <2>1 DEF Close
<1>6. CASE MarkLast
  <2>1. seqno' \in Nat
    BY <1>6, Holds DEF MarkLast
  <2>2. QED
    BY <1>0, <1>6, <2>1 DEF MarkLast
<1>7. CASE Fsync
  BY <1>0, <1>7 DEF Fsync
<1>8. CASE Rethrow
  BY <1>0, <1>8 DEF Rethrow, Thrown
<1>9. CASE Return
  BY <1>0, <1>9 DEF Return
<1>10. QED
  BY <1>1, <1>2, <1>3, <1>4, <1>5, <1>6, <1>7, <1>8, <1>9
  DEF Next, ClientStep, CallStep, Complete, Delivery, Crashes, vars

(* So do all of them.                                                      *)
LEMMA KindsStep == Kinds /\ [Next]_vars => Kinds'
BY ListedStep, ClusterStep, SetupStep, QueueStep, LocalStep DEF Kinds

-------------------------------------------------------------------------------
(* What the client is told.                                                *)

(* A call ends as its method does, and what it has seen fail it has told.  *)
Called ==
  /\ call # "none" => phase = "open"
  /\ lastError => todo = <<>> /\ told
  /\ phase = "failed" => told
  /\ phase = "closed" => told \/ file = "complete"
  /\ call = "close" /\ todo = <<>> => lastError \/ file = "complete"
  /\ cursor <= passed /\ (call = "append" => cursor < passed)
  /\ lastFlushed <= cursor

(* A block that is full is closed by the call that filled it.              *)
Bounded ==
  /\ written <= BlockSize /\ written % Chunk = 0
  /\ written = BlockSize /\ ~lastError =>
       call = "append" /\ todo # <<>> /\ todo[Len(todo)] \in {"fsync", "throw"}

(* The end of a list is the end of what is left of it.                     *)
LEMMA ListEnd ==
  ASSUME NEW method, NEW q, Listing(q, method), q # <<>>
  PROVE  /\ Tail(q) # <<>> => Tail(q)[Len(Tail(q))] = q[Len(q)]
         /\ Tail(q) = <<>> => Head(q) = q[Len(q)] /\ EndOf(method, Head(q))
<1> DEFINE t == Tail(q)
           n == Len(q)
<1>1. q \in Seq(Steps) /\ n \in Nat \ {0} /\ Head(q) = q[1] /\ EndOf(method, q[n])
  BY DEF Listing
<1>2. t \in Seq(Steps) /\ Len(t) = n - 1 /\ \A i \in 1 .. n - 1 : t[i] = q[i + 1]
  BY <1>1, HeadTailProperties
<1> HIDE DEF t, n
<1>3. (t = <<>> => n = 1) /\ (t # <<>> => n > 1 /\ t[Len(t)] = q[n])
  BY <1>1, <1>2
<1>4. QED
  BY <1>1, <1>3 DEF t, n

(* A step of the pipeline leaves the end of the list, or throws.           *)
LEMMA PipelineEnd ==
  ASSUME Kinds, PipelineStep
  PROVE  /\ todo' # <<>> => todo'[Len(todo')] \in {todo[Len(todo)], "throw"}
         /\ todo' = <<>> => todo[Len(todo)] \in {"poll", "flush"} /\ EndOf(call, todo[Len(todo)])
<1>1. Listing(todo, call) /\ todo # <<>>
  BY PipelineTodo DEF Kinds, Listed
<1>2. CASE todo' = todo
  BY <1>1, <1>2
<1>3. CASE todo' = <<"throw">>
  BY <1>3
<1>4. CASE todo' = Tail(todo)
  <2>1. Head(todo) \in {"alloc", "push", "spill", "write", "poll", "flush"}
    BY PipelineTodo
  <2>2. todo' # <<>> => todo'[Len(todo')] = todo[Len(todo)]
    BY <1>1, <1>4, ListEnd
  <2>3. todo' = <<>> => todo[Len(todo)] \in {"poll", "flush"} /\ EndOf(call, todo[Len(todo)])
    BY <1>1, <1>4, <2>1, ListEnd DEF EndOf
  <2>4. QED
    BY <2>2, <2>3
<1>5. CASE Thread("push") /\ todo' = Tail(Tail(todo))
  <2> DEFINE t == Tail(todo)
  <2>1. Listing(t, call) /\ t # <<>> /\ Follows("push", Head(t))
    BY <1>1, <1>5, ListTail DEF Thread
  <2>2. t[Len(t)] = todo[Len(todo)]
    BY <1>1, <2>1, ListEnd
  <2>3. Tail(t) # <<>>
    <3>1. Head(t) = "spill"
      BY <2>1 DEF Follows
    <3> HIDE DEF t
    <3>2. QED
      BY <2>1, <3>1, ListTail
  <2>4. Tail(t)[Len(Tail(t))] = t[Len(t)]
    <3> HIDE DEF t
    <3>1. QED
      BY <2>1, <2>3, ListEnd
  <2>5. QED
    BY <1>5, <2>2, <2>3, <2>4
<1>6. QED
  BY <1>2, <1>3, <1>4, <1>5, PipelineTodo

(* A block's worth of units and a chunk more.                              *)
LEMMA NextChunk ==
  ASSUME written \in Nat, written % Chunk = 0, written < BlockSize
  PROVE  (written + Chunk) % Chunk = 0 /\ written + Chunk <= BlockSize
<1>0. Chunk \in Nat \ {0} /\ BlockSize \in Nat /\ BlockSize % Chunk = 0
  BY OutputAssumption
<1>1. PICK k \in Nat : written = k * Chunk
  BY <1>0, written = (written \div Chunk) * Chunk + (written % Chunk)
<1>2. PICK l \in Nat : BlockSize = l * Chunk
  BY <1>0, BlockSize = (BlockSize \div Chunk) * Chunk + (BlockSize % Chunk)
<1>3. k < l
  BY <1>0, <1>1, <1>2
<1>4. (k + 1) * Chunk <= l * Chunk
  BY <1>0, <1>3
<1>5. (k + 1) * Chunk = written + Chunk
  BY <1>0, <1>1
<1>6. ((k + 1) * Chunk) % Chunk = 0
  BY <1>0
<1>7. QED
  BY <1>2, <1>4, <1>5, <1>6

(* Lists that end where a block or a file does.                            *)
LEMMA ListFull ==
  /\ SendSteps \o CloseSteps # <<>>
  /\ (SendSteps \o CloseSteps)[Len(SendSteps \o CloseSteps)] = "fsync"
  /\ \A q \in Seq(Steps) : q \o <<"complete">> # <<>>
<1> DEFINE c == SendSteps \o CloseSteps
           m == Len(SendSteps)
           n == Len(CloseSteps)
<1>1. SendSteps \in Seq(Steps) /\ CloseSteps \in Seq(Steps) /\ m \in Nat
  BY Sends, Closes
<1>2. n = 8 /\ CloseSteps[8] = "fsync"
  BY DEF CloseSteps
<1>3. /\ c \in Seq(Steps) /\ Len(c) = m + n
      /\ \A i \in 1 .. m + n : c[i] = IF i <= m THEN SendSteps[i] ELSE CloseSteps[i - m]
  BY <1>1, ConcatProperties
<1>4. c # <<>> /\ c[Len(c)] = "fsync"
  <2> HIDE DEF c, m, n
  <2>1. m + n \in 1 .. m + n /\ ~(m + n <= m) /\ (m + n) - m = 8
    BY <1>1, <1>2
  <2>2. c[m + n] = CloseSteps[(m + n) - m] /\ Len(c) = m + n
    BY <1>3, <2>1
  <2>3. c # <<>>
    BY <1>3, <2>1
  <2>4. QED
    BY <1>2, <2>1, <2>2, <2>3
<1>5. ASSUME NEW q \in Seq(Steps) PROVE q \o <<"complete">> # <<>>
  <2>1. <<"complete">> \in Seq(Steps) /\ Len(<<"complete">>) = 1
    BY DEF Steps
  <2>2. Len(q \o <<"complete">>) = Len(q) + 1 /\ Len(q) \in Nat
    BY <2>1, ConcatProperties
  <2>3. QED
    BY <2>2
<1>6. QED
  BY <1>4, <1>5

(* Both hold at first.                                                     *)
LEMMA CalledInit == Init => Called /\ Bounded
BY OutputAssumption DEF Init, PipelineInit, Called, Bounded

(* Called is inductive.                                                    *)
LEMMA CalledStep == ASSUME Kinds, Called, [Next]_vars PROVE Called'
<1> USE DEF Called
<1>0. /\ KindsLocal /\ KindsCluster
      /\ call = "none" => todo = <<>>
  BY DEF Kinds, Listed, Listing, EndOf
<1>1. CASE UNCHANGED <<call, phase, todo, lastError, told, file, cursor, passed, lastFlushed>>
  BY <1>1
<1>2. CASE PipelineStep /\ UNCHANGED local
  <2>1. call = "close" /\ todo' = <<>> => FALSE
    BY <1>2, PipelineEnd DEF EndOf
  <2>2. todo # <<>> /\ file' = file
    <3>1. todo # <<>>
      BY <1>2, PipelineTodo
    <3>2. file' = file
      BY <1>2 DEF PipelineStep, Alloc, Create, Abandon, Push, EndWait, Write, NoAckYet, ReadAck,
                  Fail, WriteTimesOut, Extend, Connect, Update, Resend, cluster
    <3>3. QED
      BY <3>1, <3>2
  <2>3. QED
    BY <1>2, <2>1, <2>2 DEF local
<1>3. CASE MarkLast \/ Fsync
  <2>1. /\ todo # <<>> /\ Head(todo) \in {"last", "fsync"} /\ file' = file
        /\ todo' \in {Tail(todo), <<"throw">>}
        /\ UNCHANGED <<call, phase, lastError, told, cursor, passed, lastFlushed>>
    BY <1>3 DEF MarkLast, Fsync, Thread, Throw, cluster
  <2>2. call = "close" => todo' # <<>>
    <3>1. CASE todo' = <<"throw">>
      BY <3>1
    <3>2. CASE todo' = Tail(todo)
      <4>1. Tail(todo) = <<>> => EndOf(call, Head(todo))
        BY <2>1, ListEnd DEF Kinds, Listed
      <4>2. QED
        BY <2>1, <3>2, <4>1 DEF EndOf
    <3>3. QED
      BY <2>1, <3>1, <3>2
  <2>3. QED
    BY <2>1, <2>2
<1>4. CASE Complete
  <2>1. /\ todo # <<>> /\ UNCHANGED <<call, phase, lastError, told, cursor, passed, lastFlushed>>
        /\ file = "complete" => file' = "complete"
        /\ todo' = <<"throw">> \/ file' = "complete"
    BY <1>4 DEF Complete, Thread, Throw, local
  <2>2. QED
    BY <2>1
<1>5. CASE Rethrow
  BY <1>5 DEF Rethrow, Thrown, cluster, Thread
<1>6. CASE Return
  <2>1. CASE call = "append"
    BY <1>0, <1>6, <2>1 DEF Return, cluster, pipeline, KindsLocal
  <2>2. CASE call # "append"
    BY <1>6, <2>2 DEF Return, cluster, pipeline
  <2>3. QED
    BY <2>1, <2>2
<1>7. CASE Open
  BY <1>0, <1>7 DEF Open, pipeline
<1>8. CASE Append1
  BY <1>0, <1>8 DEF Append1, Ready, cluster, KindsLocal
<1>9. ASSUME NEW sync \in BOOLEAN, Flushing(sync) PROVE Called'
  <2>0. lastFlushed' = cursor
    BY <1>9 DEF Flushing
  <2>1. lastFlushed' <= cursor
    BY <1>0, <2>0 DEF KindsLocal
  <2>2. QED
    BY <1>0, <1>9, <2>1 DEF Flushing, Ready, cluster
<1>10. CASE Close
  <2>1. lastError \/ todo' # <<>>
    <3>1. \A b \in BOOLEAN, e \in BOOLEAN :
            (IF b THEN SendSteps ELSE <<>>) \o (IF e THEN CloseSteps ELSE <<>>) \in Seq(Steps)
      BY Sends, Closes, ConcatProperties
    <3>2. \A b \in BOOLEAN, e \in BOOLEAN :
            ((IF b THEN SendSteps ELSE <<>>) \o (IF e THEN CloseSteps ELSE <<>>)) \o <<"complete">> # <<>>
      BY <3>1, ListFull
    <3>3. lastError \/ \E b \in BOOLEAN, e \in BOOLEAN : todo' =
            ((IF b THEN SendSteps ELSE <<>>) \o (IF e THEN CloseSteps ELSE <<>>)) \o <<"complete">>
      BY <1>10 DEF Close, Broken
    <3>4. QED
      BY <3>2, <3>3
  <2>2. /\ todo = <<>> /\ (lastError => todo' = todo) /\ phase = "open" /\ call' = "close"
        /\ UNCHANGED <<phase, lastError, told, file, cursor, passed, lastFlushed>>
    BY <1>0, <1>10 DEF Close, Ready, Broken, cluster
  <2>3. QED
    BY <2>1, <2>2
<1>11. CASE Delivery \/ Crashes \/ UNCHANGED vars
  BY <1>1, <1>11 DEF Delivery, Receive, Crashes, Crash, vars, pipeline, local, cluster
<1>12. QED
  BY <1>2, <1>3, <1>4, <1>5, <1>6, <1>7, <1>8, <1>9, <1>10, <1>11 DEF Next, ClientStep, CallStep

(* Bounded is inductive: append() fills a block by whole chunks, and the   *)
(* next one waits until Fsync has set the block back.                      *)
LEMMA BoundedStep == ASSUME Kinds, Bounded, [Next]_vars PROVE Bounded'
<1> USE DEF Bounded
<1>0. /\ written \in Nat /\ Chunk \in Nat \ {0} /\ BlockSize \in Nat \ {0} /\ 0 % Chunk = 0
      /\ call = "none" => todo = <<>>
  BY OutputAssumption DEF Kinds, KindsLocal, Listed, Listing, EndOf
<1>1. CASE UNCHANGED <<written, lastError, call, todo>>
  BY <1>1
<1>2. CASE PipelineStep /\ UNCHANGED local
  BY <1>2, PipelineEnd DEF local
<1>3. CASE MarkLast
  <2>1. /\ todo # <<>> /\ Head(todo) = "last" /\ todo' = Tail(todo)
        /\ UNCHANGED <<written, lastError, call>>
    BY <1>3 DEF MarkLast, Thread
  <2>2. todo' # <<>> => todo'[Len(todo')] = todo[Len(todo)]
    BY <2>1, ListEnd DEF Kinds, Listed
  <2>3. todo' # <<>>
    BY <2>1, ListEnd DEF Kinds, Listed, EndOf
  <2>4. QED
    BY <2>1, <2>2, <2>3
<1>4. CASE Fsync
  <2>1. CASE written' = 0
    BY <1>0, <2>1
  <2>2. CASE Throw /\ UNCHANGED written
    BY <1>4, <2>2 DEF Fsync, Throw
  <2>3. QED
    BY <1>4, <2>1, <2>2 DEF Fsync
<1>5. CASE Complete
  <2>1. /\ todo # <<>> /\ Head(todo) = "complete" /\ todo' \in {Tail(todo), <<"throw">>}
        /\ UNCHANGED <<written, lastError, call>>
    BY <1>5 DEF Complete, Thread, Throw, local
  <2>2. CASE todo' = Tail(todo)
    <3>1. todo' # <<>> => todo'[Len(todo')] = todo[Len(todo)]
      BY <2>1, <2>2, ListEnd DEF Kinds, Listed
    <3>2. todo' = <<>> => todo[Len(todo)] = "complete"
      BY <2>1, <2>2, ListEnd DEF Kinds, Listed
    <3>3. QED
      BY <2>1, <3>1, <3>2
  <2>3. CASE todo' = <<"throw">>
    BY <2>1, <2>3
  <2>4. QED
    BY <2>1, <2>2, <2>3
<1>6. CASE Rethrow
  BY <1>6 DEF Rethrow
<1>7. CASE Return
  BY <1>7 DEF Return, pipeline
<1>8. CASE Append1
  <2>1. written < BlockSize /\ ~lastError /\ lastError' = lastError /\ call' = "append"
    BY <1>0, <1>8 DEF Append1, Ready
  <2>2. CASE position + 1 = Chunk
    <3>1. written' = written + Chunk
      BY <1>8, <2>2 DEF Append1
    <3>2. held' # None
      <4>1. held' = Filled(Chunk)
        BY <1>8, <2>2 DEF Append1, Hold
      <4>2. Filled(Chunk).end > 0
        <5>1. held.end \in Nat
          BY DEF Kinds, KindsQueue, Packet
        <5>2. Filled(Chunk).end = (IF held = None THEN written ELSE held.end) + Chunk
          BY <1>0, PacketKinds
        <5>3. QED
          BY <1>0, <5>1, <5>2
      <4>3. None.end = 0
        BY DEF None
      <4>4. QED
        BY <4>1, <4>2, <4>3
    <3>3. written' = BlockSize => todo' = SendSteps \o CloseSteps
      BY <1>8, <3>2 DEF Append1
    <3>4. QED
      BY <1>0, <2>1, <3>1, <3>3, NextChunk, ListFull
  <2>3. CASE position + 1 # Chunk
    BY <1>0, <1>8, <2>1, <2>3 DEF Append1
  <2>4. QED
    BY <2>2, <2>3
<1>9. CASE Open \/ (\E sync \in BOOLEAN : Flushing(sync)) \/ Close
  BY <1>0, <1>9 DEF Open, Flushing, Close, Ready, pipeline
<1>10. CASE Delivery \/ Crashes \/ UNCHANGED vars
  BY <1>1, <1>10 DEF Delivery, Receive, Crashes, vars, pipeline, local
<1>11. QED
  BY <1>2, <1>3, <1>4, <1>5, <1>6, <1>7, <1>8, <1>9, <1>10 DEF Next, ClientStep, CallStep

(* The invariants that rest on nothing but types and lists.                *)
Outer == Kinds /\ Called /\ Bounded

(* What is known without a look at packets and replicas.                   *)
LEMMA OuterInv == Spec => []Outer
<1>1. Init => Outer
  BY KindsInit, CalledInit DEF Outer
<1>2. Outer /\ [Next]_vars => Outer'
  BY KindsStep, CalledStep, BoundedStep DEF Outer
<1>3. QED
  BY <1>1, <1>2, PTL DEF Spec

(* The variables of the output stream, of its pipeline and of the cluster  *)
(* keep their types: a block is never overfilled, and no more is flushed   *)
(* than has been appended.                                                 *)
THEOREM TypeCorrect == Spec => []TypeOK
<1>1. Outer => TypeOK
  <2> SUFFICES ASSUME Outer PROVE TypeOK
    OBVIOUS
  <2>1. Listed /\ KindsCluster /\ KindsSetup /\ KindsQueue /\ KindsLocal /\ Called /\ Bounded
    BY DEF Outer, Kinds
  <2>2. ClusterTypeOK
    BY <2>1 DEF ClusterTypeOK, KindsCluster
  <2>3. PipelineTypeOK
    BY <2>1, <2>2 DEF PipelineTypeOK, Listed, Listing, Steps, KindsSetup, KindsQueue
  <2>4. /\ cursor \in 0 .. passed /\ lastFlushed \in 0 .. cursor /\ written \in 0 .. BlockSize
        /\ passed \in 0 .. Limit
    BY <2>1, OutputAssumption DEF KindsLocal, Called, Bounded
  <2>5. QED
    BY <2>1, <2>3, <2>4 DEF TypeOK, OutputTypeOK, KindsLocal
<1>2. QED
  BY <1>1, OuterInv, PTL

(* A stream that is closed, or that could not be opened, has completed its *)
(* file or has thrown an exception, through any crashes and lost answers.  *)
THEOREM NoOrphan == Spec => []NoSilentOrphan
<1>1. Outer => NoSilentOrphan
  BY DEF Outer, Called, NoSilentOrphan
<1>2. QED
  BY <1>1, OuterInv, PTL

-------------------------------------------------------------------------------
(* Where the thread is.                                                    *)

(* The step the thread is at, and that nothing has made it give up.        *)
Now == IF todo = <<>> THEN "rest" ELSE Head(todo)

Alive == ~lastError /\ phase # "closed" /\ Now # "throw"

Recovery == {"extend", "connect", "update", "resend"}

Sending == {"alloc", "push", "spill", "write", "poll"}

(* The connection is set up as far as the step needs it.                   *)
Placed == Alive =>
  /\ Now \in {"push", "write", "last", "fsync"} => link = "up"
  /\ Now \in {"spill", "poll", "flush"} => link \in {"up"} \cup Recovery
  /\ Now = "alloc" => link \in {"none", "create", "abandon"}
  /\ Now = "rest" => link \in {"none", "up"}
  /\ Now = "complete" => link = "none"
  /\ link # "none" => nodes # <<>>

(* There is a packet in hand as long as one is being sent.                 *)
Handed == Alive =>
  /\ Now \in Sending => held # None
  /\ Now \in {"flush", "last", "fsync"} => held = None
  /\ call \in {"flush", "sync"} /\ Now = "rest" => held = None
  /\ call = "none" /\ lastFlushed = cursor => held = None

(* A thread with something to do is alive, or on its way out.              *)
LEMMA Running ==
  ASSUME Kinds, Called
  PROVE  /\ todo # <<>> => Now = Head(todo) /\ call # "none"
         /\ todo # <<>> /\ Now # "throw" => Alive
         /\ Now \in Steps \cup {"rest"}
<1>1. todo # <<>> => call # "none" /\ Head(todo) \in Steps
  BY HeadTailProperties DEF Kinds, Listed, Listing, EndOf
<1>2. QED
  BY <1>1 DEF Called, Alive, Now

(* The step after this one.                                                *)
LEMMA NowTail ==
  ASSUME Kinds, todo # <<>>, todo' = Tail(todo)
  PROVE  \/ /\ Now' = "rest" /\ Now \in {"poll", "flush", "fsync", "complete", "throw"}
            /\ EndOf(call, Now)
         \/ Now' # "rest" /\ Follows(Now, Now')
<1>1. Listing(todo, call) /\ Now = Head(todo)
  BY DEF Kinds, Listed, Now
<1>2. CASE Tail(todo) = <<>>
  <2>1. EndOf(call, Now) /\ Now \in {"poll", "flush", "fsync", "complete", "throw"}
    BY <1>1, <1>2, ListEnd DEF EndOf
  <2>2. QED
    BY <1>2, <2>1 DEF Now
<1>3. CASE Tail(todo) # <<>>
  <2>1. Follows(Now, Head(Tail(todo)))
    BY <1>1, <1>3, ListTail
  <2>2. Now' = Head(Tail(todo))
    BY <1>3 DEF Now
  <2>3. QED
    BY <2>1, <2>2 DEF Follows
<1>4. QED
  BY <1>2, <1>3

(* A packet for which there is room is written at once.                    *)
LEMMA NowPush ==
  ASSUME Kinds, Thread("push"), todo' = Tail(Tail(todo))
  PROVE  Now' = "write"
<1> DEFINE t == Tail(todo)
<1>1. Listing(t, call) /\ t # <<>> /\ Follows("push", Head(t))
  BY ListTail DEF Kinds, Listed, Thread
<1>2. todo' = Tail(t)
  OBVIOUS
<1> HIDE DEF t
<1>3. Head(t) = "spill"
  BY <1>1 DEF Follows
<1>4. Tail(t) # <<>> /\ Follows("spill", Head(Tail(t)))
  BY <1>1, <1>3, ListTail
<1>5. QED
  BY <1>2, <1>4 DEF Now, Follows

(* The steps a method begins with.                                         *)
LEMMA HeadOfConcat ==
  ASSUME NEW a \in Seq(Steps), NEW b \in Seq(Steps), a # <<>>
  PROVE  a \o b # <<>> /\ Head(a \o b) = Head(a) /\ a \o b \in Seq(Steps)
<1> DEFINE c == a \o b
<1>1. c \in Seq(Steps) /\ Len(c) = Len(a) + Len(b) /\ c[1] = a[1]
  BY ConcatProperties
<1> HIDE DEF c
<1>2. c # <<>> /\ Head(c) = Head(a)
  BY <1>1
<1>3. QED
  BY <1>1, <1>2 DEF c

First == IF link = "none" THEN "alloc" ELSE "push"

(* A method with something to send begins by sending it.                   *)
LEMMA SendStarts ==
  ASSUME NEW q \in Seq(Steps)
  PROVE  /\ SendSteps \o q # <<>> /\ Head(SendSteps \o q) = First /\ SendSteps \o q \in Seq(Steps)
BY Sends, HeadOfConcat DEF First

(* close() begins by sending, by waiting for acks, or by completing.       *)
LEMMA CloseStarts ==
  /\ (SendSteps \o CloseSteps) \o <<"complete">> # <<>>
  /\ Head((SendSteps \o CloseSteps) \o <<"complete">>) = First
  /\ (<<>> \o CloseSteps) \o <<"complete">> # <<>>
  /\ Head((<<>> \o CloseSteps) \o <<"complete">>) = "flush"
  /\ (<<>> \o <<>>) \o <<"complete">> # <<>>
  /\ Head((<<>> \o <<>>) \o <<"complete">>) = "complete"
<1>1. CloseSteps \in Seq(Steps) /\ <<"complete">> \in Seq(Steps) /\ <<>> \in Seq(Steps)
  BY Closes DEF Steps
<1>2. /\ (SendSteps \o CloseSteps) \o <<"complete">> # <<>>
      /\ Head((SendSteps \o CloseSteps) \o <<"complete">>) = First
  BY <1>1, SendStarts, HeadOfConcat
<1>3. /\ (<<>> \o CloseSteps) \o <<"complete">> # <<>>
      /\ Head((<<>> \o CloseSteps) \o <<"complete">>) = "flush"
  <2>1. <<>> \o CloseSteps = CloseSteps
    BY <1>1, ConcatEmptySeq
  <2>2. CloseSteps # <<>> /\ Head(CloseSteps) = "flush"
    BY DEF CloseSteps
  <2>3. QED
    BY <1>1, <2>1, <2>2, HeadOfConcat
<1>4. (<<>> \o <<>>) \o <<"complete">> = <<"complete">>
  BY <1>1, ConcatEmptySeq
<1>5. QED
  BY <1>2, <1>3, <1>4

(* append() begins and ends between two steps of the pipeline, or has a    *)
(* packet in hand to send.                                                 *)
LEMMA AppendStarts ==
  ASSUME Kinds, Append1
  PROVE  /\ Now = "rest" /\ call = "none" /\ todo = <<>>
         /\ Now' = "rest" \/ (held' # None /\ Now' = First)
<1>1. todo = <<>>
  BY DEF Append1, Ready, Kinds, Listed, Listing, EndOf
<1>2. /\ SendSteps \o CloseSteps # <<>> /\ Head(SendSteps \o CloseSteps) = First
      /\ SendSteps \o <<>> # <<>> /\ Head(SendSteps \o <<>>) = First
  BY SendStarts, Closes
<1>3. todo' = <<>> \/ (held' # None /\ todo' \in {SendSteps \o CloseSteps, SendSteps \o <<>>})
  BY DEF Append1
<1>4. QED
  BY <1>1, <1>2, <1>3 DEF Now, Append1, Ready

(* flush() and sync() send, wait, or have nothing to do.                   *)
LEMMA FlushStarts ==
  ASSUME Kinds, NEW sync \in BOOLEAN, Flushing(sync)
  PROVE  /\ Now = "rest" /\ call = "none" /\ todo = <<>>
         /\ \/ lastFlushed = cursor /\ Now' = "rest" /\ UNCHANGED <<held, lastFlushed, seqno>>
            \/ held' # None /\ Now' = First
            \/ held' = None /\ link # "none" /\ Now' = "flush"
            \/ held' = None /\ link = "none" /\ Now' = "rest"
<1>1. todo = <<>>
  BY DEF Flushing, Ready, Kinds, Listed, Listing, EndOf
<1>2. /\ SendSteps \o <<"flush">> # <<>> /\ Head(SendSteps \o <<"flush">>) = First
      /\ <<>> \o <<"flush">> = <<"flush">> /\ <<>> \o <<>> = <<>>
  <2>1. <<"flush">> \in Seq(Steps) /\ <<>> \in Seq(Steps)
    BY DEF Steps
  <2>2. QED
    BY <2>1, SendStarts, ConcatEmptySeq
<1>3. \/ lastFlushed = cursor /\ UNCHANGED <<lastFlushed, held, seqno, todo>>
      \/ todo' = FlushSteps(held')
  BY DEF Flushing, Hold
<1>4. CASE lastFlushed = cursor /\ UNCHANGED <<lastFlushed, held, seqno, todo>>
  BY <1>1, <1>4 DEF Now, Flushing, Ready
<1>5. CASE todo' = FlushSteps(held')
  <2>1. CASE held' # None
    <3>1. todo' = SendSteps \o <<"flush">>
      BY <1>5, <2>1 DEF FlushSteps
    <3>2. QED
      BY <1>1, <1>2, <2>1, <3>1 DEF Now, Flushing, Ready
  <2>2. CASE held' = None /\ link # "none"
    <3>1. todo' = <<"flush">>
      BY <1>2, <1>5, <2>2 DEF FlushSteps
    <3>2. QED
      BY <1>1, <2>2, <3>1 DEF Now, Flushing, Ready
  <2>3. CASE held' = None /\ link = "none"
    <3>1. todo' = <<>>
      BY <1>2, <1>5, <2>3 DEF FlushSteps
    <3>2. QED
      BY <1>1, <2>3, <3>1 DEF Now, Flushing, Ready
  <2>4. QED
    BY <2>1, <2>2, <2>3
<1>6. QED
  BY <1>3, <1>4, <1>5

(* close() sends what is not flushed, then closes the pipeline if there is *)
(* one.                                                                    *)
LEMMA CloseBegins ==
  ASSUME Kinds, Close, ~lastError
  PROVE  /\ Now = "rest" /\ call = "none" /\ todo = <<>>
         /\ \/ held' # None /\ lastFlushed # cursor /\ Now' = First
            \/ /\ held' = None \/ (lastFlushed = cursor /\ held' = held)
               /\ Now' = IF link # "none" THEN "flush" ELSE "complete"
<1>1. todo = <<>>
  BY DEF Close, Ready, Kinds, Listed, Listing, EndOf
<1> DEFINE send == lastFlushed # cursor /\ held' # None
<1>2. /\ todo' = ((IF send THEN SendSteps ELSE <<>>)
                  \o (IF send \/ link # "none" THEN CloseSteps ELSE <<>>)) \o <<"complete">>
      /\ lastFlushed = cursor => held' = held
  <2> DEFINE part == IF lastFlushed # cursor /\ position > 0 THEN Filled(position) ELSE held
             s    == lastFlushed # cursor /\ part # None
  <2>1. /\ Hold(part)
        /\ todo' = ((IF s THEN SendSteps ELSE <<>>)
                    \o (IF s \/ link # "none" THEN CloseSteps ELSE <<>>)) \o <<"complete">>
    BY DEF Close, Broken
  <2>2. held' = part
    BY <2>1 DEF Hold
  <2>3. s = send
    BY <2>2
  <2>4. QED
    BY <2>1, <2>2, <2>3
<1>3. CASE send
  <2>1. todo' = (SendSteps \o CloseSteps) \o <<"complete">>
    BY <1>2, <1>3
  <2>2. QED
    BY <1>1, <1>3, <2>1, CloseStarts DEF Now, Close, Ready
<1>4. CASE ~send /\ link # "none"
  <2>1. todo' = (<<>> \o CloseSteps) \o <<"complete">>
    BY <1>2, <1>4
  <2>2. QED
    BY <1>1, <1>2, <1>4, <2>1, CloseStarts DEF Now, Close, Ready
<1>5. CASE ~send /\ link = "none"
  <2>1. todo' = (<<>> \o <<>>) \o <<"complete">>
    BY <1>2, <1>5
  <2>2. QED
    BY <1>1, <1>2, <1>5, <2>1, CloseStarts DEF Now, Close, Ready
<1>6. QED
  BY <1>3, <1>4, <1>5

(* What has given up stays so.                                             *)
LEMMA StaysAlive == ASSUME Kinds, Called, [Next]_vars, Alive' PROVE Alive
<1>1. CASE UNCHANGED <<lastError, phase, todo>>
  BY <1>1 DEF Alive, Now
<1>2. CASE (PipelineStep /\ UNCHANGED local) \/ MarkLast \/ Fsync \/ Complete
  <2>1. todo # <<>> /\ Head(todo) # "throw"
    BY <1>2, PipelineTodo DEF MarkLast, Fsync, Complete, Thread
  <2>2. QED
    BY <2>1, Running
<1>3. CASE Rethrow
  BY <1>3 DEF Rethrow, Alive
<1>4. CASE Return
  BY <1>4 DEF Return, Alive, Now, pipeline
<1>5. CASE Open
  BY <1>5 DEF Open, Alive, Now, pipeline
<1>6. CASE Append1 \/ (\E sync \in BOOLEAN : Flushing(sync)) \/ Close
  <2>1. phase = "open" /\ lastError' = lastError
    BY <1>6 DEF Append1, Flushing, Close, Ready
  <2>2. Now = "rest"
    <3>1. todo = <<>>
      BY <1>6 DEF Append1, Flushing, Close, Ready, Kinds, Listed, Listing, EndOf
    <3>2. QED
      BY <3>1 DEF Now
  <2>3. QED
    BY <2>1, <2>2 DEF Alive
<1>7. CASE Delivery \/ Crashes \/ UNCHANGED vars
  BY <1>1, <1>7 DEF Delivery, Receive, Crashes, vars, pipeline, local
<1>8. QED
  BY <1>2, <1>3, <1>4, <1>5, <1>6, <1>7 DEF Next, ClientStep, CallStep

(* Both hold at first.                                                     *)
LEMMA PlacedInit == Init => Placed /\ Handed
BY DEF Init, PipelineInit, Placed, Handed, Now, Recovery, Sending

(* Placed is inductive.                                                    *)
LEMMA PlacedStep == ASSUME Kinds, Called, Placed, [Next]_vars PROVE Placed'
<1> SUFFICES ASSUME Alive' PROVE Placed'
  BY DEF Placed
<1>0. /\ Alive
      /\ todo # <<>> => Now = Head(todo)
      /\ Now \in {"push", "write", "last", "fsync"} => link = "up"
      /\ Now \in {"spill", "poll", "flush"} => link \in {"up"} \cup Recovery
      /\ Now = "alloc" => link \in {"none", "create", "abandon"}
      /\ Now = "rest" => link \in {"none", "up"}
      /\ Now = "complete" => link = "none"
      /\ link # "none" => nodes # <<>>
  BY StaysAlive, Running DEF Placed
<1>T. todo' # <<"throw">> /\ (todo' = todo => Now' = Now)
  BY DEF Alive, Now
<1> USE DEF Recovery
<1>1. CASE UNCHANGED <<todo, link, nodes>>
  BY <1>0, <1>1 DEF Placed, Now
<1>2. CASE Alloc
  BY <1>0, <1>2, <1>T DEF Alloc, Throw, Thread, Placed
<1>3. CASE Create
  <2>1. CASE link' = "up" /\ todo' = Tail(todo) /\ nodes' = nodes
    BY <1>0, <1>3, <2>1, NowTail DEF Create, Thread, Placed, Follows
  <2>2. CASE link' = "abandon" /\ UNCHANGED <<todo, nodes>>
    BY <1>0, <1>3, <2>2, <1>T DEF Create, Thread, Placed
  <2>3. QED
    BY <1>3, <2>1, <2>2 DEF Create
<1>4. CASE Abandon
  BY <1>0, <1>4, <1>T DEF Abandon, Thread, Throw, Placed
<1>5. CASE Push
  <2>1. Now = "push" /\ UNCHANGED <<link, nodes>> /\ todo # <<>>
    BY <1>0, <1>5 DEF Push, Thread, setup
  <2>2. Now' \in {"spill", "write"}
    BY <1>5, <2>1, NowTail, NowPush DEF Push, Follows
  <2>3. QED
    BY <1>0, <2>1, <2>2 DEF Placed
<1>6. CASE EndWait \/ Write \/ NoAckYet \/ ReadAck
  <2>1. /\ link = "up" /\ UNCHANGED <<link, nodes>> /\ todo # <<>>
        /\ Now \in {"flush", "spill", "write", "poll"} /\ todo' \in {todo, Tail(todo)}
    BY <1>0, <1>6 DEF EndWait, AtWait, Waits, Write, NoAckYet, ReadAck, EndSend, Thread, setup
  <2>2. Now' \in {"flush", "spill", "write", "poll", "last", "fsync", "rest"}
    BY <2>1, <1>T, NowTail DEF Follows
  <2>3. QED
    BY <1>0, <2>1, <2>2 DEF Placed
<1>7. ASSUME NEW chain, NEW i, NEW out, DropNode(chain, i, out), todo # <<>>,
             Now \in {"spill", "poll", "flush", "write"}
      PROVE  Placed'
  <2>1. nodes' # <<>> /\ link' \in {"extend", "connect"}
    BY <1>7, <1>T DEF DropNode, Throw, Rebuild
  <2>2. Now' \in {"spill", "poll", "flush"}
    <3>1. CASE Now = "write"
      <4>1. todo' = Tail(todo)
        BY <1>0, <1>7, <1>T, <3>1 DEF DropNode, Throw, Thread
      <4>2. QED
        BY <1>7, <3>1, <4>1, NowTail DEF Follows
    <3>2. CASE Now # "write"
      <4>1. todo' = todo
        BY <1>0, <1>7, <1>T, <3>2 DEF DropNode, Throw, Thread
      <4>2. QED
        BY <1>7, <1>T, <3>2, <4>1
    <3>3. QED
      BY <3>1, <3>2
  <2>3. QED
    BY <2>1, <2>2 DEF Placed
<1>8. CASE Fail
  BY <1>0, <1>7, <1>8 DEF Fail, Waits, AtWait, Thread
<1>9. ASSUME NEW stage, Recovers(stage), stage \in Recovery
      PROVE  Now \in {"spill", "poll", "flush"} /\ todo # <<>> /\ link = stage /\ nodes # <<>>
  BY <1>0, <1>9 DEF Recovers, Thread
<1>10. CASE WriteTimesOut
  BY <1>10, <1>T DEF WriteTimesOut, Throw
<1>11. ASSUME Now \in {"spill", "poll", "flush"}, Now' = Now, link' \in {"up"} \cup Recovery, nodes' # <<>>
       PROVE  Placed'
  BY <1>11 DEF Placed
<1>12. CASE Extend
  <2>1. Now \in {"spill", "poll", "flush"} /\ nodes # <<>>
    BY <1>9, <1>12 DEF Extend
  <2>2. nodes' # <<>> /\ link' \in Recovery /\ todo' = todo
    BY <1>12, <1>T, <2>1, Extended DEF Joined, Untried, Unmoved, Again, Rebuild, Throw
  <2>3. QED
    BY <1>11, <1>T, <2>1, <2>2
<1>13. CASE Connect
  <2>1. Now \in {"spill", "poll", "flush"} /\ nodes # <<>> /\ todo # <<>>
    BY <1>9, <1>13 DEF Connect
  <2>2. CASE \E i \in DOMAIN nodes : DropNode(nodes, i, excluded)
    BY <1>7, <2>1, <2>2
  <2>3. CASE nodes' = nodes /\ link' \in Recovery /\ todo' = todo
    BY <1>11, <1>T, <2>1, <2>3
  <2>4. QED
    BY <1>13, <1>T, <2>2, <2>3 DEF Connect, Again, Rebuild, Throw
<1>14. CASE Update
  <2>1. Now \in {"spill", "poll", "flush"} /\ nodes # <<>> /\ todo # <<>> /\ nodes' = nodes
    BY <1>9, <1>14 DEF Update
  <2>2. /\ link' \in {"up", "resend"}
        /\ \/ todo' = todo
           \/ Now = "poll" /\ todo' = Tail(todo) /\ link' = "up"
    BY <1>0, <1>14, <1>T DEF Update, Throw, EndSend, Thread
  <2>3. CASE todo' = todo
    BY <1>11, <1>T, <2>1, <2>2, <2>3
  <2>4. CASE Now = "poll" /\ todo' = Tail(todo) /\ link' = "up"
    BY <2>1, <2>4, NowTail DEF Placed, Follows
  <2>5. QED
    BY <2>2, <2>3, <2>4
<1>15. CASE Resend
  <2>1. Now \in {"spill", "poll", "flush"} /\ nodes # <<>>
    BY <1>9, <1>15 DEF Resend
  <2>2. nodes' = nodes /\ link' = "up" /\ todo' = todo
    BY <1>15 DEF Resend
  <2>3. QED
    BY <1>11, <1>T, <2>1, <2>2
<1>16. CASE MarkLast
  <2>1. Now = "last" /\ todo # <<>> /\ todo' = Tail(todo) /\ UNCHANGED <<link, nodes>>
    BY <1>0, <1>16 DEF MarkLast, Thread
  <2>2. Now' = "push"
    BY <2>1, NowTail DEF Follows
  <2>3. QED
    BY <1>0, <2>1, <2>2 DEF Placed
<1>17. CASE Fsync
  <2>1. Now = "fsync" /\ todo # <<>> /\ todo' = Tail(todo) /\ link' = "none"
    BY <1>0, <1>17, <1>T DEF Fsync, Thread, Throw
  <2>2. Now' \in {"complete", "rest"}
    BY <2>1, NowTail DEF Follows
  <2>3. QED
    BY <2>1, <2>2 DEF Placed
<1>18. CASE Complete
  <2>1. Now = "complete" /\ todo # <<>> /\ todo' = Tail(todo) /\ UNCHANGED <<link, nodes>>
    BY <1>0, <1>18, <1>T DEF Complete, Thread, Throw, setup
  <2>2. Now' = "rest"
    BY <2>1, NowTail DEF Follows
  <2>3. QED
    BY <1>0, <2>1, <2>2 DEF Placed
<1>19. CASE Rethrow
  BY <1>19 DEF Rethrow, Alive
<1>20. CASE Append1
  <2>1. Now = "rest" /\ Now' \in {"rest", First} /\ UNCHANGED <<link, nodes>>
    BY <1>20, AppendStarts DEF Append1, setup
  <2>2. QED
    BY <1>0, <2>1 DEF Placed, First
<1>21. ASSUME NEW sync \in BOOLEAN, Flushing(sync) PROVE Placed'
  <2>1. /\ Now = "rest" /\ UNCHANGED <<link, nodes>>
        /\ Now' \in {"rest", First} \/ (Now' = "flush" /\ link # "none")
    BY <1>21, FlushStarts DEF Flushing, setup
  <2>2. QED
    BY <1>0, <2>1 DEF Placed, First
<1>22. CASE Close
  <2>1. /\ Now = "rest" /\ UNCHANGED <<link, nodes>>
        /\ Now' \in {First, IF link # "none" THEN "flush" ELSE "complete"}
    BY <1>0, <1>22, CloseBegins DEF Close, setup, Alive
  <2>2. QED
    BY <1>0, <2>1 DEF Placed, First
<1>23. CASE Return \/ Open \/ Crashes \/ UNCHANGED vars
  BY <1>1, <1>23 DEF Return, Open, Crashes, vars, pipeline, setup
<1>24. CASE Delivery
  BY <1>1, <1>24 DEF Delivery, Receive, setup
<1>25. QED
  BY <1>2, <1>3, <1>4, <1>5, <1>6, <1>8, <1>10, <1>12, <1>13, <1>14, <1>15, <1>16, <1>17, <1>18, <1>19,
     <1>20, <1>21, <1>22, <1>23, <1>24
  DEF Next, ClientStep, CallStep, PipelineStep

(* Handed is inductive.                                                    *)
LEMMA HandedStep == ASSUME Kinds, Called, Placed, Handed, [Next]_vars PROVE Handed'
<1> SUFFICES ASSUME Alive' PROVE Handed'
  BY DEF Handed
<1>0. /\ Alive
      /\ todo # <<>> => Now = Head(todo) /\ call # "none"
      /\ Now \in Sending => held # None
      /\ Now \in {"flush", "last", "fsync"} => held = None
      /\ call \in {"flush", "sync"} /\ Now = "rest" => held = None
      /\ call = "none" /\ lastFlushed = cursor => held = None
  BY StaysAlive, Running DEF Handed
<1>T. todo' # <<"throw">> /\ (todo' = todo => Now' = Now)
  BY DEF Alive, Now
<1> USE DEF Sending
<1>1. CASE UNCHANGED <<todo, held, call, lastFlushed, cursor>>
  BY <1>0, <1>1 DEF Handed, Now
<1>2. CASE (Alloc \/ Abandon \/ WriteTimesOut \/ Extend \/ Connect \/ Resend) /\ call' = call
  <2>1. CASE Extend
    <3>1. todo' = todo
      BY <1>T, <2>1, Extended DEF Extend, Recovers, Thread, Joined, Untried, Unmoved, Again, Throw
    <3>2. held' = held
      BY <2>1 DEF Extend, queue
    <3>3. todo # <<>>
      BY <2>1 DEF Extend, Recovers, Thread
    <3>4. QED
      BY <1>0, <1>2, <1>T, <3>1, <3>2, <3>3 DEF Handed
  <2>2. CASE ~Extend
    <3>1. todo # <<>> /\ held' = held /\ todo' \in {todo, <<"throw">>}
      BY <1>2, <2>2 DEF Alloc, Abandon, WriteTimesOut, Connect, Resend, DropNode, Recovers, Again, Throw,
                         Thread, queue
    <3>2. QED
      BY <1>0, <1>2, <1>T, <3>1 DEF Handed
  <2>3. QED
    BY <2>1, <2>2
<1>3. ASSUME held' = held, todo # <<>>, call' = call, todo' = Tail(todo), Now \in {"alloc", "spill", "write", "push"}
      PROVE  Handed'
  <2>1. Now' \in Sending
    BY <1>3, NowTail DEF Follows
  <2>2. QED
    BY <1>0, <1>3, <2>1 DEF Handed
<1>4. ASSUME held' = None PROVE Handed' \/ Now' \in Sending
  BY <1>4 DEF Handed
<1>5. CASE (Create \/ Push \/ Write) /\ call' = call
  <2>1. todo # <<>> /\ held' = held
        /\ \/ Now \in {"alloc", "write", "push"} /\ todo' = Tail(todo)
           \/ todo' = todo
           \/ Thread("push") /\ todo' = Tail(Tail(todo))
    BY <1>0, <1>5 DEF Create, Push, Write, Thread, queue
  <2>2. CASE Thread("push") /\ todo' = Tail(Tail(todo))
    <3>1. Now' = "write" /\ held # None
      BY <1>0, <2>2, NowPush DEF Thread
    <3>2. QED
      BY <1>0, <1>5, <2>1, <3>1 DEF Handed
  <2>3. CASE todo' = todo
    BY <1>0, <1>5, <1>T, <2>1, <2>3 DEF Handed
  <2>4. QED
    BY <1>3, <1>5, <2>1, <2>2, <2>3
<1>6. CASE EndWait /\ call' = call
  <2>1. todo # <<>> /\ Now \in {"flush", "spill"} /\ todo' = Tail(todo) /\ held' = held
    BY <1>0, <1>6 DEF EndWait, AtWait, Thread, queue
  <2>2. CASE Now = "flush"
    <3>1. Now' \in {"rest", "last", "fsync"} /\ held = None
      BY <1>0, <2>1, <2>2, NowTail DEF Follows
    <3>2. QED
      BY <1>4, <2>1, <3>1
  <2>3. QED
    BY <1>3, <1>6, <2>1, <2>2
<1>7. ASSUME EndSend, Now = "poll", todo # <<>> PROVE Handed'
  <2>1. Now' \in {"rest", "flush"}
    BY <1>7, NowTail DEF EndSend, Follows
  <2>2. QED
    BY <1>4, <1>7, <2>1 DEF EndSend
<1>8. CASE NoAckYet
  BY <1>0, <1>7, <1>8 DEF NoAckYet, Thread
<1>9. CASE ReadAck /\ call' = call
  <2>1. CASE Thread("poll")
    BY <1>0, <1>7, <1>9, <2>1 DEF ReadAck, Thread
  <2>2. CASE ~Thread("poll")
    BY <1>0, <1>9, <1>T, <2>2 DEF ReadAck, Waits, AtWait, Thread, Handed
  <2>3. QED
    BY <2>1, <2>2
<1>10. CASE Fail /\ call' = call
  <2>1. PICK i \in DOMAIN nodes : DropNode(nodes, i, {})
    BY <1>10 DEF Fail
  <2>2. todo # <<>> /\ held' = held /\ Now \in {"write", "poll", "spill", "flush"}
    BY <1>0, <1>10 DEF Fail, Waits, AtWait, Thread, queue
  <2>3. \/ todo' = todo
        \/ Now = "write" /\ todo' = Tail(todo)
    BY <1>0, <1>T, <2>1, <2>2 DEF DropNode, Throw, Thread
  <2>4. CASE todo' = todo
    BY <1>0, <1>10, <1>T, <2>2, <2>4 DEF Handed
  <2>5. QED
    BY <1>3, <1>10, <2>2, <2>3, <2>4
<1>11. CASE Update /\ call' = call
  <2>1. todo # <<>>
    BY <1>11 DEF Update, Recovers, Thread
  <2>2. CASE UNCHANGED <<todo, held>>
    BY <1>0, <1>11, <1>T, <2>1, <2>2 DEF Handed
  <2>3. CASE EndSend /\ Thread("poll")
    BY <1>0, <1>7, <2>1, <2>3 DEF Thread
  <2>4. QED
    BY <1>11, <1>T, <2>2, <2>3 DEF Update, Throw
<1>12. CASE MarkLast
  <2>1. Now = "last" /\ todo # <<>> /\ todo' = Tail(todo) /\ call' = call /\ held' = NewPacket(TRUE)
    BY <1>0, <1>12 DEF MarkLast, Thread, Hold
  <2>2. Now' = "push"
    BY <2>1, NowTail DEF Follows
  <2>3. held' # None
    <3>1. NewPacket(TRUE).last # None.last
      BY DEF NewPacket, None
    <3>2. QED
      BY <2>1, <3>1
  <2>4. QED
    BY <1>0, <2>1, <2>2, <2>3 DEF Handed
<1>13. CASE Fsync
  <2>1. Now = "fsync" /\ todo # <<>> /\ todo' = Tail(todo) /\ held' = held
    BY <1>0, <1>13, <1>T DEF Fsync, Thread, Throw, queue
  <2>2. Now' \in {"complete", "rest"}
    BY <2>1, NowTail DEF Follows
  <2>3. QED
    BY <1>0, <1>4, <2>1, <2>2
<1>14. CASE Complete
  <2>1. Now = "complete" /\ todo # <<>> /\ todo' = Tail(todo) /\ call' = call
    BY <1>0, <1>14, <1>T DEF Complete, Thread, Throw, local
  <2>2. Now' = "rest" /\ call = "close"
    BY <2>1, NowTail DEF Follows, EndOf
  <2>3. QED
    BY <2>1, <2>2 DEF Handed
<1>15. CASE Rethrow
  BY <1>15 DEF Rethrow, Alive
<1>16. CASE Return
  <2>1. /\ Now = "rest" /\ Now' = "rest" /\ call' = "none" /\ call # "close" /\ call # "none"
        /\ held' = held /\ lastFlushed' = lastFlushed
        /\ cursor' = IF call = "append" THEN cursor + 1 ELSE cursor
    BY <1>16 DEF Return, Alive, Now, pipeline, queue
  <2>2. cursor \in Nat /\ lastFlushed \in Nat /\ lastFlushed <= cursor /\ call \in Methods \cup {"none"}
    BY DEF Called, Kinds, KindsLocal
  <2>3. CASE call = "append"
    <3>1. lastFlushed' # cursor'
      BY <2>1, <2>2, <2>3
    <3>2. QED
      BY <2>1, <3>1 DEF Handed
  <2>4. CASE call \in {"flush", "sync"}
    BY <1>0, <2>1, <2>4 DEF Handed
  <2>5. QED
    BY <2>1, <2>2, <2>3, <2>4 DEF Methods
<1>17. CASE Append1
  <2>1. call' = "append" /\ (Now' = "rest" \/ (held' # None /\ Now' = First))
    BY <1>17, AppendStarts DEF Append1
  <2>2. QED
    BY <2>1 DEF Handed, First
<1>18. ASSUME NEW sync \in BOOLEAN, Flushing(sync) PROVE Handed'
  <2>1. call = "none" /\ call' \in {"flush", "sync"}
    BY <1>18, FlushStarts DEF Flushing
  <2>2. \/ held' = None /\ Now' \in {"rest", "flush"}
        \/ held' # None /\ Now' = First
    BY <1>0, <1>18, <2>1, FlushStarts
  <2>3. QED
    BY <1>4, <2>1, <2>2 DEF Handed, First
<1>19. CASE Close
  <2>1. call = "none" /\ call' = "close" /\ ~lastError
    BY <1>0, <1>19 DEF Close, Ready, Alive
  <2>2. \/ held' = None /\ Now' \in {"complete", "flush"}
        \/ held' # None /\ Now' = First
    BY <1>0, <1>19, <2>1, CloseBegins
  <2>3. QED
    BY <1>4, <2>1, <2>2 DEF Handed, First
<1>20. CASE Open \/ Crashes \/ UNCHANGED vars
  BY <1>1, <1>20 DEF Open, Crashes, vars, pipeline, local, queue
<1>21. CASE Delivery
  BY <1>1, <1>21 DEF Delivery, Receive, queue, local
<1>22. QED
  BY <1>2, <1>5, <1>6, <1>8, <1>9, <1>10, <1>11, <1>12, <1>13, <1>14, <1>15, <1>16, <1>17, <1>18, <1>19,
     <1>20, <1>21
  DEF Next, ClientStep, CallStep, PipelineStep, local

-------------------------------------------------------------------------------
(* The packets.                                                            *)

Sent == ToSet(packets) \cup ToSet(wire)

(* A number stands for one packet, and the packet in hand has a number of  *)
(* its own until it is sent.                                               *)
Numbered ==
  /\ \A p, q \in Sent : p.seq = q.seq => p.end = q.end
  /\ \A p \in Sent : p.seq < seqno
  /\ held # None => held.seq < seqno /\ \A p \in Sent : p.seq = held.seq => p.end = held.end
  /\ Alive /\ held # None /\ Now \notin {"spill", "write", "poll"} => \A p \in Sent : p.seq # held.seq

(* bytesSent covers what is in the queue, but for the packet not written   *)
(* yet; and nothing is in the queue when a block begins and ends.          *)
Unsent(k) == k = Len(packets) /\ (Now \in {"spill", "write"} \/ link \in Recovery)

Queued == Alive =>
  /\ \A k \in 1 .. Len(packets) : packets[k].end <= sent \/ Unsent(k)
  /\ Now \in {"spill", "write"} => packets = <<>> \/ packets[Len(packets)] = held
  /\ Now \in {"last", "fsync"} \/ link \in {"none", "create", "abandon"} => packets = <<>>

(* The elements of a sequence.                                             *)
LEMMA SetOfTail ==
  ASSUME NEW S, NEW q \in Seq(S), q # <<>>
  PROVE  ToSet(Tail(q)) \subseteq ToSet(q) /\ Head(q) \in ToSet(q)
<1> DEFINE t == Tail(q)
<1>1. t \in Seq(S) /\ Len(t) = Len(q) - 1 /\ \A i \in 1 .. Len(q) - 1 : t[i] = q[i + 1]
  BY HeadTailProperties
<1>2. Len(q) \in Nat \ {0} /\ DOMAIN q = 1 .. Len(q)
  OBVIOUS
<1> HIDE DEF t
<1>3. ASSUME NEW x \in ToSet(t) PROVE x \in ToSet(q)
  <2>1. PICK i \in 1 .. Len(q) - 1 : x = t[i]
    BY <1>1, <1>3 DEF ToSet
  <2>2. i + 1 \in DOMAIN q /\ x = q[i + 1]
    BY <1>1, <1>2, <2>1
  <2>3. QED
    BY <2>2 DEF ToSet
<1>4. Head(q) \in ToSet(q)
  BY <1>2 DEF ToSet
<1>5. QED
  BY <1>3, <1>4 DEF t

(* The packets of a queue that has grown by one,                           *)
LEMMA SetOfAppend ==
  ASSUME NEW S, NEW q \in Seq(S), NEW e \in S
  PROVE  ToSet(Append(q, e)) = ToSet(q) \cup {e}
<1> DEFINE b == Append(q, e)
<1>1. /\ b \in Seq(S) /\ Len(b) = Len(q) + 1 /\ b[Len(q) + 1] = e
      /\ \A i \in 1 .. Len(q) : b[i] = q[i]
  BY AppendProperties
<1>2. Len(q) \in Nat /\ DOMAIN q = 1 .. Len(q) /\ DOMAIN b = 1 .. Len(q) + 1
  BY <1>1
<1> HIDE DEF b
<1>3. ASSUME NEW x \in ToSet(b) PROVE x \in ToSet(q) \cup {e}
  <2>1. PICK i \in 1 .. Len(q) + 1 : x = b[i]
    BY <1>2, <1>3 DEF ToSet
  <2>2. CASE i = Len(q) + 1
    BY <1>1, <2>1, <2>2
  <2>3. CASE i # Len(q) + 1
    <3>1. i \in 1 .. Len(q)
      BY <1>2, <2>3
    <3>2. QED
      BY <1>1, <1>2, <2>1, <3>1 DEF ToSet
  <2>4. QED
    BY <2>2, <2>3
<1>4. e \in ToSet(b)
  BY <1>1, <1>2 DEF ToSet
<1>5. ToSet(q) \subseteq ToSet(b)
  BY <1>1, <1>2 DEF ToSet
<1>6. QED
  BY <1>3, <1>4, <1>5 DEF b

(* and of an empty queue.                                                  *)
LEMMA SetOfNone == ToSet(<<>>) = {}
BY DEF ToSet

(* The packets sent are packets.                                           *)
LEMMA SentKinds ==
  ASSUME Kinds
  PROVE  /\ Sent \subseteq Packet /\ held \in Packet /\ seqno \in Nat
         /\ \A p \in Packet : p.seq \in Nat /\ p.start \in Nat /\ p.end \in Nat /\ p.last \in BOOLEAN
<1>1. packets \in Seq(Packet) /\ wire \in Seq(Packet) /\ held \in Packet /\ seqno \in Nat
  BY DEF Kinds, KindsQueue, KindsLocal
<1>2. \A q \in Seq(Packet) : ToSet(q) \subseteq Packet
  BY DEF ToSet
<1>3. \A p \in Packet : p.seq \in Nat /\ p.start \in Nat /\ p.end \in Nat /\ p.last \in BOOLEAN
  BY DEF Packet
<1>4. QED
  BY <1>1, <1>2, <1>3 DEF Sent

(* Nothing new is sent.                                                    *)
LEMMA NumberedLess ==
  ASSUME Kinds, Numbered, Sent' \subseteq Sent, seqno' = seqno, held' = held \/ held' = None,
         Alive' /\ held' # None /\ Now' \notin {"spill", "write", "poll"} =>
           Alive /\ Now \notin {"spill", "write", "poll"}
  PROVE  Numbered'
BY DEF Numbered

(* A packet is taken in hand, or filled.                                   *)
LEMMA NumberedHold ==
  ASSUME Kinds, Numbered, NEW p \in Packet, Hold(p), UNCHANGED <<packets, wire>>,
         \/ p = None
         \/ held = None /\ p.seq = seqno
         \/ held # None /\ p.seq = held.seq /\ Alive /\ Now \notin {"spill", "write", "poll"}
  PROVE  Numbered'
<1>1. Sent' = Sent /\ Sent \subseteq Packet /\ seqno \in Nat /\ \A q \in Packet : q.seq \in Nat
  BY SentKinds DEF Sent
<1>2. held' = p /\ seqno' = IF held = None /\ p # None THEN seqno + 1 ELSE seqno
  BY DEF Hold
<1>3. CASE p = None
  BY <1>1, <1>2, <1>3 DEF Numbered
<1>4. CASE p # None /\ held = None /\ p.seq = seqno
  <2>1. seqno' = seqno + 1
    BY <1>2, <1>4
  <2>2. \A q \in Sent : q.seq < seqno /\ q.seq # p.seq
    BY <1>1, <1>4 DEF Numbered
  <2>3. QED
    BY <1>1, <1>2, <1>4, <2>1, <2>2 DEF Numbered
<1>5. CASE p # None /\ held # None /\ p.seq = held.seq /\ Alive /\ Now \notin {"spill", "write", "poll"}
  <2>1. seqno' = seqno /\ \A q \in Sent : q.seq # p.seq
    BY <1>2, <1>5 DEF Numbered
  <2>2. QED
    BY <1>1, <1>2, <1>5, <2>1 DEF Numbered
<1>6. QED
  BY <1>3, <1>4, <1>5

(* The packet in hand is sent.                                             *)
LEMMA NumberedSend ==
  ASSUME Kinds, Numbered, held # None, Sent' = Sent \cup {held}, UNCHANGED <<held, seqno>>,
         Alive' => Now' \in {"spill", "write", "poll"}
  PROVE  Numbered'
<1>1. Sent \subseteq Packet /\ held \in Packet /\ seqno \in Nat /\ \A q \in Packet : q.seq \in Nat
  BY SentKinds
<1>2. QED
  BY <1>1 DEF Numbered

(* Both hold at first.                                                     *)
LEMMA QueuedInit == Init => Numbered /\ Queued
BY SetOfNone DEF Init, PipelineInit, Numbered, Queued, Sent

(* Numbered is inductive.                                                  *)
LEMMA NumberedStep ==
  ASSUME Kinds, Called, Placed, Handed, Numbered, [Next]_vars
  PROVE  Numbered'
<1>0. /\ packets \in Seq(Packet) /\ wire \in Seq(Packet) /\ held \in Packet
      /\ todo # <<>> => Now = Head(todo)
      /\ todo' = todo => Now' = Now
      /\ Alive' => Alive /\ todo' # <<"throw">>
  <2>1. Alive' => Alive /\ todo' # <<"throw">>
    BY StaysAlive DEF Alive, Now
  <2>2. QED
    BY <2>1, Running DEF Now, Kinds, KindsQueue
<1> DEFINE Quiet == {"spill", "write", "poll"}
<1>1. ASSUME packets' = packets, wire' \in {wire, <<>>}, seqno' = seqno, held' = held,
             Alive' /\ held # None => (Now' \notin Quiet => Now \notin Quiet)
      PROVE  Numbered'
  <2>1. Sent' \subseteq Sent
    BY <1>1, SetOfNone DEF Sent
  <2>2. QED
    BY <1>0, <1>1, <2>1, NumberedLess
<1>2. CASE UNCHANGED <<packets, wire, seqno, held, todo>>
  BY <1>0, <1>1, <1>2
<1>3. ASSUME UNCHANGED local PROVE seqno' = seqno
  BY <1>3 DEF local
<1>4. CASE (Alloc \/ Create \/ Abandon \/ WriteTimesOut) /\ UNCHANGED local
  <2>1. packets' = packets /\ held' = held /\ wire' \in {wire, <<>>}
    BY <1>4 DEF Alloc, Create, Abandon, WriteTimesOut, queue, conn, Fresh
  <2>2. todo' = todo \/ todo' = <<"throw">> \/ (todo # <<>> /\ Head(todo) = "alloc")
    BY <1>4 DEF Alloc, Create, Abandon, WriteTimesOut, Thread, Throw
  <2>3. Alive' => (Now' \notin Quiet => Now \notin Quiet)
    BY <1>0, <2>2
  <2>4. QED
    BY <1>1, <1>3, <1>4, <2>1, <2>3
<1>5. CASE (Fail \/ Connect \/ Extend) /\ UNCHANGED local
  <2>1. packets' = packets /\ held' = held /\ wire' \in {wire, <<>>}
    <3>1. CASE Extend
      BY <3>1, Extended DEF Extend, Joined, Untried, Unmoved, Fresh, queue, conn
    <3>2. CASE Fail \/ Connect
      BY <3>2 DEF Fail, Connect, DropNode, Fresh, queue, conn
    <3>3. QED
      BY <1>5, <3>1, <3>2
  <2>2. todo # <<>> /\ (todo' = todo \/ todo' = <<"throw">> \/ (Now = "write" /\ todo' = Tail(todo)))
    <3>1. CASE Extend
      BY <3>1, Extended DEF Extend, Recovers, Thread, Joined, Untried, Unmoved, Again, Throw
    <3>2. CASE Fail \/ Connect
      BY <1>0, <3>2 DEF Fail, Connect, DropNode, Recovers, Waits, AtWait, Again, Thread, Throw
    <3>3. QED
      BY <1>5, <3>1, <3>2
  <2>3. Alive' => (Now' \notin Quiet => Now \notin Quiet)
    BY <1>0, <2>2, NowTail DEF Follows
  <2>4. QED
    BY <1>1, <1>3, <1>5, <2>1, <2>3
<1>6. CASE EndWait /\ UNCHANGED local
  <2>1. packets' = packets /\ held' = held /\ wire' = wire
    BY <1>6 DEF EndWait, queue, conn
  <2>2. todo # <<>> /\ Now \in {"flush", "spill"} /\ todo' = Tail(todo)
    BY <1>0, <1>6 DEF EndWait, AtWait, Thread
  <2>3. Now' \notin Quiet => Now \notin Quiet
    BY <2>2, NowTail DEF Follows
  <2>4. QED
    BY <1>1, <1>3, <1>6, <2>1, <2>3
<1>7. CASE (NoAckYet \/ ReadAck \/ Update) /\ UNCHANGED local
  <2>1. Sent' \subseteq Sent
    <3>1. CASE NoAckYet
      BY <3>1 DEF NoAckYet, conn, Sent
    <3>2. CASE ReadAck
      BY <1>0, <3>2, SetOfTail DEF ReadAck, Readable, Sent
    <3>3. CASE Update
      BY <3>3, SetOfNone DEF Update, conn, Sent
    <3>4. QED
      BY <1>7, <3>1, <3>2, <3>3
  <2>2. \/ UNCHANGED <<todo, held>>
        \/ held' = None
        \/ todo' = <<"throw">> /\ held' = held
    BY <1>7 DEF NoAckYet, ReadAck, Update, EndSend, Throw
  <2>3. Alive' /\ held' # None /\ Now' \notin Quiet => Alive /\ Now \notin Quiet
    BY <1>0, <2>2
  <2>4. QED
    BY <1>3, <1>7, <2>1, <2>2, <2>3, NumberedLess
<1>8. CASE Push /\ UNCHANGED local
  <2>1. todo # <<>> /\ Now = "push" /\ Alive
    BY <1>0, <1>8, Running DEF Push, Thread
  <2>2. held # None
    BY <2>1 DEF Handed, Sending
  <2>3. Sent' = Sent \cup {held} /\ held' = held
    BY <1>0, <1>8, SetOfAppend DEF Push, conn, Sent
  <2>4. Now' \in Quiet
    BY <1>8, <2>1, NowTail, NowPush DEF Push, Follows
  <2>5. QED
    BY <1>3, <1>8, <2>2, <2>3, <2>4, NumberedSend
<1>9. CASE Write /\ UNCHANGED local
  <2>1. todo # <<>> /\ Now = "write" /\ Alive
    BY <1>0, <1>9, Running DEF Write, Thread
  <2>2. held # None
    BY <2>1 DEF Handed, Sending
  <2>3. Sent' = Sent \cup {held} /\ held' = held
    BY <1>0, <1>9, SetOfAppend DEF Write, Sent
  <2>4. Now' \in Quiet
    BY <1>9, <2>1, NowTail DEF Write, Follows
  <2>5. QED
    BY <1>3, <1>9, <2>2, <2>3, <2>4, NumberedSend
<1>10. CASE Resend /\ UNCHANGED local
  <2>1. Sent' \subseteq Sent /\ held' = held /\ todo' = todo
    BY <1>10 DEF Resend, ToResend, Sent
  <2>2. Alive' /\ held' # None /\ Now' \notin Quiet => Alive /\ Now \notin Quiet
    BY <1>0, <2>1
  <2>3. QED
    BY <1>3, <1>10, <2>1, <2>2, NumberedLess
<1>11. ASSUME NEW p \in Packet, Hold(p), UNCHANGED <<packets, wire>>, Alive, Now \notin Quiet,
              \/ p \in {None, held}
              \/ p.seq = IF held = None THEN seqno ELSE held.seq
       PROVE  Numbered'
  <2>1. held = None \/ p = None \/ p.seq = held.seq
    BY <1>11
  <2>2. \/ p = None
        \/ held = None /\ p.seq = seqno
        \/ held # None /\ p.seq = held.seq /\ Alive /\ Now \notin Quiet
    BY <1>11
  <2>3. QED
    BY <1>11, <2>2, NumberedHold
<1>12. CASE MarkLast
  <2>1. todo # <<>> /\ Now = "last" /\ Alive
    BY <1>0, <1>12, Running DEF MarkLast, Thread
  <2>2. held = None
    BY <2>1 DEF Handed
  <2>3. NewPacket(TRUE) \in Packet /\ NewPacket(TRUE).seq = seqno
    BY PacketKinds DEF NewPacket
  <2>4. QED
    BY <1>11, <1>12, <2>1, <2>2, <2>3 DEF MarkLast, conn
<1>13. CASE Append1
  <2>1. Now = "rest" /\ Alive
    BY <1>13, AppendStarts DEF Append1, Ready, Alive
  <2>2. Filled(Chunk) \in Packet /\ Filled(Chunk).seq = IF held = None THEN seqno ELSE held.seq
    BY PacketKinds, OutputAssumption
  <2>3. (Hold(held) \/ Hold(Filled(Chunk))) /\ UNCHANGED <<packets, wire>>
    BY <1>13 DEF Append1, conn
  <2>4. QED
    BY <1>0, <1>11, <2>1, <2>2, <2>3
<1>14. ASSUME NEW sync \in BOOLEAN, Flushing(sync) PROVE Numbered'
  <2>1. Now = "rest" /\ Alive
    BY <1>14, FlushStarts DEF Flushing, Ready, Alive
  <2>2. position \in Nat
    BY OutputAssumption DEF Kinds, KindsLocal
  <2>3. /\ Filled(position) \in Packet /\ Filled(position).seq = IF held = None THEN seqno ELSE held.seq
        /\ NewPacket(FALSE) \in Packet /\ NewPacket(FALSE).seq = seqno
    BY <2>2, PacketKinds DEF NewPacket
  <2>4. /\ UNCHANGED <<packets, wire>>
        /\ \/ UNCHANGED <<held, seqno>>
           \/ Hold(held)
           \/ Hold(Filled(position))
           \/ held = None /\ Hold(NewPacket(FALSE))
    BY <1>14 DEF Flushing, conn
  <2>5. UNCHANGED <<held, seqno>> => Hold(held)
    BY DEF Hold
  <2>6. QED
    BY <1>0, <1>11, <2>1, <2>3, <2>4, <2>5
<1>15. CASE Close
  <2>1. CASE lastError
    <3>1. UNCHANGED <<packets, wire, seqno, held, todo>>
      BY <1>15, <2>1 DEF Close, Broken, conn
    <3>2. QED
      BY <1>2, <3>1
  <2>2. CASE ~lastError
    <3>1. Now = "rest" /\ Alive
      BY <1>15, <2>2, CloseBegins DEF Close, Ready, Alive
    <3>2. position \in Nat
      BY OutputAssumption DEF Kinds, KindsLocal
    <3>3. Filled(position) \in Packet /\ Filled(position).seq = IF held = None THEN seqno ELSE held.seq
      BY <3>2, PacketKinds
    <3>4. (Hold(held) \/ Hold(Filled(position))) /\ UNCHANGED <<packets, wire>>
      BY <1>15, <2>2 DEF Close, Broken, conn
    <3>5. QED
      BY <1>0, <1>11, <3>1, <3>3, <3>4
  <2>3. QED
    BY <2>1, <2>2
<1>16. CASE Fsync \/ Complete
  <2>1. /\ packets' = packets /\ held' = held /\ wire' \in {wire, <<>>} /\ seqno' = seqno
        /\ todo # <<>> /\ Now \in {"fsync", "complete"}
    BY <1>0, <1>16 DEF Fsync, Complete, Thread, queue, conn, local, Fresh
  <2>2. QED
    BY <1>1, <2>1
<1>17. CASE Rethrow \/ Return
  <2>1. /\ packets' = packets /\ held' = held /\ wire' = wire /\ seqno' = seqno
        /\ Now \in {"throw", "rest"}
    BY <1>17 DEF Rethrow, Return, Thread, Now, queue, conn, pipeline
  <2>2. QED
    BY <1>1, <2>1
<1>18. CASE Open \/ Delivery \/ Crashes \/ UNCHANGED vars
  BY <1>2, <1>18 DEF Open, Delivery, Receive, Crashes, vars, pipeline, local, queue, conn
<1>19. QED
  BY <1>4, <1>5, <1>6, <1>7, <1>8, <1>9, <1>10, <1>12, <1>13, <1>14, <1>15, <1>16, <1>17, <1>18
  DEF Next, ClientStep, CallStep, PipelineStep

(* Queued is inductive.                                                    *)
LEMMA QueuedStep ==
  ASSUME Kinds, Called, Placed, Handed, Queued, [Next]_vars
  PROVE  Queued'
<1> SUFFICES ASSUME Alive' PROVE Queued'
  BY DEF Queued
<1> DEFINE n == Len(packets)
           Due == {"spill", "write"}
<1>0. /\ Alive /\ packets \in Seq(Packet) /\ held \in Packet /\ n \in Nat /\ sent \in Nat
      /\ \A k \in 1 .. n : packets[k].end \in Nat
      /\ \A k \in 1 .. n : packets[k].end <= sent \/ Unsent(k)
      /\ Now \in Due => packets = <<>> \/ packets[n] = held
      /\ Now \in {"last", "fsync"} \/ link \in {"none", "create", "abandon"} => packets = <<>>
      /\ todo # <<>> => Now = Head(todo)
      /\ todo' = todo => Now' = Now
      /\ todo' # <<"throw">>
  <2>1. Alive
    BY StaysAlive
  <2>2. packets \in Seq(Packet) /\ \A p \in Packet : p.end \in Nat
    BY DEF Kinds, KindsQueue, Packet
  <2>3. \A k \in 1 .. n : packets[k].end \in Nat
    BY <2>2
  <2>4. /\ todo # <<>> => Now = Head(todo)
        /\ todo' = todo => Now' = Now
        /\ todo' # <<"throw">>
    BY DEF Alive, Now
  <2>5. held \in Packet /\ n \in Nat /\ sent \in Nat
    BY DEF Kinds, KindsQueue
  <2>6. QED
    BY <2>1, <2>2, <2>3, <2>4, <2>5 DEF Queued
<1>L. /\ Now \in {"push", "write", "last", "fsync"} => link = "up"
      /\ Now \in {"spill", "poll", "flush"} => link \in {"up"} \cup Recovery
      /\ Now = "alloc" => link \in {"none", "create", "abandon"}
      /\ Now = "rest" => link \in {"none", "up"}
      /\ Now = "complete" => link = "none"
  BY <1>0 DEF Placed
<1> HIDE DEF n
<1>1. ASSUME packets' = packets, sent' = sent,
             Now \in Due \/ link \in Recovery => Now' \in Due \/ link' \in Recovery,
             Now' \in Due => Now \in Due /\ held' = held,
             Now' \in {"last", "fsync"} \/ link' \in {"none", "create", "abandon"} => packets = <<>>
      PROVE  Queued'
  BY <1>0, <1>1 DEF Queued, Unsent, n
<1>2. ASSUME packets' = <<>> PROVE Queued'
  BY <1>2 DEF Queued
<1>3. CASE UNCHANGED <<packets, sent, held, todo, link>>
  BY <1>0, <1>1, <1>3
<1>4. CASE Alloc \/ Create \/ Abandon
  <2>1. packets = <<>> /\ packets' = packets
    BY <1>0, <1>4 DEF Alloc, Create, Abandon, queue
  <2>2. QED
    BY <1>2, <2>1
<1>5. CASE Push
  <2>1. Now = "push" /\ link = "up" /\ link' = "up" /\ todo # <<>>
    BY <1>0, <1>5, <1>L DEF Push, Thread, setup
  <2>2. Now' \in Due
    BY <1>5, <2>1, NowTail, NowPush DEF Push, Follows
  <2>3. \A k \in 1 .. n : packets[k].end <= sent
    BY <1>0, <2>1 DEF Unsent, Recovery
  <2>4. /\ packets' \in Seq(Packet) /\ Len(packets') = n + 1 /\ packets'[n + 1] = held
        /\ \A k \in 1 .. n : packets'[k] = packets[k]
    BY <1>0, <1>5, AppendProperties DEF Push, n
  <2>5. ASSUME NEW k \in 1 .. n + 1 PROVE packets'[k].end <= sent \/ k = Len(packets')
    <3>1. CASE k = n + 1
      BY <2>4, <3>1
    <3>2. CASE k # n + 1
      <4>1. k \in 1 .. n
        BY <1>0, <3>2
      <4>2. QED
        BY <2>3, <2>4, <4>1
    <3>3. QED
      BY <3>1, <3>2
  <2>6. held' = held /\ sent' = sent
    BY <1>5 DEF Push
  <2>7. QED
    BY <2>1, <2>2, <2>4, <2>5, <2>6 DEF Queued, Unsent
<1>6. CASE EndWait
  <2>1. /\ todo # <<>> /\ Now \in {"flush", "spill"} /\ todo' = Tail(todo)
        /\ UNCHANGED <<packets, sent, held>> /\ link = "up" /\ link' = "up"
        /\ Now = "flush" => packets = <<>>
    BY <1>0, <1>6 DEF EndWait, AtWait, Enough, Thread, setup, queue
  <2>2. CASE Now = "flush"
    BY <1>2, <2>1, <2>2
  <2>3. CASE Now = "spill"
    <3>1. Now' = "write"
      BY <2>1, <2>3, NowTail DEF Follows
    <3>2. QED
      BY <1>1, <2>1, <2>3, <3>1
  <2>4. QED
    BY <2>1, <2>2, <2>3
<1>7. CASE Write
  <2>1. /\ Now = "write" /\ link = "up" /\ link' = "up" /\ todo # <<>> /\ todo' = Tail(todo)
        /\ packets' = packets /\ sent' = MaxOf(sent, held.end)
    BY <1>0, <1>7 DEF Write, Thread, setup, SentTo
  <2>2. Now' = "poll"
    BY <2>1, NowTail DEF Follows
  <2>3. held.end \in Nat
    BY <1>0 DEF Packet
  <2>4. sent' >= sent /\ sent' >= held.end /\ sent' \in Nat
    BY <1>0, <2>1, <2>3 DEF MaxOf
  <2>5. ASSUME NEW k \in 1 .. n PROVE packets[k].end <= sent'
    <3>1. CASE k = n
      <4>1. packets[k] = held
        BY <1>0, <2>1, <3>1 DEF n
      <4>2. QED
        BY <2>4, <4>1
    <3>2. CASE k # n
      BY <1>0, <2>4, <3>2 DEF Unsent, n
    <3>3. QED
      BY <3>1, <3>2
  <2>6. QED
    BY <2>1, <2>2, <2>5 DEF Queued, n
<1>8. CASE NoAckYet
  <2>1. /\ Now = "poll" /\ link = "up" /\ link' = "up" /\ todo # <<>> /\ todo' = Tail(todo)
        /\ packets' = packets /\ sent' = sent
    BY <1>0, <1>8 DEF NoAckYet, Thread, setup, EndSend
  <2>2. Now' \in {"flush", "rest"}
    BY <2>1, NowTail DEF Follows
  <2>3. QED
    BY <1>1, <2>1, <2>2 DEF Recovery
<1>9. CASE ReadAck
  <2>1. /\ packets # <<>> /\ packets' = Tail(packets) /\ sent' = sent /\ link = "up" /\ link' = "up"
        /\ todo # <<>>
        /\ \/ Now = "poll" /\ todo' = Tail(todo)
           \/ Now \in {"flush", "spill"} /\ UNCHANGED <<todo, held>>
    BY <1>0, <1>9 DEF ReadAck, Waits, AtWait, EndSend, Thread, setup
  <2>2. /\ packets' \in Seq(Packet) /\ Len(packets') = n - 1
        /\ \A k \in 1 .. n - 1 : packets'[k] = packets[k + 1]
    BY <1>0, <2>1, HeadTailProperties DEF n
  <2>3. \/ Now = "poll" /\ Now' \in {"flush", "rest"}
        \/ Now' = Now /\ held' = held /\ Now \in {"flush", "spill"}
    BY <1>0, <2>1, NowTail DEF Follows
  <2>4. ASSUME NEW k \in 1 .. Len(packets')
        PROVE  packets'[k].end <= sent \/ (k = Len(packets') /\ Now' \in Due)
    <3>1. k + 1 \in 1 .. n /\ packets'[k] = packets[k + 1]
      BY <1>0, <2>2
    <3>2. packets[k + 1].end <= sent \/ (k + 1 = n /\ Now \in Due)
      BY <1>0, <2>1, <3>1 DEF Unsent, Recovery, n
    <3>3. QED
      BY <1>0, <2>2, <2>3, <3>1, <3>2
  <2>5. ASSUME Now' \in Due, packets' # <<>> PROVE packets'[Len(packets')] = held'
    <3>1. Now = "spill" /\ held' = held
      BY <2>3, <2>5
    <3>2. n - 1 \in 1 .. n - 1 /\ (n - 1) + 1 = n
      BY <1>0, <2>2, <2>5
    <3>3. packets'[n - 1] = packets[n]
      BY <2>2, <3>2
    <3>4. QED
      BY <1>0, <2>1, <2>2, <3>1, <3>3
  <2>6. QED
    BY <2>1, <2>3, <2>4, <2>5 DEF Queued, Unsent
<1>10. CASE Fail
  <2>1. PICK i \in DOMAIN nodes : DropNode(nodes, i, {})
    BY <1>10 DEF Fail
  <2>2. todo # <<>> /\ UNCHANGED <<held, packets, sent>> /\ Now \in {"write", "poll", "spill", "flush"}
    BY <1>0, <1>10 DEF Fail, Waits, AtWait, Thread, queue
  <2>3. /\ link' \in Recovery
        /\ todo' = todo \/ (Now = "write" /\ todo' = Tail(todo))
    BY <1>0, <2>1, <2>2 DEF DropNode, Throw, Thread, Rebuild, Recovery
  <2>4. Now' \in {Now, "poll"}
    BY <1>0, <2>2, <2>3, NowTail DEF Follows
  <2>5. QED
    BY <1>1, <2>2, <2>3, <2>4 DEF Recovery
<1>11. CASE WriteTimesOut
  BY <1>0, <1>11 DEF WriteTimesOut, Throw
<1>12. CASE Extend
  <2>1. UNCHANGED <<held, packets, sent>> /\ link \in Recovery
    BY <1>12 DEF Extend, Recovers, Recovery, queue
  <2>2. todo' = todo /\ link' \in Recovery
    BY <1>0, <1>12, Extended DEF Extend, Recovers, Thread, Joined, Untried, Unmoved, Again, Rebuild, Throw, Recovery
  <2>3. QED
    BY <1>0, <1>1, <2>1, <2>2 DEF Recovery
<1>13. CASE Connect
  <2>1. UNCHANGED <<held, packets, sent>> /\ link \in Recovery
    BY <1>13 DEF Connect, Recovers, Recovery, queue
  <2>2. todo' = todo /\ link' \in Recovery
    BY <1>0, <1>13 DEF Connect, Recovers, Thread, Again, DropNode, Rebuild, Throw, Recovery
  <2>3. QED
    BY <1>0, <1>1, <2>1, <2>2 DEF Recovery
<1>14. CASE Update
  <2>1. CASE packets' = <<>>
    BY <1>2, <2>1
  <2>2. CASE packets' # <<>>
    <3>1. link = "update" /\ link' = "resend" /\ UNCHANGED <<todo, held, packets, sent>>
      BY <1>0, <1>14, <2>2 DEF Update, Recovers, Throw
    <3>2. QED
      BY <1>0, <1>1, <3>1 DEF Recovery
  <2>3. QED
    BY <2>1, <2>2
<1>15. CASE Resend
  <2>1. /\ link' = "up" /\ UNCHANGED <<todo, held, packets>> /\ Now' = Now /\ Now \in {"spill", "poll", "flush"}
        /\ sent' = IF packets = <<>> THEN sent ELSE MaxOf(sent, packets[n].end)
    BY <1>0, <1>15 DEF Resend, Recovers, Thread, SentTo, Last, n
  <2>2. CASE packets = <<>>
    BY <1>2, <2>1, <2>2
  <2>3. CASE packets # <<>>
    <3>1. n \in 1 .. n
      BY <1>0, <2>3 DEF n
    <3>2. sent' >= sent /\ sent' >= packets[n].end /\ sent' \in Nat
      BY <1>0, <2>1, <2>3, <3>1 DEF MaxOf
    <3>3. ASSUME NEW k \in 1 .. n PROVE packets[k].end <= sent'
      <4>1. packets[k].end <= sent \/ k = n
        BY <1>0 DEF Unsent, n
      <4>2. QED
        BY <1>0, <3>2, <4>1
    <3>4. QED
      BY <1>0, <2>1, <3>3 DEF Queued, n
  <2>4. QED
    BY <2>2, <2>3
<1>16. CASE MarkLast
  <2>1. packets = <<>> /\ packets' = packets
    BY <1>0, <1>16 DEF MarkLast, Thread
  <2>2. QED
    BY <1>2, <2>1
<1>17. CASE Fsync
  <2>1. packets = <<>> /\ packets' = packets
    BY <1>0, <1>17 DEF Fsync, Thread, queue
  <2>2. QED
    BY <1>2, <2>1
<1>18. CASE Complete
  <2>1. packets = <<>> /\ packets' = packets
    BY <1>0, <1>18, <1>L DEF Complete, Thread, queue
  <2>2. QED
    BY <1>2, <2>1
<1>19. CASE Rethrow
  BY <1>19 DEF Rethrow, Alive
<1>20. ASSUME UNCHANGED <<packets, sent, link>>, Now = "rest",
              Now' \in {"rest", "complete", "flush", First}
       PROVE  Queued'
  BY <1>0, <1>1, <1>20, <1>L DEF First, Recovery
<1>21. CASE Append1
  BY <1>20, <1>21, AppendStarts DEF Append1, setup
<1>22. ASSUME NEW sync \in BOOLEAN, Flushing(sync) PROVE Queued'
  BY <1>20, <1>22, FlushStarts DEF Flushing, setup
<1>23. CASE Close
  <2>1. ~lastError
    BY <1>0 DEF Alive
  <2>2. QED
    BY <1>20, <1>23, <2>1, CloseBegins DEF Close, setup
<1>24. CASE Return \/ Open \/ Delivery \/ Crashes \/ UNCHANGED vars
  BY <1>3, <1>24 DEF Return, Open, Delivery, Receive, Crashes, vars, pipeline, setup, queue
<1>25. QED
  BY <1>4, <1>5, <1>6, <1>7, <1>8, <1>9, <1>10, <1>11, <1>12, <1>13, <1>14, <1>15, <1>16, <1>17, <1>18, <1>19,
     <1>21, <1>22, <1>23, <1>24
  DEF Next, ClientStep, CallStep, PipelineStep

-------------------------------------------------------------------------------
(* What the datanodes have.                                                *)

(* No replica is of a stamp that was not given out.                        *)
Stamps == stamp <= issued /\ \A d \in Datanode : replica[d].stamp <= issued

(* The replicas counted have what was acknowledged, and those of the chain *)
(* no more than was sent.                                                  *)
Covered ==
  /\ acked <= sent
  /\ stamp > 0 => \A d \in up : replica[d].stamp = stamp => acked <= replica[d].len
  /\ \A d \in Chain \cap up : acked <= replica[d].len /\ replica[d].len <= sent

(* A block begins empty; while it is written only the chain's replicas are *)
(* of its stamp, and at the end of a recovery only theirs are of the new   *)
(* one.                                                                    *)
Staged ==
  /\ link = "create" => stamp = 1 /\ issued = 1 /\ \A d \in Datanode : replica[d] = NoReplica
  /\ link \in {"create", "abandon"} => acked = 0 /\ sent = 0
  /\ link \in {"up", "resend"} /\ nodes # <<>> =>
       stamp > 0 /\ \A d \in up : replica[d].stamp = stamp => d \in Chain
  /\ link \in Recovery => stamp > 0
  /\ link = "update" => \A d \in up : replica[d].stamp = issued <=> d \in Chain

(* What is on the connection, and what the datanodes have read of it.      *)
Wired ==
  /\ link # "up" => wire = <<>>
  /\ link = "none" => nodes = <<>>
  /\ \A k \in 1 .. Len(wire) : wire[k].end <= sent
  /\ \A i \in DOMAIN nodes : got[i] <= Len(wire)
  /\ \A i \in DOMAIN nodes :
       nodes[i] \in up => \A k \in 1 .. got[i] : wire[k].end <= replica[nodes[i]].len

Stored == Stamps /\ Covered /\ Staged /\ Wired

(* Stored holds at first.                                                  *)
LEMMA StoredInit == Init => Stored
<1> SUFFICES ASSUME Init PROVE Stored
  OBVIOUS
<1>1. /\ replica = [d \in Datanode |-> NoReplica] /\ stamp = 0 /\ issued = 0 /\ acked = 0 /\ sent = 0
      /\ link = "none" /\ nodes = <<>> /\ wire = <<>> /\ up = Datanode
  BY DEF Init, ClusterInit, PipelineInit
<1>2. Chain = {}
  BY <1>1, SetOfNone DEF Chain
<1>3. Wired
  BY <1>1 DEF Wired
<1>4. QED
  BY <1>1, <1>2, <1>3 DEF Stored, Stamps, Covered, Staged, NoReplica, Recovery

(* The types this rests on.                                                *)
LEMMA StoredKinds ==
  ASSUME Kinds
  PROVE  /\ replica \in [Datanode -> [len : Nat, stamp : Nat]] /\ up \subseteq Datanode
         /\ \A d \in Datanode : replica[d].len \in Nat /\ replica[d].stamp \in Nat
         /\ stamp \in Nat /\ issued \in Nat /\ acked \in Nat /\ sent \in Nat
         /\ nodes \in Seq(Datanode) /\ got \in [DOMAIN nodes -> Nat] /\ Chain \subseteq Datanode
         /\ wire \in Seq(Packet) /\ packets \in Seq(Packet) /\ held \in Packet
         /\ \A k \in 1 .. Len(wire) : wire[k].end \in Nat
         /\ \A i \in DOMAIN nodes : nodes[i] \in Datanode /\ nodes[i] \in Chain
         /\ nodes = <<>> => Chain = {}
<1>1. nodes \in Seq(Datanode) /\ wire \in Seq(Packet)
  BY DEF Kinds, KindsSetup, KindsQueue
<1>2. /\ Chain \subseteq Datanode /\ \A i \in DOMAIN nodes : nodes[i] \in Datanode /\ nodes[i] \in Chain
      /\ nodes = <<>> => Chain = {}
  BY <1>1, SetOfNone DEF Chain, ToSet
<1>3. \A k \in 1 .. Len(wire) : wire[k].end \in Nat
  <2>1. \A p \in Packet : p.end \in Nat
    BY DEF Packet
  <2>2. QED
    BY <1>1, <2>1
<1>4. replica \in [Datanode -> [len : Nat, stamp : Nat]]
  BY DEF Kinds, KindsCluster
<1>5. \A d \in Datanode : replica[d].len \in Nat /\ replica[d].stamp \in Nat
  BY <1>4
<1>6. QED
  BY <1>1, <1>2, <1>3, <1>4, <1>5 DEF Kinds, KindsCluster, KindsSetup, KindsQueue

(* A connection that is new, or not yet there.                             *)
LEMMA WiredFresh ==
  ASSUME wire' = <<>>, got' = [i \in DOMAIN nodes' |-> 0], link' = "none" => nodes' = <<>>
  PROVE  Wired'
BY DEF Wired

(* A connection with nothing on it goes on.                                *)
LEMMA WiredIdle ==
  ASSUME Kinds, Wired, wire = <<>>, UNCHANGED <<wire, got, nodes>>, link' # "none"
  PROVE  Wired'
<1>1. \A i \in DOMAIN nodes : got[i] \in Nat /\ got[i] <= 0
  BY StoredKinds DEF Wired
<1>2. QED
  BY <1>1 DEF Wired

(* The chain loses a datanode, or keeps them all, and the replicas stay.   *)
LEMMA StoredDropped ==
  ASSUME Kinds, Stored, UNCHANGED <<up, replica, stamp, issued, acked, sent>>,
         nodes' \in Seq(Datanode), Chain' \subseteq Chain,
         link' \in {"extend", "connect"} \/ (link' = link /\ nodes' = <<>>),
         link \in {"extend", "connect"} \/ (link = "up" /\ nodes # <<>>),
         wire' = <<>>, got' = [i \in DOMAIN nodes' |-> 0]
  PROVE  Stored'
<1>1. Chain' \subseteq Datanode /\ (nodes' = <<>> => Chain' = {})
  BY StoredKinds, SetOfNone DEF Chain
<1>2. Stamps' /\ Covered'
  BY DEF Stored, Stamps, Covered
<1>3. stamp > 0
  BY DEF Stored, Staged, Recovery
<1>4. CASE link' \in {"extend", "connect"}
  BY <1>2, <1>3, <1>4, WiredFresh DEF Stored, Staged
<1>5. CASE link' = link /\ nodes' = <<>>
  BY <1>1, <1>2, <1>3, <1>5, WiredFresh DEF Stored, Staged, Recovery
<1>6. QED
  BY <1>4, <1>5

(* Nothing happens to the replicas, to the chain or on the connection.     *)
LEMMA StoredCalm ==
  ASSUME Stored, UNCHANGED <<up, replica, stamp, issued, link, nodes, acked, sent, conn>>
  PROVE  Stored'
BY DEF Stored, Stamps, Covered, Staged, Wired, Chain, conn

(* A new block is on no datanode, and nothing of it was sent.              *)
LEMMA StoredAlloc == ASSUME Kinds, Stored, Alloc PROVE Stored'
<1>1. CASE UNCHANGED <<up, replica, stamp, issued, link, nodes, acked, sent, conn>>
  BY <1>1, StoredCalm
<1>2. CASE \E offered \in Offers(Datanode \ excluded, Replication) :
                        nodes' = offered /\ AddBlock(acked) /\ acked' = 0 /\ sent' = 0 /\ link' = "create"
                        /\ Fresh(offered) /\ up' = up
  <2>1. /\ stamp' = 1 /\ issued' = 1 /\ acked' = 0 /\ sent' = 0 /\ link' = "create" /\ up' = up
        /\ \A d \in Datanode : replica'[d] = NoReplica
        /\ wire' = <<>> /\ got' = [i \in DOMAIN nodes' |-> 0]
    BY <1>2 DEF AddBlock, Fresh
  <2>2. nodes' \in Seq(Datanode) /\ Chain' \subseteq Datanode /\ up \subseteq Datanode
    <3>1. nodes' \in Seq(Datanode \ excluded)
      BY <1>2, Offered, PipelineAssumption
    <3>2. QED
      BY <3>1, StoredKinds DEF Chain, ToSet
  <2>3. QED
    BY <2>1, <2>2, WiredFresh DEF Stored, Stamps, Covered, Staged, NoReplica, Recovery
<1>3. QED
  BY <1>1, <1>2 DEF Alloc, queue, conn

(* Its datanodes take its stamp, all of them or the block is given up.     *)
LEMMA StoredCreate == ASSUME Kinds, Stored, Create PROVE Stored'
<1>0. /\ link = "create" /\ stamp = 1 /\ issued = 1 /\ acked = 0 /\ sent = 0
      /\ \A d \in Datanode : replica[d] = NoReplica
      /\ up \subseteq Datanode /\ Chain \subseteq Datanode
      /\ UNCHANGED <<up, stamp, issued, nodes, acked, sent, wire, got>>
  BY StoredKinds DEF Create, Stored, Staged, queue, conn
<1>1. wire = <<>> /\ link' # "none"
  BY <1>0 DEF Stored, Wired, Create
<1>2. Wired'
  BY <1>0, <1>1, WiredIdle DEF Stored
<1>3. CASE link' = "up" /\ replica' = Stamped(Chain, stamp)
  <2>1. \A d \in Datanode : replica'[d].len = 0 /\ replica'[d].stamp = IF d \in Chain THEN 1 ELSE 0
    BY <1>0, <1>3, StoredKinds DEF Stamped, NoReplica
  <2>2. Chain' = Chain
    BY <1>0 DEF Chain
  <2>3. QED
    BY <1>0, <1>2, <1>3, <2>1, <2>2 DEF Stored, Stamps, Covered, Staged, Recovery
<1>4. CASE link' = "abandon" /\ replica' = replica
  BY <1>0, <1>2, <1>4 DEF Stored, Stamps, Covered, Staged, Chain, Recovery, NoReplica
<1>5. QED
  BY <1>3, <1>4 DEF Create

(* A block given up has no stamp.                                          *)
LEMMA StoredAbandon == ASSUME Kinds, Stored, Abandon PROVE Stored'
<1>1. CASE UNCHANGED <<link, nodes, stamp, conn>>
  BY <1>1, StoredCalm DEF Abandon, queue
<1>2. CASE link' = "none" /\ stamp' = 0 /\ nodes' = <<>> /\ Fresh(<<>>)
  <2>1. Chain' = {} /\ UNCHANGED <<up, replica, issued, acked, sent>> /\ issued \in Nat
    BY <1>2, SetOfNone, StoredKinds DEF Chain, Abandon, queue
  <2>2. wire' = <<>> /\ got' = [i \in DOMAIN nodes' |-> 0]
    BY <1>2 DEF Fresh
  <2>3. QED
    BY <1>2, <2>1, <2>2, WiredFresh DEF Stored, Stamps, Covered, Staged, Recovery
<1>3. QED
  BY <1>1, <1>2 DEF Abandon

(* What is written counts as sent.                                         *)
LEMMA StoredWrite == ASSUME Kinds, Stored, Write PROVE Stored'
<1>0. /\ wire \in Seq(Packet) /\ held \in Packet /\ held.end \in Nat /\ sent \in Nat
      /\ \A k \in 1 .. Len(wire) : wire[k].end \in Nat
      /\ wire' = Append(wire, held) /\ sent' = MaxOf(sent, held.end) /\ link = "up"
      /\ UNCHANGED <<up, replica, stamp, issued, link, nodes, acked, got>>
  BY StoredKinds DEF Write, setup, SentTo, cluster, Packet
<1>1. sent' >= sent /\ sent' >= held.end /\ sent' \in Nat
  BY <1>0 DEF MaxOf
<1>2. Stamps' /\ Covered' /\ Staged'
  BY <1>0, <1>1, StoredKinds DEF Stored, Stamps, Covered, Staged, Chain, Recovery
<1>3. /\ Len(wire') = Len(wire) + 1 /\ wire'[Len(wire) + 1] = held /\ Len(wire) \in Nat
      /\ \A k \in 1 .. Len(wire) : wire'[k] = wire[k]
  BY <1>0, AppendProperties
<1>4. ASSUME NEW k \in 1 .. Len(wire') PROVE wire'[k].end <= sent'
  <2>1. k = Len(wire) + 1 \/ k \in 1 .. Len(wire)
    BY <1>3
  <2>2. QED
    BY <1>0, <1>1, <1>3, <2>1 DEF Stored, Wired
<1>5. ASSUME NEW i \in DOMAIN nodes PROVE got[i] <= Len(wire') /\ 1 .. got[i] \subseteq 1 .. Len(wire)
  <2>1. got[i] \in Nat /\ got[i] <= Len(wire)
    BY StoredKinds DEF Stored, Wired
  <2>2. QED
    BY <1>3, <2>1
<1>6. Wired'
  BY <1>0, <1>3, <1>4, <1>5 DEF Stored, Wired
<1>7. QED
  BY <1>2, <1>6 DEF Stored

(* An ack arrives when all of the chain have what it acknowledges.         *)
LEMMA StoredAck == ASSUME Kinds, Called, Placed, Numbered, Stored, ReadAck PROVE Stored'
<1> DEFINE e == Head(packets).end
           w == Len(wire)
<1>0. /\ link = "up" /\ todo # <<>> /\ (Thread("poll") \/ Thread("flush") \/ Thread("spill"))
      /\ wire # <<>> /\ (\A i \in DOMAIN nodes : got[i] > 0) /\ packets # <<>>
      /\ Head(wire).seq = Head(packets).seq
      /\ acked' = MaxOf(acked, e) /\ wire' = Tail(wire) /\ got' = [i \in DOMAIN got |-> got[i] - 1]
      /\ UNCHANGED <<up, replica, stamp, issued, link, nodes, sent>>
  BY DEF ReadAck, Waits, AtWait, Readable, Thread, setup, cluster
<1>1. nodes # <<>>
  <2>1. Alive
    BY <1>0, Running DEF Thread
  <2>2. QED
    BY <1>0, <2>1 DEF Placed
<1>2. /\ wire \in Seq(Packet) /\ packets \in Seq(Packet) /\ w \in Nat \ {0}
      /\ Head(wire) = wire[1] /\ Head(packets) \in Packet /\ e \in Nat /\ acked \in Nat /\ sent \in Nat
      /\ DOMAIN got = DOMAIN nodes /\ \A i \in DOMAIN nodes : got[i] \in Nat
  <2>1. wire \in Seq(Packet) /\ packets \in Seq(Packet) /\ got \in [DOMAIN nodes -> Nat] /\ acked \in Nat /\ sent \in Nat
    BY StoredKinds
  <2>2. Head(packets) \in Packet /\ e \in Nat
    <3>1. Head(packets) \in Packet
      BY <1>0, <2>1
    <3>2. QED
      BY <3>1 DEF Packet
  <2>3. QED
    BY <1>0, <2>1, <2>2
<1>3. wire[1].end = e
  <2>1. Head(wire) \in Sent /\ Head(packets) \in Sent
    BY <1>0, <1>2, SetOfTail DEF Sent
  <2>2. QED
    BY <1>0, <1>2, <2>1 DEF Numbered
<1> HIDE DEF e
<1>4. e <= sent /\ 1 \in 1 .. w
  BY <1>2, <1>3 DEF Stored, Wired
<1>5. ASSUME NEW i \in DOMAIN nodes, nodes[i] \in up PROVE e <= replica[nodes[i]].len
  <2>1. 1 \in 1 .. got[i]
    BY <1>0, <1>2
  <2>2. QED
    BY <1>3, <1>5, <2>1 DEF Stored, Wired
<1>6. ASSUME NEW d \in Chain \cap up PROVE acked' <= replica[d].len
  <2>1. e <= replica[d].len
    BY <1>5 DEF Chain, ToSet
  <2>2. acked <= replica[d].len
    BY DEF Stored, Covered
  <2>3. QED
    BY <1>0, <2>1, <2>2 DEF MaxOf
<1>7. acked' <= sent
  BY <1>0, <1>2, <1>4 DEF Stored, Covered, MaxOf
<1>8. Stamps' /\ Covered' /\ Staged'
  BY <1>0, <1>1, <1>6, <1>7 DEF Stored, Stamps, Covered, Staged, Chain
<1>9. /\ Len(wire') = w - 1 /\ \A k \in 1 .. w - 1 : wire'[k] = wire[k + 1]
  BY <1>0, <1>2, HeadTailProperties
<1>10. ASSUME NEW k \in 1 .. w - 1 PROVE wire'[k].end <= sent
  <2>1. k + 1 \in 1 .. w
    BY <1>2
  <2>2. QED
    BY <1>9, <2>1 DEF Stored, Wired
<1>11. ASSUME NEW i \in DOMAIN nodes
       PROVE  /\ got'[i] = got[i] - 1 /\ got[i] - 1 <= w - 1
              /\ nodes[i] \in up => \A k \in 1 .. got[i] - 1 : wire'[k].end <= replica[nodes[i]].len
  <2>1. got'[i] = got[i] - 1 /\ got[i] <= w /\ got[i] \in Nat
    BY <1>0, <1>2 DEF Stored, Wired
  <2>2. ASSUME NEW k \in 1 .. got[i] - 1, nodes[i] \in up PROVE wire'[k].end <= replica[nodes[i]].len
    <3>1. k + 1 \in 1 .. got[i] /\ k \in 1 .. w - 1
      BY <1>2, <2>1
    <3>2. QED
      BY <1>9, <2>2, <3>1 DEF Stored, Wired
  <2>3. QED
    BY <1>2, <2>1, <2>2
<1>12. Wired'
  BY <1>0, <1>9, <1>10, <1>11 DEF Wired
<1>13. QED
  BY <1>8, <1>12 DEF Stored

(* A failure takes a datanode out of the chain.                            *)
LEMMA StoredFail == ASSUME Kinds, Called, Placed, Stored, Fail PROVE Stored'
<1>1. PICK i \in DOMAIN nodes : DropNode(nodes, i, {})
  BY DEF Fail
<1>2. /\ link = "up" /\ nodes # <<>> /\ nodes \in Seq(Datanode)
      /\ UNCHANGED <<up, replica, stamp, issued, acked, sent>>
  BY <1>1, StoredKinds DEF Fail, queue
<1>3. /\ nodes' \in Seq(Datanode) /\ ToSet(nodes') \subseteq ToSet(nodes)
      /\ wire' = <<>> /\ got' = [j \in DOMAIN nodes' |-> 0]
      /\ (nodes' = <<>> /\ link' = link) \/ link' \in {"extend", "connect"}
  BY <1>1, <1>2, Dropped DEF Kinds
<1>4. QED
  BY <1>2, <1>3, StoredDropped DEF Chain

(* The datanode that joins the chain has what its neighbour has.           *)
LEMMA StoredExtend == ASSUME Kinds, Called, Placed, Stored, Extend PROVE Stored'
<1>0. /\ link = "extend" /\ stamp > 0 /\ nodes # <<>>
      /\ UNCHANGED <<up, stamp, issued, acked, sent>>
  <2>1. link = "extend" /\ UNCHANGED <<up, stamp, issued, acked, sent>> /\ todo # <<>> /\ Now # "throw"
    BY Running DEF Extend, Recovers, Thread, queue
  <2>2. QED
    BY <2>1, Running DEF Placed, Stored, Staged, Recovery
<1>1. CASE Joined
  <2>1. PICK d \in up, source \in up :
          /\ nodes # <<>> => source \in Chain
          /\ replica' = [replica EXCEPT ![d] = [len |-> replica[source].len, stamp |-> stamp]]
          /\ nodes' \in Seq(Datanode) /\ nodes' # <<>> /\ ToSet(nodes') \subseteq Chain \cup {d}
          /\ Fresh(nodes') /\ link' = "connect"
    BY <1>1 DEF Joined
  <2>2. /\ source \in Chain \cap up /\ d \in Datanode /\ source \in Datanode
        /\ Chain' \subseteq Chain \cup {d}
        /\ wire' = <<>> /\ got' = [i \in DOMAIN nodes' |-> 0]
    BY <1>0, <2>1, StoredKinds DEF Chain, Fresh
  <2>3. /\ replica'[d].len = replica[source].len /\ replica'[d].stamp = stamp
        /\ \A c \in Datanode : c # d => replica'[c] = replica[c]
    BY <2>1, <2>2, StoredKinds
  <2>4. acked <= replica'[d].len /\ replica'[d].len <= sent
    BY <2>2, <2>3 DEF Stored, Covered
  <2>5. Stamps'
    <3>1. ASSUME NEW c \in Datanode PROVE replica'[c].stamp <= issued
      BY <2>3 DEF Stored, Stamps
    <3>2. QED
      BY <1>0, <3>1 DEF Stored, Stamps
  <2>6. Covered'
    <3>1. ASSUME NEW c \in up, replica'[c].stamp = stamp PROVE acked <= replica'[c].len
      <4>1. c \in Datanode
        BY StoredKinds
      <4>2. QED
        BY <1>0, <2>3, <2>4, <3>1, <4>1 DEF Stored, Covered
    <3>2. ASSUME NEW c \in Chain' \cap up PROVE acked <= replica'[c].len /\ replica'[c].len <= sent
      <4>1. c \in Datanode /\ (c = d \/ c \in Chain \cap up)
        BY <2>2, StoredKinds
      <4>2. QED
        BY <2>3, <2>4, <4>1 DEF Stored, Covered
    <3>3. QED
      BY <1>0, <3>1, <3>2 DEF Stored, Covered
  <2>7. QED
    BY <1>0, <2>1, <2>2, <2>5, <2>6, WiredFresh DEF Stored, Staged
<1>2. CASE Untried
  <2>1. /\ nodes' = nodes /\ replica' = replica /\ link' \in {"extend", "connect"}
        /\ wire' = <<>> /\ got' = [i \in DOMAIN nodes' |-> 0]
    BY <1>0, <1>2 DEF Untried, Fresh
  <2>2. nodes' \in Seq(Datanode) /\ Chain' = Chain
    BY <2>1, StoredKinds DEF Chain
  <2>3. QED
    BY <1>0, <2>1, <2>2, StoredDropped
<1>3. CASE Unmoved
  <2>1. /\ UNCHANGED <<replica, nodes, wire, got>> /\ link' \in {"extend", "connect"} /\ wire = <<>>
    BY <1>0, <1>3 DEF Unmoved, Again, Throw, Rebuild, conn, Stored, Wired
  <2>2. Wired'
    BY <2>1, WiredIdle DEF Stored
  <2>3. QED
    BY <1>0, <2>1, <2>2 DEF Stored, Stamps, Covered, Staged, Chain
<1>4. QED
  BY <1>1, <1>2, <1>3, Extended

(* The stamp is new: no replica has it but those of the chain.             *)
LEMMA StoredConnect == ASSUME Kinds, Called, Placed, Stored, Connect PROVE Stored'
<1>0. /\ link = "connect" /\ stamp > 0 /\ wire = <<>>
      /\ UNCHANGED <<up, stamp, acked, sent>>
  BY DEF Connect, Recovers, queue, Stored, Staged, Wired, Recovery
<1>1. CASE Again /\ UNCHANGED <<replica, issued, nodes, conn>>
  <2>1. UNCHANGED <<replica, issued, nodes, wire, got>> /\ link' \in {"extend", "connect"}
    BY <1>0, <1>1 DEF Again, Throw, Rebuild, conn
  <2>2. Wired'
    BY <1>0, <2>1, WiredIdle DEF Stored
  <2>3. QED
    BY <1>0, <2>1, <2>2 DEF Stored, Stamps, Covered, Staged, Chain
<1>2. ASSUME NEW S \in SUBSET Datanode, issued' = issued + 1, replica' = Stamped(S, issued')
      PROVE  /\ Stamps'
             /\ \A d \in Datanode : /\ replica'[d].len = replica[d].len
                                    /\ replica'[d].stamp = stamp => replica[d].stamp = stamp
                                    /\ replica'[d].stamp = issued' <=> d \in S
  <2>1. stamp \in Nat /\ issued \in Nat /\ stamp <= issued
    BY StoredKinds DEF Stored, Stamps
  <2>2. ASSUME NEW d \in Datanode
        PROVE  /\ replica'[d].len = replica[d].len /\ replica[d].stamp <= issued
               /\ replica[d].stamp \in Nat
               /\ replica'[d].stamp = IF d \in S THEN issued + 1 ELSE replica[d].stamp
    BY <1>2, StoredKinds DEF Stamped, Stored, Stamps
  <2>3. QED
    BY <1>0, <1>2, <2>1, <2>2 DEF Stamps
<1>3. CASE issued' = issued + 1 /\ replica' = Stamped(Chain, issued') /\ link' = "update"
           /\ UNCHANGED <<nodes, conn>>
  <2>1. /\ Chain \in SUBSET Datanode /\ Chain' = Chain /\ up \subseteq Datanode
    BY <1>3, StoredKinds DEF Chain
  <2>2. Covered'
    BY <1>0, <1>2, <1>3, <2>1 DEF Stored, Covered
  <2>3. Wired'
    BY <1>0, <1>3, WiredIdle DEF Stored, conn
  <2>4. QED
    BY <1>0, <1>2, <1>3, <2>1, <2>2, <2>3 DEF Stored, Staged
<1>4. ASSUME NEW i \in DOMAIN nodes, issued' = issued + 1, DropNode(nodes, i, excluded),
             replica' = Stamped({nodes[j] : j \in 1 .. i - 1} \cap up, issued')
      PROVE  Stored'
  <2>1. {nodes[j] : j \in 1 .. i - 1} \cap up \in SUBSET Datanode /\ up \subseteq Datanode
    BY StoredKinds
  <2>2. nodes # <<>> /\ nodes \in Seq(Datanode) /\ excluded \in SUBSET Datanode /\ KindsSetup
    BY StoredKinds DEF Kinds, KindsSetup
  <2>3. /\ nodes' \in Seq(Datanode) /\ ToSet(nodes') \subseteq ToSet(nodes)
        /\ wire' = <<>> /\ got' = [j \in DOMAIN nodes' |-> 0]
        /\ link' \in {"extend", "connect"}
    BY <1>0, <1>4, <2>2, Dropped
  <2>4. Chain' \subseteq Chain /\ Chain \subseteq Datanode
    BY <2>3, StoredKinds DEF Chain
  <2>5. Covered'
    BY <1>0, <1>2, <1>4, <2>1, <2>4 DEF Stored, Covered
  <2>6. QED
    BY <1>0, <1>2, <1>4, <2>1, <2>3, <2>5, WiredFresh DEF Stored, Staged
<1>5. QED
  BY <1>1, <1>3, <1>4 DEF Connect

(* The namenode takes the new stamp, or may have taken it.                 *)
LEMMA StoredUpdate == ASSUME Kinds, Called, Placed, Stored, Update PROVE Stored'
<1>0. /\ link = "update" /\ wire = <<>> /\ stamp > 0 /\ stamp <= issued /\ issued > 0
      /\ stamp \in Nat /\ issued \in Nat /\ up \subseteq Datanode /\ Chain \subseteq Datanode
      /\ \A d \in up : replica[d].stamp = issued <=> d \in Chain
      /\ \A d \in Datanode : replica[d].stamp <= issued
      /\ UNCHANGED <<up, issued, nodes, acked, sent, wire, got>>
      /\ Chain' = Chain
  <2>1. link = "update" /\ UNCHANGED <<up, issued, nodes, acked, sent, wire, got>>
    BY DEF Update, Recovers, conn
  <2>2. stamp \in Nat /\ issued \in Nat /\ up \subseteq Datanode /\ Chain \subseteq Datanode
    BY StoredKinds
  <2>3. QED
    BY <2>1, <2>2 DEF Stored, Stamps, Staged, Wired, Recovery, Chain
<1>1. Wired'
  <2>1. link' # "none"
    BY <1>0 DEF Update
  <2>2. QED
    BY <1>0, <2>1, WiredIdle DEF Stored
<1>2. CASE stamp' = issued /\ replica' = Counted(stamp') /\ link' \in {"up", "resend"}
  <2>1. ASSUME NEW d \in Datanode
        PROVE  replica'[d] = IF replica[d].stamp = issued THEN replica[d] ELSE NoReplica
    BY <1>2 DEF Counted
  <2>2. ASSUME NEW d \in Datanode
        PROVE  /\ replica'[d].stamp = issued <=> replica[d].stamp = issued
               /\ replica[d].stamp = issued => replica'[d].len = replica[d].len
               /\ replica'[d].stamp <= issued
    BY <1>0, <2>1 DEF NoReplica
  <2>3. Stamps'
    BY <1>0, <1>2, <2>2 DEF Stamps
  <2>4. ASSUME NEW d \in Chain \cap up
        PROVE  acked <= replica'[d].len /\ replica'[d].len <= sent
    BY <1>0, <2>2 DEF Stored, Covered
  <2>5. Covered'
    BY <1>0, <1>2, <2>2, <2>4 DEF Stored, Covered
  <2>6. Staged'
    BY <1>0, <1>2, <2>2 DEF Stored, Staged
  <2>7. QED
    BY <1>1, <2>3, <2>5, <2>6 DEF Stored
<1>3. CASE stamp' \in {stamp, issued} /\ UNCHANGED <<link, replica>>
  <2>1. Covered'
    BY <1>0, <1>3 DEF Stored, Covered
  <2>2. QED
    BY <1>0, <1>1, <1>3, <2>1 DEF Stored, Stamps, Staged, Recovery
<1>4. QED
  BY <1>2, <1>3 DEF Update, NewStamp

(* What is sent again was sent before, but for the last of it.             *)
LEMMA StoredResend == ASSUME Kinds, Called, Queued, Stored, Resend PROVE Stored'
<1> DEFINE n == Len(packets)
<1>0. /\ link = "resend" /\ link' = "up" /\ wire = <<>> /\ wire' = packets
      /\ sent' = (IF packets = <<>> THEN sent ELSE MaxOf(sent, packets[n].end))
      /\ UNCHANGED <<up, replica, stamp, issued, nodes, acked, got>>
  BY DEF Resend, Recovers, ToResend, SentTo, Last, cluster, Stored, Wired
<1>1. /\ packets \in Seq(Packet) /\ n \in Nat /\ sent \in Nat
      /\ \A k \in 1 .. n : packets[k].end \in Nat
  <2>1. packets \in Seq(Packet) /\ \A p \in Packet : p.end \in Nat
    BY StoredKinds DEF Packet
  <2>2. QED
    BY <2>1, StoredKinds
<1>2. \A k \in 1 .. n : packets[k].end <= sent \/ k = n
  <2>1. Alive
    BY Running DEF Resend, Recovers, Thread
  <2>2. QED
    BY <2>1 DEF Queued, Unsent
<1> HIDE DEF n
<1>3. sent' >= sent /\ \A k \in 1 .. n : packets[k].end <= sent'
  <2>1. CASE packets = <<>>
    BY <1>0, <1>1, <2>1 DEF n
  <2>2. CASE packets # <<>>
    <3>1. n \in 1 .. n
      BY <1>1, <2>2 DEF n
    <3>2. sent' >= sent /\ sent' >= packets[n].end /\ sent' \in Nat
      BY <1>0, <1>1, <2>2, <3>1 DEF MaxOf
    <3>3. QED
      BY <1>1, <1>2, <3>2
  <2>3. QED
    BY <2>1, <2>2
<1>4. Stamps' /\ Staged'
  BY <1>0 DEF Stored, Stamps, Staged, Chain, Recovery
<1>5. Covered'
  <2>1. sent' \in Nat /\ Chain' = Chain
    BY <1>0, <1>1 DEF MaxOf, Chain, n
  <2>2. acked \in Nat /\ up \subseteq Datanode /\ \A d \in Datanode : replica[d].len \in Nat
    BY StoredKinds
  <2>3. acked <= sent' /\ \A m \in Nat : m <= sent => m <= sent'
    BY <1>1, <1>3, <2>1, <2>2 DEF Stored, Covered
  <2>4. \A d \in Chain \cap up : acked <= replica[d].len /\ replica[d].len <= sent'
    BY <2>2, <2>3 DEF Stored, Covered
  <2>5. QED
    BY <1>0, <2>1, <2>3, <2>4 DEF Stored, Covered
<1>6. \A i \in DOMAIN nodes : got[i] \in Nat /\ got[i] <= 0
  BY <1>0, StoredKinds DEF Stored, Wired
<1>7. Wired'
  BY <1>0, <1>1, <1>3, <1>6 DEF Wired, n
<1>8. QED
  BY <1>4, <1>5, <1>7 DEF Stored

(* A datanode reads what was sent to it.                                   *)
LEMMA StoredReceive == ASSUME Kinds, Stored, NEW i \in DOMAIN nodes, Receive(i) PROVE Stored'
<1> DEFINE d == nodes[i]
           w == wire[got[i] + 1].end
<1>0. /\ got[i] < Len(wire) /\ got' = [got EXCEPT ![i] = @ + 1]
      /\ replica' = [replica EXCEPT ![d].len = MaxOf(@, wire[got'[i]].end)]
      /\ UNCHANGED <<up, stamp, issued, link, nodes, acked, sent, wire>>
  BY DEF Receive, setup, queue
<1>1. /\ got'[i] = got[i] + 1 /\ got[i] \in Nat /\ \A j \in DOMAIN nodes : j # i => got'[j] = got[j]
      /\ \A j \in DOMAIN nodes : got[j] \in Nat /\ got[j] <= Len(wire)
  BY <1>0, StoredKinds DEF Stored, Wired
<1>2. got[i] + 1 \in 1 .. Len(wire) /\ w <= sent /\ w \in Nat
  <2>1. Len(wire) \in Nat
    BY StoredKinds
  <2>2. got[i] + 1 \in 1 .. Len(wire)
    BY <1>0, <1>1, <2>1
  <2>3. QED
    BY <2>2, StoredKinds DEF Stored, Wired
<1>3. d \in Datanode
  BY StoredKinds
<1> HIDE DEF d, w
<1>4. /\ replica' = [replica EXCEPT ![d] = [replica[d] EXCEPT !.len = MaxOf(@, w)]]
      /\ replica \in [Datanode -> [len : Nat, stamp : Nat]]
  BY <1>0, <1>1, StoredKinds DEF w
<1>5. /\ replica'[d].stamp = replica[d].stamp /\ replica'[d].len = MaxOf(replica[d].len, w)
      /\ \A c \in Datanode : c # d => replica'[c] = replica[c]
  BY <1>3, <1>4
<1>6. ASSUME NEW c \in Datanode
      PROVE  /\ replica'[c].stamp = replica[c].stamp /\ replica'[c].len \in Nat
             /\ replica'[c].len >= replica[c].len /\ replica[c].len \in Nat
             /\ replica[c].len <= sent => replica'[c].len <= sent
  <2>1. replica[c].len \in Nat /\ sent \in Nat
    BY StoredKinds
  <2>2. CASE c = d
    BY <1>2, <1>5, <2>1, <2>2 DEF MaxOf
  <2>3. CASE c # d
    BY <1>5, <2>1, <2>3
  <2>4. QED
    BY <2>2, <2>3
<1>7. w <= replica'[d].len
  <2>1. replica[d].len \in Nat
    BY <1>3, StoredKinds
  <2>2. QED
    BY <1>2, <1>5, <2>1 DEF MaxOf
<1>8. Stamps'
  BY <1>0, <1>6 DEF Stored, Stamps
<1>9. Covered'
  <2>1. up \subseteq Datanode /\ acked \in Nat /\ sent \in Nat /\ Chain' = Chain
    BY <1>0, StoredKinds DEF Chain
  <2>2. ASSUME NEW c \in Datanode, acked <= replica[c].len PROVE acked <= replica'[c].len
    BY <1>6, <2>1, <2>2
  <2>3. ASSUME NEW c \in up, replica'[c].stamp = stamp, stamp > 0 PROVE acked <= replica'[c].len
    BY <1>6, <2>1, <2>2, <2>3 DEF Stored, Covered
  <2>4. ASSUME NEW c \in Chain \cap up PROVE acked <= replica'[c].len /\ replica'[c].len <= sent
    BY <1>6, <2>1, <2>2 DEF Stored, Covered
  <2>5. QED
    BY <1>0, <2>1, <2>3, <2>4 DEF Stored, Covered
<1>10. Staged'
  <2>1. up \subseteq Datanode /\ Chain' = Chain
    BY <1>0, StoredKinds DEF Chain
  <2>2. link # "create"
    <3>1. wire # <<>>
      BY <1>0, <1>1
    <3>2. QED
      BY <3>1 DEF Stored, Wired
  <2>3. QED
    BY <1>0, <1>6, <2>1, <2>2 DEF Stored, Staged
<1>11. Wired'
  <2>1. ASSUME NEW j \in DOMAIN nodes PROVE got'[j] <= Len(wire)
    BY <1>1, <1>2
  <2>2. ASSUME NEW j \in DOMAIN nodes, nodes[j] \in up, NEW k \in 1 .. got'[j]
        PROVE  wire[k].end <= replica'[nodes[j]].len
    <3>1. CASE j = i /\ k = got[i] + 1
      BY <1>7, <3>1 DEF d, w
    <3>2. CASE ~(j = i /\ k = got[i] + 1)
      <4>1. k \in 1 .. got[j] /\ k \in 1 .. Len(wire) /\ nodes[j] \in Datanode /\ wire[k].end \in Nat
        <5>1. k \in 1 .. got[j]
          BY <1>1, <3>2
        <5>2. k \in 1 .. Len(wire)
          BY <1>1, <5>1, StoredKinds
        <5>3. QED
          BY <5>1, <5>2, StoredKinds
      <4>2. wire[k].end <= replica[nodes[j]].len
        BY <2>2, <4>1 DEF Stored, Wired
      <4>3. QED
        BY <1>6, <4>1, <4>2
    <3>3. QED
      BY <3>1, <3>2
  <2>3. QED
    BY <1>0, <2>1, <2>2 DEF Stored, Wired
<1>12. QED
  BY <1>8, <1>9, <1>10, <1>11 DEF Stored

(* A datanode that crashes takes its replica with it.                      *)
LEMMA StoredCrash == ASSUME Kinds, Stored, UNCHANGED pipeline, NEW d \in Datanode, Crash(d) PROVE Stored'
<1>0. /\ up' = up \ {d} /\ up \subseteq Datanode
      /\ UNCHANGED <<stamp, issued, link, nodes, acked, sent, wire, got>> /\ Chain' = Chain
      /\ issued \in Nat
  BY StoredKinds DEF Crash, pipeline, setup, queue, conn, Chain
<1>1. \A c \in Datanode : replica'[c] = IF c = d THEN NoReplica ELSE replica[c]
  BY StoredKinds DEF Crash
<1>2. Stamps'
  BY <1>0, <1>1 DEF Stored, Stamps, NoReplica
<1>3. Covered' /\ Staged'
  BY <1>0, <1>1 DEF Stored, Covered, Staged
<1>4. Wired'
  <2>1. \A i \in DOMAIN nodes : nodes[i] \in up' => nodes[i] \in up /\ replica'[nodes[i]] = replica[nodes[i]]
    BY <1>0, <1>1
  <2>2. QED
    BY <1>0, <2>1 DEF Stored, Wired
<1>5. QED
  BY <1>2, <1>3, <1>4 DEF Stored

(* Stored is inductive.                                                    *)
LEMMA StoredStep ==
  ASSUME Kinds, Called, Placed, Numbered, Queued, Stored, [Next]_vars
  PROVE  Stored'
<1> DEFINE Still == UNCHANGED <<up, replica, stamp, issued, link, nodes, acked, sent, conn>>
<1>1. CASE Push \/ EndWait \/ NoAckYet \/ WriteTimesOut \/ MarkLast \/ Complete \/ Rethrow \/ Return
  <2>1. Still
    BY <1>1 DEF Push, EndWait, NoAckYet, WriteTimesOut, MarkLast, Complete, Rethrow, Return, pipeline, setup, queue, cluster
  <2>2. QED
    BY <2>1, StoredCalm
<1>2. CASE ClientStep \/ UNCHANGED vars
  <2>1. Still
    BY <1>2 DEF ClientStep, Open, Append1, Flushing, Close, vars, pipeline, setup, queue, cluster
  <2>2. QED
    BY <2>1, StoredCalm
<1>3. CASE Fsync
  <2>1. /\ UNCHANGED <<up, replica, stamp, issued, acked, sent>> /\ link' = "none" /\ nodes' = <<>>
        /\ wire' = <<>> /\ got' = [i \in DOMAIN nodes' |-> 0]
    BY <1>3 DEF Fsync, Fresh, queue
  <2>2. Chain' = {}
    BY <2>1, SetOfNone DEF Chain
  <2>3. QED
    BY <2>1, <2>2, WiredFresh DEF Stored, Stamps, Covered, Staged, Recovery
<1>4. CASE Delivery
  BY <1>4, StoredReceive DEF Delivery
<1>5. CASE Crashes
  BY <1>5, StoredCrash DEF Crashes
<1>6. QED
  BY <1>1, <1>2, <1>3, <1>4, <1>5, StoredAlloc, StoredCreate, StoredAbandon, StoredWrite, StoredAck,
     StoredFail, StoredExtend, StoredConnect, StoredUpdate, StoredResend
  DEF Next, CallStep, PipelineStep

(* The invariants of the thread, of the packets and of the replicas.       *)
Inner == Placed /\ Handed /\ Numbered /\ Queued /\ Stored

(* The packets and the replicas, in every reachable state.                 *)
LEMMA InnerInv == Spec => [](Outer /\ Inner)
<1>1. Init => Inner
  BY PlacedInit, QueuedInit, StoredInit DEF Inner
<1>2. Outer /\ Inner /\ [Next]_vars => Inner'
  BY PlacedStep, HandedStep, NumberedStep, QueuedStep, StoredStep DEF Outer, Inner
<1>3. QED
  BY <1>1, <1>2, OuterInv, PTL DEF Spec

(* A replica that the namenode counts has all that was acknowledged to     *)
(* the client, whichever datanodes crashed, were dropped or joined.        *)
THEOREM AckedIsCounted == Spec => []AckedOnCounted
<1>1. Inner => AckedOnCounted
  BY DEF Inner, Stored, Covered, AckedOnCounted
<1>2. QED
  BY <1>1, InnerInv, PTL

(* In a recovery the replicas of the chain are between bytesAcked and      *)
(* bytesSent, the bounds the datanodes are told to accept.                 *)
THEOREM BoundsHold == Spec => []WithinBounds
<1>1. Kinds /\ Inner => WithinBounds
  <2> SUFFICES ASSUME Kinds, Inner, NEW d \in Chain \cap up PROVE replica[d].len \in acked .. sent
    BY DEF WithinBounds
  <2>1. replica[d].len \in Nat /\ acked \in Nat /\ sent \in Nat
    BY StoredKinds
  <2>2. QED
    BY <2>1 DEF Inner, Stored, Covered
<1>2. QED
  BY <1>1, InnerInv, PTL DEF Outer

-------------------------------------------------------------------------------
(* The end of a block.                                                     *)

NoLast(q) == \A i \in 1 .. Len(q) : q[i] # "last"

(* Once its last packet is marked, a pipeline has that to send and then to *)
(* go.                                                                     *)
Shut == Alive /\ closing =>
  /\ Now \in {"push", "spill", "write", "poll", "flush", "fsync"}
  /\ todo # <<>> /\ NoLast(todo) /\ todo[Len(todo)] \in {"fsync", "complete"}

(* What follows the step that marks the last packet.                       *)
LEMMA ShutTail ==
  ASSUME NEW q, Listing(q, call), q # <<>>, Head(q) \notin {"fsync", "complete"},
         Head(q) = "last" \/ (NoLast(q) /\ q[Len(q)] \in {"fsync", "complete"})
  PROVE  /\ Listing(Tail(q), call) /\ Tail(q) # <<>> /\ NoLast(Tail(q))
         /\ Tail(q)[Len(Tail(q))] \in {"fsync", "complete"}
         /\ Head(Tail(q)) # "last" /\ Follows(Head(q), Head(Tail(q)))
<1> DEFINE t == Tail(q)
           n == Len(q)
<1>1. /\ q \in Seq(Steps) /\ n \in Nat \ {0} /\ Head(q) = q[1]
      /\ \A i, j \in 1 .. n : q[i] = "last" /\ q[j] = "last" => i = j
      /\ (\E i \in 1 .. n : q[i] = "last") => q[n] \in {"fsync", "complete"}
  BY DEF Listing
<1>2. t \in Seq(Steps) /\ Len(t) = n - 1 /\ \A i \in 1 .. n - 1 : t[i] = q[i + 1]
  BY <1>1, HeadTailProperties
<1>3. q[n] \in {"fsync", "complete"} /\ 1 \in 1 .. n
  BY <1>1
<1>4. t # <<>> /\ t[Len(t)] = q[n]
  BY <1>1, <1>3, ListEnd
<1>5. Listing(t, call) /\ Follows(Head(q), Head(t))
  BY <1>4, ListTail
<1> HIDE DEF t, n
<1>6. ASSUME NEW i \in 1 .. Len(t) PROVE t[i] # "last"
  <2>1. i + 1 \in 1 .. n /\ i + 1 # 1 /\ t[i] = q[i + 1]
    BY <1>1, <1>2
  <2>2. QED
    BY <1>1, <1>3, <2>1 DEF NoLast, n
<1>7. Head(t) # "last"
  <2>1. Head(t) = t[1] /\ 1 \in 1 .. Len(t)
    BY <1>2, <1>4
  <2>2. QED
    BY <1>6, <2>1
<1>8. QED
  BY <1>3, <1>4, <1>5, <1>6, <1>7 DEF NoLast, t

(* Shut is inductive.                                                      *)
LEMMA ShutStep == ASSUME Kinds, Called, Shut, [Next]_vars PROVE Shut'
<1> SUFFICES ASSUME Alive', closing' PROVE Shut'
  BY DEF Shut
<1>0. /\ Alive /\ Listing(todo, call) /\ (todo # <<>> => Now = Head(todo)) /\ todo' # <<"throw">>
      /\ closing => /\ Now \in {"push", "spill", "write", "poll", "flush", "fsync"}
                    /\ todo # <<>> /\ NoLast(todo) /\ todo[Len(todo)] \in {"fsync", "complete"}
  <2>1. Alive /\ Listing(todo, call) /\ (todo # <<>> => Now = Head(todo))
    BY StaysAlive, Running DEF Kinds, Listed
  <2>2. todo' # <<"throw">>
    BY DEF Alive, Now
  <2>3. QED
    BY <2>1, <2>2 DEF Shut
<1>1. CASE UNCHANGED <<todo, closing>>
  BY <1>0, <1>1 DEF Shut, Now
<1>2. CASE PipelineStep
  <2>1. closing /\ Now # "fsync"
    <3>1. closing' = closing
      BY <1>2 DEF PipelineStep, Alloc, Create, Abandon, Push, EndWait, Write, NoAckYet, ReadAck, Fail,
                  WriteTimesOut, Extend, Connect, Update, Resend, setup
    <3>2. QED
      BY <1>0, <1>2, <3>1, PipelineTodo
  <2>2. /\ Listing(Tail(todo), call) /\ Tail(todo) # <<>> /\ NoLast(Tail(todo))
        /\ Tail(todo)[Len(Tail(todo))] \in {"fsync", "complete"}
        /\ Head(Tail(todo)) # "last" /\ Follows(Now, Head(Tail(todo)))
    BY <1>0, <2>1, ShutTail
  <2>3. CASE todo' = todo
    BY <1>0, <2>1, <2>3 DEF Shut, Now
  <2>4. CASE todo' = Tail(todo)
    BY <1>0, <2>1, <2>2, <2>4 DEF Shut, Now, Follows
  <2>5. CASE Thread("push") /\ todo' = Tail(Tail(todo))
    <3> DEFINE t == Tail(todo)
    <3>1. Head(t) = "spill" /\ Listing(t, call) /\ t # <<>> /\ NoLast(t) /\ t[Len(t)] \in {"fsync", "complete"}
      BY <1>0, <2>2, <2>5 DEF Follows, Thread
    <3>2. todo' = Tail(t)
      BY <2>5
    <3> HIDE DEF t
    <3>3. /\ Tail(t) # <<>> /\ NoLast(Tail(t)) /\ Tail(t)[Len(Tail(t))] \in {"fsync", "complete"}
          /\ Follows("spill", Head(Tail(t)))
      BY <3>1, ShutTail
    <3>4. QED
      BY <3>2, <3>3 DEF Shut, Now, Follows
  <2>6. QED
    BY <1>0, <1>2, <2>3, <2>4, <2>5, PipelineTodo
<1>3. CASE MarkLast
  <2>1. todo # <<>> /\ Head(todo) = "last" /\ todo' = Tail(todo)
    BY <1>3 DEF MarkLast, Thread
  <2>2. /\ todo' # <<>> /\ NoLast(todo') /\ todo'[Len(todo')] \in {"fsync", "complete"}
        /\ Head(todo') = "push"
    BY <1>0, <2>1, ShutTail DEF Follows
  <2>3. QED
    BY <2>2 DEF Shut, Now
<1>4. CASE Fsync
  BY <1>4 DEF Fsync
<1>5. CASE Complete \/ Return \/ Append1 \/ (\E sync \in BOOLEAN : Flushing(sync)) \/ Close
  <2>1. closing' = closing /\ Now \in {"complete", "rest"}
    BY <1>0, <1>5, AppendStarts, FlushStarts, CloseBegins
    DEF Complete, Return, Append1, Flushing, Close, Thread, Now, setup, pipeline, Alive
  <2>2. QED
    BY <1>0, <2>1
<1>6. CASE Rethrow
  BY <1>6 DEF Rethrow, Alive
<1>7. CASE Open \/ Delivery \/ Crashes \/ UNCHANGED vars
  BY <1>1, <1>7 DEF Open, Delivery, Receive, Crashes, vars, pipeline, setup
<1>8. QED
  BY <1>2, <1>3, <1>4, <1>5, <1>6, <1>7 DEF Next, ClientStep, CallStep

-------------------------------------------------------------------------------
(* No hole.                                                                *)

(* Where the units appended so far end in the block, and where the packet  *)
(* in hand, or the next one, begins.                                       *)
Goal == written + position
Base == IF held = None THEN written ELSE held.start

(* The packet in hand is not full before it is sent, and then it goes as   *)
(* far as the units appended.                                              *)
Filling == Alive =>
  /\ held # None => held.start <= written /\ written <= held.end
  /\ held # None /\ Now # "rest" => closing \/ Goal <= held.end
  /\ held # None /\ Now = "rest" /\ call # "close" => ~IsFull(held)

(* A step of the pipeline lets go of the packet or keeps it.               *)
LEMMA PipelineMoves ==
  ASSUME Kinds, Called, Handed, PipelineStep, UNCHANGED local, Alive'
  PROVE  /\ todo # <<>> /\ Now # "rest" /\ Alive
         /\ closing' = closing /\ held' \in {held, None} /\ (Now' = "rest" => held' = None)
<1>0. todo' # <<"throw">> /\ (todo' = todo => Now' = Now)
  BY DEF Alive, Now
<1>1. todo # <<>> /\ Now = Head(todo) /\ Now \in {"alloc", "push", "spill", "write", "poll", "flush"} /\ Alive
  <2>1. todo # <<>> /\ Head(todo) \in {"alloc", "push", "spill", "write", "poll", "flush"}
    BY PipelineTodo
  <2>2. QED
    BY <2>1, Running
<1>2. closing' = closing /\ held' \in {held, None}
  BY DEF PipelineStep, Alloc, Create, Abandon, Push, EndWait, Write, NoAckYet, ReadAck, Fail, EndSend,
         WriteTimesOut, Extend, Connect, Update, Resend, setup, queue
<1>3. ASSUME Now' = "rest" PROVE held' = None
  <2>1. CASE todo' = Tail(todo)
    <3>1. Now \in {"poll", "flush"}
      BY <1>1, <1>3, <2>1, NowTail
    <3>2. CASE Now = "flush"
      BY <1>1, <1>2, <3>2 DEF Handed
    <3>3. CASE Now = "poll"
      <4>1. todo' # todo
        BY <1>0, <1>1, <1>3
      <4>2. CASE Extend
        BY <1>0, <1>1, <4>1, <4>2, Extended DEF Joined, Untried, Unmoved, Again, Throw
      <4>3. CASE ~Extend
        BY <1>0, <1>1, <3>3, <4>1, <4>3
        DEF PipelineStep, Alloc, Create, Abandon, Push, EndWait, AtWait, Write, NoAckYet, ReadAck, Fail,
            WriteTimesOut, Connect, Update, Resend, EndSend, DropNode, Again, Throw, Thread
      <4>4. QED
        BY <4>2, <4>3
    <3>4. QED
      BY <3>1, <3>2, <3>3
  <2>2. CASE Thread("push") /\ todo' = Tail(Tail(todo))
    BY <1>3, <2>2, NowPush
  <2>3. todo' # todo
    BY <1>0, <1>1, <1>3
  <2>4. QED
    BY <1>0, <2>1, <2>2, <2>3, PipelineTodo
<1>4. QED
  BY <1>1, <1>2, <1>3

(* Both hold at first.                                                     *)
LEMMA FillingInit == Init => Filling /\ Shut
BY DEF Init, PipelineInit, Filling, Shut, Now

(* Filling is inductive.                                                   *)
LEMMA FillingStep ==
  ASSUME Kinds, Called, Bounded, Handed, Filling, Shut, [Next]_vars
  PROVE  Filling'
<1> SUFFICES ASSUME Alive' PROVE Filling'
  BY DEF Filling
<1>0. /\ Alive
      /\ held # None => held.start <= written /\ written <= held.end
      /\ held # None /\ Now # "rest" => closing \/ Goal <= held.end
      /\ held # None /\ Now = "rest" /\ call # "close" => ~IsFull(held)
  BY StaysAlive DEF Filling
<1>K. /\ written \in Nat /\ position \in Nat /\ seqno \in Nat /\ held \in Packet
      /\ held.start \in Nat /\ held.end \in Nat
      /\ Chunk \in Nat \ {0} /\ position < Chunk /\ closing \in BOOLEAN
  <2>1. held \in Packet /\ position \in 0 .. Chunk - 1 /\ written \in Nat /\ seqno \in Nat /\ closing \in BOOLEAN
    BY DEF Kinds, KindsQueue, KindsLocal, KindsSetup
  <2>2. held.start \in Nat /\ held.end \in Nat
    BY <2>1 DEF Packet
  <2>3. QED
    BY <2>1, <2>2, OutputAssumption
<1>R. ASSUME Now = "rest" PROVE ~closing
  BY <1>0, <1>R DEF Shut
<1>1. CASE UNCHANGED <<todo, held, call, closing, written, position>>
  BY <1>0, <1>1 DEF Filling, Now, Goal
<1>2. CASE PipelineStep /\ UNCHANGED local
  <2>1. /\ Now # "rest" /\ closing' = closing /\ held' \in {held, None} /\ (Now' = "rest" => held' = None)
        /\ Goal' = Goal /\ written' = written
    BY <1>2, PipelineMoves DEF local, Goal
  <2>2. QED
    BY <1>0, <2>1 DEF Filling
<1>3. CASE MarkLast
  <2>1. held' = NewPacket(TRUE) /\ closing' /\ written' = written /\ todo' = Tail(todo) /\ todo # <<>> /\ Now = "last"
    BY <1>3 DEF MarkLast, Hold, Thread, Now
  <2>2. Now' # "rest"
    BY <2>1, NowTail
  <2>3. held'.start = written /\ held'.end = written /\ written <= written
    BY <1>K, <2>1 DEF NewPacket
  <2>4. QED
    BY <2>1, <2>2, <2>3 DEF Filling
<1>4. CASE Fsync
  <2>1. todo # <<>> /\ Now = "fsync" /\ held' = held
    BY <1>4 DEF Fsync, Thread, queue, Now
  <2>2. held = None
    BY <1>0, <2>1 DEF Handed
  <2>3. QED
    BY <2>1, <2>2 DEF Filling
<1>5. CASE Complete
  <2>1. todo # <<>> /\ Now = "complete" /\ todo' = Tail(todo) /\ UNCHANGED <<held, written, call>>
    BY <1>5 DEF Complete, Thread, queue, local, Now, Alive, Throw
  <2>2. Now' = "rest" /\ call = "close"
    BY <2>1, NowTail DEF Follows, EndOf
  <2>3. QED
    BY <1>0, <2>1, <2>2 DEF Filling
<1>6. CASE Rethrow
  BY <1>6 DEF Rethrow, Alive
<1>7. CASE Return
  <2>1. Now = "rest" /\ Now' = "rest" /\ call # "close" /\ UNCHANGED <<held, written>>
    BY <1>7 DEF Return, Alive, Now, pipeline, queue
  <2>2. QED
    BY <1>0, <2>1 DEF Filling
<1>8. CASE Append1
  <2>1. /\ Now = "rest" /\ call = "none" /\ todo = <<>>
        /\ Now' = "rest" \/ (held' # None /\ Now' = First)
    BY <1>8, AppendStarts
  <2>2. written < BlockSize
    <3>1. written <= BlockSize /\ (written = BlockSize => lastError \/ todo # <<>>)
      BY DEF Bounded
    <3>2. QED
      BY <1>0, <1>K, <2>1, <3>1, OutputAssumption DEF Alive
  <2>3. CASE position + 1 = Chunk
    <3>1. held' = Filled(Chunk) /\ written' = written + Chunk /\ position' = 0
      BY <1>8, <2>3, NextPosition DEF Append1, Hold, Kinds, KindsLocal
    <3>2. /\ Filled(Chunk).start = (IF held = None THEN written ELSE held.start)
          /\ Filled(Chunk).end = (IF held = None THEN written ELSE held.end) + Chunk
      BY <1>K, PacketKinds
    <3>3. held'.start <= written' /\ written' <= held'.end /\ Goal' = written'
      BY <1>0, <1>K, <3>1, <3>2 DEF Goal
    <3>4. Now' = "rest" => held' = None \/ ~IsFull(held')
      <4>1. CASE held' # None /\ IsFull(held')
        <5>1. todo' = SendSteps \o CloseSteps \/ todo' = SendSteps \o <<>>
          BY <1>8, <4>1 DEF Append1
        <5>2. Now' = First
          BY <5>1, SendStarts, Closes DEF Now
        <5>3. QED
          BY <5>2 DEF First
      <4>2. QED
        BY <4>1
    <3>5. QED
      BY <3>1, <3>3, <3>4 DEF Filling
  <2>4. CASE position + 1 # Chunk
    <3>1. held' = held /\ written' = written /\ call' = "append"
      BY <1>8, <2>4 DEF Append1, Hold
    <3>2. Now' = "rest"
      <4>1. ~(held # None /\ (IsFull(held) \/ written = BlockSize))
        BY <1>0, <1>K, <2>1, <2>2, OutputAssumption
      <4>2. todo' = <<>>
        BY <1>8, <3>1, <4>1 DEF Append1
      <4>3. QED
        BY <4>2 DEF Now
    <3>3. QED
      BY <1>0, <2>1, <3>1, <3>2 DEF Filling
  <2>5. QED
    BY <2>3, <2>4
<1>9. ASSUME NEW sync \in BOOLEAN, Flushing(sync) PROVE Filling'
  <2>1. /\ Now = "rest" /\ call = "none" /\ UNCHANGED <<written, position>>
        /\ \/ Now' # "rest"
           \/ Now' = "rest" /\ (held' = None \/ (held' = held /\ lastFlushed = cursor))
    BY <1>9, FlushStarts DEF Flushing, First
  <2>2. \/ held' = held /\ position = 0
        \/ held' = held /\ lastFlushed = cursor
        \/ held' = Filled(position)
        \/ held' = NewPacket(FALSE) /\ position = 0
    <3>1. \/ held' = held /\ lastFlushed = cursor
          \/ Hold(held) /\ ~(position > 0)
          \/ Hold(Filled(position))
          \/ Hold(NewPacket(FALSE)) /\ ~(position > 0)
      BY <1>9 DEF Flushing
    <3>2. QED
      <4>1. ~(position > 0) => position = 0
        BY <1>K
      <4>2. QED
        BY <3>1, <4>1 DEF Hold
  <2>3. /\ Filled(position).start = (IF held = None THEN written ELSE held.start)
        /\ Filled(position).end = (IF held = None THEN written ELSE held.end) + position
    BY <1>K, PacketKinds
  <2>4. lastFlushed = cursor => held = None
    BY <1>0, <2>1 DEF Handed
  <2>5. held' # None => held'.start <= written /\ Goal <= held'.end /\ written <= held'.end
    <3>1. CASE held' = held /\ (position = 0 \/ lastFlushed = cursor)
      <4>1. CASE held = None
        BY <3>1, <4>1
      <4>2. CASE held # None
        BY <1>0, <1>K, <2>1, <2>4, <3>1, <4>2 DEF Goal
      <4>3. QED
        BY <4>1, <4>2
    <3>2. CASE held' = Filled(position)
      BY <1>0, <1>K, <2>3, <3>2 DEF Goal
    <3>3. CASE held' = NewPacket(FALSE) /\ position = 0
      BY <1>K, <3>3 DEF Goal, NewPacket
    <3>4. QED
      BY <2>2, <3>1, <3>2, <3>3
  <2>6. Goal' = Goal
    BY <2>1 DEF Goal
  <2>7. QED
    BY <2>1, <2>4, <2>5, <2>6 DEF Filling
<1>10. CASE Close
  <2>1. ~lastError
    BY <1>0 DEF Alive
  <2>2. /\ Now = "rest" /\ call = "none" /\ UNCHANGED <<written, position>> /\ call' = "close"
    BY <1>10, <2>1, CloseBegins DEF Close
  <2>3. \/ held' = held /\ (position = 0 \/ lastFlushed = cursor)
        \/ held' = Filled(position)
    BY <1>10, <1>K, <2>1 DEF Close, Broken, Hold
  <2>4. /\ Filled(position).start = (IF held = None THEN written ELSE held.start)
        /\ Filled(position).end = (IF held = None THEN written ELSE held.end) + position
    BY <1>K, PacketKinds
  <2>5. lastFlushed = cursor => held = None
    BY <1>0, <2>2 DEF Handed
  <2>6. held' # None => held'.start <= written /\ Goal <= held'.end /\ written <= held'.end
    <3>1. CASE held' = Filled(position)
      BY <1>0, <1>K, <2>4, <3>1 DEF Goal
    <3>2. CASE held' # Filled(position)
      <4>1. held' = held
        BY <2>3, <3>2
      <4>2. CASE held = None
        BY <4>1, <4>2
      <4>3. CASE held # None
        BY <1>0, <1>K, <2>3, <2>5, <3>2, <4>1, <4>3 DEF Goal
      <4>4. QED
        BY <4>2, <4>3
    <3>3. QED
      BY <3>1, <3>2
  <2>7. Goal' = Goal
    BY <2>2 DEF Goal
  <2>8. QED
    BY <2>2, <2>6, <2>7 DEF Filling
<1>11. CASE Open \/ Delivery \/ Crashes \/ UNCHANGED vars
  BY <1>1, <1>11 DEF Open, Delivery, Receive, Crashes, vars, pipeline, setup, queue, local
<1>12. QED
  BY <1>2, <1>3, <1>4, <1>5, <1>6, <1>7, <1>8, <1>9, <1>10, <1>11 DEF Next, ClientStep, CallStep

(* A unit that is acknowledged, or within the packets of a sequence.       *)
Reaches(n, q, a) == n <= a \/ (q # <<>> /\ n <= q[Len(q)].end)

(* The unit from which on packets are still to be made.                    *)
Upto == IF Now \in {"rest", "alloc", "push", "complete"} THEN Base ELSE Goal

(* The queue and the connection go as far as the next packet begins, and a *)
(* pipeline that is closed, or was flushed, has nothing outstanding.       *)
Edge == Alive =>
  /\ Reaches(Upto, packets, acked)
  /\ link = "up" => Reaches(IF Now \in {"spill", "write"} THEN Base ELSE Upto, wire, acked)
  /\ link \in {"none", "create", "abandon"} => Base = 0
  /\ closing => Goal <= acked
  /\ (call = "none" /\ lastFlushed = cursor) \/ (call \in {"flush", "sync"} /\ Now = "rest") =>
       link = "none" \/ Goal <= acked

(* The ends of a queue are packets.                                        *)
LEMMA LastEnd ==
  ASSUME NEW q \in Seq(Packet), q # <<>>
  PROVE  q[Len(q)].end \in Nat /\ q[1].end \in Nat /\ q[1].start \in Nat
<1>1. q[Len(q)] \in Packet /\ q[1] \in Packet
  OBVIOUS
<1>2. QED
  BY <1>1 DEF Packet

(* A queue that reaches a unit reaches those before it.                    *)
LEMMA ReachesLess ==
  ASSUME NEW q \in Seq(Packet), NEW m \in Nat, NEW n \in Nat, NEW a \in Nat, NEW b \in Nat,
         m <= n, a <= b, Reaches(n, q, a)
  PROVE  Reaches(m, q, b)
BY LastEnd DEF Reaches

(* A queue reaches as far as the packet that joins it.                     *)
LEMMA ReachesAppend ==
  ASSUME NEW q \in Seq(Packet), NEW p \in Packet, NEW n, NEW a, n <= a \/ n <= p.end
  PROVE  Reaches(n, Append(q, p), a)
<1> DEFINE b == Append(q, p)
<1>1. b \in Seq(Packet) /\ Len(b) = Len(q) + 1 /\ b[Len(q) + 1] = p /\ Len(q) \in Nat
  BY AppendProperties
<1> HIDE DEF b
<1>2. b # <<>> /\ b[Len(b)] = p
  BY <1>1
<1>3. QED
  BY <1>2 DEF Reaches, b

(* It reaches as far when its first packet is acknowledged.                *)
LEMMA ReachesTail ==
  ASSUME NEW q \in Seq(Packet), q # <<>>, NEW n \in Nat, NEW a \in Nat, NEW b \in Nat,
         a <= b, q[1].end <= b, Reaches(n, q, a)
  PROVE  Reaches(n, Tail(q), b)
<1> DEFINE t == Tail(q)
<1>1. /\ t \in Seq(Packet) /\ Len(q) \in Nat \ {0} /\ Len(t) = Len(q) - 1
      /\ \A i \in 1 .. Len(q) - 1 : t[i] = q[i + 1]
  BY HeadTailProperties
<1> HIDE DEF t
<1>2. q[Len(q)].end \in Nat /\ q[1].end \in Nat
  BY LastEnd
<1>3. CASE n <= a
  BY <1>3 DEF Reaches
<1>4. CASE n <= q[Len(q)].end /\ Len(q) = 1
  BY <1>2, <1>4 DEF Reaches
<1>5. CASE n <= q[Len(q)].end /\ Len(q) # 1
  <2>1. Len(q) - 1 \in 1 .. Len(q) - 1 /\ (Len(q) - 1) + 1 = Len(q)
    BY <1>1, <1>5
  <2>2. t[Len(t)] = q[Len(q)] /\ t # <<>>
    BY <1>1, <2>1
  <2>3. QED
    BY <1>5, <2>2 DEF Reaches, t
<1>6. QED
  BY <1>3, <1>4, <1>5 DEF Reaches

(* A packet with something in it is one.                                   *)
LEMMA FilledIsOne == ASSUME Kinds, NEW n \in Nat \ {0} PROVE Filled(n) # None
<1>1. held \in Packet /\ written \in Nat /\ held.end \in Nat
  BY DEF Kinds, KindsQueue, KindsLocal, Packet
<1>2. Filled(n).end = (IF held = None THEN written ELSE held.end) + n
  BY PacketKinds
<1>3. None.end = 0 /\ Filled(n).end > 0
  BY <1>1, <1>2 DEF None
<1>4. QED
  BY <1>3

(* What a method begins with begins where the packet before it ended.      *)
LEMMA BaseAppend ==
  ASSUME Kinds, Append1
  PROVE  Base' = Base
<1>1. Chunk \in Nat \ {0}
  BY OutputAssumption
<1>2. CASE position + 1 = Chunk
  <2>1. held' = Filled(Chunk) /\ Filled(Chunk) # None
    BY <1>1, <1>2, FilledIsOne DEF Append1, Hold
  <2>2. Filled(Chunk).start = IF held = None THEN written ELSE held.start
    BY <1>1, PacketKinds
  <2>3. QED
    BY <2>1, <2>2 DEF Base
<1>3. CASE position + 1 # Chunk
  BY <1>3 DEF Append1, Hold, Base
<1>4. QED
  BY <1>2, <1>3

(* So it is when flush() and sync() begin,                                 *)
LEMMA BaseFlush ==
  ASSUME Kinds, NEW sync \in BOOLEAN, Flushing(sync)
  PROVE  /\ Base' = Base
         /\ held' = None => held = None /\ (position = 0 \/ lastFlushed = cursor)
<1>1. position \in Nat /\ UNCHANGED <<written, position>>
  BY OutputAssumption DEF Kinds, KindsLocal, Flushing
<1>2. \/ held' = held /\ lastFlushed = cursor
      \/ Hold(held) /\ ~(position > 0)
      \/ Hold(Filled(position)) /\ position > 0
      \/ Hold(NewPacket(FALSE)) /\ ~(position > 0) /\ held = None
  BY DEF Flushing
<1>3. CASE held' = held /\ (lastFlushed = cursor \/ ~(position > 0))
  BY <1>1, <1>3 DEF Base
<1>4. CASE Hold(Filled(position)) /\ position > 0
  <2>1. held' = Filled(position) /\ Filled(position) # None
    BY <1>1, <1>4, FilledIsOne DEF Hold
  <2>2. Filled(position).start = IF held = None THEN written ELSE held.start
    BY <1>1, PacketKinds
  <2>3. QED
    BY <2>1, <2>2 DEF Base
<1>5. CASE Hold(NewPacket(FALSE)) /\ ~(position > 0) /\ held = None
  BY <1>1, <1>5 DEF Hold, NewPacket, Base
<1>6. QED
  BY <1>2, <1>3, <1>4, <1>5 DEF Hold

(* and close().                                                            *)
LEMMA BaseClose ==
  ASSUME Kinds, Close, ~lastError
  PROVE  /\ Base' = Base
         /\ held' = None => held = None /\ (position = 0 \/ lastFlushed = cursor)
<1>1. position \in Nat /\ UNCHANGED <<written, position>>
  BY OutputAssumption DEF Kinds, KindsLocal, Close
<1>2. \/ Hold(held) /\ (lastFlushed = cursor \/ ~(position > 0))
      \/ Hold(Filled(position)) /\ position > 0
  BY DEF Close, Broken
<1>3. CASE Hold(held) /\ (lastFlushed = cursor \/ ~(position > 0))
  BY <1>1, <1>3 DEF Base, Hold
<1>4. CASE Hold(Filled(position)) /\ position > 0
  <2>1. held' = Filled(position) /\ Filled(position) # None
    BY <1>1, <1>4, FilledIsOne DEF Hold
  <2>2. Filled(position).start = IF held = None THEN written ELSE held.start
    BY <1>1, PacketKinds
  <2>3. QED
    BY <2>1, <2>2 DEF Base
<1>5. QED
  BY <1>2, <1>3, <1>4

(* A flush or sync comes to its end by waiting for the acks.               *)
LEMMA RestAfter ==
  ASSUME Kinds, Called, PipelineStep, Alive', Now' = "rest", call \in {"flush", "sync"}
  PROVE  Now = "flush"
<1>1. todo # <<>> /\ Now # "throw" /\ Now # "rest" /\ todo' # <<"throw">> /\ (todo' = todo => Now' = Now)
  BY PipelineTodo DEF Alive, Now
<1>2. CASE todo' = Tail(todo)
  <2>1. EndOf(call, Now)
    BY <1>1, <1>2, NowTail
  <2>2. QED
    BY <1>1, <2>1 DEF EndOf
<1>3. CASE Thread("push") /\ todo' = Tail(Tail(todo))
  BY <1>3, NowPush
<1>4. QED
  BY <1>1, <1>2, <1>3, PipelineTodo

(* The types this rests on,                                                *)
LEMMA EdgeKinds ==
  ASSUME Kinds
  PROVE  /\ written \in Nat /\ position \in Nat /\ Base \in Nat /\ Goal \in Nat /\ Upto \in Nat
         /\ acked \in Nat /\ packets \in Seq(Packet) /\ wire \in Seq(Packet) /\ held \in Packet
         /\ closing \in BOOLEAN
<1>1. /\ held \in Packet /\ packets \in Seq(Packet) /\ wire \in Seq(Packet) /\ acked \in Nat /\ closing \in BOOLEAN
      /\ written \in Nat /\ position \in 0 .. Chunk - 1
  BY DEF Kinds, KindsQueue, KindsLocal, KindsSetup
<1>2. position \in Nat /\ held.start \in Nat
  BY <1>1, OutputAssumption DEF Packet
<1>3. QED
  BY <1>1, <1>2 DEF Base, Goal, Upto

(* and in the next state.                                                  *)
LEMMA EdgeKindsNext ==
  ASSUME Kinds'
  PROVE  /\ Base' \in Nat /\ Goal' \in Nat /\ Upto' \in Nat /\ acked' \in Nat
         /\ packets' \in Seq(Packet) /\ wire' \in Seq(Packet) /\ held' \in Packet
<1>1. /\ held' \in Packet /\ packets' \in Seq(Packet) /\ wire' \in Seq(Packet) /\ acked' \in Nat
      /\ written' \in Nat /\ position' \in 0 .. Chunk - 1
  BY DEF Kinds, KindsQueue, KindsLocal
<1>2. position' \in Nat /\ held'.start \in Nat
  BY <1>1, OutputAssumption DEF Packet
<1>3. Base' \in Nat /\ Goal' \in Nat
  <2>1. Base' \in {written', held'.start}
    BY DEF Base
  <2>2. \A m, n \in Nat : m + n \in Nat
    OBVIOUS
  <2>3. written' \in Nat /\ position' \in Nat /\ held'.start \in Nat
    BY <1>1, <1>2
  <2>4. Goal' \in Nat
    BY <2>2, <2>3, Zenon DEF Goal
  <2>5. QED
    BY <2>1, <2>3, <2>4
<1>4. Upto' \in Nat
  BY <1>3 DEF Upto
<1>5. QED
  BY <1>1, <1>3, <1>4

(* Edge holds at first.                                                    *)
LEMMA EdgeInit == Init => Edge
BY OutputAssumption DEF Init, PipelineInit, Edge, Reaches, Upto, Base, Now

(* Edge is inductive.                                                      *)
LEMMA EdgeStep ==
  ASSUME Kinds, Called, Placed, Handed, Numbered, Queued, Stored, Filling, Shut, Edge, Kinds', [Next]_vars
  PROVE  Edge'
<1> SUFFICES ASSUME Alive' PROVE Edge'
  BY DEF Edge
<1> DEFINE W == IF Now \in {"spill", "write"} THEN Base ELSE Upto
<1>K. /\ Base \in Nat /\ Goal \in Nat /\ Upto \in Nat /\ W \in Nat /\ acked \in Nat
      /\ packets \in Seq(Packet) /\ wire \in Seq(Packet) /\ held \in Packet
      /\ written \in Nat /\ position \in Nat /\ closing \in BOOLEAN
      /\ Base' \in Nat /\ Goal' \in Nat /\ Upto' \in Nat /\ W' \in Nat /\ acked' \in Nat
      /\ packets' \in Seq(Packet) /\ wire' \in Seq(Packet)
  <2>1. Base \in Nat /\ Upto \in Nat /\ Base' \in Nat /\ Upto' \in Nat
    BY EdgeKinds, EdgeKindsNext
  <2>2. W \in Nat /\ W' \in Nat
    BY <2>1
  <2>3. QED
    BY <2>2, EdgeKinds, EdgeKindsNext
<1>0. /\ Alive /\ (todo # <<>> => Now = Head(todo) /\ call # "none")
      /\ todo' # <<"throw">> /\ (todo' = todo => Now' = Now)
      /\ Reaches(Upto, packets, acked) /\ (link = "up" => Reaches(W, wire, acked))
      /\ link \in {"none", "create", "abandon"} => Base = 0
      /\ closing => Goal <= acked
      /\ (call = "none" /\ lastFlushed = cursor) \/ (call \in {"flush", "sync"} /\ Now = "rest") =>
           link = "none" \/ Goal <= acked
  <2>1. Alive /\ (todo # <<>> => Now = Head(todo) /\ call # "none")
    BY StaysAlive, Running
  <2>2. todo' # <<"throw">> /\ (todo' = todo => Now' = Now)
    BY DEF Alive, Now
  <2>3. QED
    BY <2>1, <2>2 DEF Edge
<1>B. Base <= written /\ written <= Goal /\ Upto <= Goal /\ Base <= Upto /\ Base <= W /\ W <= Upto
  <2>1. Base <= written /\ written <= Goal
    BY <1>0, <1>K DEF Filling, Base, Goal
  <2>2. QED
    BY <1>K, <2>1 DEF Upto
<1>L. /\ Now \in {"push", "write", "last", "fsync"} => link = "up"
      /\ Now = "complete" => link = "none"
      /\ Now \in {"rest", "alloc", "last", "complete"} => ~closing
      /\ Now \in {"last", "fsync"} => packets = <<>>
      /\ link \in {"none", "create", "abandon"} => packets = <<>>
      /\ link # "up" => wire = <<>>
      /\ Now \in {"push", "write"} /\ ~closing => Goal <= held.end
      /\ Now \in {"flush", "last", "fsync"} => held = None
  <2>1. Now \in {"push", "write"} => held # None
    BY <1>0 DEF Handed, Sending
  <2>2. Now \in {"push", "write"} /\ ~closing => Goal <= held.end
    BY <1>0, <2>1 DEF Filling
  <2>3. QED
    BY <1>0, <2>2 DEF Placed, Shut, Queued, Stored, Wired, Handed
<1> HIDE DEF W
<1>1. CASE UNCHANGED <<todo, link, closing, held, packets, wire, acked, call, written, position, lastFlushed, cursor>>
  BY <1>0, <1>1 DEF Edge, Upto, Base, Goal, Now, W
<1>2. ASSUME acked <= acked' \/ acked' = 0,
             Reaches(Upto', packets', acked'), link' = "up" => Reaches(W', wire', acked'),
             link' \in {"none", "create", "abandon"} => Base' = 0,
             closing' => Goal' <= acked',
             call' # "none", call' \in {"flush", "sync"} /\ Now' = "rest" => Goal' <= acked'
      PROVE  Edge'
  BY <1>2 DEF Edge, W
<1>3. CASE PipelineStep /\ UNCHANGED local
  <2>1. /\ todo # <<>> /\ Now = Head(todo) /\ Now # "rest" /\ call # "none" /\ call' = call /\ Goal' = Goal
        /\ written' = written /\ closing' = closing /\ held' \in {held, None} /\ (held' = held => Base' = Base)
        /\ Base' <= written
    BY <1>0, <1>3, <1>B, <1>K, PipelineMoves DEF local, Goal, Base
  <2>2. Upto' <= Goal /\ W' <= Goal /\ (Now' \in {"rest", "alloc", "push", "complete"} => Upto' = Base')
    BY <1>B, <1>K, <2>1 DEF Upto, W
  <2>3. ASSUME held' = held, todo' = todo PROVE Upto' = Upto /\ W' = W
    BY <1>0, <2>1, <2>3 DEF Upto, W
  <2>4. ASSUME Now' = "rest", Now # "flush" PROVE call \notin {"flush", "sync"}
    BY <1>3, <2>4, RestAfter
  <2>5. ASSUME Goal <= acked', link' \notin {"none", "create", "abandon"}, acked <= acked'
        PROVE  Edge'
    <3>1. Reaches(Upto', packets', acked') /\ Reaches(W', wire', acked')
      BY <1>K, <2>2, <2>5 DEF Reaches
    <3>2. QED
      BY <1>2, <2>1, <2>5, <3>1
  <2>6. ASSUME packets' = packets, acked' = acked, held' = held, todo' = todo, link' = "up" => FALSE,
               link' \in {"none", "create", "abandon"} => Base = 0
        PROVE  Edge'
    BY <1>0, <1>K, <1>2, <2>1, <2>3, <2>6
  <2>7. CASE Alloc
    <3>1. held' = held /\ todo' = todo /\ Now = "alloc" /\ link = "none" /\ packets' = packets
      BY <1>0, <2>1, <2>7 DEF Alloc, Thread, Throw, queue
    <3>2. CASE acked' = acked /\ link' = link
      BY <1>0, <2>6, <3>1, <3>2
    <3>3. CASE acked' = 0 /\ link' = "create"
      <4>1. Base = 0 /\ Upto' = 0
        BY <1>0, <2>1, <2>2, <2>3, <3>1 DEF Upto
      <4>2. Reaches(Upto', packets', acked')
        BY <3>3, <4>1 DEF Reaches
      <4>3. Now' = "alloc" /\ ~closing
        BY <1>0, <1>L, <3>1
      <4>4. QED
        BY <1>2, <2>1, <3>1, <3>3, <4>1, <4>2, <4>3
    <3>4. QED
      BY <2>7, <3>2, <3>3 DEF Alloc, queue
  <2>8. CASE Create
    <3>1. /\ Now = "alloc" /\ link = "create" /\ Base = 0 /\ UNCHANGED <<held, packets, acked, wire>>
      BY <1>0, <2>1, <2>8 DEF Create, Thread, queue, conn
    <3>2. CASE link' = "up" /\ todo' = Tail(todo)
      <4>1. Now' = "push"
        BY <2>1, <3>1, <3>2, NowTail DEF Follows
      <4>2. Upto' = 0 /\ W' = 0
        BY <2>1, <3>1, <4>1 DEF Upto, W
      <4>3. Reaches(Upto', packets', acked') /\ Reaches(W', wire', acked')
        BY <1>K, <4>2 DEF Reaches
      <4>4. ~closing /\ acked <= acked'
        BY <1>K, <1>L, <3>1
      <4>5. QED
        BY <1>2, <2>1, <3>2, <4>1, <4>3, <4>4
    <3>3. CASE link' = "abandon" /\ todo' = todo
      BY <2>6, <3>1, <3>3
    <3>4. QED
      BY <2>8, <3>2, <3>3 DEF Create
  <2>9. CASE Abandon
    <3>1. link = "abandon" /\ link' \in {"abandon", "none"} /\ UNCHANGED <<held, packets, acked, todo>>
      BY <1>0, <2>9 DEF Abandon, Throw, queue
    <3>2. QED
      BY <1>0, <2>6, <3>1
  <2>10. CASE Push
    <3>1. /\ Now = "push" /\ link = "up" /\ UNCHANGED <<link, held, acked, wire>> /\ packets' = Append(packets, held)
      BY <1>0, <1>L, <2>1, <2>10 DEF Push, Thread, setup, conn
    <3>2. Now' \in {"spill", "write"}
      BY <2>1, <2>10, <3>1, NowTail, NowPush DEF Push, Follows
    <3>3. Upto' = Goal /\ W' = Base /\ W = Base
      BY <2>1, <3>1, <3>2 DEF Upto, W
    <3>4. Goal <= acked \/ Goal <= held.end
      BY <1>0, <1>L, <3>1
    <3>5. Reaches(Upto', packets', acked') /\ Reaches(W', wire', acked')
      BY <1>0, <1>K, <3>1, <3>3, <3>4, ReachesAppend
    <3>6. acked <= acked'
      BY <1>K, <3>1
    <3>7. QED
      BY <1>0, <1>2, <2>1, <3>1, <3>2, <3>5, <3>6
  <2>11. CASE EndWait
    <3>1. /\ Now \in {"flush", "spill"} /\ link' = "up" /\ link = "up" /\ UNCHANGED <<held, packets, acked, wire>> /\ todo' = Tail(todo)
          /\ Now = "flush" => packets = <<>>
      BY <1>0, <2>1, <2>11 DEF EndWait, AtWait, Enough, Thread, setup, queue, conn
    <3>2. acked <= acked'
      BY <1>K, <3>1
    <3>3. CASE Now = "flush"
      <4>1. Goal <= acked
        BY <1>0, <3>1, <3>3 DEF Reaches, Upto
      <4>2. QED
        BY <2>5, <3>1, <3>2, <4>1
    <3>4. CASE Now = "spill"
      <4>1. Now' = "write"
        BY <2>1, <3>1, <3>4, NowTail DEF Follows
      <4>2. Upto' = Upto /\ W' = W
        BY <2>1, <3>1, <3>4, <4>1 DEF Upto, W
      <4>3. QED
        BY <1>0, <1>2, <2>1, <3>1, <3>2, <4>1, <4>2
    <3>5. QED
      BY <3>1, <3>3, <3>4
  <2>12. CASE Write
    <3>1. /\ Now = "write" /\ link' = "up" /\ UNCHANGED <<held, packets, acked>> /\ wire' = Append(wire, held)
          /\ todo' = Tail(todo)
      BY <1>0, <2>1, <2>12 DEF Write, Thread, setup
    <3>2. Now' = "poll"
      BY <2>1, <3>1, NowTail DEF Follows
    <3>3. Upto' = Goal /\ W' = Goal /\ Upto = Goal
      BY <2>1, <3>1, <3>2 DEF Upto, W
    <3>4. Goal <= acked \/ Goal <= held.end
      BY <1>0, <1>L, <3>1
    <3>5. Reaches(Upto', packets', acked') /\ Reaches(W', wire', acked')
      BY <1>0, <1>K, <3>1, <3>3, <3>4, ReachesAppend
    <3>6. acked <= acked'
      BY <1>K, <3>1
    <3>7. QED
      BY <1>0, <1>2, <2>1, <3>1, <3>2, <3>5, <3>6
  <2>13. CASE NoAckYet
    <3>1. /\ Now = "poll" /\ link = "up" /\ link' = "up" /\ UNCHANGED <<packets, acked, wire>>
      BY <1>0, <2>1, <2>13 DEF NoAckYet, Thread, setup, conn
    <3>2. Upto = Goal /\ W = Goal /\ acked <= acked'
      BY <1>K, <3>1 DEF Upto, W
    <3>3. Reaches(Upto', packets', acked') /\ Reaches(W', wire', acked')
      BY <1>0, <1>K, <2>2, <3>1, <3>2, ReachesLess
    <3>4. QED
      BY <1>0, <1>2, <2>1, <2>4, <3>1, <3>2, <3>3
  <2>14. CASE ReadAck
    <3>1. /\ link = "up" /\ link' = "up" /\ packets # <<>> /\ wire # <<>> /\ Head(wire).seq = Head(packets).seq
          /\ acked' = MaxOf(acked, Head(packets).end) /\ packets' = Tail(packets) /\ wire' = Tail(wire)
          /\ \/ Now = "poll"
             \/ Now \in {"flush", "spill"} /\ UNCHANGED <<todo, held>>
      BY <1>0, <2>1, <2>14 DEF ReadAck, Waits, AtWait, Readable, Thread, setup
    <3>2. Head(wire) = wire[1] /\ Head(packets) = packets[1] /\ wire[1].end = packets[1].end
      <4>1. Head(wire) = wire[1] /\ Head(packets) = packets[1]
        BY <1>K, <3>1
      <4>2. Head(wire) \in Sent /\ Head(packets) \in Sent
        BY <1>K, <3>1, SetOfTail DEF Sent
      <4>3. QED
        BY <3>1, <4>1, <4>2 DEF Numbered
    <3>3. packets[1].end \in Nat
      BY <1>K, <3>1, LastEnd
    <3>4. acked <= acked' /\ packets[1].end <= acked' /\ wire[1].end <= acked'
      BY <1>K, <3>1, <3>2, <3>3 DEF MaxOf
    <3>5. Reaches(Upto, packets', acked') /\ Reaches(W, wire', acked')
      BY <1>0, <1>K, <3>1, <3>4, ReachesTail
    <3>6. Upto' <= Upto /\ W' <= W
      BY <1>K, <2>2, <2>3, <3>1 DEF Upto, W
    <3>7. Reaches(Upto', packets', acked') /\ Reaches(W', wire', acked')
      BY <1>K, <3>5, <3>6, ReachesLess
    <3>8. ~(Now' = "rest" /\ call \in {"flush", "sync"}) /\ (closing => Goal <= acked')
      BY <1>0, <1>K, <2>1, <2>4, <3>1, <3>4
    <3>9. QED
      BY <1>2, <2>1, <3>1, <3>4, <3>7, <3>8
  <2>15. CASE Fail
    <3>1. PICK i \in DOMAIN nodes : DropNode(nodes, i, {})
      BY <2>15 DEF Fail
    <3>2. /\ link' \in Recovery /\ UNCHANGED <<held, packets, acked>>
          /\ Now \in {"write", "poll", "spill", "flush"}
          /\ todo' = todo \/ (Now = "write" /\ todo' = Tail(todo))
      BY <1>0, <2>1, <2>15, <3>1 DEF Fail, DropNode, Waits, AtWait, Rebuild, Throw, Thread, queue, Recovery
    <3>3. Now' \in {Now, "poll"}
      BY <1>0, <2>1, <3>2, NowTail DEF Follows
    <3>4. Upto' = Goal /\ Upto = Goal /\ Now' # "rest"
      BY <2>1, <3>2, <3>3 DEF Upto
    <3>5. QED
      BY <1>0, <1>2, <1>K, <2>1, <3>2, <3>4 DEF Recovery
  <2>16. CASE WriteTimesOut
    BY <1>0, <2>16 DEF WriteTimesOut, Throw
  <2>17. CASE Extend
    <3>1. UNCHANGED <<held, packets, acked>>
      BY <2>17 DEF Extend, queue
    <3>2. todo' = todo /\ link' \in Recovery
      BY <1>0, <2>17, Extended DEF Extend, Recovers, Joined, Untried, Unmoved, Again, Rebuild, Throw, Recovery
    <3>3. QED
      BY <2>6, <3>1, <3>2 DEF Recovery
  <2>18. CASE Connect
    <3>1. UNCHANGED <<held, packets, acked>>
      BY <2>18 DEF Connect, queue
    <3>2. todo' = todo /\ link' \in Recovery
      BY <1>0, <2>18 DEF Connect, Recovers, Thread, Again, DropNode, Rebuild, Throw, Recovery
    <3>3. QED
      BY <2>6, <3>1, <3>2 DEF Recovery
  <2>19. CASE Update
    <3>1. acked' = acked /\ link' \in {"up", "resend"} /\ acked <= acked'
      BY <1>0, <1>K, <2>19 DEF Update, Throw
    <3>2. CASE closing
      BY <1>0, <2>5, <3>1, <3>2
    <3>3. CASE ~closing
      <4>1. link' = "resend" /\ UNCHANGED <<todo, held, packets>>
        BY <1>0, <2>19, <3>3 DEF Update, Throw
      <4>2. QED
        BY <2>6, <3>1, <4>1
    <3>4. QED
      BY <1>K, <3>2, <3>3
  <2>20. CASE Resend
    <3>1. link' = "up" /\ UNCHANGED <<todo, held, packets, acked>> /\ wire' = packets
      BY <2>20 DEF Resend, ToResend
    <3>2. Upto' = Upto /\ W' = W /\ acked <= acked' /\ Now' = Now
      BY <1>0, <1>K, <2>3, <3>1
    <3>3. Reaches(W', wire', acked')
      BY <1>0, <1>B, <1>K, <3>1, <3>2, ReachesLess
    <3>4. QED
      BY <1>0, <1>2, <2>1, <3>1, <3>2, <3>3
  <2>21. QED
    BY <1>3, <2>7, <2>8, <2>9, <2>10, <2>11, <2>12, <2>13, <2>14, <2>15, <2>16, <2>17, <2>18, <2>19, <2>20
    DEF PipelineStep
<1>4. CASE MarkLast
  <2>1. /\ todo # <<>> /\ Now = "last" /\ todo' = Tail(todo) /\ UNCHANGED <<link, packets, acked, wire, call, written, position>>
        /\ held' = NewPacket(TRUE) /\ packets = <<>> /\ link = "up"
    BY <1>0, <1>4, <1>L DEF MarkLast, Thread, Hold, conn
  <2>2. Now' = "push"
    BY <2>1, NowTail DEF Follows
  <2>3. Goal <= acked
    BY <1>0, <2>1 DEF Upto, Reaches
  <2>4. Base' = written /\ Upto' = written /\ Goal' = Goal /\ W' = written
    BY <2>1, <2>2 DEF Base, Upto, Goal, NewPacket, W
  <2>5. Reaches(Upto', packets', acked') /\ Reaches(W', wire', acked') /\ acked <= acked' /\ Goal' <= acked'
    BY <1>B, <1>K, <2>1, <2>3, <2>4 DEF Reaches
  <2>6. QED
    BY <1>0, <1>2, <2>1, <2>2, <2>5
<1>5. CASE Fsync
  <2>1. /\ todo # <<>> /\ Now = "fsync" /\ todo' = Tail(todo) /\ UNCHANGED <<acked, call, held>>
        /\ written' = 0 /\ link' = "none" /\ closing' = FALSE /\ held = None /\ call # "none"
    BY <1>0, <1>5, <1>L DEF Fsync, Thread, Throw, queue
  <2>2. Now' \in {"complete", "rest"}
    BY <2>1, NowTail DEF Follows
  <2>3. Base' = 0 /\ Upto' = 0
    BY <2>1, <2>2 DEF Base, Upto
  <2>4. Reaches(Upto', packets', acked') /\ acked <= acked'
    BY <1>K, <2>1, <2>3 DEF Reaches
  <2>5. QED
    BY <2>1, <2>3, <2>4 DEF Edge
<1>6. CASE Complete
  <2>1. /\ todo # <<>> /\ Now = "complete" /\ todo' = Tail(todo)
        /\ UNCHANGED <<link, closing, held, packets, acked, wire, call, written, position>>
        /\ link = "none" /\ ~closing
    BY <1>0, <1>6, <1>L DEF Complete, Thread, Throw, setup, queue, conn, local
  <2>2. Now' = "rest" /\ call = "close"
    BY <2>1, NowTail DEF Follows, EndOf
  <2>3. Upto' = Upto /\ Base' = Base
    BY <2>1, <2>2 DEF Upto, Base
  <2>4. QED
    BY <1>0, <2>1, <2>2, <2>3 DEF Edge
<1>7. CASE Rethrow
  BY <1>7 DEF Rethrow, Alive
<1>8. CASE Return
  <2>1. /\ Now = "rest" /\ Now' = "rest" /\ call' = "none" /\ call # "close" /\ call # "none"
        /\ UNCHANGED <<link, closing, held, packets, acked, wire, written, position, lastFlushed>>
        /\ cursor' = IF call = "append" THEN cursor + 1 ELSE cursor
    BY <1>8 DEF Return, Alive, Now, pipeline, setup, queue, conn
  <2>2. cursor \in Nat /\ lastFlushed \in Nat /\ lastFlushed <= cursor /\ call \in Methods \cup {"none"}
    BY DEF Called, Kinds, KindsLocal
  <2>3. lastFlushed' = cursor' => call \in {"flush", "sync"}
    BY <2>1, <2>2 DEF Methods
  <2>4. Upto' = Upto /\ Base' = Base /\ Goal' = Goal /\ W' = W
    BY <2>1 DEF Upto, Base, Goal, W
  <2>5. QED
    BY <1>0, <2>1, <2>3, <2>4 DEF Edge, W
<1>9. ASSUME Base' = Base, UNCHANGED <<link, closing, packets, acked, wire>>, Now = "rest",
             Now' \in {"rest", "alloc", "push", "complete"}, call' # "none",
             call' \in {"flush", "sync"} /\ Now' = "rest" => link = "none" \/ Goal' <= acked
      PROVE  Edge'
  <2>1. Upto' = Upto /\ W' = W /\ ~closing
    BY <1>9, <1>L DEF Upto, W
  <2>2. QED
    BY <1>0, <1>9, <2>1 DEF Edge, W
<1>10. CASE Append1
  <2>1. Now = "rest" /\ Now' \in {"rest", First} /\ Base' = Base /\ UNCHANGED <<link, closing, packets, acked, wire>>
        /\ call' = "append"
    BY <1>10, AppendStarts, BaseAppend DEF Append1, setup, conn
  <2>2. QED
    BY <1>9, <2>1 DEF First
<1>11. ASSUME UNCHANGED <<link, closing, packets, acked, wire, written, position>>, Base' = Base, Now = "rest",
              Now' = "flush", link # "none", call' # "none",
              (held = None /\ position = 0) \/ (call = "none" /\ lastFlushed = cursor)
       PROVE  Edge'
  <2>1. Goal' = Goal /\ Upto' = Goal /\ W' = Goal /\ ~closing
    BY <1>11, <1>L DEF Goal, Upto, W
  <2>2. CASE held = None /\ position = 0
    <3>1. Upto = Goal /\ W = Goal
      BY <1>11, <1>K, <2>2 DEF Upto, W, Base, Goal
    <3>2. QED
      BY <1>0, <1>11, <2>1, <3>1 DEF Edge, W
  <2>3. CASE call = "none" /\ lastFlushed = cursor
    <3>1. Goal <= acked
      BY <1>0, <1>11, <2>3
    <3>2. QED
      BY <1>0, <1>11, <2>1, <3>1 DEF Edge, Reaches, W
  <2>4. QED
    BY <1>11, <2>2, <2>3
<1>12. ASSUME NEW sync \in BOOLEAN, Flushing(sync) PROVE Edge'
  <2>1. /\ Now = "rest" /\ call = "none" /\ call' \in {"flush", "sync"} /\ Base' = Base
        /\ UNCHANGED <<link, closing, packets, acked, wire, written, position>> /\ Goal' = Goal
    BY <1>12, FlushStarts, BaseFlush DEF Flushing, setup, conn, Goal
  <2>2. CASE Now' = "flush" /\ link # "none" /\ held' = None
    BY <1>11, <1>12, <2>1, <2>2, BaseFlush
  <2>3. CASE held' # None /\ Now' = First
    BY <1>9, <2>1, <2>3 DEF First
  <2>4. CASE Now' = "rest" /\ (link = "none" \/ lastFlushed = cursor)
    BY <1>0, <1>9, <2>1, <2>4
  <2>5. QED
    BY <1>12, <2>2, <2>3, <2>4, FlushStarts
<1>13. CASE Close
  <2>1. ~lastError
    BY <1>0 DEF Alive
  <2>2. /\ Now = "rest" /\ call = "none" /\ call' = "close" /\ Base' = Base
        /\ UNCHANGED <<link, closing, packets, acked, wire, written, position>>
    BY <1>13, <2>1, CloseBegins, BaseClose DEF Close, setup, conn
  <2>3. CASE Now' = "flush" /\ link # "none"
    <3>1. lastFlushed = cursor => held = None
      BY <1>0, <2>2 DEF Handed
    <3>2. (held = None /\ position = 0) \/ lastFlushed = cursor
      BY <1>13, <2>1, <2>3, <3>1, CloseBegins, BaseClose DEF First
    <3>3. QED
      BY <1>11, <2>2, <2>3, <3>2
  <2>4. CASE Now' \in {First, "complete"}
    BY <1>9, <2>2, <2>4 DEF First
  <2>5. QED
    BY <1>13, <2>1, <2>3, <2>4, CloseBegins
<1>14. CASE Open \/ Delivery \/ Crashes \/ UNCHANGED vars
  BY <1>1, <1>14 DEF Open, Delivery, Receive, Crashes, vars, pipeline, setup, queue, conn, local
<1>15. QED
  BY <1>3, <1>4, <1>5, <1>6, <1>7, <1>8, <1>10, <1>12, <1>13, <1>14 DEF Next, ClientStep, CallStep

-------------------------------------------------------------------------------
(* What a flush promises.                                                  *)

(* Of the units appended, those in the blocks of the file that are done.   *)
Done == length + IF link = "none" THEN acked ELSE 0

(* All units are in those or in the block being written, and one that was  *)
(* flushed is acknowledged when the flush is over.                         *)
Tally == Alive /\ call # "close" => passed <= Done + Goal

Flushed == Alive /\ call # "close" =>
             lastFlushed <= length + acked \/ (call \in {"flush", "sync"} /\ Now # "rest")

(* The pipeline takes nothing back.                                        *)
LEMMA DoneGrows ==
  ASSUME Kinds, PipelineStep
  PROVE  /\ length \in Nat /\ acked \in Nat /\ length' \in Nat /\ acked' \in Nat
         /\ length + acked <= length' + acked' /\ Done \in Nat /\ Done' \in Nat /\ Done <= Done'
<1>1. /\ length \in Nat /\ acked \in Nat /\ packets \in Seq(Packet)
  BY DEF Kinds, KindsCluster, KindsQueue
<1>2. CASE Alloc
  <2>1. \/ link = "none" /\ link' = "create" /\ length' = length + acked /\ acked' = 0
        \/ UNCHANGED <<link, length, acked>>
    BY <1>2 DEF Alloc, AddBlock, queue
  <2>2. QED
    BY <1>1, <2>1 DEF Done
<1>3. ASSUME length' = length, acked' \in Nat, acked <= acked', link = "none" => link' = "none"
      PROVE  /\ length' \in Nat /\ acked' \in Nat /\ length + acked <= length' + acked'
             /\ Done \in Nat /\ Done' \in Nat /\ Done <= Done'
  <2>1. /\ length \in Nat /\ length' \in Nat /\ acked' \in Nat /\ length + 0 = length /\ length' + 0 = length'
        /\ length + acked \in Nat /\ length' + acked' \in Nat
        /\ length + acked <= length' + acked' /\ length <= length' + acked' /\ length <= length'
    <3>1. \A k, m, n \in Nat :
            m <= n => /\ k + 0 = k /\ k <= k /\ k + m \in Nat /\ k + n \in Nat
                      /\ k + m <= k + n /\ k <= k + n
      OBVIOUS
    <3>2. QED
      BY <1>1, <1>3, <3>1, Zenon
  <2>2. CASE link = "none"
    <3>1. Done = length + acked /\ Done' = length' + acked'
      BY <1>3, <2>2, Zenon DEF Done
    <3>2. QED
      BY <2>1, <3>1, Zenon
  <2>3. CASE link # "none" /\ link' = "none"
    <3>1. Done = length + 0 /\ Done' = length' + acked'
      BY <2>3, Zenon DEF Done
    <3>2. QED
      BY <2>1, <3>1, Zenon
  <2>4. CASE link # "none" /\ link' # "none"
    <3>1. Done = length + 0 /\ Done' = length' + 0
      BY <2>4, Zenon DEF Done
    <3>2. QED
      BY <2>1, <3>1, Zenon
  <2>5. QED
    BY <2>2, <2>3, <2>4
<1>4. CASE ReadAck
  <2>1. length' = length /\ link' = link /\ packets # <<>> /\ acked' = MaxOf(acked, Head(packets).end)
    BY <1>4 DEF ReadAck, setup, cluster
  <2>2. Head(packets).end \in Nat
    <3>1. Head(packets) \in Packet
      BY <1>1, <2>1
    <3>2. QED
      BY <3>1 DEF Packet
  <2>3. acked' \in Nat /\ acked <= acked'
    BY <1>1, <2>1, <2>2 DEF MaxOf
  <2>4. QED
    BY <1>1, <1>3, <2>1, <2>3
<1>5. CASE ~Alloc /\ ~ReadAck
  <2>1. length' = length /\ acked' = acked /\ (link = "none" => link' = "none")
    BY <1>5 DEF PipelineStep, Create, Abandon, Push, EndWait, AtWait, Write, NoAckYet, Fail, WriteTimesOut,
                Extend, Connect, Update, Resend, Recovers, setup, queue, cluster
  <2>2. acked' \in Nat /\ acked <= acked'
    BY <1>1, <2>1
  <2>3. QED
    BY <1>1, <1>3, <2>1, <2>2
<1>6. QED
  BY <1>1, <1>2, <1>4, <1>5

(* Both hold at first.                                                     *)
LEMMA TallyInit == Init => Tally /\ Flushed
<1> SUFFICES ASSUME Init PROVE Tally /\ Flushed
  OBVIOUS
<1>1. passed = 0 /\ lastFlushed = 0 /\ written = 0 /\ position = 0 /\ length = 0 /\ acked = 0
  BY DEF Init, ClusterInit, PipelineInit
<1>2. QED
  BY <1>1 DEF Tally, Flushed, Done, Goal

(* Tally is inductive.                                                     *)
LEMMA TallyStep ==
  ASSUME Kinds, Called, Placed, Queued, Edge, Tally, [Next]_vars
  PROVE  Tally'
<1> SUFFICES ASSUME Alive', call' # "close" PROVE passed' <= Done' + Goal'
  BY DEF Tally
<1>0. Alive /\ (todo # <<>> => Now = Head(todo))
  BY StaysAlive, Running
<1>K. /\ passed \in Nat /\ written \in Nat /\ position \in Nat /\ Goal \in Nat /\ Chunk \in Nat \ {0}
      /\ length \in Nat /\ acked \in Nat /\ Done \in Nat
  <2>1. passed \in Nat /\ written \in Nat /\ position \in Nat /\ length \in Nat /\ acked \in Nat /\ Chunk \in Nat \ {0}
    BY OutputAssumption DEF Kinds, KindsLocal, KindsCluster, KindsQueue
  <2>2. QED
    BY <2>1 DEF Goal, Done
<1>1. ASSUME call # "close" \/ call' = call, UNCHANGED <<passed, length, link, acked, written, position>>
      PROVE  passed' <= Done' + Goal'
  BY <1>0, <1>1 DEF Tally, Done, Goal
<1>2. CASE PipelineStep /\ UNCHANGED local
  <2>1. passed' = passed /\ Goal' = Goal /\ Done' \in Nat /\ Done <= Done' /\ call' = call
    BY <1>2, DoneGrows DEF local, Goal
  <2>2. passed <= Done + Goal
    BY <1>0, <2>1 DEF Tally
  <2>3. \A m \in Nat : Done <= m => passed <= m + Goal
    BY <1>K, <2>2
  <2>4. passed <= Done' + Goal
    BY <2>1, <2>3
  <2>5. QED
    BY <2>1, <2>4
<1>3. CASE Fsync
  <2>1. /\ Now = "fsync" /\ link' = "none" /\ written' = 0 /\ UNCHANGED <<passed, length, acked, position, call>>
    <3>1. todo' # <<"throw">>
      BY DEF Alive, Now
    <3>2. QED
      BY <1>0, <1>3, <3>1 DEF Fsync, Thread, Throw, queue
  <2>2. packets = <<>> /\ link = "up"
    BY <1>0, <2>1 DEF Queued, Placed
  <2>3. Goal <= acked
    BY <1>0, <2>1, <2>2 DEF Edge, Upto, Reaches
  <2>4. Done' = length + acked /\ Goal' = position
    BY <1>K, <2>1 DEF Done, Goal
  <2>5. passed <= length + Goal
    BY <1>0, <1>K, <2>1, <2>2 DEF Tally, Done
  <2>6. QED
    BY <1>K, <2>1, <2>3, <2>4, <2>5
<1>4. CASE Append1
  <2>1. /\ UNCHANGED <<length, link, acked>> /\ passed' = passed + 1 /\ call # "close"
        /\ position' = (position + 1) % Chunk
        /\ written' = IF position + 1 = Chunk THEN written + Chunk ELSE written
    BY <1>4 DEF Append1, Ready, setup, cluster
  <2>2. position' = IF position + 1 = Chunk THEN 0 ELSE position + 1
    BY <2>1, NextPosition DEF Kinds, KindsLocal
  <2>3. Goal' = Goal + 1 /\ Done' = Done
    BY <1>K, <2>1, <2>2 DEF Goal, Done
  <2>4. passed <= Done + Goal
    BY <1>0, <2>1 DEF Tally
  <2>5. QED
    BY <1>K, <2>1, <2>3, <2>4
<1>5. CASE Rethrow \/ Close \/ Complete
  <2>1. CASE Rethrow
    BY <2>1 DEF Rethrow, Alive
  <2>2. CASE Close
    BY <2>2 DEF Close
  <2>3. CASE Complete
    <3>1. todo # <<>> /\ Now = "complete" /\ call' = call /\ todo' = Tail(todo)
      <4>1. todo' # <<"throw">>
        BY DEF Alive, Now
      <4>2. QED
        BY <1>0, <2>3, <4>1 DEF Complete, Thread, local, Throw
    <3>2. call = "close"
      BY <3>1, NowTail DEF EndOf, Follows
    <3>3. QED
      BY <3>1, <3>2
  <2>4. QED
    BY <1>5, <2>1, <2>2, <2>3
<1>6. CASE Return
  BY <1>0, <1>1, <1>6 DEF Return, cluster, pipeline, setup, queue, Alive
<1>7. CASE MarkLast \/ Open \/ (\E sync \in BOOLEAN : Flushing(sync)) \/ Delivery \/ Crashes \/ UNCHANGED vars
  <2>1. /\ UNCHANGED <<passed, length, link, acked, written, position>>
        /\ call # "close" \/ call' = call
    <3>1. CASE MarkLast \/ Open \/ UNCHANGED vars
      BY <3>1 DEF MarkLast, Open, vars, local, cluster, pipeline, setup, queue
    <3>2. CASE \E sync \in BOOLEAN : Flushing(sync)
      BY <3>2 DEF Flushing, Ready, cluster, setup
    <3>3. CASE Delivery
      BY <3>3 DEF Delivery, Receive, local, setup, queue
    <3>4. CASE Crashes
      BY <3>4 DEF Crashes, Crash, local, pipeline, setup, queue
    <3>5. QED
      BY <1>7, <3>1, <3>2, <3>3, <3>4
  <2>2. QED
    BY <1>1, <2>1
<1>8. QED
  BY <1>2, <1>3, <1>4, <1>5, <1>6, <1>7 DEF Next, ClientStep, CallStep

(* Flushed is inductive: flush() returns when all of the queue is          *)
(* acknowledged.                                                           *)
LEMMA FlushedStep ==
  ASSUME Kinds, Called, Placed, Handed, Edge, Edge', Tally, Tally', Flushed, [Next]_vars
  PROVE  Flushed'
<1> SUFFICES ASSUME Alive', call' # "close" PROVE Flushed'
  BY DEF Flushed
<1>0. Alive /\ (todo # <<>> => Now = Head(todo))
  BY StaysAlive, Running
<1>K. /\ lastFlushed \in Nat /\ cursor \in Nat /\ passed \in Nat /\ length \in Nat /\ acked \in Nat
      /\ lastFlushed <= cursor /\ cursor <= passed /\ position \in Nat
  BY OutputAssumption DEF Kinds, KindsLocal, KindsCluster, KindsQueue, Called
<1>1. ASSUME call # "close", UNCHANGED <<lastFlushed, length, acked>>,
             call \in {"flush", "sync"} /\ Now # "rest" => call' = call /\ Now' # "rest"
      PROVE  Flushed'
  BY <1>0, <1>1 DEF Flushed
<1>2. CASE PipelineStep /\ UNCHANGED local
  <2>1. /\ call' = call /\ passed' = passed /\ lastFlushed' = lastFlushed /\ Now # "rest" /\ todo # <<>>
        /\ lastFlushed \in Nat /\ length + acked <= length' + acked' /\ Done' \in {length', length' + acked'}
        /\ length + acked \in Nat /\ length' + acked' \in Nat /\ length' \in Nat /\ acked' \in Nat
    <3>1. /\ call' = call /\ passed' = passed /\ lastFlushed' = lastFlushed /\ Now # "rest" /\ todo # <<>>
          /\ lastFlushed \in Nat /\ length + acked <= length' + acked'
          /\ length + acked \in Nat /\ length' \in Nat /\ acked' \in Nat
      BY <1>2, <1>K, DoneGrows, PipelineMoves DEF local
    <3>2. length' + 0 = length' /\ length' + acked' \in Nat
      <4>1. \A m, n \in Nat : m + 0 = m /\ m + n \in Nat
        OBVIOUS
      <4>2. QED
        BY <3>1, <4>1, Zenon
    <3>3. Done' \in {length', length' + acked'}
      BY <3>2, Zenon DEF Done
    <3>4. QED
      BY <3>1, <3>2, <3>3
  <2>2. CASE lastFlushed <= length + acked
    <3>1. \A m, n \in Nat : lastFlushed <= m /\ m <= n => lastFlushed <= n
      BY <1>K
    <3>2. lastFlushed <= length' + acked'
      BY <2>1, <2>2, <3>1, Zenon
    <3>3. QED
      BY <2>1, <3>2 DEF Flushed
  <2>3. CASE call \in {"flush", "sync"} /\ Now' # "rest"
    BY <2>1, <2>3 DEF Flushed
  <2>4. CASE call \in {"flush", "sync"} /\ Now' = "rest"
    <3>1. Now = "flush"
      BY <1>2, <2>4, RestAfter
    <3>2. link \in {"up"} \cup Recovery
      BY <1>0, <3>1 DEF Placed
    <3>3. link' # "none"
      BY <1>0, <1>2, <3>1, <3>2
      DEF PipelineStep, Alloc, Create, Abandon, Push, EndWait, AtWait, Write, NoAckYet, ReadAck, Fail, WriteTimesOut,
          Extend, Connect, Update, Resend, Recovers, DropNode, Again, Rebuild, Recovery, setup, Thread
    <3>4. Goal' <= acked' /\ Goal' = Goal /\ Done' = length' /\ Goal \in Nat
      <4>1. Goal' <= acked'
        BY <2>1, <2>4, <3>3 DEF Edge
      <4>2. Goal' = Goal /\ Goal \in Nat
        BY <1>2, <1>K DEF local, Goal, Kinds, KindsLocal
      <4>3. length' + 0 = length'
        <5>1. \A m \in Nat : m + 0 = m
          OBVIOUS
        <5>2. QED
          BY <2>1, <5>1, Zenon
      <4>4. Done' = length'
        BY <3>3, <4>3, Zenon DEF Done
      <4>5. QED
        BY <4>1, <4>2, <4>4
    <3>5. passed' <= Done' + Goal'
      BY <2>1, <2>4 DEF Tally
    <3>6. passed <= length' + Goal /\ Goal <= acked'
      BY <2>1, <3>4, <3>5, Zenon
    <3>7. \A m, n \in Nat : passed <= m + Goal /\ Goal <= n => lastFlushed <= m + n
      BY <1>K, <3>4
    <3>8. lastFlushed <= length' + acked'
      BY <2>1, <3>6, <3>7, Zenon
    <3>9. QED
      BY <2>1, <3>8 DEF Flushed
  <2>5. QED
    BY <1>0, <2>1, <2>2, <2>3, <2>4 DEF Flushed
<1>3. CASE MarkLast \/ Fsync
  <2>1. /\ Now \in {"last", "fsync"} /\ todo # <<>> /\ todo' = Tail(todo) /\ UNCHANGED <<lastFlushed, length, acked, call>>
    <3>1. todo' # <<"throw">>
      BY DEF Alive, Now
    <3>2. QED
      BY <1>0, <1>3, <3>1 DEF MarkLast, Fsync, Thread, Throw, queue, cluster
  <2>2. Now' = "rest" => EndOf(call, Now)
    BY <2>1, NowTail
  <2>3. call \in {"flush", "sync"} => Now' # "rest"
    BY <2>1, <2>2 DEF EndOf
  <2>4. QED
    BY <1>1, <2>1, <2>3
<1>4. CASE Rethrow \/ Close
  BY <1>4 DEF Rethrow, Close, Alive
<1>5. CASE Complete
  <2>1. todo # <<>> /\ Now = "complete" /\ call' = call /\ todo' = Tail(todo)
    <3>1. todo' # <<"throw">>
      BY DEF Alive, Now
    <3>2. QED
      BY <1>0, <1>5, <3>1 DEF Complete, Thread, local, Throw
  <2>2. call = "close"
    BY <2>1, NowTail DEF EndOf, Follows
  <2>3. QED
    BY <2>1, <2>2
<1>6. CASE Return
  <2>1. Now = "rest" /\ call # "close" /\ UNCHANGED <<lastFlushed, length, acked>>
    BY <1>6 DEF Return, Alive, Now, cluster, pipeline, queue
  <2>2. QED
    BY <1>1, <2>1
<1>7. CASE Append1
  <2>1. call = "none" /\ UNCHANGED <<lastFlushed, length, acked>>
    BY <1>7 DEF Append1, Ready, cluster
  <2>2. QED
    BY <1>1, <2>1
<1>8. ASSUME NEW sync \in BOOLEAN, Flushing(sync) PROVE Flushed'
  <2>1. /\ call = "none" /\ call' \in {"flush", "sync"} /\ UNCHANGED <<length, acked>> /\ lastFlushed' \in {lastFlushed, cursor}
    BY <1>8 DEF Flushing, Ready, cluster
  <2>2. lastFlushed <= length + acked
    BY <1>0, <2>1 DEF Flushed
  <2>3. CASE lastFlushed' = lastFlushed
    BY <2>1, <2>2, <2>3 DEF Flushed
  <2>4. CASE lastFlushed # cursor /\ Now' = "rest"
    <3>1. held' = None /\ link = "none"
      BY <1>8, <2>4, FlushStarts DEF First
    <3>2. held = None /\ position = 0
      BY <1>8, <2>4, <3>1, BaseFlush
    <3>3. written = 0
      BY <1>0, <3>1, <3>2 DEF Edge, Base
    <3>4. passed <= length + acked
      BY <1>0, <1>K, <2>1, <3>1, <3>2, <3>3 DEF Tally, Done, Goal
    <3>5. lastFlushed' <= length + acked
      BY <1>K, <2>1, <3>4
    <3>6. QED
      BY <2>1, <3>5 DEF Flushed
  <2>5. CASE Now' # "rest"
    BY <2>1, <2>5 DEF Flushed
  <2>6. QED
    BY <2>1, <2>3, <2>4, <2>5
<1>9. CASE Open \/ Delivery \/ Crashes \/ UNCHANGED vars
  <2>1. UNCHANGED <<lastFlushed, length, acked, call, todo>>
    <3>1. CASE Open \/ UNCHANGED vars
      BY <3>1 DEF Open, vars, local, cluster, pipeline, queue
    <3>2. CASE Delivery
      BY <3>2 DEF Delivery, Receive, local, queue
    <3>3. CASE Crashes
      BY <3>3 DEF Crashes, Crash, local, pipeline, queue
    <3>4. QED
      BY <1>9, <3>1, <3>2, <3>3
  <2>2. Now' = Now
    BY <2>1 DEF Now
  <2>3. QED
    BY <1>0, <2>1, <2>2 DEF Flushed
<1>10. QED
  BY <1>2, <1>3, <1>4, <1>5, <1>6, <1>7, <1>8, <1>9 DEF Next, ClientStep, CallStep

(* The invariants of the data on its way.                                  *)
Flow == Shut /\ Filling /\ Edge /\ Tally /\ Flushed

(* The units between the client and the datanodes, in every reachable      *)
(* state.                                                                  *)
LEMMA FlowInv == Spec => [](Outer /\ Inner /\ Flow)
<1>1. Init => Flow
  BY FillingInit, EdgeInit, TallyInit DEF Flow
<1>2. Outer /\ Inner /\ Outer' /\ Flow /\ [Next]_vars => Flow'
  <2> SUFFICES ASSUME Outer, Inner, Kinds', Flow, [Next]_vars PROVE Flow'
    BY DEF Outer
  <2>1. Shut' /\ Filling'
    BY ShutStep, FillingStep DEF Outer, Inner, Flow
  <2>2. Edge'
    BY EdgeStep DEF Outer, Inner, Flow
  <2>3. Tally'
    BY TallyStep DEF Outer, Inner, Flow
  <2>4. Flushed'
    BY <2>2, <2>3, FlushedStep DEF Outer, Inner, Flow
  <2>5. QED
    BY <2>1, <2>2, <2>3, <2>4 DEF Flow
<1>3. QED
  BY <1>1, <1>2, InnerInv, PTL DEF Spec

(* When a flush() or a sync() has succeeded, or found nothing to do, all   *)
(* that was appended before it is acknowledged, through any recovery and   *)
(* any end of a block on the way.                                          *)
THEOREM FlushIsStored == Spec => []FlushMeansStored
<1>1. Outer /\ Flow => FlushMeansStored
  <2> SUFFICES ASSUME Outer, Flow, Ready, ~lastError PROVE length + acked >= lastFlushed
    BY DEF FlushMeansStored
  <2>1. call = "none" /\ phase = "open" /\ todo = <<>>
    BY DEF Ready, Outer, Kinds, Listed, Listing, EndOf
  <2>2. Alive
    BY <2>1 DEF Alive, Now
  <2>3. length \in Nat /\ acked \in Nat /\ lastFlushed \in Nat
    BY DEF Outer, Kinds, KindsCluster, KindsQueue, KindsLocal
  <2>4. QED
    BY <2>1, <2>2, <2>3 DEF Flow, Flushed
<1>2. QED
  BY <1>1, FlowInv, PTL

-------------------------------------------------------------------------------
(* No holes.                                                               *)

(* Each packet begins no later than where the one before it ends, or where *)
(* everything is acknowledged anyway.                                      *)
Linked(q, a) ==
  /\ q # <<>> => q[1].start <= a
  /\ \A k \in 1 .. Len(q) - 1 : q[k + 1].start <= a \/ q[k + 1].start <= q[k].end

Chained == Linked(wire, acked) /\ Linked(packets, acked)

(* An empty queue has no hole;                                             *)
LEMMA LinkedNone == ASSUME NEW a PROVE Linked(<<>>, a)
BY DEF Linked

(* nor has a queue of which more is acknowledged,                          *)
LEMMA LinkedMore ==
  ASSUME NEW q \in Seq(Packet), NEW a \in Nat, NEW b \in Nat, a <= b, Linked(q, a)
  PROVE  Linked(q, b)
<1>1. \A k \in 1 .. Len(q) : q[k].start \in Nat
  <2>1. \A p \in Packet : p.start \in Nat
    BY DEF Packet
  <2>2. QED
    BY <2>1
<1>2. \A k \in 1 .. Len(q) - 1 : k + 1 \in 1 .. Len(q)
  OBVIOUS
<1>3. q # <<>> => 1 \in 1 .. Len(q)
  OBVIOUS
<1>4. QED
  BY <1>1, <1>2, <1>3 DEF Linked

(* one that a packet joins which begins where it ends,                     *)
LEMMA LinkedAppend ==
  ASSUME NEW q \in Seq(Packet), NEW p \in Packet, NEW a \in Nat, Linked(q, a), Reaches(p.start, q, a)
  PROVE  Linked(Append(q, p), a)
<1> DEFINE b == Append(q, p)
           n == Len(q)
<1>1. n \in Nat /\ Len(b) = n + 1 /\ b[n + 1] = p /\ \A i \in 1 .. n : b[i] = q[i]
  BY AppendProperties
<1>2. q = <<>> <=> n = 0
  OBVIOUS
<1> HIDE DEF b, n
<1>3. b[1].start <= a
  BY <1>1, <1>2 DEF Linked, Reaches
<1>4. ASSUME NEW k \in 1 .. n PROVE b[k + 1].start <= a \/ b[k + 1].start <= b[k].end
  <2>1. CASE k = n
    BY <1>1, <1>2, <2>1 DEF Reaches, n
  <2>2. CASE k # n
    <3>1. k \in 1 .. n - 1 /\ b[k] = q[k] /\ b[k + 1] = q[k + 1]
      BY <1>1, <2>2
    <3>2. QED
      BY <3>1 DEF Linked, n
  <2>3. QED
    BY <2>1, <2>2
<1>5. Len(b) - 1 = n
  BY <1>1
<1>6. QED
  BY <1>3, <1>4, <1>5 DEF Linked, b

(* or one whose first packet is acknowledged.                              *)
LEMMA LinkedTail ==
  ASSUME NEW q \in Seq(Packet), q # <<>>, NEW a \in Nat, NEW b \in Nat, a <= b, q[1].end <= b, Linked(q, a)
  PROVE  Linked(Tail(q), b)
<1> DEFINE t == Tail(q)
           n == Len(q)
<1>1. n \in Nat \ {0} /\ Len(t) = n - 1 /\ \A i \in 1 .. n - 1 : t[i] = q[i + 1]
  BY HeadTailProperties
<1>2. Linked(q, b)
  BY LinkedMore
<1>3. q[1].end \in Nat /\ \A k \in 1 .. n : q[k].start \in Nat
  <2>1. \A p \in Packet : p.start \in Nat /\ p.end \in Nat
    BY DEF Packet
  <2>2. QED
    BY <2>1
<1>4. t # <<>> => n > 1
  BY HeadTailProperties
<1> HIDE DEF t, n
<1>5. ASSUME n > 1 PROVE t[1].start <= b
  <2>1. t[1] = q[2] /\ q[2].start \in Nat /\ 1 \in 1 .. n - 1
    BY <1>1, <1>3, <1>5
  <2>2. q[1 + 1].start <= b \/ q[1 + 1].start <= q[1].end
    BY <1>2, <2>1 DEF Linked, n
  <2>3. QED
    BY <1>3, <2>1, <2>2
<1>6. ASSUME NEW k \in 1 .. n - 2 PROVE t[k + 1].start <= b \/ t[k + 1].start <= t[k].end
  <2>1. k \in 1 .. n - 1 /\ k + 1 \in 1 .. n - 1
    BY <1>1
  <2>2. t[k + 1] = q[(k + 1) + 1] /\ t[k] = q[k + 1]
    BY <1>1, <2>1
  <2>3. QED
    BY <1>2, <2>1, <2>2 DEF Linked, n
<1>7. Len(t) - 1 = n - 2
  BY <1>1
<1>8. QED
  BY <1>4, <1>5, <1>6, <1>7 DEF Linked, t

(* Chained is inductive: a new packet begins where the queue ends, and all *)
(* of the queue is sent again.                                             *)
LEMMA ChainedStep ==
  ASSUME Kinds, Called, Placed, Handed, Numbered, Queued, Stored, Edge, Chained, [Next]_vars
  PROVE  Chained'
<1>K. packets \in Seq(Packet) /\ wire \in Seq(Packet) /\ held \in Packet /\ acked \in Nat
  BY EdgeKinds
<1>0. todo # <<>> /\ Head(todo) # "throw" => Alive /\ Now = Head(todo)
  BY Running
<1>1. ASSUME wire' \in {wire, <<>>}, packets' \in {packets, <<>>}, acked' = acked PROVE Chained'
  BY <1>1, LinkedNone DEF Chained
<1>2. CASE Alloc
  <2>1. CASE wire' = <<>> /\ packets' = packets /\ acked' = 0
    <3>1. packets = <<>>
      BY <1>0, <1>2 DEF Alloc, Thread, Queued
    <3>2. QED
      BY <2>1, <3>1, LinkedNone DEF Chained
  <2>2. CASE UNCHANGED <<wire, packets, acked>>
    BY <1>1, <2>2
  <2>3. QED
    BY <1>2, <2>1, <2>2 DEF Alloc, Fresh, queue, conn
<1>3. CASE Push
  <2>1. Alive /\ Now = "push" /\ UNCHANGED <<wire, acked>> /\ packets' = Append(packets, held)
    BY <1>0, <1>3 DEF Push, Thread, conn
  <2>2. held # None
    BY <2>1 DEF Handed, Sending
  <2>3. Reaches(held.start, packets, acked)
    BY <2>1, <2>2 DEF Edge, Upto, Base
  <2>4. QED
    BY <1>K, <2>1, <2>3, LinkedAppend DEF Chained
<1>4. CASE Write
  <2>1. Alive /\ Now = "write" /\ link = "up" /\ UNCHANGED <<packets, acked>> /\ wire' = Append(wire, held)
    BY <1>0, <1>4 DEF Write, Thread
  <2>2. held # None
    BY <2>1 DEF Handed, Sending
  <2>3. Reaches(held.start, wire, acked)
    BY <2>1, <2>2 DEF Edge, Base
  <2>4. QED
    BY <1>K, <2>1, <2>3, LinkedAppend DEF Chained
<1>5. CASE ReadAck
  <2>1. /\ packets # <<>> /\ wire # <<>> /\ Head(wire).seq = Head(packets).seq
        /\ acked' = MaxOf(acked, Head(packets).end) /\ packets' = Tail(packets) /\ wire' = Tail(wire)
    BY <1>5 DEF ReadAck, Readable
  <2>2. Head(wire) = wire[1] /\ Head(packets) = packets[1] /\ wire[1].end = packets[1].end
    <3>1. Head(wire) = wire[1] /\ Head(packets) = packets[1]
      BY <1>K, <2>1
    <3>2. Head(wire) \in Sent /\ Head(packets) \in Sent
      BY <1>K, <2>1, SetOfTail DEF Sent
    <3>3. QED
      BY <2>1, <3>1, <3>2 DEF Numbered
  <2>3. packets[1].end \in Nat
    BY <1>K, <2>1, LastEnd
  <2>4. acked' \in Nat /\ acked <= acked' /\ packets[1].end <= acked' /\ wire[1].end <= acked'
    BY <1>K, <2>1, <2>2, <2>3 DEF MaxOf
  <2>5. QED
    BY <1>K, <2>1, <2>4, LinkedTail DEF Chained
<1>6. CASE Resend
  BY <1>6 DEF Resend, ToResend, Chained
<1>7. CASE Create \/ Abandon \/ EndWait \/ NoAckYet \/ WriteTimesOut \/ Connect \/ Update
  BY <1>1, <1>7 DEF Create, Abandon, EndWait, NoAckYet, WriteTimesOut, Connect, Update, DropNode, Fresh, queue, conn
<1>8. CASE Fail \/ Extend
  <2>1. packets' = packets /\ acked' = acked
    BY <1>8 DEF Fail, Extend, queue
  <2>2. wire' \in {wire, <<>>}
    BY <1>8 DEF Fail, Extend, DropNode, Fresh, conn
  <2>3. QED
    BY <1>1, <2>1, <2>2
<1>9. CASE MarkLast \/ Fsync \/ Complete \/ Rethrow \/ Return
  BY <1>1, <1>9 DEF MarkLast, Fsync, Complete, Rethrow, Return, Fresh, pipeline, queue, conn
<1>10. CASE ClientStep \/ UNCHANGED vars
  BY <1>1, <1>10 DEF ClientStep, Open, Append1, Flushing, Close, vars, pipeline, queue, conn
<1>11. CASE Delivery \/ Crashes
  BY <1>1, <1>11 DEF Delivery, Receive, Crashes, pipeline, queue, conn
<1>12. QED
  BY <1>2, <1>3, <1>4, <1>5, <1>6, <1>7, <1>8, <1>9, <1>10, <1>11 DEF Next, CallStep, PipelineStep

(* No hole in the queue and on the connection, in every reachable state.   *)
LEMMA ChainedInv == Spec => []Chained
<1>1. Init => Chained
  BY LinkedNone DEF Init, PipelineInit, Chained
<1>2. Outer /\ Inner /\ Flow /\ Chained /\ [Next]_vars => Chained'
  BY ChainedStep DEF Outer, Inner, Flow
<1>3. QED
  BY <1>1, <1>2, FlowInv, PTL DEF Spec

(* The packet a datanode receives next begins within what its replica      *)
(* has, also on a connection that was built anew by a recovery and to a    *)
(* datanode that joined then.                                              *)
THEOREM NoHoleArises == Spec => []NoHole
<1>1. Kinds /\ Stored /\ Chained => NoHole
  <2> SUFFICES ASSUME Kinds, Stored, Chained, NEW i \in DOMAIN nodes, nodes[i] \in up, got[i] < Len(wire)
               PROVE  wire[got[i] + 1].start <= replica[nodes[i]].len
    BY DEF NoHole
  <2> DEFINE k == got[i]
             n == replica[nodes[i]].len
  <2>1. k \in Nat /\ n \in Nat /\ nodes[i] \in Chain \cap up /\ acked \in Nat /\ wire \in Seq(Packet)
    BY StoredKinds
  <2>2. acked <= n /\ \A j \in 1 .. k : wire[j].end <= n
    BY <2>1 DEF Stored, Covered, Wired
  <2>3. k < Len(wire) /\ Linked(wire, acked)
    BY DEF Chained
  <2> HIDE DEF k, n
  <2>4. k + 1 \in 1 .. Len(wire) /\ wire # <<>>
    BY <2>1, <2>3
  <2>5. wire[k + 1].start \in Nat
    <3>1. wire[k + 1] \in Packet
      BY <2>1, <2>4
    <3>2. QED
      BY <3>1 DEF Packet
  <2>6. wire[k + 1].start <= n
    <3>1. CASE k = 0
      <4>1. wire[1].start <= acked /\ k + 1 = 1
        BY <2>3, <2>4, <3>1 DEF Linked
      <4>2. QED
        BY <2>1, <2>2, <2>5, <4>1
    <3>2. CASE k # 0
      <4>1. k \in 1 .. Len(wire) - 1 /\ k \in 1 .. k /\ k \in 1 .. Len(wire)
        BY <2>1, <2>3, <3>2
      <4>2. wire[k].end <= n /\ (wire[k + 1].start <= acked \/ wire[k + 1].start <= wire[k].end)
        BY <2>2, <2>3, <4>1 DEF Linked
      <4>3. wire[k].end \in Nat
        <5>1. wire[k] \in Packet
          BY <2>1, <4>1
        <5>2. QED
          BY <5>1 DEF Packet
      <4>4. CASE wire[k + 1].start <= acked
        BY <2>1, <2>2, <2>5, <4>4
      <4>5. CASE wire[k + 1].start <= wire[k].end
        BY <2>1, <2>5, <4>2, <4>3, <4>5
      <4>6. QED
        BY <4>2, <4>4, <4>5
    <3>3. QED
      BY <3>1, <3>2
  <2>7. QED
    BY <2>6 DEF k, n
<1>2. QED
  BY <1>1, ChainedInv, InnerInv, PTL DEF Outer, Inner

-------------------------------------------------------------------------------
(* The assertions of the code.                                             *)

(* A packet that is sent is in the queue until its ack is read.            *)
Awaited == Alive /\ Now \in {"spill", "write", "poll"} => packets # <<>>

(* Of a block that is closed only the last packet is left.                 *)
LastLeft == Alive /\ closing =>
  /\ Now # "spill"
  /\ Now = "push" => packets = <<>> /\ held.last
  /\ \A k \in 1 .. Len(packets) : k = 1 /\ packets[k].last
  /\ link \in {"extend", "connect", "update"} => packets # <<>>

Expected == Awaited /\ LastLeft

(* Expected holds at first.                                                *)
LEMMA ExpectedInit == Init => Expected
BY DEF Init, PipelineInit, Expected, Awaited, LastLeft, Now

(* This takes a pool that holds more than the packet that is being sent.   *)
LEMMA ExpectedStep ==
  ASSUME PoolSize >= 2, Kinds, Called, Placed, Handed, Queued, Shut, Expected, [Next]_vars
  PROVE  Expected'
<1> SUFFICES ASSUME Alive' PROVE Expected'
  BY DEF Expected, Awaited, LastLeft
<1>0. /\ Alive /\ (todo # <<>> => Now = Head(todo))
      /\ todo' # <<"throw">> /\ (todo' = todo => Now' = Now)
      /\ Now \in {"spill", "write", "poll"} => packets # <<>>
      /\ closing => /\ Now \in {"push", "write", "poll", "flush", "fsync"}
                    /\ Now = "push" => packets = <<>> /\ held.last
                    /\ \A k \in 1 .. Len(packets) : k = 1 /\ packets[k].last
                    /\ link \in {"extend", "connect", "update"} => packets # <<>>
  <2>1. Alive /\ (todo # <<>> => Now = Head(todo))
    BY StaysAlive, Running
  <2>2. todo' # <<"throw">> /\ (todo' = todo => Now' = Now)
    BY DEF Alive, Now
  <2>3. QED
    BY <2>1, <2>2 DEF Expected, Awaited, LastLeft, Shut
<1>K. packets \in Seq(Packet) /\ held \in Packet /\ closing \in BOOLEAN /\ PoolSize \in Nat
  BY EdgeKinds, PipelineAssumption
<1>1. ASSUME UNCHANGED <<closing, packets>>, Now' = Now, held' = held \/ Now # "push",
             closing /\ link' \in {"extend", "connect", "update"} => link' = link \/ packets # <<>>
      PROVE  Expected'
  BY <1>0, <1>1 DEF Expected, Awaited, LastLeft
<1>2. ASSUME UNCHANGED <<closing, packets>>, Now' \in {"write", "poll", "flush", "fsync", "rest", "complete"},
             Now' \in {"write", "poll"} => packets # <<>>,
             closing /\ link' \in {"extend", "connect", "update"} => link' = link \/ packets # <<>>
      PROVE  Expected'
  BY <1>0, <1>2 DEF Expected, Awaited, LastLeft
<1>3. ASSUME ~closing', Now' \in {"spill", "write", "poll"} => packets' # <<>> PROVE Expected'
  BY <1>3 DEF Expected, Awaited, LastLeft
<1>4. ASSUME packets' = <<>>, Now' \notin {"spill", "write", "poll", "push"},
             link' \notin {"extend", "connect", "update"}
      PROVE  Expected'
  <2>1. \A k \in 1 .. Len(packets') : k = 1 /\ packets'[k].last
    BY <1>4
  <2>2. QED
    BY <1>4, <2>1 DEF Expected, Awaited, LastLeft
<1>5. CASE PipelineStep /\ UNCHANGED local
  <2>1. todo # <<>> /\ Now = Head(todo) /\ Now # "rest" /\ closing' = closing
    BY <1>0, <1>5, PipelineMoves
  <2>2. CASE Alloc
    <3>1. Now = "alloc" /\ Now' = "alloc"
      BY <1>0, <2>2 DEF Alloc, Thread, Throw
    <3>2. QED
      BY <1>0, <1>3, <2>1, <3>1
  <2>3. CASE Create
    <3>1. Now = "alloc" /\ Now' \in {"alloc", "push"}
      BY <1>0, <2>1, <2>3, NowTail DEF Create, Thread, Follows
    <3>2. QED
      BY <1>0, <1>3, <2>1, <3>1
  <2>4. CASE Abandon
    <3>1. Now = "alloc" /\ Now' = "alloc"
      BY <1>0, <2>4 DEF Abandon, Thread, Throw
    <3>2. QED
      BY <1>0, <1>3, <2>1, <3>1
  <2>5. CASE Push
    <3>1. /\ Now = "push" /\ link = "up" /\ link' = link /\ packets' = Append(packets, held)
          /\ packets' \in Seq(Packet) /\ packets' # <<>>
      BY <1>0, <1>K, <2>5 DEF Push, Thread, setup, Placed
    <3>2. Now' \in {"spill", "write"}
      BY <2>1, <2>5, <3>1, NowTail, NowPush DEF Push, Follows
    <3>3. CASE ~closing
      BY <1>3, <2>1, <3>1, <3>3
    <3>4. CASE closing
      <4>1. packets = <<>> /\ held.last
        BY <1>0, <3>1, <3>4
      <4>2. Len(packets') = 1 /\ packets'[1] = held
        BY <1>K, <3>1, <4>1
      <4>3. ~TooMany(Len(packets'))
        BY <1>K, <4>2 DEF TooMany
      <4>4. Now' = "write"
        BY <2>5, <4>3, NowPush DEF Push
      <4>5. \A k \in 1 .. Len(packets') : k = 1 /\ packets'[k].last
        BY <4>1, <4>2
      <4>6. QED
        BY <3>1, <4>4, <4>5 DEF Expected, Awaited, LastLeft
    <3>5. QED
      BY <1>K, <3>3, <3>4
  <2>6. CASE EndWait
    <3>1. Now \in {"spill", "flush"} /\ UNCHANGED <<link, packets>> /\ todo' = Tail(todo)
      BY <1>0, <2>6 DEF EndWait, AtWait, Thread, setup, queue
    <3>2. /\ Now = "spill" => Now' = "write"
          /\ Now = "flush" => Now' \in {"last", "fsync", "rest"}
      BY <2>1, <3>1, NowTail DEF Follows
    <3>3. CASE Now' = "last"
      <4>1. ~closing
        <5>1. closing => NoLast(todo)
          BY <1>0 DEF Shut
        <5>2. todo \in Seq(Steps) /\ Tail(todo) # <<>> /\ Head(Tail(todo)) = "last"
          BY <3>1, <3>3 DEF Now, Kinds, Listed, Listing
        <5>3. 2 \in 1 .. Len(todo) /\ todo[2] = "last"
          BY <2>1, <5>2
        <5>4. QED
          BY <5>1, <5>3 DEF NoLast
      <4>2. QED
        BY <1>3, <2>1, <3>3, <4>1
    <3>4. CASE Now' # "last"
      BY <1>0, <1>2, <2>1, <3>1, <3>2, <3>4
    <3>5. QED
      BY <3>3, <3>4
  <2>7. CASE Write
    <3>1. Now = "write" /\ UNCHANGED <<link, packets>> /\ todo' = Tail(todo)
      BY <1>0, <2>7 DEF Write, Thread, setup
    <3>2. Now' = "poll"
      BY <2>1, <3>1, NowTail DEF Follows
    <3>3. QED
      BY <1>0, <1>2, <2>1, <3>1, <3>2
  <2>8. CASE NoAckYet
    <3>1. Now = "poll" /\ UNCHANGED <<link, packets>> /\ todo' = Tail(todo)
      BY <1>0, <2>8 DEF NoAckYet, Thread, setup, EndSend
    <3>2. Now' \in {"flush", "rest"}
      BY <2>1, <3>1, NowTail DEF Follows
    <3>3. QED
      BY <1>2, <2>1, <3>1, <3>2
  <2>9. CASE ReadAck
    <3>1. /\ link = "up" /\ link' = "up" /\ packets # <<>> /\ packets' = Tail(packets)
          /\ \/ Now = "poll" /\ todo' = Tail(todo)
             \/ Now = "flush" /\ todo' = todo
             \/ Now = "spill" /\ todo' = todo /\ ~(Len(packets) < PoolSize)
      BY <1>0, <2>9 DEF ReadAck, Waits, AtWait, Enough, EndSend, Thread, setup
    <3>2. Len(packets') = Len(packets) - 1 /\ packets' \in Seq(Packet) /\ Len(packets) \in Nat
      BY <1>K, <3>1
    <3>3. CASE Now = "spill"
      <4>1. packets' # <<>>
        <5>1. Len(packets) # 1
          BY <1>K, <3>1, <3>2, <3>3
        <5>2. Len(packets') # 0
          BY <3>2, <5>1
        <5>3. QED
          BY <5>2
      <4>2. ~closing
        BY <1>0, <3>3
      <4>3. QED
        BY <1>3, <2>1, <4>1, <4>2
    <3>4. CASE Now # "spill"
      <4>1. Now' \in {"flush", "rest"}
        BY <1>0, <2>1, <3>1, <3>4, NowTail DEF Follows
      <4>2. CASE closing
        <5>1. Len(packets) \in 1 .. Len(packets)
          BY <3>1, <3>2
        <5>2. Len(packets) = 1
          BY <1>0, <4>2, <5>1
        <5>3. packets' = <<>>
          BY <3>2, <5>2
        <5>4. QED
          BY <1>4, <3>1, <4>1, <5>3
      <4>3. CASE ~closing
        BY <1>3, <2>1, <4>1, <4>3
      <4>4. QED
        BY <1>K, <4>2, <4>3
    <3>5. QED
      BY <3>3, <3>4
  <2>10. CASE Fail
    <3>1. /\ packets' = packets /\ packets # <<>>
          /\ Now \in {"write", "poll", "spill", "flush"}
          /\ todo' = todo \/ (Now = "write" /\ todo' = Tail(todo))
      <4>1. packets' = packets /\ (Thread("write") \/ Thread("poll") \/ Waits) /\ \E i \in DOMAIN nodes : DropNode(nodes, i, {})
        BY <2>10 DEF Fail, queue
      <4>2. Now \in {"write", "poll", "spill", "flush"} /\ packets # <<>>
        BY <1>0, <4>1 DEF Waits, AtWait, Enough, Thread
      <4>3. todo' = todo \/ (Now = "write" /\ todo' = Tail(todo))
        BY <1>0, <4>1 DEF DropNode, Throw, Thread
      <4>4. QED
        BY <4>1, <4>2, <4>3
    <3>2. Now' = Now \/ Now' = "poll"
      BY <1>0, <2>1, <3>1, NowTail DEF Follows
    <3>3. QED
      BY <1>1, <1>2, <2>1, <3>1, <3>2
  <2>11. CASE WriteTimesOut
    BY <1>0, <2>11 DEF WriteTimesOut, Throw
  <2>12. CASE Extend
    <3>1. packets' = packets /\ Now \in {"spill", "poll", "flush"} /\ link = "extend"
      BY <1>0, <2>12 DEF Extend, Recovers, Thread, queue
    <3>2. todo' = todo
      BY <1>0, <2>12, Extended DEF Extend, Recovers, Joined, Untried, Unmoved, Again, Throw
    <3>3. QED
      BY <1>0, <1>1, <2>1, <3>1, <3>2
  <2>13. CASE Connect
    <3>1. packets' = packets /\ Now \in {"spill", "poll", "flush"} /\ link = "connect"
      BY <1>0, <2>13 DEF Connect, Recovers, Thread, queue
    <3>2. todo' = todo
      BY <1>0, <2>13 DEF Connect, Recovers, Thread, Again, DropNode, Throw
    <3>3. QED
      BY <1>0, <1>1, <2>1, <3>1, <3>2
  <2>14. CASE Update
    <3>1. Now \in {"spill", "poll", "flush"} /\ link' \in {"up", "resend"}
      BY <1>0, <2>14 DEF Update, Recovers, Thread, Throw
    <3>2. CASE closing
      <4>1. packets' = <<>> /\ (IF Now = "poll" THEN todo' = Tail(todo) ELSE todo' = todo)
        BY <1>0, <2>1, <2>14, <3>2 DEF Update, Throw, EndSend, Thread
      <4>2. Now # "spill"
        BY <1>0, <3>2
      <4>3. Now' \in {"flush", "rest"}
        BY <1>0, <2>1, <3>1, <4>1, <4>2, NowTail DEF Follows
      <4>4. QED
        BY <1>4, <3>1, <4>1, <4>3
    <3>3. CASE ~closing
      <4>1. UNCHANGED <<todo, packets>>
        BY <1>0, <2>14, <3>3 DEF Update, Throw
      <4>2. QED
        BY <1>0, <1>3, <2>1, <3>3, <4>1
    <3>4. QED
      BY <1>K, <3>2, <3>3
  <2>15. CASE Resend
    <3>1. UNCHANGED <<todo, packets, held>> /\ link' = "up"
      BY <2>15 DEF Resend
    <3>2. QED
      BY <1>0, <1>1, <2>1, <3>1
  <2>16. QED
    BY <1>5, <2>2, <2>3, <2>4, <2>5, <2>6, <2>7, <2>8, <2>9, <2>10, <2>11, <2>12, <2>13, <2>14, <2>15 DEF PipelineStep
<1>6. CASE MarkLast
  <2>1. Now = "last" /\ todo # <<>> /\ todo' = Tail(todo) /\ link' = link /\ packets' = packets /\ held' = NewPacket(TRUE)
    BY <1>0, <1>6 DEF MarkLast, Thread, Hold
  <2>2. Now' = "push" /\ packets = <<>> /\ link = "up"
    BY <1>0, <2>1, NowTail DEF Follows, Queued, Placed
  <2>3. held'.last
    BY <2>1 DEF NewPacket
  <2>4. \A k \in 1 .. Len(packets') : k = 1 /\ packets'[k].last
    BY <2>1, <2>2
  <2>5. QED
    BY <2>1, <2>2, <2>3, <2>4 DEF Expected, Awaited, LastLeft
<1>7. CASE Fsync
  <2>1. Now = "fsync" /\ todo # <<>> /\ todo' = Tail(todo) /\ closing' = FALSE
    BY <1>0, <1>7 DEF Fsync, Thread, Throw
  <2>2. Now' \in {"complete", "rest"}
    BY <2>1, NowTail DEF Follows
  <2>3. QED
    BY <1>3, <2>1, <2>2
<1>8. CASE Complete
  <2>1. Now = "complete" /\ todo # <<>> /\ todo' = Tail(todo) /\ closing' = closing
    BY <1>0, <1>8 DEF Complete, Thread, Throw, setup
  <2>2. Now' = "rest"
    BY <2>1, NowTail DEF Follows
  <2>3. QED
    BY <1>0, <1>3, <2>1, <2>2
<1>9. CASE Rethrow
  BY <1>9 DEF Rethrow, Alive
<1>10. CASE Append1 \/ (\E sync \in BOOLEAN : Flushing(sync)) \/ Close
  <2>1. Now = "rest" /\ closing' = closing /\ Now' \notin {"spill", "write", "poll"}
    <3>1. CASE Append1
      BY <3>1, AppendStarts DEF Append1, setup, First
    <3>2. CASE \E sync \in BOOLEAN : Flushing(sync)
      BY <3>2, FlushStarts DEF Flushing, setup, First
    <3>3. CASE Close
      <4>1. ~lastError
        BY <1>0 DEF Alive
      <4>2. QED
        BY <3>3, <4>1, CloseBegins DEF Close, setup, First
    <3>4. QED
      BY <1>10, <3>1, <3>2, <3>3
  <2>2. QED
    BY <1>0, <1>3, <2>1
<1>11. CASE Return \/ Open \/ Delivery \/ Crashes \/ UNCHANGED vars
  <2>1. UNCHANGED <<todo, closing, packets, held, link>>
    BY <1>11 DEF Return, Open, Delivery, Receive, Crashes, vars, pipeline, setup, queue
  <2>2. QED
    BY <1>0, <1>1, <2>1
<1>12. QED
  BY <1>5, <1>6, <1>7, <1>8, <1>9, <1>10, <1>11 DEF Next, ClientStep, CallStep

(* What the second assertion says stays true when the method has thrown,   *)
(* for then nothing moves any more.                                        *)
LEMMA OnlyLastStep ==
  ASSUME Kinds, Called, Expected', Kinds', OnlyLastIsLeft, [Next]_vars
  PROVE  OnlyLastIsLeft'
<1> SUFFICES ASSUME link' = "update", closing' PROVE Len(packets') = 1 /\ packets'[1].last
  BY DEF OnlyLastIsLeft
<1>1. CASE Alive'
  <2>1. packets' # <<>> /\ \A k \in 1 .. Len(packets') : k = 1 /\ packets'[k].last
    BY <1>1 DEF Expected, LastLeft
  <2>2. packets' \in Seq(Packet)
    BY EdgeKindsNext
  <2>3. Len(packets') \in 1 .. Len(packets') /\ Len(packets') \in Nat
    BY <2>1, <2>2
  <2>4. Len(packets') = 1
    BY <2>1, <2>3
  <2>5. QED
    BY <2>1, <2>4
<1>2. CASE ~Alive'
  <2>1. ASSUME UNCHANGED <<link, closing, packets>> PROVE Len(packets') = 1 /\ packets'[1].last
    BY <2>1 DEF OnlyLastIsLeft
  <2>2. CASE PipelineStep /\ UNCHANGED local
    <3>1. /\ todo # <<>> /\ Head(todo) \in {"alloc", "push", "spill", "write", "poll", "flush"} /\ Alive
      <4>1. todo # <<>> /\ Head(todo) \in {"alloc", "push", "spill", "write", "poll", "flush"}
        BY <2>2, PipelineTodo
      <4>2. QED
        BY <4>1, Running
    <3>2. lastError' = lastError /\ phase' = phase
      BY <2>2 DEF local
    <3>3. Now' = "throw"
      BY <1>2, <3>1, <3>2 DEF Alive
    <3>4. CASE Update
      BY <2>1, <2>2, <3>4 DEF Update
    <3>5. CASE Connect
      <4>1. CASE Dead = {} /\ UNCHANGED todo
        BY <3>1, <3>3, <4>1 DEF Now
      <4>2. CASE link' = link /\ packets' = packets /\ closing' = closing
        BY <2>1, <4>2
      <4>3. link' \in {"extend", "connect", "update"} /\ packets' = packets /\ closing' = closing
        BY <3>5 DEF Connect, queue, Recovers, Again, DropNode, Rebuild
      <4>4. \/ Dead = {} /\ UNCHANGED todo
            \/ link' # "update"
        BY <3>5 DEF Connect, Recovers, Again, DropNode, Rebuild
      <4>5. QED
        BY <4>1, <4>2, <4>3, <4>4
    <3>6. CASE ~Update /\ ~Connect
      <4>1. closing' = closing /\ (packets' = packets \/ link' = "up" \/ Push)
        BY <2>2, <3>6 DEF PipelineStep, Alloc, Create, Abandon, Push, EndWait, Write, NoAckYet, ReadAck, Fail,
              WriteTimesOut, Extend, Resend, Waits, AtWait, setup, queue
      <4>2. link' = link
        BY <2>2, <3>6, Extended DEF PipelineStep, Alloc, Create, Abandon, Push, EndWait, Write, NoAckYet, ReadAck, Fail,
              WriteTimesOut, Extend, Joined, Untried, Unmoved, Resend, setup, Again, DropNode, Rebuild
      <4>3. Push => Now' # "throw"
        <5>1. Push => todo' \in {Tail(todo), Tail(Tail(todo))} /\ Thread("push")
          BY DEF Push
        <5>2. ASSUME Push, todo' = Tail(todo) PROVE Now' # "throw"
          BY <3>1, <5>1, <5>2, NowTail DEF Follows, Thread, Now
        <5>3. QED
          BY <5>1, <5>2, NowPush
      <4>4. QED
        BY <2>1, <3>3, <4>1, <4>2, <4>3
    <3>7. QED
      BY <3>4, <3>5, <3>6
  <2>3. CASE MarkLast
    <3>1. todo # <<>> /\ Now = "last" /\ todo' = Tail(todo) /\ UNCHANGED <<lastError, phase>>
      BY <2>3, Running DEF MarkLast, Thread
    <3>2. Now' # "throw"
      BY <3>1, NowTail DEF Follows
    <3>3. Alive
      BY <3>1, Running
    <3>4. QED
      BY <1>2, <3>1, <3>2, <3>3 DEF Alive
  <2>4. CASE Fsync
    BY <2>4 DEF Fsync
  <2>5. CASE Complete \/ Rethrow \/ Return \/ ClientStep \/ Delivery \/ Crashes \/ UNCHANGED vars
    <3>1. UNCHANGED <<link, closing, packets>>
      <4>1. CASE Complete \/ Rethrow \/ Return \/ Delivery \/ Crashes \/ UNCHANGED vars
        BY <4>1 DEF Complete, Rethrow, Return, Delivery, Receive, Crashes, vars, pipeline, setup, queue
      <4>2. CASE ClientStep
        BY <4>2 DEF ClientStep, Open, Append1, Flushing, Close, pipeline, setup, queue
      <4>3. QED
        BY <2>5, <4>1, <4>2
    <3>2. QED
      BY <2>1, <3>1
  <2>6. QED
    BY <2>2, <2>3, <2>4, <2>5 DEF Next, CallStep
<1>3. QED
  BY <1>1, <1>2

(* With a pool of two packets, both hold in every reachable state.         *)
LEMMA ExpectedInv == ASSUME PoolSize >= 2 PROVE Spec => [](Kinds /\ Called /\ Expected /\ OnlyLastIsLeft)
<1>1. Init => Expected /\ OnlyLastIsLeft
  BY ExpectedInit DEF Init, PipelineInit, OnlyLastIsLeft
<1>2. Outer /\ Inner /\ Flow /\ Expected /\ [Next]_vars => Expected'
  BY ExpectedStep DEF Outer, Inner, Flow
<1>3. Outer /\ Outer' /\ Expected' /\ OnlyLastIsLeft /\ [Next]_vars => OnlyLastIsLeft'
  <2> SUFFICES ASSUME Kinds, Called, Kinds', Expected', OnlyLastIsLeft, [Next]_vars PROVE OnlyLastIsLeft'
    BY DEF Outer
  <2>1. QED
    BY OnlyLastStep
<1>4. Outer => Kinds /\ Called
  BY DEF Outer
<1>5. QED
  BY <1>1, <1>2, <1>3, <1>4, FlowInv, PTL DEF Spec

(* With a pool of at least two packets the assertions of send, waitForAcks *)
(* and processAck hold whenever they are reached, after any recovery; a    *)
(* pool of one is a configuration the code accepts and does not work with. *)
THEOREM AssertionsAreTrue == ASSUME PoolSize >= 2 PROVE Spec => []AssertionsHold
<1>1. Kinds /\ Called /\ Expected /\ OnlyLastIsLeft => AssertionsHold
  <2> SUFFICES ASSUME Kinds, Called, Expected, OnlyLastIsLeft, Waits \/ Thread("poll")
               PROVE  packets # <<>>
    BY DEF AssertionsHold, AckIsAwaited
  <2>1. CASE Waits
    BY <2>1 DEF Waits, Enough
  <2>2. CASE Thread("poll")
    <3>1. Alive /\ Now = "poll"
      BY <2>2, Running DEF Thread
    <3>2. QED
      BY <3>1 DEF Expected, Awaited
  <2>3. QED
    BY <2>1, <2>2
<1>2. QED
  BY <1>1, ExpectedInv, PTL

-------------------------------------------------------------------------------
(* The stream is an Upload.                                                *)

(* The packet in hand goes no farther than the units appended, and between *)
(* two calls is made of whole chunks.                                      *)
Even == Alive /\ held # None =>
  held.end <= Goal /\ (Now = "rest" /\ call # "close" => held.end = written)

(* As long as nothing failed, append() has succeeded for every unit.       *)
Paid == Alive => passed = cursor + IF call = "append" THEN 1 ELSE 0

(* An append() that closes its block has filled the last chunk.            *)
Whole == Alive /\ call = "append" /\ todo # <<>> /\ todo[Len(todo)] = "fsync" => position = 0

(* Even is inductive.                                                      *)
LEMMA EvenStep ==
  ASSUME Kinds, Called, Handed, Even, [Next]_vars
  PROVE  Even'
<1> SUFFICES ASSUME Alive' PROVE Even'
  BY DEF Even
<1>0. /\ Alive /\ (todo # <<>> => Now = Head(todo)) /\ (todo' = todo => Now' = Now) /\ todo' # <<"throw">>
      /\ held # None => held.end <= Goal /\ (Now = "rest" /\ call # "close" => held.end = written)
  <2>1. Alive /\ (todo # <<>> => Now = Head(todo))
    BY StaysAlive, Running
  <2>2. QED
    BY <2>1 DEF Even, Alive, Now
<1>K. /\ written \in Nat /\ position \in Nat /\ seqno \in Nat /\ held \in Packet
      /\ held.start \in Nat /\ held.end \in Nat /\ Chunk \in Nat \ {0}
  <2>1. held \in Packet /\ position \in 0 .. Chunk - 1 /\ written \in Nat /\ seqno \in Nat
    BY DEF Kinds, KindsQueue, KindsLocal
  <2>2. held.start \in Nat /\ held.end \in Nat
    BY <2>1 DEF Packet
  <2>3. QED
    BY <2>1, <2>2, OutputAssumption
<1>1. CASE PipelineStep /\ UNCHANGED local
  <2>1. Now # "rest" /\ held' \in {held, None} /\ (Now' = "rest" => held' = None) /\ Goal' = Goal
    BY <1>1, PipelineMoves DEF local, Goal
  <2>2. QED
    BY <1>0, <2>1 DEF Even
<1>2. CASE MarkLast
  <2>1. held' = NewPacket(TRUE) /\ UNCHANGED <<written, position>> /\ todo' = Tail(todo) /\ todo # <<>> /\ Now = "last"
    BY <1>2 DEF MarkLast, Hold, Thread, Now
  <2>2. Now' # "rest"
    BY <2>1, NowTail
  <2>3. held'.end = written /\ written <= Goal /\ Goal' = Goal
    BY <1>K, <2>1 DEF NewPacket, Goal
  <2>4. QED
    BY <2>2, <2>3 DEF Even
<1>3. CASE Fsync
  <2>1. held' = held /\ held = None
    BY <1>0, <1>3 DEF Fsync, Thread, queue, Handed
  <2>2. QED
    BY <2>1 DEF Even
<1>4. CASE Complete
  <2>1. todo # <<>> /\ Now = "complete" /\ todo' = Tail(todo) /\ UNCHANGED <<held, written, position, call>>
    BY <1>0, <1>4 DEF Complete, Thread, queue, local, Throw
  <2>2. call = "close" /\ Goal' = Goal
    BY <2>1, NowTail DEF Follows, EndOf, Goal
  <2>3. QED
    BY <1>0, <2>1, <2>2 DEF Even
<1>5. CASE Rethrow
  BY <1>5 DEF Rethrow, Alive
<1>6. CASE Return
  <2>1. Now = "rest" /\ call # "close" /\ UNCHANGED <<held, written, position>>
    BY <1>6 DEF Return, Alive, Now, pipeline, queue
  <2>2. Goal' = Goal
    BY <2>1 DEF Goal
  <2>3. QED
    BY <1>0, <2>1, <2>2 DEF Even
<1>7. ASSUME held' \in {held, Filled(position), NewPacket(FALSE)}, UNCHANGED <<written, position>>,
             Now = "rest", call = "none", call' = "close" \/ Now' # "rest" \/ held' = held \/ held' = None
      PROVE  Even'
  <2>1. held # None => held.end = written
    BY <1>0, <1>7
  <2>2. Filled(position).end = (IF held = None THEN written ELSE held.end) + position
    BY <1>K, PacketKinds
  <2>3. Goal' = Goal /\ written <= Goal /\ Goal = written + position
    BY <1>7, <1>K DEF Goal
  <2>4. NewPacket(FALSE).end = written
    BY DEF NewPacket
  <2>5. held' # None => held'.end <= Goal
    <3>1. CASE held' = held
      BY <1>0, <3>1
    <3>2. CASE held' = Filled(position)
      <4>1. held'.end = written + position
        BY <2>1, <2>2, <3>2
      <4>2. QED
        BY <2>3, <4>1, <1>K
    <3>3. CASE held' = NewPacket(FALSE)
      BY <2>3, <2>4, <3>3
    <3>4. QED
      BY <1>7, <3>1, <3>2, <3>3
  <2>6. QED
    BY <1>7, <2>1, <2>3, <2>5 DEF Even
<1>8. CASE Append1
  <2>1. Now = "rest" /\ call = "none" /\ (held # None => held.end = written)
    BY <1>0, <1>8, AppendStarts
  <2>2. CASE position + 1 = Chunk
    <3>1. held' = Filled(Chunk) /\ written' = written + Chunk /\ position' = 0
      BY <1>8, <2>2, NextPosition DEF Append1, Hold, Kinds, KindsLocal
    <3>2. Filled(Chunk).end = (IF held = None THEN written ELSE held.end) + Chunk
      BY <1>K, PacketKinds
    <3>3. held'.end = written' /\ Goal' = written' /\ written' <= written'
      BY <1>K, <2>1, <3>1, <3>2 DEF Goal
    <3>4. QED
      BY <3>3 DEF Even
  <2>3. CASE position + 1 # Chunk
    <3>1. held' = held /\ written' = written /\ position' = position + 1
      BY <1>8, <2>3, NextPosition DEF Append1, Hold, Kinds, KindsLocal
    <3>2. Goal' = Goal + 1 /\ written <= Goal'
      BY <1>K, <3>1 DEF Goal
    <3>3. QED
      BY <2>1, <3>1, <3>2 DEF Even
  <2>4. QED
    BY <2>2, <2>3
<1>9. ASSUME NEW sync \in BOOLEAN, Flushing(sync) PROVE Even'
  <2>1. held' \in {held, Filled(position), NewPacket(FALSE)}
    BY <1>9 DEF Flushing, Hold
  <2>2. UNCHANGED <<written, position>> /\ Now = "rest" /\ call = "none" /\ (Now' # "rest" \/ held' = held \/ held' = None)
    BY <1>9, FlushStarts DEF Flushing, First
  <2>3. QED
    BY <1>7, <2>1, <2>2
<1>10. CASE Close
  <2>1. ~lastError
    BY <1>0 DEF Alive
  <2>2. held' \in {held, Filled(position), NewPacket(FALSE)}
    BY <1>10, <2>1 DEF Close, Broken, Hold
  <2>3. UNCHANGED <<written, position>> /\ Now = "rest" /\ call = "none" /\ call' = "close"
    BY <1>10, <2>1, CloseBegins DEF Close
  <2>4. QED
    BY <1>7, <2>2, <2>3
<1>11. CASE Open \/ Delivery \/ Crashes \/ UNCHANGED vars
  <2>1. UNCHANGED <<todo, held, call, written, position>>
    BY <1>11 DEF Open, Delivery, Receive, Crashes, vars, pipeline, queue, local
  <2>2. Goal' = Goal
    BY <2>1 DEF Goal
  <2>3. QED
    BY <1>0, <2>1, <2>2 DEF Even
<1>12. QED
  BY <1>1, <1>2, <1>3, <1>4, <1>5, <1>6, <1>8, <1>9, <1>10, <1>11 DEF Next, ClientStep, CallStep

(* Paid is inductive.                                                      *)
LEMMA PaidStep ==
  ASSUME Kinds, Called, Paid, [Next]_vars
  PROVE  Paid'
<1> SUFFICES ASSUME Alive' PROVE Paid'
  BY DEF Paid
<1>0. Alive /\ passed = cursor + IF call = "append" THEN 1 ELSE 0
  BY StaysAlive DEF Paid
<1>K. passed \in Nat /\ cursor \in Nat
  BY DEF Kinds, KindsLocal
<1>1. ASSUME UNCHANGED <<passed, cursor>>, call' = call \/ (call # "append" /\ call' # "append") PROVE Paid'
  BY <1>0, <1>1 DEF Paid
<1>2. CASE Append1
  BY <1>0, <1>2, <1>K DEF Append1, Ready, Paid
<1>3. CASE Return
  BY <1>0, <1>3, <1>K DEF Return, Paid
<1>4. CASE Rethrow
  BY <1>4, <1>1 DEF Rethrow, Alive
<1>5. CASE Open \/ (\E sync \in BOOLEAN : Flushing(sync)) \/ Close
  BY <1>1, <1>5 DEF Open, Flushing, Close, Ready
<1>6. CASE (PipelineStep /\ UNCHANGED local) \/ MarkLast \/ Fsync \/ Complete \/ Delivery \/ Crashes \/ UNCHANGED vars
  BY <1>1, <1>6 DEF MarkLast, Fsync, Complete, Delivery, Crashes, vars, local
<1>7. QED
  BY <1>2, <1>3, <1>4, <1>5, <1>6 DEF Next, ClientStep, CallStep

(* Whole is inductive.                                                     *)
LEMMA WholeStep ==
  ASSUME Kinds, Called, Bounded, Whole, [Next]_vars
  PROVE  Whole'
<1> SUFFICES ASSUME Alive', call' = "append", todo' # <<>>, todo'[Len(todo')] = "fsync" PROVE position' = 0
  BY DEF Whole
<1>0. Alive /\ Listing(todo, call)
  BY StaysAlive DEF Kinds, Listed
<1>1. ASSUME call = "append", todo # <<>>, todo[Len(todo)] = "fsync", position' = position PROVE position' = 0
  BY <1>0, <1>1 DEF Whole
<1>2. CASE PipelineStep /\ UNCHANGED local
  <2>1. todo # <<>> /\ todo'[Len(todo')] \in {todo[Len(todo)], "throw"}
    BY <1>2, PipelineEnd, PipelineTodo
  <2>2. QED
    BY <1>1, <1>2, <2>1 DEF local
<1>3. CASE MarkLast \/ Fsync \/ Complete
  <2>1. todo # <<>> /\ todo' = Tail(todo) /\ UNCHANGED <<call, position>>
    <3>1. todo' # <<"throw">>
      BY DEF Alive, Now
    <3>2. QED
      BY <1>3, <3>1 DEF MarkLast, Fsync, Complete, Thread, Throw, local
  <2>2. todo'[Len(todo')] = todo[Len(todo)]
    BY <1>0, <2>1, ListEnd
  <2>3. QED
    BY <1>1, <2>1, <2>2
<1>4. CASE Append1
  <2>1. written' = BlockSize
    <3>1. CASE written' # BlockSize
      <4>1. todo' \in {<<>>, SendSteps \o <<>>}
        BY <1>4, <3>1 DEF Append1
      <4>2. todo'[Len(todo')] = "poll"
        BY <4>1, Sends, ConcatEmptySeq
      <4>3. QED
        BY <4>2
    <3>2. QED
      BY <3>1
  <2>2. written # BlockSize
    <3>1. todo = <<>> /\ ~lastError
      BY <1>0, <1>4, AppendStarts DEF Alive
    <3>2. QED
      BY <3>1 DEF Bounded
  <2>3. position + 1 = Chunk
    BY <1>4, <2>1, <2>2 DEF Append1
  <2>4. QED
    BY <1>4, <2>3, NextPosition DEF Append1, Kinds, KindsLocal
<1>5. CASE Rethrow \/ Return \/ (\E sync \in BOOLEAN : Flushing(sync)) \/ Close
  BY <1>5 DEF Rethrow, Return, Flushing, Close
<1>6. CASE Open \/ Delivery \/ Crashes \/ UNCHANGED vars
  BY <1>1, <1>6 DEF Open, Delivery, Receive, Crashes, vars, pipeline, local
<1>7. QED
  BY <1>2, <1>3, <1>4, <1>5, <1>6 DEF Next, ClientStep, CallStep

(* At the end of close() only the namenode is left to be told.             *)
Finishing == call = "close" /\ Now \in {"complete", "rest"}

(* No more is in the file, or on its way there, than the client has        *)
(* passed; and when close() comes to its end no less.                      *)
Spent == Alive =>
  /\ length + acked <= passed
  /\ \A k \in 1 .. Len(packets) : length + packets[k].end <= passed
  /\ ~Finishing => Done + Goal <= passed
  /\ call = "close" => passed <= IF Finishing THEN length + acked ELSE Done + Goal

(* All four hold at first.                                                 *)
LEMMA SpentInit == Init => Even /\ Paid /\ Whole /\ Spent
BY DEF Init, ClusterInit, PipelineInit, Even, Paid, Whole, Spent, Finishing, Done, Goal

(* The pipeline is done before that.                                       *)
LEMMA NotFinishing ==
  ASSUME Kinds, Called, PipelineStep, UNCHANGED local, Alive'
  PROVE  ~Finishing /\ ~Finishing'
<1>0. /\ todo # <<>> /\ Now = Head(todo) /\ todo' # <<"throw">> /\ (todo' = todo => Now' = Now)
      /\ Now \in {"alloc", "push", "spill", "write", "poll", "flush"}
  <2>1. todo # <<>> /\ Head(todo) \in {"alloc", "push", "spill", "write", "poll", "flush"}
    BY PipelineTodo
  <2>2. QED
    BY <2>1 DEF Alive, Now
<1>1. CASE todo' = Tail(todo)
  BY <1>0, <1>1, NowTail DEF Finishing, Follows, EndOf, local
<1>2. CASE Thread("push") /\ todo' = Tail(Tail(todo))
  BY <1>0, <1>2, NowPush DEF Finishing
<1>3. CASE todo' = todo
  BY <1>0, <1>3 DEF Finishing
<1>4. QED
  BY <1>0, <1>1, <1>2, <1>3, PipelineTodo

(* It moves units from one block to the next, and no more.                 *)
LEMMA DoneStays ==
  ASSUME Kinds, Staged, PipelineStep
  PROVE  Done' = Done
<1>1. length \in Nat /\ acked \in Nat
  BY DEF Kinds, KindsCluster, KindsQueue
<1>2. CASE Alloc
  <2>1. \/ link = "none" /\ link' = "create" /\ length' = length + acked /\ acked' = 0
        \/ UNCHANGED <<link, length, acked>>
    BY <1>2 DEF Alloc, AddBlock, queue
  <2>2. QED
    BY <1>1, <2>1 DEF Done
<1>3. CASE Abandon
  <2>1. acked = 0 /\ length' = length /\ acked' = acked /\ link = "abandon"
    BY <1>3 DEF Abandon, Staged, queue
  <2>2. QED
    BY <1>1, <2>1 DEF Done
<1>4. CASE ~Alloc /\ ~Abandon
  <2>1. CASE Create \/ Fail \/ WriteTimesOut
    <3>1. length' = length /\ link # "none" /\ link' # "none"
      BY <2>1 DEF Create, Fail, WriteTimesOut, Recovers, DropNode, Rebuild, setup
    <3>2. QED
      BY <3>1 DEF Done
  <2>2. CASE Extend
    <3>1. length' = length /\ link = "extend" /\ link' # "none"
      BY <2>2, Extended DEF Extend, Recovers, Joined, Untried, Unmoved, Rebuild, Again
    <3>2. QED
      BY <3>1 DEF Done
  <2>3. CASE Connect \/ Update \/ Resend
    <3>1. length' = length /\ link # "none" /\ link' # "none"
      BY <2>3 DEF Connect, Update, Resend, Recovers, DropNode, Rebuild, Again, cluster
    <3>2. QED
      BY <3>1 DEF Done
  <2>4. CASE EndWait \/ Write \/ NoAckYet
    <3>1. UNCHANGED <<length, link, acked>>
      BY <2>4 DEF EndWait, Write, NoAckYet, setup, queue, cluster
    <3>2. QED
      BY <3>1 DEF Done
  <2>5. CASE Push
    <3>1. UNCHANGED <<length, link, acked>>
      BY <2>5 DEF Push, setup, cluster
    <3>2. QED
      BY <3>1 DEF Done
  <2>6. CASE ReadAck
    <3>1. UNCHANGED <<length, link>> /\ link = "up"
      BY <2>6 DEF ReadAck, Waits, AtWait, setup, cluster
    <3>2. QED
      BY <3>1 DEF Done
  <2>7. QED
    BY <1>4, <2>1, <2>2, <2>3, <2>4, <2>5, <2>6 DEF PipelineStep
<1>5. QED
  BY <1>2, <1>3, <1>4

(* A method that is not close() ends with the block it has ended, and has  *)
(* no chunk begun.                                                         *)
LEMMA FsyncEnds ==
  ASSUME Kinds, Called, Whole, Alive, Thread("fsync"), call # "close"
  PROVE  position = 0
<1>1. Listing(todo, call) /\ todo # <<>> /\ Head(todo) = "fsync"
  BY DEF Kinds, Listed, Thread
<1>2. CASE Tail(todo) = <<>>
  BY <1>1, <1>2, ListEnd DEF Whole, EndOf
<1>3. CASE Tail(todo) # <<>>
  <2> DEFINE t == Tail(todo)
  <2>1. Listing(t, call) /\ Head(t) = "complete"
    BY <1>1, <1>3, ListTail DEF Follows
  <2> HIDE DEF t
  <2>2. t # <<>>
    BY <1>3 DEF t
  <2>3. Tail(t) = <<>>
    BY <2>1, <2>2, ListTail DEF Follows
  <2>4. EndOf(call, "complete")
    BY <2>1, <2>2, <2>3, ListEnd
  <2>5. QED
    BY <2>4 DEF EndOf
<1>4. QED
  BY <1>2, <1>3

(* The pipeline keeps Spent: what it acknowledges was passed.              *)
LEMMA SpentPipeline ==
  ASSUME Kinds, Called, Placed, Handed, Queued, Stored, Even, Spent,
         PipelineStep, UNCHANGED local, Alive'
  PROVE  Spent'
<1>0. /\ todo # <<>> /\ Now = Head(todo) /\ Alive /\ ~Finishing /\ ~Finishing'
      /\ passed' = passed /\ call' = call /\ Goal' = Goal /\ Done' = Done
  <2>1. todo # <<>> /\ Alive /\ Now = Head(todo)
    BY PipelineTodo, PipelineMoves, Running
  <2>2. Done' = Done
    BY DoneStays DEF Stored
  <2>3. QED
    BY <2>1, <2>2, NotFinishing DEF local, Goal
<1>K. length \in Nat /\ acked \in Nat /\ packets \in Seq(Packet) /\ passed \in Nat
  BY DEF Kinds, KindsCluster, KindsQueue, KindsLocal
<1>1. /\ length + acked <= passed
      /\ \A k \in 1 .. Len(packets) : length + packets[k].end <= passed
      /\ Done + Goal <= passed
      /\ call = "close" => passed <= Done + Goal
  BY <1>0 DEF Spent
<1>2. ASSUME length' + acked' <= passed,
             \A k \in 1 .. Len(packets') : length' + packets'[k].end <= passed
      PROVE  Spent'
  BY <1>0, <1>1, <1>2 DEF Spent
<1>3. CASE Alloc
  <2>1. /\ packets' = packets /\ link = "none"
        /\ (length' = length + acked /\ acked' = 0) \/ UNCHANGED <<length, acked>>
    BY <1>3 DEF Alloc, AddBlock, queue
  <2>2. packets = <<>>
    BY <1>0, <2>1 DEF Queued
  <2>3. QED
    BY <1>1, <1>2, <1>K, <2>1, <2>2
<1>4. CASE Push
  <2>1. Now = "push" /\ packets' = Append(packets, held) /\ length' = length /\ acked' = acked
    BY <1>0, <1>4 DEF Push, Thread, cluster
  <2>2. held # None /\ held.end <= Goal /\ Done = length
    <3>1. link = "up" /\ held # None
      BY <1>0, <2>1 DEF Placed, Handed, Sending
    <3>2. QED
      BY <1>0, <1>K, <3>1 DEF Even, Done
  <2>3. length + held.end <= passed
    <3>1. held.end \in Nat /\ Goal \in Nat
      <4>1. held \in Packet /\ Goal \in Nat
        BY EdgeKinds
      <4>2. QED
        BY <4>1 DEF Packet
    <3>2. QED
      BY <1>1, <1>K, <2>2, <3>1
  <2>4. \A k \in 1 .. Len(packets') : length + packets'[k].end <= passed
    <3>1. held \in Packet
      BY EdgeKinds
    <3>2. /\ Len(packets') = Len(packets) + 1 /\ packets'[Len(packets) + 1] = held
          /\ \A k \in 1 .. Len(packets) : packets'[k] = packets[k]
      BY <1>K, <2>1, <3>1, AppendProperties
    <3>3. \A k \in 1 .. Len(packets) + 1 : k \in 1 .. Len(packets) \/ k = Len(packets) + 1
      BY <1>K
    <3>4. QED
      BY <1>1, <2>3, <3>2, <3>3
  <2>5. QED
    BY <1>1, <1>2, <2>1, <2>4
<1>5. CASE ReadAck
  <2>1. /\ packets # <<>> /\ packets' = Tail(packets) /\ length' = length
        /\ acked' = MaxOf(acked, Head(packets).end)
    BY <1>5 DEF ReadAck, cluster
  <2>2. /\ Len(packets) \in Nat \ {0} /\ Head(packets) = packets[1] /\ Len(packets') = Len(packets) - 1
        /\ \A k \in 1 .. Len(packets) - 1 : packets'[k] = packets[k + 1]
    BY <1>K, <2>1, HeadTailProperties
  <2>3. length + Head(packets).end <= passed
    BY <1>1, <2>2
  <2>4. length' + acked' <= passed
    BY <1>1, <2>1, <2>3 DEF MaxOf
  <2>5. \A k \in 1 .. Len(packets') : length' + packets'[k].end <= passed
    <3>1. \A k \in 1 .. Len(packets) - 1 : k + 1 \in 1 .. Len(packets)
      BY <2>2
    <3>2. QED
      BY <1>1, <2>1, <2>2, <3>1
  <2>6. QED
    BY <1>2, <2>4, <2>5
<1>6. CASE ~Alloc /\ ~Push /\ ~ReadAck
  <2>1. length' = length /\ acked' = acked /\ packets' \in {packets, <<>>}
    BY <1>6 DEF PipelineStep, Create, Abandon, EndWait, Write, NoAckYet, Fail, WriteTimesOut,
                Extend, Connect, Update, Resend, queue, cluster
  <2>2. QED
    BY <1>1, <1>2, <2>1
<1>7. QED
  BY <1>3, <1>4, <1>5, <1>6

(* Spent is inductive: close() is done with the pipeline only when all     *)
(* that was passed is acknowledged.                                        *)
LEMMA SpentStep ==
  ASSUME Kinds, Called, Placed, Handed, Queued, Stored, Edge, Tally, Flushed, Even, Paid, Whole,
         Spent, [Next]_vars
  PROVE  Spent'
<1> SUFFICES ASSUME Alive' PROVE Spent'
  BY DEF Spent
<1>0. Alive /\ (todo # <<>> => Now = Head(todo)) /\ todo' # <<"throw">> /\ (todo' = todo => Now' = Now)
  <2>1. Alive /\ (todo # <<>> => Now = Head(todo))
    BY StaysAlive, Running
  <2>2. QED
    BY <2>1 DEF Alive, Now
<1>K. /\ length \in Nat /\ acked \in Nat /\ packets \in Seq(Packet) /\ passed \in Nat
      /\ written \in Nat /\ position \in Nat /\ Goal \in Nat /\ Done \in Nat
  <2>1. length \in Nat /\ passed \in Nat
    BY DEF Kinds, KindsCluster, KindsLocal
  <2>2. QED
    BY <2>1, EdgeKinds DEF Done
<1>1. /\ length + acked <= passed
      /\ \A k \in 1 .. Len(packets) : length + packets[k].end <= passed
      /\ ~Finishing => Done + Goal <= passed
      /\ call = "close" => passed <= IF Finishing THEN length + acked ELSE Done + Goal
  BY <1>0 DEF Spent
<1>2. ASSUME UNCHANGED <<passed, length, acked, packets>>, Done' = Done, Goal' = Goal,
             call' = call \/ (call # "close" /\ call' # "close"), Finishing' <=> Finishing
      PROVE  Spent'
  BY <1>1, <1>2 DEF Spent, Finishing
<1>3. CASE PipelineStep /\ UNCHANGED local
  BY <1>3, SpentPipeline
<1>4. CASE MarkLast
  <2>1. /\ UNCHANGED <<passed, length, acked, packets, link, written, position, call>>
        /\ todo # <<>> /\ Now = "last" /\ todo' = Tail(todo)
    BY <1>0, <1>4 DEF MarkLast, Thread, cluster
  <2>2. Now' = "push"
    BY <2>1, NowTail DEF Follows
  <2>3. QED
    BY <1>2, <2>1, <2>2 DEF Finishing, Done, Goal
<1>5. CASE Fsync
  <2>1. /\ Now = "fsync" /\ link' = "none" /\ written' = 0 /\ todo # <<>> /\ todo' = Tail(todo)
        /\ UNCHANGED <<passed, length, acked, position, packets, call>>
    BY <1>0, <1>5 DEF Fsync, Thread, Throw, queue
  <2>2. packets = <<>> /\ link = "up" /\ ~Finishing /\ Done = length
    BY <1>0, <1>K, <2>1 DEF Queued, Placed, Finishing, Done
  <2>3. Goal <= acked
    BY <1>0, <2>1, <2>2 DEF Edge, Upto, Reaches
  <2>4. CASE call = "close"
    <3>1. Finishing' /\ call' = "close"
      BY <2>1, <2>4, NowTail DEF Follows, EndOf, Finishing
    <3>2. passed <= length + acked
      BY <1>1, <1>K, <2>2, <2>3, <2>4
    <3>3. QED
      BY <1>1, <2>1, <2>2, <3>1, <3>2 DEF Spent
  <2>5. CASE call # "close"
    <3>1. position = 0
      BY <1>0, <1>5, <2>5, FsyncEnds DEF Fsync
    <3>2. Done' = length + acked /\ Goal' = 0
      BY <1>K, <2>1, <3>1 DEF Done, Goal
    <3>3. Done' + Goal' <= passed
      BY <1>1, <1>K, <3>2
    <3>4. QED
      BY <1>1, <2>1, <2>2, <2>5, <3>3 DEF Spent
  <2>6. QED
    BY <2>4, <2>5
<1>6. CASE Complete
  <2>1. /\ UNCHANGED <<passed, length, acked, packets, link, written, position, call>>
        /\ todo # <<>> /\ Now = "complete" /\ todo' = Tail(todo)
    BY <1>0, <1>6 DEF Complete, Thread, Throw, setup, queue, local
  <2>2. Now' = "rest" /\ call = "close"
    BY <2>1, NowTail DEF Follows, EndOf
  <2>3. QED
    BY <1>2, <2>1, <2>2 DEF Finishing, Done, Goal
<1>7. CASE Rethrow
  BY <1>7 DEF Rethrow, Alive
<1>8. CASE Return
  <2>1. /\ UNCHANGED <<passed, length, acked, packets, link, written, position>>
        /\ call # "close" /\ call' # "close"
    BY <1>8 DEF Return, Alive, pipeline, setup, queue, cluster
  <2>2. QED
    BY <1>2, <2>1 DEF Finishing, Done, Goal
<1>9. CASE Append1
  <2>1. /\ UNCHANGED <<length, link, acked, packets>> /\ passed' = passed + 1
        /\ call # "close" /\ call' # "close"
        /\ position' = (position + 1) % Chunk
        /\ written' = IF position + 1 = Chunk THEN written + Chunk ELSE written
    BY <1>9 DEF Append1, Ready, setup, cluster
  <2>2. position' = IF position + 1 = Chunk THEN 0 ELSE position + 1
    BY <2>1, NextPosition DEF Kinds, KindsLocal
  <2>3. Goal' = Goal + 1 /\ Done' = Done
    <3>1. Chunk \in Nat
      BY OutputAssumption
    <3>2. QED
      BY <1>K, <2>1, <2>2, <3>1 DEF Goal, Done
  <2>4. ~Finishing /\ ~Finishing'
    BY <2>1 DEF Finishing
  <2>5. length' + acked' <= passed' /\ Done' + Goal' <= passed'
    BY <1>1, <1>K, <2>1, <2>3, <2>4
  <2>6. \A k \in 1 .. Len(packets) : length + packets[k].end <= passed + 1
    <3>1. \A k \in 1 .. Len(packets) : packets[k].end \in Nat
      <4>1. \A k \in 1 .. Len(packets) : packets[k] \in Packet
        BY <1>K
      <4>2. QED
        BY <4>1 DEF Packet
    <3>2. QED
      BY <1>1, <1>K, <3>1
  <2>7. QED
    BY <2>1, <2>4, <2>5, <2>6 DEF Spent
<1>10. CASE Close
  <2>1. /\ ~lastError /\ call = "none" /\ call' = "close"
        /\ UNCHANGED <<passed, length, acked, packets, link, written, position>>
    BY <1>0, <1>10 DEF Close, Ready, Alive, setup, cluster
  <2>2. Done' = Done /\ Goal' = Goal /\ ~Finishing
    BY <2>1 DEF Done, Goal, Finishing
  <2>3. passed <= Done + Goal
    BY <1>0, <2>1 DEF Tally
  <2>4. CASE Now' = "complete"
    <3>1. Finishing' /\ link = "none" /\ Done = length + acked
      BY <1>10, <2>1, <2>4, CloseBegins DEF Finishing, First, Done
    <3>2. lastFlushed = cursor \/ (held = None /\ position = 0)
      BY <1>10, <2>1, <2>4, CloseBegins, BaseClose DEF First
    <3>3. passed <= length + acked
      <4>1. CASE lastFlushed = cursor
        BY <1>0, <2>1, <4>1, <1>K DEF Paid, Flushed, Kinds, KindsLocal
      <4>2. CASE held = None /\ position = 0
        <5>1. Base = 0 /\ Base = written
          BY <1>0, <3>1, <4>2 DEF Edge, Base
        <5>2. QED
          BY <1>K, <2>3, <3>1, <4>2, <5>1 DEF Goal
      <4>3. QED
        BY <3>2, <4>1, <4>2
    <3>4. QED
      BY <1>1, <2>1, <3>1, <3>3 DEF Spent
  <2>5. CASE Now' # "complete"
    <3>1. ~Finishing'
      BY <1>10, <2>1, <2>5, CloseBegins DEF Finishing, First
    <3>2. QED
      BY <1>1, <2>1, <2>2, <2>3, <3>1 DEF Spent
  <2>6. QED
    BY <2>4, <2>5
<1>11. CASE Open \/ (\E sync \in BOOLEAN : Flushing(sync)) \/ Delivery \/ Crashes \/ UNCHANGED vars
  <2>1. /\ UNCHANGED <<passed, length, acked, packets, link, written, position>>
        /\ (call' = call /\ todo' = todo) \/ (call # "close" /\ call' # "close")
    <3>1. CASE Open \/ UNCHANGED vars
      BY <3>1 DEF Open, vars, local, cluster, pipeline, setup, queue
    <3>2. CASE \E sync \in BOOLEAN : Flushing(sync)
      BY <3>2 DEF Flushing, Ready, cluster, setup
    <3>3. CASE Delivery
      BY <3>3 DEF Delivery, Receive, local, setup, queue
    <3>4. CASE Crashes
      BY <3>4 DEF Crashes, Crash, local, pipeline, setup, queue
    <3>5. QED
      BY <1>11, <3>1, <3>2, <3>3, <3>4
  <2>2. QED
    BY <1>0, <1>2, <2>1 DEF Finishing, Done, Goal
<1>12. QED
  BY <1>3, <1>4, <1>5, <1>6, <1>7, <1>8, <1>9, <1>10, <1>11 DEF Next, ClientStep, CallStep

(* Only close() completes a file, and it has nothing to do after that.     *)
Settled ==
  /\ file = "complete" => phase = "closed" \/ (call = "close" /\ todo \in {<<>>, <<"throw">>})
  /\ phase = "new" => ~lastError

(* Settled holds at first.                                                 *)
LEMMA SettledInit == Init => Settled
BY DEF Init, ClusterInit, Settled

(* Settled is inductive.                                                   *)
LEMMA SettledStep ==
  ASSUME Kinds, Called, Settled, [Next]_vars
  PROVE  Settled'
<1>1. CASE (PipelineStep /\ UNCHANGED local) \/ MarkLast \/ Fsync
  <2>1. file' = file /\ UNCHANGED <<phase, call, lastError>>
    <3>1. CASE PipelineStep /\ UNCHANGED local
      <4>1. file' = file
        BY <3>1 DEF PipelineStep, Alloc, AddBlock, Create, Abandon, Push, EndWait, Write, NoAckYet, ReadAck,
                    Fail, WriteTimesOut, Extend, Connect, Update, Resend, cluster
      <4>2. QED
        BY <3>1, <4>1 DEF local
    <3>2. CASE MarkLast \/ Fsync
      BY <3>2 DEF MarkLast, Fsync, cluster
    <3>3. QED
      BY <1>1, <3>1, <3>2
  <2>2. todo # <<>> /\ todo # <<"throw">>
    <3>1. todo # <<>> /\ Head(todo) # "throw"
      BY <1>1, PipelineTodo DEF MarkLast, Fsync, Thread
    <3>2. QED
      BY <3>1
  <2>3. QED
    BY <2>1, <2>2 DEF Settled
<1>2. CASE Complete
  <2>1. /\ Thread("complete") /\ todo # <<>> /\ todo # <<"throw">> /\ UNCHANGED <<phase, call, lastError>>
        /\ todo' \in {Tail(todo), <<"throw">>}
    BY <1>2 DEF Complete, Thread, Throw, local
  <2>2. call = "close" /\ Tail(todo) = <<>>
    <3>1. Tail(todo) = <<>> /\ Head(todo) = "complete"
      BY <2>1, ListTail DEF Kinds, Listed, Thread, Follows
    <3>2. EndOf(call, "complete")
      BY <2>1, <3>1, ListEnd DEF Kinds, Listed
    <3>3. QED
      BY <3>1, <3>2 DEF EndOf
  <2>3. QED
    BY <2>1, <2>2 DEF Settled
<1>3. CASE Rethrow \/ Return
  <2>1. file' = file /\ phase = "open" /\ phase' = (IF call = "close" THEN "closed" ELSE phase)
    <3>1. call # "none"
      BY <1>3, Running DEF Rethrow, Return, Thread
    <3>2. QED
      BY <1>3, <3>1 DEF Rethrow, Return, Called, cluster
  <2>2. QED
    BY <2>1 DEF Settled
<1>4. CASE Open
  <2>1. phase = "new" /\ call = "none" /\ file' # "complete" /\ phase' # "new"
    BY <1>4 DEF Open, Called
  <2>2. QED
    BY <2>1 DEF Settled
<1>5. CASE Append1 \/ (\E sync \in BOOLEAN : Flushing(sync)) \/ Close
  <2>1. phase = "open" /\ call = "none" /\ file' = file /\ phase' = phase
    BY <1>5 DEF Append1, Flushing, Close, Ready, cluster
  <2>2. QED
    BY <2>1 DEF Settled
<1>6. CASE Delivery \/ Crashes \/ UNCHANGED vars
  BY <1>6 DEF Delivery, Receive, Crashes, Crash, vars, local, pipeline, cluster, Settled
<1>7. QED
  BY <1>1, <1>2, <1>3, <1>4, <1>5, <1>6 DEF Next, ClientStep, CallStep

(* What the steps of an Upload are drawn from.                             *)
Kept == Even /\ Paid /\ Whole /\ Spent /\ Settled

(* What the units passed and those in the file have to do with each other, *)
(* in every reachable state.                                               *)
LEMMA KeptInv == Spec => [](Kinds /\ Called /\ Kept)
<1>1. Init => Kept
  BY SpentInit, SettledInit DEF Kept
<1>2. Outer /\ Inner /\ Flow /\ Kept /\ [Next]_vars => Kept'
  BY EvenStep, PaidStep, WholeStep, SpentStep, SettledStep DEF Outer, Inner, Flow, Kept
<1>3. Outer => Kinds /\ Called
  BY DEF Outer
<1>4. QED
  BY <1>1, <1>2, <1>3, FlowInv, PTL DEF Spec

Sealed == call = "close" \/ phase = "closed"

(* What an Upload does not see of it.                                      *)
Stutters == /\ passed' = passed /\ Sealed' = Sealed /\ 1 .. length' + acked' = 1 .. length + acked
            /\ UploadPhase' = UploadPhase

Uploads == Promise!UNext \/ Stutters

(* The pipeline appends what was acknowledged, and does nothing else that  *)
(* an Upload sees.                                                         *)
LEMMA PipelineUploads ==
  ASSUME Kinds, Called, Kept, PipelineStep, UNCHANGED local
  PROVE  Uploads
<1>0. /\ todo # <<>> /\ Head(todo) \in {"alloc", "push", "spill", "write", "poll", "flush"} /\ Alive
      /\ call # "none" /\ phase = "open" /\ file # "complete"
  <2>1. todo # <<>> /\ Head(todo) \in {"alloc", "push", "spill", "write", "poll", "flush"}
    BY PipelineTodo
  <2>2. Alive /\ call # "none"
    BY <2>1, Running
  <2>3. todo # <<"throw">>
    BY <2>1
  <2>4. QED
    BY <2>1, <2>2, <2>3 DEF Called, Kept, Settled
<1>K. length \in Nat /\ acked \in Nat /\ packets \in Seq(Packet) /\ passed \in Nat
  BY DEF Kinds, KindsCluster, KindsQueue, KindsLocal
<1>1. passed' = passed /\ Sealed' = Sealed /\ UploadPhase' = UploadPhase /\ UploadPhase # "complete"
  <2>1. file' = file
    BY DEF PipelineStep, Alloc, AddBlock, Create, Abandon, Push, EndWait, Write, NoAckYet, ReadAck,
           Fail, WriteTimesOut, Extend, Connect, Update, Resend, cluster
  <2>2. QED
    BY <1>0, <2>1 DEF local, Sealed, UploadPhase
<1>2. CASE Alloc
  <2>1. \/ length' = length + acked /\ acked' = 0
        \/ UNCHANGED <<length, acked>>
    BY <1>2 DEF Alloc, AddBlock, queue
  <2>2. length' + acked' = length + acked
    BY <1>K, <2>1
  <2>3. QED
    BY <1>1, <2>2 DEF Uploads, Stutters
<1>3. CASE ReadAck
  <2>1. packets # <<>> /\ length' = length /\ acked' = MaxOf(acked, Head(packets).end)
    BY <1>3 DEF ReadAck, cluster
  <2>2. CASE acked' = acked
    BY <1>1, <2>1, <2>2 DEF Uploads, Stutters
  <2>3. CASE acked' # acked
    <3>1. Head(packets) = packets[1] /\ 1 \in 1 .. Len(packets) /\ packets[1] \in Packet
      BY <1>K, <2>1
    <3>2. acked' = packets[1].end /\ acked' \in Nat /\ acked < acked'
      BY <1>K, <2>1, <2>3, <3>1 DEF MaxOf, Packet
    <3>3. length + acked' <= passed
      BY <1>0, <3>1, <3>2 DEF Kept, Spent
    <3>4. PICK n \in 1 .. passed : n = length + acked' /\ length + acked < n
      BY <1>K, <3>2, <3>3
    <3>5. 1 .. length + acked \subseteq 1 .. n - 1 /\ 1 .. length' + acked' = 1 .. n
      BY <1>K, <2>1, <3>4
    <3>6. UploadPhase \in {"open", "abandoned"}
      BY <1>0, <1>1 DEF UploadPhase
    <3>7. Promise!Append
      BY <1>1, <3>4, <3>5, <3>6 DEF Promise!Append, Sealed
    <3>8. QED
      BY <3>7 DEF Uploads, Promise!UNext
  <2>4. QED
    BY <2>2, <2>3
<1>4. CASE ~Alloc /\ ~ReadAck
  <2>1. length' = length /\ acked' = acked
    BY <1>4 DEF PipelineStep, Create, Abandon, Push, EndWait, Write, NoAckYet, Fail, WriteTimesOut,
                Extend, Connect, Update, Resend, queue, cluster
  <2>2. QED
    BY <1>1, <2>1 DEF Uploads, Stutters
<1>5. QED
  BY <1>2, <1>3, <1>4

(* The namenode completes the file with all that was passed.               *)
LEMMA CompleteUploads ==
  ASSUME Kinds, Called, Kept, Complete
  PROVE  Uploads
<1>1. /\ todo # <<>> /\ Head(todo) = "complete" /\ Now = "complete" /\ Alive
      /\ UNCHANGED <<passed, call, phase, lastError, length, acked>>
  BY Running DEF Complete, Thread, local, queue
<1>2. call = "close" /\ phase = "open" /\ ~lastError /\ file # "complete"
  <2>1. Tail(todo) = <<>>
    BY <1>1, ListTail DEF Kinds, Listed, Follows
  <2>2. EndOf(call, "complete")
    BY <1>1, <2>1, ListEnd DEF Kinds, Listed
  <2>3. todo # <<"throw">>
    BY <1>1
  <2>4. QED
    BY <1>1, <2>2, <2>3 DEF EndOf, Called, Kept, Settled
<1>3. Sealed /\ Sealed' /\ UploadPhase = "open"
  BY <1>1, <1>2 DEF Sealed, UploadPhase
<1>4. CASE file' = "complete"
  <2>1. 1 .. length + acked = 1 .. passed
    <3>1. length \in Nat /\ acked \in Nat /\ passed \in Nat
      BY DEF Kinds, KindsCluster, KindsQueue, KindsLocal
    <3>2. length + acked = passed
      BY <1>1, <1>2, <3>1 DEF Kept, Spent, Finishing
    <3>3. QED
      BY <3>2
  <2>2. Promise!Complete
    BY <1>1, <1>3, <1>4, <2>1 DEF Promise!Complete, Sealed, UploadPhase
  <2>3. QED
    BY <2>2 DEF Uploads, Promise!UNext
<1>5. CASE file' # "complete"
  BY <1>1, <1>2, <1>3, <1>5 DEF Uploads, Stutters, UploadPhase, Sealed
<1>6. QED
  BY <1>4, <1>5

(* A method that throws gives the file up; one that returns changes        *)
(* nothing.                                                                *)
LEMMA EndUploads ==
  ASSUME Kinds, Called, Kept, Rethrow \/ Return
  PROVE  Uploads
<1>1. /\ UNCHANGED <<passed, length, acked, file>> /\ call # "none" /\ call' = "none" /\ phase = "open"
      /\ phase' = IF call = "close" THEN "closed" ELSE phase
  <2>1. call # "none"
    BY Running DEF Rethrow, Return, Thread
  <2>2. QED
    BY <2>1 DEF Rethrow, Return, Called, cluster, pipeline, queue
<1>2. Sealed' = Sealed
  BY <1>1 DEF Sealed
<1>3. CASE file = "complete" \/ lastError
  <2>1. lastError' \/ ~lastError
    BY DEF Rethrow, Return
  <2>2. UploadPhase' = UploadPhase
    BY <1>1, <1>3, <2>1 DEF UploadPhase
  <2>3. QED
    BY <1>1, <1>2, <2>2 DEF Uploads, Stutters
<1>4. CASE file # "complete" /\ ~lastError
  <2>1. UploadPhase = "open" /\ UploadPhase' \in {"open", "abandoned"}
    BY <1>1, <1>4 DEF UploadPhase
  <2>2. CASE UploadPhase' = "open"
    BY <1>1, <1>2, <2>1, <2>2 DEF Uploads, Stutters
  <2>3. CASE UploadPhase' = "abandoned"
    <3>1. Promise!GiveUp
      BY <1>1, <1>2, <2>1, <2>3 DEF Promise!GiveUp, Sealed
    <3>2. QED
      BY <3>1 DEF Uploads, Promise!UNext
  <2>4. QED
    BY <2>1, <2>2, <2>3
<1>5. QED
  BY <1>3, <1>4

(* open() opens the file or gives it up, append() asks, close() seals.     *)
LEMMA ClientUploads ==
  ASSUME Kinds, Called, Kept, ClientStep
  PROVE  Uploads
<1>1. CASE Open
  <2>1. /\ UNCHANGED <<passed, length, acked, call, lastError>> /\ phase = "new" /\ call = "none"
        /\ ~lastError /\ file # "complete" /\ file' # "complete" /\ phase' \in {"open", "failed"}
    <3>1. /\ UNCHANGED <<passed, length, acked, call, lastError>> /\ phase = "new"
          /\ file' # "complete" /\ phase' \in {"open", "failed"}
      BY <1>1 DEF Open, pipeline, queue
    <3>2. QED
      BY <3>1 DEF Called, Kept, Settled
  <2>2. UploadPhase = "new" /\ UploadPhase' \in {"open", "abandoned"} /\ Sealed' = Sealed
    BY <2>1 DEF UploadPhase, Sealed
  <2>3. Promise!Open \/ Promise!GiveUp
    BY <2>1, <2>2 DEF Promise!Open, Promise!GiveUp, Sealed
  <2>4. QED
    BY <2>3 DEF Uploads, Promise!UNext
<1>2. CASE Append1
  <2>1. /\ UNCHANGED <<length, acked, file, phase, lastError>> /\ passed' = passed + 1 /\ passed < Limit
        /\ phase = "open" /\ call = "none" /\ call' = "append"
    BY <1>2 DEF Append1, Ready, cluster
  <2>2. UploadPhase' = UploadPhase /\ ~Sealed /\ ~Sealed'
    BY <2>1 DEF UploadPhase, Sealed
  <2>3. Promise!Ask
    BY <2>1, <2>2 DEF Promise!Ask, Sealed
  <2>4. QED
    BY <2>3 DEF Uploads, Promise!UNext
<1>3. CASE \E sync \in BOOLEAN : Flushing(sync)
  <2>1. /\ UNCHANGED <<passed, length, acked, file, phase, lastError>>
        /\ call # "close" /\ call' # "close"
    BY <1>3 DEF Flushing, Ready, cluster
  <2>2. QED
    BY <2>1 DEF UploadPhase, Sealed, Uploads, Stutters
<1>4. CASE Close
  <2>1. /\ UNCHANGED <<passed, length, acked, file, phase, lastError>>
        /\ phase = "open" /\ call = "none" /\ call' = "close"
    BY <1>4 DEF Close, Ready, cluster
  <2>2. UploadPhase' = UploadPhase /\ ~Sealed /\ Sealed'
    BY <2>1 DEF UploadPhase, Sealed
  <2>3. Promise!Seal
    BY <2>1, <2>2 DEF Promise!Seal, Sealed
  <2>4. QED
    BY <2>3 DEF Uploads, Promise!UNext
<1>5. QED
  BY <1>1, <1>2, <1>3, <1>4 DEF ClientStep

(* The stream is an Upload of units: it starts as one, and whatever the    *)
(* thread, the datanodes and the faults do is what an Upload may do; it is *)
(* completed with all the units or given up.  That a sealed upload does    *)
(* not stay undecided is beyond this proof.                                *)
THEOREM StreamIsUpload == Spec => Promise!UInit /\ [][Promise!UNext]_(Promise!upload)
<1>1. Init => Promise!UInit
  <2> SUFFICES ASSUME Init PROVE Promise!UInit
    OBVIOUS
  <2>1. length + acked = 0 /\ passed = 0 /\ call = "none" /\ phase = "new" /\ file # "complete"
    BY DEF Init, ClusterInit, PipelineInit
  <2>2. 1 .. length + acked = {}
    BY <2>1
  <2>3. UploadPhase = "new"
    BY <2>1 DEF UploadPhase
  <2>4. QED
    BY <2>1, <2>2, <2>3 DEF Promise!UInit
<1>2. Kinds /\ Called /\ Kept /\ [Next]_vars => [Promise!UNext]_(Promise!upload)
  <2> SUFFICES ASSUME Kinds, Called, Kept, [Next]_vars PROVE Uploads
    BY DEF Uploads, Stutters, Sealed, Promise!upload
  <2>1. CASE PipelineStep /\ UNCHANGED local
    BY <2>1, PipelineUploads
  <2>2. CASE MarkLast
    BY <2>2 DEF MarkLast, cluster, Uploads, Stutters, Sealed, UploadPhase
  <2>3. CASE Fsync
    BY <2>3 DEF Fsync, queue, Uploads, Stutters, Sealed, UploadPhase
  <2>4. CASE Complete
    BY <2>4, CompleteUploads
  <2>5. CASE Rethrow \/ Return
    BY <2>5, EndUploads
  <2>6. CASE ClientStep
    BY <2>6, ClientUploads
  <2>7. CASE Delivery \/ Crashes \/ UNCHANGED vars
    <3>1. UNCHANGED <<passed, length, acked, file, call, phase, lastError>>
      BY <2>7 DEF Delivery, Receive, Crashes, Crash, vars, local, pipeline, queue, cluster
    <3>2. QED
      BY <3>1 DEF Uploads, Stutters, Sealed, UploadPhase
  <2>8. QED
    BY <2>1, <2>2, <2>3, <2>4, <2>5, <2>6, <2>7 DEF Next, CallStep
<1>3. QED
  BY <1>1, <1>2, KeptInv, PTL DEF Spec

===============================================================================
