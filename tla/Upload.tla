--------------------------------- MODULE Upload --------------------------------
(***************************************************************************)
(* What createWriteStream promises a client that uses it as intended, with *)
(* no stream, worker or thread in sight: the chunks written become the     *)
(* file one after the other, and once the client has ended the stream the  *)
(* file is either completed with all of them or given up.                  *)
(***************************************************************************)
EXTENDS Naturals

CONSTANT Limit  \* bound: chunks the client writes

VARIABLES asked,    \* chunks written by the client
          sealed,   \* it will write no more
          content,  \* chunks in the file
          phase     \* of the file

upload == <<asked, sealed, content, phase>>

UInit == asked = 0 /\ sealed = FALSE /\ content = {} /\ phase = "new"

Ask  == ~sealed /\ asked < Limit /\ asked' = asked + 1 /\ UNCHANGED <<sealed, content, phase>>
Seal == ~sealed /\ sealed' = TRUE /\ UNCHANGED <<asked, content, phase>>
Open == phase = "new" /\ phase' = "open" /\ UNCHANGED <<asked, sealed, content>>

(* Data may still arrive in a file that was given up.                      *)
Append == /\ phase \in {"open", "abandoned"}
          /\ \E n \in 1 .. asked : content \subseteq 1 .. n - 1 /\ content' = 1 .. n
          /\ UNCHANGED <<asked, sealed, phase>>

Complete == /\ phase = "open" /\ sealed /\ content = 1 .. asked
            /\ phase' = "complete"
            /\ UNCHANGED <<asked, sealed, content>>

GiveUp == /\ phase \in {"new", "open"}
          /\ phase' = "abandoned"
          /\ UNCHANGED <<asked, sealed, content>>

UNext == Ask \/ Seal \/ Open \/ Append \/ Complete \/ GiveUp

(* A sealed file does not stay undecided.                                  *)
USpec == UInit /\ [][UNext]_upload /\ WF_upload(sealed /\ (Complete \/ GiveUp))
===============================================================================
