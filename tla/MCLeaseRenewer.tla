----------------------------- MODULE MCLeaseRenewer -----------------------------
(* Four streams: three of one file system, so that one is left open when    *)
(* another is closed and a third is opened after the last, and one of       *)
(* another file system.                                                     *)
EXTENDS LeaseRenewer

MCfs == [s \in Stream |-> IF s = "s4" THEN "b" ELSE "a"]
===============================================================================
