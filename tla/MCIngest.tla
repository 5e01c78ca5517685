------------------------------- MODULE MCIngest -------------------------------
(* Two links that share the first message; the last message is one that is   *)
(* stored and not analysed (sent by the user, or without text).              *)
EXTENDS Ingest, TLC

CONSTANTS m1, m2, m3, l1, l2

MCListed == (l1 :> {m1, m2}) @@ (l2 :> {m1, m3})
==============================================================================
