--------------------------- MODULE MCChezChannel ---------------------------
(* A small instance of ChezChannel: two senders, two receivers, and a thread  *)
(* that uses both kinds of Maybe get.  There are three messages and two       *)
(* blocking gets, and the Maybe get takes one message at most, so no blocking *)
(* get is left without a message.  One message is compiled to '().            *)
EXTENDS ChezChannel, TLC

CONSTANTS p1, p2, c1, c2, n

MCDoes == (p1 :> {"put"}) @@ (p2 :> {"put"}) @@ (c1 :> {"get"}) @@ (c2 :> {"get"})
          @@ (n :> {"try", "timed"})
MCQuota == (p1 :> 2) @@ (p2 :> 1) @@ (c1 :> 1) @@ (c2 :> 1) @@ (n :> 1)
MCNullMsgs == {<<p1, 2>>}
=============================================================================
