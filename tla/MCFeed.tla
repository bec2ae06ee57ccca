------------------------------- MODULE MCFeed -------------------------------
(***************************************************************************)
(* Small feeds for TLC.  `a', `b' and `c' are ordinary prefixes and `lan'  *)
(* is one of the operator's own networks.                                  *)
(*   full     two entries                                                  *)
(*   half     one of full's two: a 50% drop                                *)
(*   lanned   an entry and the operator's own network                      *)
(*   page     an error page: nothing parses                                *)
(*   torn     an archive that does not unpack                              *)
(***************************************************************************)
EXTENDS FeedSafety, FeedClaims, FeedRefinement, TLC

MCLines ==
    [b \in Body |->
        CASE b = "full"   -> {<<1, "a">>, <<2, "b">>}
          [] b = "half"   -> {<<1, "a">>}
          [] b = "lanned" -> {<<1, "c">>, <<2, "lan">>}
          [] OTHER        -> {}]

MCRejected == [b \in Body |-> IF b = "page" THEN 2 ELSE 0]

(* Every body has a validator of its own. *)
MCTagged == [b \in Body |-> b]

(* No body has one. *)
MCUntagged == [b \in Body |-> NoTag]

(* Updates differ in nothing but the names of their processes. *)
Interchangeable == Permutations(Proc \ Rehearsing)
=============================================================================
