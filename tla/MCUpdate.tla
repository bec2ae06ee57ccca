------------------------------ MODULE MCUpdate ------------------------------
(***************************************************************************)
(* Two feeds, one of them in both aliases, and two targets.  The half list *)
(* is SUSPECT and alone has a validator, so that the 304 behind it meets   *)
(* the copy of a full list, or none.  A feed is FAILED by an error.        *)
(***************************************************************************)
EXTENDS UpdateSafety

MCLines ==
    [b \in Body |->
        CASE b = "full" -> {<<1, "a">>, <<2, "b">>}
          [] b = "half" -> {<<1, "a">>, <<2, "lan">>}]

MCRejected == [b \in Body |-> 0]
MCTagOf == [b \in Body |-> IF b \in Tag THEN b ELSE NoTag]

MCAliases == <<<<"drop", "tor">>, <<"tor">>>>
MCTargets == <<"first", "second">>
=============================================================================
