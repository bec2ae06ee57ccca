----------------------------- MODULE FeedClaims -----------------------------
(***************************************************************************)
(* Sentences of the repository's documents, comments and tests that the    *)
(* code does not keep.  Each is violated by the run of the same name; the  *)
(* README tells the stories of the counterexamples.                        *)
(***************************************************************************)
EXTENDS FeedRun

(* "Zero entries: parsed successfully but produced 0 prefixes, FAILED"     *)
(* (docs/SPEC.md:127).  An error page with a validator is FAILED once; the *)
(* 304 that follows it is OK, with nothing in the list.                    *)
ZeroEntriesIsFailed ==
    outcome.status \in {"OK", "SUSPECT", "STALE"} => outcome.prefixes # {}

(* "If a feed has been FAILED for more than stale_max (default 14 days),   *)
(* stop using the cached copy" (docs/SPEC.md:140): a feed whose previous   *)
(* run was not FAILED, and not longer than StaleMax ago, keeps its cached  *)
(* copy.  The cutoff looks at the last OK run instead, so the first        *)
(* failure after a row of SUSPECT runs drops the feed at once.             *)
DroppedOnlyAfterLongFailure ==
    [][(outcome' # outcome /\ outcome'.dropped /\ snapshot # {}) =>
          \/ outcome.status \in {"", "FAILED"}
          \/ outcome'.now - outcome.now > StaleMax]_vars

(* "A FAILED feed does not produce an empty list. It falls back to the     *)
(* last-good cached copy" (docs/SPEC.md:138).  A run stopped between the   *)
(* two writes leaves a record that claims a copy which is not there.       *)
FallbackIsNotEmpty == outcome.usedLastGood => outcome.prefixes # {}
=============================================================================
