---------------------------- MODULE TargetSafety ----------------------------
(***************************************************************************)
(* What the file target promises, to its readers while runs overlap and    *)
(* stop half way, and to the operator when they do not.                    *)
(***************************************************************************)
EXTENDS FileTarget

Wanted(p, f) ==
    IF f \in NamesOf(sets[p])
    THEN (CHOOSE s \in Range(sets[p]) : s.name = f).content
    ELSE Absent

(* "readers never observe a partial list" (file.go:257): whatever runs     *)
(* overlap or stop half way, every file is a complete list at every moment.*)
NeverPartial == \A f \in Name : dir[f] # Partial

(* An alias that every run is configured with is never missing once it has *)
(* been published: replacing a list leaves no moment without one, and the  *)
(* stale files a run removes are never those of another run with the same  *)
(* aliases (file.go:132-160, 259-277).                                     *)
PublishedStays ==
    [][\A f \in Name :
          (dir[f] # Absent /\ \A given \in Sets : f \in NamesOf(given)) =>
              dir'[f] # Absent]_dir

(* When the last run of every process has completed, the directory is,     *)
(* file by file, what one of these last runs wanted it to be, however they *)
(* overlapped with each other and with earlier runs that stopped half way. *)
QuietAgrees ==
    (\A p \in Proc : pc[p] = "done" /\ p \notin dry) =>
        \A f \in Name : \E p \in Proc : dir[f] = Wanted(p, f)

(* The changes between two directories. *)
Differences(p, old) ==
    {<<f, IF old[f] = Absent THEN "create"
          ELSE IF old[f] = Wanted(p, f) THEN "unchanged"
          ELSE "update">> : f \in NamesOf(sets[p])}
    \union {<<f, "delete">> :
               f \in {g \in Name : old[g] # Absent} \ NamesOf(sets[p])}

(* "Apply must be idempotent; DryRun must perform no writes and report     *)
(* exactly what Apply would do" (target.go:44): a run that no other run    *)
(* disturbs ends with exactly its alias sets on disk, whatever crashed     *)
(* runs left there, and it and a dry run report exactly the differences    *)
(* between the directory they found and these sets.                        *)
LoneRunIsExact ==
    \A p \in Proc :
        /\ (alone[p] /\ pc[p] = "apply" /\ Len(report[p]) = Len(plans[p])) =>
              \A f \in Name : dir[f] = Wanted(p, f)
        /\ (alone[p] /\ Len(report[p]) = Len(plans[p])
              /\ pc[p] \in {"apply", "done"}) =>
              {<<c.file, c.kind>> : c \in Range(report[p])} =
                  Differences(p, before[p])
=============================================================================
