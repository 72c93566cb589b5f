------------------------------ MODULE Matching ------------------------------
(***************************************************************************)
(* Which worker a request gets: filter/filter.go and the choice made by    *)
(* TakeBestMatchingWorker in workers/workers.go.  A capability is a        *)
(* key/value pair, so that a value that differs is a pair that is missing; *)
(* info maps a worker to a record with its sets caps and groups.           *)
(***************************************************************************)
EXTENDS Naturals, FiniteSets

isCapsMatching(info, caps) == caps \subseteq info.caps

\* A request whose owner is in no group may use every worker.
isGroupsMatching(info, groups) == groups = {} \/ groups \cap info.groups # {}

Match(info, groups, caps) == isGroupsMatching(info, groups) /\ isCapsMatching(info, caps)

\* The least capable worker is the best one.
Score(info) == Cardinality(info.caps) + Cardinality(info.groups)

\* The idle workers are listed by UUID; the first of those with the least
\* score is taken.
IsBest(w, candidates, info) ==
    /\ w \in candidates
    /\ \A v \in candidates :
           \/ Score(info[w]) < Score(info[v])
           \/ Score(info[w]) = Score(info[v]) /\ w <= v
=============================================================================
