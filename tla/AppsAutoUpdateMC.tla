--------------------------- MODULE AppsAutoUpdateMC ---------------------------
EXTENDS AppsAutoUpdate, TLC

\* One minute, then the interval.
BackoffMC == <<1>>

Symmetric == Permutations(Schedulers)

Edited == \E a \in Apps : edit[a].pc # "idle" \/ schedule[a].config > 1

Asked(type) == \E o \in ManualJobs : job[o].type = type

\* Bounds: scans overlap only as long as no app is edited or rolled back, and
\* an app is either edited or updated by hand.
OneThingAtATime ==
  /\ (Edited \/ Asked("rollback"))' => Cardinality({s \in Schedulers : scan'[s].pc # "idle"}) <= 1
  /\ ~(Edited /\ Asked("update"))'
=============================================================================
