---- MODULE MCUpdater ----
(* A small instance of Updater.  Characters: 0 to 9 for digits, 20 for       *)
(* "beta".                                                                   *)
EXTENDS Updater

Release(num, pre) ==
  [num |-> num, pre |-> pre, beta |-> pre # << >> /\ pre[1] = 20,
   flagged |-> pre # << >>, draft |-> FALSE, asset |-> TRUE, sum |-> TRUE,
   works |-> TRUE]

First == Release(3, << >>)
Beta2 == Release(4, <<20, 2>>)
Beta10 == [Release(4, <<20, 1, 0>>) EXCEPT !.sum = FALSE]
Stable == Release(4, << >>)
Broken == [Release(5, << >>) EXCEPT !.works = FALSE]
Draft == [Release(6, << >>) EXCEPT !.draft = TRUE]

AllReleases == {Beta2, Beta10, Stable, Broken, Draft}
====
