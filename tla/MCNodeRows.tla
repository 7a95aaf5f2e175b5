----------------------------- MODULE MCNodeRows -----------------------------
(* A small page for TLC: a map of one year, a trend of all, and a total.     *)
EXTENDS NodeRowsKeys

Point(c, t, g) == [code |-> c, at |-> [time |-> t, geo |-> g]]

FewObs == {Point("gdp", 1, 1), Point("gdp", 1, 2), Point("gdp", 2, 1), Point("pop", 1, 1)}

Any == [values |-> {}, ctx |-> None, not |-> 0]
NoFilter == [time |-> Any, geo |-> Any]

Plain ==
  [kind |-> "query", codes |-> {"gdp"}, filter |-> NoFilter, pipe |-> NoFilter,
   from |-> None, to |-> None, coords |-> {}, by |-> {},
   where |-> [time |-> 0, geo |-> 0], refs |-> {}, pctOf |-> None,
   joined |-> FALSE, drill |-> None, when |-> None, is |-> 0]

\* map: the year's regions, in the point perspective only, sorted by a variable;
\* trend: a series with joined labels; total: a metric of the region, in the range
\* perspective only.
FewSpecs ==
  [map |-> [Plain EXCEPT !.filter.time.ctx = "time", !.filter.geo = [Any EXCEPT !.not = 2],
                         !.refs = {"sort"}, !.when = "view", !.is = 1],
   trend |-> [Plain EXCEPT !.kind = "series", !.joined = TRUE],
   total |-> [Plain EXCEPT !.kind = "metric", !.codes = {"pop"}, !.by = {"time"},
                           !.when = "view", !.is = 2]]

FewNodes == DOMAIN FewSpecs

\* The total hangs below a node that waits itself.
FewLasting == {"map", "trend"}

\* The year is unset in the range perspective.
Base == [x \in SRC |-> IF x \in {dim("time"), param("view"), locale} THEN 1 ELSE 0]
FewPages == {"base", "sorted", "range"}
FewStates ==
  [base |-> Base, sorted |-> [Base EXCEPT ![var("sort")] = 1],
   range |-> [Base EXCEPT ![dim("time")] = 0, ![dim("geo")] = 1, ![param("view")] = 2,
                          ![locale] = 2]]
=============================================================================
