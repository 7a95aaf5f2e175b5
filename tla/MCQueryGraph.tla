---------------------------- MODULE MCQueryGraph ----------------------------
(* A small page for TLC: two dimensions, two measures, one node of each kind *)
(* of spec.                                                                   *)
EXTENDS QueryGraph

Point(c, t, g) == [code |-> c, at |-> [time |-> t, geo |-> g]]

\* One observation has no geo: it is national.
FewObs == {Point("gdp", 1, 1), Point("gdp", 2, 1), Point("gdp", 2, 2),
           Point("pop", 1, 1), Point("pop", 2, 0)}

Any == [values |-> {}, ctx |-> None, not |-> 0]
Of(k) == [Any EXCEPT !.ctx = k]
NoFilter == [time |-> Any, geo |-> Any]

Plain ==
  [kind |-> "query", codes |-> {"gdp"}, filter |-> NoFilter, pipe |-> NoFilter,
   from |-> None, to |-> None, coords |-> {}, by |-> {},
   where |-> [time |-> 0, geo |-> 0], refs |-> {}, pctOf |-> None,
   joined |-> FALSE, drill |-> None, when |-> None, is |-> 0]

FewNodes == {"table", "map", "trend", "total", "kpi", "legend"}

\* table: query clamped by a dimension, pipe filter; map: bound channel; trend: series;
\* total: shares of a total; kpi: metric by time; legend: joined literal rows.
FewSpecs ==
  [table |-> [Plain EXCEPT !.filter.geo = Of("geo"), !.from = "time",
                           !.pipe.geo = [Any EXCEPT !.not = 2]],
   map |-> [Plain EXCEPT !.filter.time = Of("time"), !.refs = {"geo", "sort"}],
   trend |-> [Plain EXCEPT !.kind = "series", !.to = "time"],
   total |-> [Plain EXCEPT !.kind = "list", !.codes = {"gdp"}, !.pctOf = "pop"],
   kpi |-> [Plain EXCEPT !.kind = "metric", !.codes = {"pop"}, !.by = {"time"},
                         !.where = [time |-> 0, geo |-> 1], !.when = "view", !.is = 1],
   legend |-> [Plain EXCEPT !.kind = "rows", !.joined = TRUE, !.refs = {"sort"}]]

=============================================================================
