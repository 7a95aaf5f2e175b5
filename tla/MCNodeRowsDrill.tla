-------------------------- MODULE MCNodeRowsDrill ---------------------------
(* A page for TLC with one metric that a click drills down.                  *)
EXTENDS NodeRows

FewObs == {[code |-> "gdp", at |-> [time |-> t, geo |-> 1]] : t \in {1, 2}}

NoFilter == [d \in {"time", "geo"} |-> [values |-> {}, ctx |-> None, not |-> 0]]

FewSpecs ==
  [kpi |->
     [kind |-> "metric", codes |-> {"gdp"}, filter |-> NoFilter, pipe |-> NoFilter,
      from |-> None, to |-> None, coords |-> {}, by |-> {"time"},
      where |-> [time |-> 0, geo |-> 0], refs |-> {}, pctOf |-> None, joined |-> FALSE,
      drill |-> "level", when |-> None, is |-> 0]]

FewNodes == DOMAIN FewSpecs

\* The click writes the level into the node's drill parameter.
Base == [x \in SRC |-> IF x = locale THEN 1 ELSE 0]
FewPages == {"base", "drilled"}
FewStates == [base |-> Base, drilled |-> [Base EXCEPT ![param("level")] = 1]]
=============================================================================
