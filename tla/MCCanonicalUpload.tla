------------------------- MODULE MCCanonicalUpload --------------------------
(***************************************************************************)
(* Four uploads.  One has a display; one relabels the same member and      *)
(* widens the structure by an axis the database knows already; one would   *)
(* change the structure without a version; one only relabels the member.   *)
(***************************************************************************)
EXTENDS CanonicalUpload

CONSTANTS u1, u2, u3, u4, plain, wide, odd, relabel, region, sector, north, trade, A, B

MCTasks == {u1, u2, u3, u4}
MCThree == {u1, u2, u3}
MCBooks == {plain, wide, odd, relabel}
MCSends ==
  [t \in MCTasks |-> CASE t = u1 -> plain [] t = u2 -> wide [] t = u3 -> odd
                       [] t = u4 -> relabel]
MCThreeSend == [t \in MCThree |-> MCSends[t]]

\* The second upload relabels the member of the others.
MCThereAndBack == [t \in MCThree |-> IF t = u2 THEN relabel ELSE plain]

Plain ==
  [labels |-> [c \in Codes |-> IF c = north THEN A ELSE None], displays |-> {north},
   used |-> {north}, dims |-> {region}, versioned |-> FALSE]

Wide ==
  [labels |-> [c \in Codes |-> IF c = north THEN B ELSE A], displays |-> {},
   used |-> {north, trade}, dims |-> {region, sector}, versioned |-> TRUE]

MCBook ==
  [b \in MCBooks |->
     CASE b = plain -> Plain
       [] b = wide -> Wide
       [] b = odd -> [Plain EXCEPT !.dims = {sector}]
       [] b = relabel -> [Plain EXCEPT !.labels[north] = B]]

MCAxis == [c \in Codes |-> IF c = north THEN region ELSE sector]
=============================================================================
