--------------------------- MODULE CodelistProofs ---------------------------
(***************************************************************************)
(* The gold of the reference kinds, for any number of submissions, codes   *)
(* and payloads: one current row per code, history kept, paths right, what *)
(* was validated stays valid, and what is published lands.                 *)
(***************************************************************************)
EXTENDS Codelist, FiniteSetTheorems, SequenceTheorems, TLAPS

Working(j) == job[j].step \in {"open", "close", "insert"}

\* What a publish holds, it holds while it runs; a code is at hand until it is inserted.
PhaseInv ==
  \A j \in Jobs :
    /\ ~Working(j) => job[j].todo = {} /\ job[j].closes = {} /\ job[j].news = {}
    /\ job[j].step # "idle" => \/ job[j].kind = "codelists" /\ job[j].payload \in Codelists
                               \/ job[j].kind = "displays" /\ job[j].payload \in Displays
    /\ Working(j) => job[j].kind = "codelists" /\ job[j].todo \subseteq DOMAIN job[j].payload
    /\ job[j].step = "bound" => job[j].kind = "displays"
    /\ job[j].step \in {"close", "insert"} => job[j].code \in job[j].todo

\* An id is drawn once.
IdInv ==
  /\ \A r \in gold : job[r.id[1]].step = "done" /\ r.id[2] = r.code
  /\ \A r, s \in gold : r.id = s.id => r = s
  /\ \A j \in Jobs : \A r \in job[j].news :
       r.id = <<j, r.code>> /\ r.current /\ r.code \notin job[j].todo
  /\ \A j \in Jobs : \A r, s \in job[j].news : r.code = s.code => r = s

\* One current row of a code is committed at most; who has closed it, or has inserted a
\* row of a code, is alone with that code; what is closed is replaced before the commit.
LockInv ==
  /\ \A r, s \in gold : r.current /\ s.current /\ r.code = s.code => r = s
  /\ \A j \in Jobs : \A i \in job[j].closes : \E r \in gold : r.id = i /\ r.current
  /\ \A j, k \in Jobs : j # k => job[j].closes \cap job[k].closes = {}
  /\ \A j, k \in Jobs : \A r \in job[j].news, s \in job[k].news : j # k => r.code # s.code
  /\ \A j \in Jobs : \A r \in job[j].news, s \in gold :
       s.current /\ s.code = r.code => s.id \in job[j].closes
  /\ \A j \in Jobs : \A r \in gold : r.id \in job[j].closes =>
       \/ \E s \in job[j].news : s.code = r.code
       \/ job[j].step = "insert" /\ job[j].code = r.code

\* A code that is in gold has a current row.
KeptInv == \A r \in gold : \E s \in gold : s.code = r.code /\ s.current

Rows == gold \cup UNION {job[j].news : j \in Jobs}

Chained(r, S) ==
  IF r.parent = None THEN r.path = <<r.code>>
  ELSE \E q \in S : q.code = r.parent /\ r.path = Append(q.path, r.code)

\* The parent and the path of a code are settled by its first row.
TreeInv ==
  /\ \A r \in Rows : \E p \in Codelists : r.code \in DOMAIN p /\ r.parent = p[r.code].parent
  /\ \A r \in Rows : r.parent # r.code
  /\ \A r, s \in Rows : r.code = s.code => r.path = s.path
  /\ \A r \in gold : Chained(r, gold)
  /\ \A j \in Jobs : \A r \in job[j].news : Chained(r, gold \cup job[j].news)
  /\ \A j \in Jobs : job[j].step \in {"close", "insert"} =>
       LET parent == job[j].payload[job[j].code].parent
       IN  \/ parent = None
           \/ parent # job[j].code /\ \E r \in gold \cup job[j].news : r.code = parent

ValidInv ==
  \A j \in Jobs : job[j].step = "staged" \/ Working(j) => Valid(job[j].kind, job[j].payload)

\* A code that no overlapping publish has written is as j left it.
LandInv ==
  \A j \in Jobs :
    LET p == job[j].payload
        c == job[j].code
    IN  /\ Working(j) => \A d \in DOMAIN p \ (job[j].todo \cup job[j].rival) :
             \E r \in Current(j, d) : r.label = p[d].label
        /\ job[j].step = "close" /\ job[j].target # None =>
             \E r \in gold : r.id = job[j].target /\ r.code = c
        /\ job[j].step = "close" /\ c \notin job[j].rival =>
             IF job[j].target = None THEN \A r \in Current(j, c) : r.label = p[c].label
             ELSE \E r \in gold : r.id = job[j].target /\ r.current
        /\ job[j].step = "insert" /\ c \notin job[j].rival =>
             \A r \in Current(j, c) : r.label = p[c].label
        /\ job[j].step = "bound" =>
             /\ \A a, b \in job[j].bound : a[1] = b[1] => a = b
             /\ \A d \in DOMAIN p \ job[j].rival : \E r \in gold :
                  r.current /\ r.code = d /\ <<r.id, p[d]>> \in job[j].bound

-----------------------------------------------------------------------------
(* The steps, field by field.                                               *)

\* All but the job at work, and the rows, are as they were.
Only(j) == UNCHANGED <<gold, overlay>> /\ \A k \in Jobs \ {j} : job'[k] = job[k]

Submits(j) ==
  \/ \E p \in Codelists : Submit(j, "codelists", p)
  \/ \E p \in Displays : Submit(j, "displays", p)

Carries(kind, p) ==
  \/ kind = "codelists" /\ p \in Codelists
  \/ kind = "displays" /\ p \in Displays

LEMMA SubmitDoes ==
  ASSUME TypeOK, NEW j \in Jobs, Submits(j)
  PROVE  /\ Only(j) /\ job' \in [Jobs -> Record] /\ job[j].step = "idle"
         /\ \E kind \in {"codelists", "displays"} : \E p \in Codelists \cup Displays :
              /\ Carries(kind, p)
              /\ Valid(kind, p)
              /\ job'[j] = [job[j] EXCEPT !.step = "staged", !.kind = kind, !.payload = p]
<1>1. PICK kind \in {"codelists", "displays"}, p \in Codelists \cup Displays :
        /\ Carries(kind, p)
        /\ Submit(j, kind, p)
  <2>1. ASSUME NEW q \in Codelists, Submit(j, "codelists", q)
        PROVE  Carries("codelists", q)
    BY DEF Carries
  <2>2. ASSUME NEW q \in Displays, Submit(j, "displays", q)
        PROVE  Carries("displays", q)
    BY DEF Carries
  <2> QED
    BY <2>1, <2>2 DEF Submits
<1>2. job' = [job EXCEPT ![j] = [job[j] EXCEPT !.step = "staged", !.kind = kind,
                                                !.payload = p]]
  BY <1>1 DEF Submit, TypeOK
<1>3. [job[j] EXCEPT !.step = "staged", !.kind = kind, !.payload = p] \in Record
  <2>1. /\ job[j] \in Record /\ "staged" \in Steps
        /\ kind \in {"none", "codelists", "displays"}
        /\ p \in Codelists \cup Displays \cup {<<>>}
    BY <1>1 DEF TypeOK, Steps
  <2> QED
    BY <2>1 DEF Record
<1>4. /\ job' \in [Jobs -> Record]
      /\ job'[j] = [job[j] EXCEPT !.step = "staged", !.kind = kind, !.payload = p]
  BY <1>2, <1>3 DEF TypeOK
<1>5. Only(j) /\ job[j].step = "idle" /\ Valid(kind, p)
  BY <1>1, <1>2 DEF Submit, Only, TypeOK
<1> QED
  BY <1>1, <1>4, <1>5

LEMMA BeginDoes ==
  ASSUME TypeOK, PhaseInv, NEW j \in Jobs, Begin(j)
  PROVE  /\ Only(j) /\ job' \in [Jobs -> Record]
         /\ job[j].step = "staged" /\ job[j].kind = "codelists"
         /\ job'[j] = [job[j] EXCEPT !.step = "open", !.todo = DOMAIN job[j].payload]
<1>1. DOMAIN job[j].payload \subseteq Codes
  BY ConstantsOK DEF Begin, PhaseInv
<1>2. job' = [job EXCEPT ![j] = [job[j] EXCEPT !.step = "open", !.todo = DOMAIN job[j].payload]]
  BY DEF Begin, TypeOK
<1> QED
  BY <1>1, <1>2 DEF Begin, Only, TypeOK, Record, Steps

LEMMA FindDoes ==
  ASSUME TypeOK, NEW j \in Jobs, Find(j)
  PROVE  /\ Only(j) /\ job' \in [Jobs -> Record] /\ job[j].step = "open"
         /\ \E c \in job[j].todo :
              \E t \in Ids \cup {None} :
                /\ Ready(j, c)
                /\ t = None => \A r \in Current(j, c) : r.label = job[j].payload[c].label
                /\ t # None => \E r \in Current(j, c) : r.id = t
                /\ job'[j] = [job[j] EXCEPT !.step = "close", !.code = c, !.target = t]
<1>1. PICK c \in job[j].todo, t \in Ids \cup {None} :
        /\ Ready(j, c)
        /\ t = None => \A r \in Current(j, c) : r.label = job[j].payload[c].label
        /\ t # None => \E r \in Current(j, c) : r.id = t
        /\ job' = [job EXCEPT ![j].step = "close", ![j].code = c, ![j].target = t]
  <2>1. PICK c \in job[j].todo :
          /\ Ready(j, c)
          /\ LET differ == {r \in Current(j, c) : r.label # job[j].payload[c].label}
             IN  \E t \in IF differ = {} THEN {None} ELSE {r.id : r \in differ} :
                   job' = [job EXCEPT ![j].step = "close", ![j].code = c, ![j].target = t]
    BY DEF Find
  <2>2. Current(j, c) \subseteq Row
    BY DEF TypeOK, Record, Current
  <2>3. \A r \in Current(j, c) : r.id \in Ids /\ r.id # None
    BY <2>2, ConstantsOK DEF Row, Ids
  <2>4. PICK t : /\ t \in IF {r \in Current(j, c) : r.label # job[j].payload[c].label} = {}
                         THEN {None}
                         ELSE {r.id : r \in {q \in Current(j, c) : q.label # job[j].payload[c].label}}
                 /\ job' = [job EXCEPT ![j].step = "close", ![j].code = c, ![j].target = t]
    BY <2>1
  <2>5. CASE {r \in Current(j, c) : r.label # job[j].payload[c].label} = {}
    <3>1. t = None /\ \A r \in Current(j, c) : r.label = job[j].payload[c].label
      BY <2>4, <2>5
    <3> QED
      BY <2>1, <2>4, <3>1
  <2>6. CASE {r \in Current(j, c) : r.label # job[j].payload[c].label} # {}
    <3>1. \E r \in Current(j, c) : r.id = t
      BY <2>4, <2>6
    <3>2. t \in Ids /\ t # None
      BY <2>3, <3>1
    <3> QED
      BY <2>1, <2>4, <3>1, <3>2
  <2> QED
    BY <2>5, <2>6
<1>2. c \in Codes
  BY DEF TypeOK, Record, Steps
<1>3. job' = [job EXCEPT ![j] = [job[j] EXCEPT !.step = "close", !.code = c, !.target = t]]
  BY <1>1 DEF TypeOK
<1>4. Only(j) /\ job[j].step = "open"
  BY <1>3 DEF Find, Only, TypeOK
<1>5. [job[j] EXCEPT !.step = "close", !.code = c, !.target = t] \in Record
  <2>1. t \in Ids \cup {None} /\ c \in Codes \cup {None} /\ job[j] \in Record
    BY <1>1, <1>2 DEF TypeOK
  <2> QED
    BY <2>1 DEF Record, Steps
<1>6. job' \in [Jobs -> Record]
        /\ job'[j] = [job[j] EXCEPT !.step = "close", !.code = c, !.target = t]
  BY <1>3, <1>5 DEF TypeOK
<1> QED
  BY <1>1, <1>4, <1>6

LEMMA CloseDoes ==
  ASSUME TypeOK, NEW j \in Jobs, Close(j)
  PROVE  /\ Only(j) /\ job' \in [Jobs -> Record] /\ job[j].step = "close"
         /\ \A k \in Jobs \ {j} : job[j].target \notin job[k].closes
         /\ \E C \in SUBSET {r.id : r \in {s \in gold : s.current}} :
              /\ \A r \in gold : r.current => (r.id \in C <=> r.id = job[j].target)
              /\ C \subseteq {job[j].target}
              /\ job'[j] = [job[j] EXCEPT !.step = "insert", !.target = None,
                                          !.closes = job[j].closes \cup C]
<1> DEFINE C == {r.id : r \in {s \in gold : s.current /\ s.id = job[j].target}}
<1>1. /\ C \subseteq {r.id : r \in {s \in gold : s.current}} /\ C \subseteq {job[j].target}
      /\ \A r \in gold : r.current => (r.id \in C <=> r.id = job[j].target)
  OBVIOUS
<1>2. C \subseteq Ids
  BY DEF TypeOK, Row
<1>3. job' = [job EXCEPT ![j].step = "insert", ![j].target = None,
                         ![j].closes = job[j].closes \cup C]
  BY DEF Close
<1>4. job[j].closes \cup C \in SUBSET Ids
  BY <1>2 DEF TypeOK, Record, Steps
<1>5. job' = [job EXCEPT ![j] = [job[j] EXCEPT !.step = "insert", !.target = None,
                                               !.closes = job[j].closes \cup C]]
  BY <1>3 DEF TypeOK
<1>6. /\ Only(j) /\ job[j].step = "close"
      /\ \A k \in Jobs \ {j} : job[j].target \notin job[k].closes
  BY <1>5 DEF Close, Only, TypeOK
<1> HIDE DEF C
<1>7. job' \in [Jobs -> Record]
        /\ job'[j] = [job[j] EXCEPT !.step = "insert", !.target = None,
                                    !.closes = job[j].closes \cup C]
  <2>1. [job[j] EXCEPT !.step = "insert", !.target = None,
                       !.closes = job[j].closes \cup C] \in Record
    <3>1. None \in Ids \cup {None} /\ "insert" \in Steps /\ job[j] \in Record
      BY DEF TypeOK, Steps
    <3> QED
      BY <1>4, <3>1 DEF Record
  <2> QED
    BY <1>5, <2>1 DEF TypeOK
<1> QED
  BY <1>1, <1>6, <1>7

LEMMA LeaveDoes ==
  ASSUME TypeOK, NEW j \in Jobs, NEW st \in {"done", "failed"}, NEW W \in SUBSET Codes,
         job' = Leave(j, st, W)
  PROVE  /\ job' \in [Jobs -> Record]
         /\ job'[j] = [Idle EXCEPT !.step = st, !.kind = job[j].kind, !.payload = job[j].payload]
         /\ \A k \in Jobs \ {j} : \E rv \in SUBSET Codes :
              /\ job'[k] = [job[k] EXCEPT !.rival = rv]
              /\ rv \subseteq job[k].rival \cup W
              /\ Working(k) \/ job[k].step = "bound" => W \cup job[k].rival \subseteq rv
<1>1. Idle \in [step : {"idle"}, kind : {"none"}, payload : {<<>>}, todo : {{}}, code : {None},
                target : {None}, closes : {{}}, news : {{}}, bound : {{}}, rival : {{}}]
  BY DEF Idle
<1>2. /\ [Idle EXCEPT !.step = st, !.kind = job[j].kind, !.payload = job[j].payload] \in Record
      /\ job'[j] = [Idle EXCEPT !.step = st, !.kind = job[j].kind, !.payload = job[j].payload]
  BY <1>1 DEF TypeOK, Record, Leave, Steps
<1>3. ASSUME NEW k \in Jobs \ {j}
      PROVE  \E rv \in SUBSET Codes :
              /\ job'[k] = [job[k] EXCEPT !.rival = rv] /\ job'[k] \in Record
              /\ rv \subseteq job[k].rival \cup W
              /\ Working(k) \/ job[k].step = "bound" => W \cup job[k].rival \subseteq rv
  <2>1. CASE Working(k) \/ job[k].step = "bound"
    <3>1. job'[k] = [job[k] EXCEPT !.rival = job[k].rival \cup W]
      BY <2>1 DEF Leave, Working
    <3>2. job[k].rival \cup W \in SUBSET Codes
      BY DEF TypeOK, Record, Steps
    <3>3. [job[k] EXCEPT !.rival = job[k].rival \cup W] \in Record
      BY <3>2 DEF TypeOK, Record, Steps
    <3> QED
      BY <3>1, <3>2, <3>3
  <2>2. CASE ~(Working(k) \/ job[k].step = "bound")
    <3>1. job'[k] = job[k]
      BY <2>2 DEF Leave, Working
    <3>2. job[k] = [job[k] EXCEPT !.rival = job[k].rival]
      BY DEF TypeOK, Record, Steps
    <3> QED
      BY <2>2, <3>1, <3>2 DEF TypeOK, Record, Steps
  <2> QED
    BY <2>1, <2>2
<1>4. job' \in [Jobs -> Record]
  <2>1. \A k \in Jobs : job'[k] \in Record
    BY <1>2, <1>3
  <2>2. job' = [k \in Jobs |-> job'[k]]
    BY DEF Leave
  <2> QED
    BY <2>1, <2>2
<1> QED
  BY <1>2, <1>3, <1>4

\* A code that is visible to j has a row that is current to j, but for the one at hand.
LEMMA Visible ==
  ASSUME IdInv, LockInv, KeptInv, NEW j \in Jobs, NEW d,
         \E r \in gold \cup job[j].news : r.code = d,
         job[j].step = "insert" => job[j].code # d
  PROVE  Current(j, d) # {}
<1>1. CASE \E r \in job[j].news : r.code = d
  BY <1>1 DEF Current
<1>2. CASE \E r \in gold : r.code = d
  <2>1. PICK s \in gold : s.code = d /\ s.current
    BY <1>2 DEF KeptInv
  <2>2. CASE s.id \notin job[j].closes
    BY <2>1, <2>2 DEF Current
  <2>3. CASE s.id \in job[j].closes
    <3>1. \E n \in job[j].news : n.code = d
      BY <2>1, <2>3 DEF LockInv
    <3> QED
      BY <3>1 DEF Current
  <2> QED
    BY <2>2, <2>3
<1> QED
  BY <1>1, <1>2

\* What Insert adds to the rows of j, if anything.
Adds(j, N) ==
  LET c == job[j].code
      p == job[j].payload
  IN  \/ Current(j, c) # {} /\ N = {}
      \/ /\ Current(j, c) = {}
         /\ \E r \in Row :
              /\ N = {r}
              /\ r.id = <<j, c>> /\ r.code = c /\ r.label = p[c].label
              /\ r.parent = p[c].parent /\ r.current
              /\ IF r.parent = None THEN r.path = <<c>>
                 ELSE \E q \in Current(j, r.parent) : r.path = Append(q.path, c)

LEMMA InsertDoes ==
  ASSUME TypeOK, PhaseInv, IdInv, LockInv, KeptInv, TreeInv, NEW j \in Jobs, Insert(j)
  PROVE  /\ Only(j) /\ job' \in [Jobs -> Record] /\ job[j].step = "insert"
         /\ \A k \in Jobs \ {j} : job[j].code \notin Written(k)
         /\ \E N \in SUBSET Row :
              /\ Adds(j, N)
              /\ job'[j] = [job[j] EXCEPT !.step = "open", !.todo = job[j].todo \ {job[j].code},
                                          !.code = None, !.news = job[j].news \cup N]
<1> DEFINE c == job[j].code
           p == job[j].payload
           n == NewRow(j, c)
           N == IF Current(j, c) = {} THEN {n} ELSE {}
<1>0. job[j].step = "insert"
  BY DEF Insert
<1>1. /\ c \in Codes /\ c \in DOMAIN p /\ p \in Codelists
      /\ p[c].label \in Labels /\ p[c].parent \in Codes \cup {None}
  <2>1. Working(j)
    BY <1>0 DEF Working
  <2>2. c \in job[j].todo /\ job[j].kind = "codelists" /\ job[j].todo \subseteq DOMAIN p
    BY <1>0, <2>1 DEF PhaseInv
  <2>3. p \in Codelists
    BY <1>0, <2>2 DEF PhaseInv
  <2> QED
    BY <2>2, <2>3, ConstantsOK
<1>2. /\ n.id = <<j, c>> /\ n.code = c /\ n.label = p[c].label
      /\ n.parent = p[c].parent /\ n.current /\ n.path = PathOf(j, c)
  BY DEF NewRow
<1>3. /\ PathOf(j, c) \in Seq(Codes)
      /\ IF p[c].parent = None THEN PathOf(j, c) = <<c>>
         ELSE \E q \in Current(j, p[c].parent) : PathOf(j, c) = Append(q.path, c)
  <2>1. CASE p[c].parent = None
    BY <1>1, <2>1 DEF PathOf
  <2>2. CASE p[c].parent # None
    <3>1. p[c].parent # c /\ \E r \in gold \cup job[j].news : r.code = p[c].parent
      BY <1>0, <2>2 DEF TreeInv
    <3>2. Current(j, p[c].parent) # {}
      BY <1>0, <3>1, Visible
    <3>3. PICK q \in Current(j, p[c].parent) : PathOf(j, c) = Append(q.path, c)
      BY <2>2, <3>2 DEF PathOf
    <3>4. q \in Row
      BY DEF Current, TypeOK, Record
    <3>5. q.path \in Seq(Codes)
      BY <3>4 DEF Row
    <3>6. Append(q.path, c) \in Seq(Codes)
      BY <1>1, <3>5
    <3> QED
      BY <2>2, <3>3, <3>6
  <2> QED
    BY <2>1, <2>2
<1>4. n \in Row
  <2>1. <<j, c>> \in Ids
    BY <1>1 DEF Ids
  <2> QED
    BY <1>1, <1>3, <2>1 DEF NewRow, Row
<1>5. Adds(j, N)
  <2>1. CASE Current(j, c) = {}
    BY <1>2, <1>3, <1>4, <2>1 DEF Adds
  <2>2. CASE Current(j, c) # {}
    BY <2>2 DEF Adds
  <2> QED
    BY <2>1, <2>2
<1>6. job' = [job EXCEPT ![j].step = "open", ![j].todo = job[j].todo \ {c},
                 ![j].code = None, ![j].news = job[j].news \cup N]
  BY DEF Insert
<1>7. N \in SUBSET Row
  BY <1>4
<1> HIDE DEF c, N
<1>8. job' = [job EXCEPT ![j] = [job[j] EXCEPT !.step = "open", !.todo = job[j].todo \ {c},
                                               !.code = None, !.news = job[j].news \cup N]]
  BY <1>6 DEF TypeOK
<1>9. [job[j] EXCEPT !.step = "open", !.todo = job[j].todo \ {c},
                     !.code = None, !.news = job[j].news \cup N] \in Record
  <2>1. /\ job[j] \in Record /\ "open" \in Steps /\ None \in Codes \cup {None}
        /\ job[j].todo \ {c} \in SUBSET Codes /\ job[j].news \cup N \in SUBSET Row
    BY <1>7 DEF TypeOK, Record, Steps
  <2> QED
    BY <2>1 DEF Record
<1>10. /\ job' \in [Jobs -> Record]
       /\ job'[j] = [job[j] EXCEPT !.step = "open", !.todo = job[j].todo \ {c},
                                   !.code = None, !.news = job[j].news \cup N]
  BY <1>8, <1>9 DEF TypeOK
<1>11. Only(j) /\ \A k \in Jobs \ {j} : c \notin Written(k)
  BY <1>8 DEF Insert, Only, TypeOK, c
<1> QED
  BY <1>0, <1>5, <1>7, <1>10, <1>11 DEF c

LEMMA BindDoes ==
  ASSUME TypeOK, PhaseInv, NEW j \in Jobs, Bind(j)
  PROVE  /\ Only(j) /\ job' \in [Jobs -> Record]
         /\ job[j].step = "staged" /\ job[j].kind = "displays"
         /\ Valid("displays", job[j].payload)
         /\ \E B \in SUBSET (Ids \X Texts) :
              /\ B = {<<r.id, job[j].payload[r.code]>> :
                        r \in {s \in gold : s.current /\ s.code \in DOMAIN job[j].payload}}
              /\ job'[j] = [job[j] EXCEPT !.step = "bound", !.bound = B]
<1> DEFINE B == {<<r.id, job[j].payload[r.code]>> :
                   r \in {s \in gold : s.current /\ s.code \in DOMAIN job[j].payload}}
<1>1. B \in SUBSET (Ids \X Texts)
  <2>1. job[j].payload \in Displays
    BY DEF Bind, PhaseInv
  <2>2. \A r \in gold : r.id \in Ids
    BY DEF TypeOK, Row
  <2> QED
    BY <2>1, <2>2, ConstantsOK
<1>2. job' = [job EXCEPT ![j].step = "bound", ![j].bound = B]
  BY DEF Bind
<1>3. B = {<<r.id, job[j].payload[r.code]>> :
             r \in {s \in gold : s.current /\ s.code \in DOMAIN job[j].payload}}
  OBVIOUS
<1> HIDE DEF B
<1>4. job' = [job EXCEPT ![j] = [job[j] EXCEPT !.step = "bound", !.bound = B]]
  BY <1>2 DEF TypeOK
<1>5. [job[j] EXCEPT !.step = "bound", !.bound = B] \in Record
  <2>1. job[j] \in Record /\ "bound" \in Steps
    BY DEF TypeOK, Steps
  <2> QED
    BY <1>1, <2>1 DEF Record
<1>6. /\ Only(j) /\ job' \in [Jobs -> Record]
      /\ job'[j] = [job[j] EXCEPT !.step = "bound", !.bound = B]
  BY <1>4, <1>5 DEF Bind, Only, TypeOK
<1> QED
  BY <1>1, <1>3, <1>6 DEF Bind

Retired(r) == [r EXCEPT !.current = FALSE]

\* A commit retires what it has closed and adds what it has inserted.
LEMMA CommitDoes ==
  ASSUME TypeOK, NEW j \in Jobs, CommitCodelist(j)
  PROVE  /\ job[j].step = "open" /\ job[j].todo = {} /\ overlay' = overlay
         /\ job' = Leave(j, "done", Written(j)) /\ Written(j) \subseteq Codes
         /\ gold' \subseteq Row /\ job[j].news \subseteq gold'
         /\ \A r \in gold : r.id \notin job[j].closes => r \in gold'
         /\ \A r \in gold : r.id \in job[j].closes => Retired(r) \in gold'
         /\ \A r \in gold : /\ Retired(r).id = r.id /\ Retired(r).code = r.code
                            /\ Retired(r).parent = r.parent /\ Retired(r).path = r.path
                            /\ Retired(r).current = FALSE
         /\ \A r \in gold' : \/ r \in job[j].news
                             \/ r \in gold /\ r.id \notin job[j].closes
                             \/ \E s \in gold : s.id \in job[j].closes /\ r = Retired(s)
<1>1. \A r \in gold : /\ Retired(r) \in Row
                      /\ Retired(r).id = r.id /\ Retired(r).code = r.code
                      /\ Retired(r).parent = r.parent /\ Retired(r).path = r.path
                      /\ Retired(r).current = FALSE
  BY DEF TypeOK, Row, Retired
<1>2. gold' = {IF r.id \in job[j].closes THEN Retired(r) ELSE r : r \in gold} \cup job[j].news
  BY DEF CommitCodelist, Retired
<1>3. job[j].news \subseteq Row /\ gold \subseteq Row
  BY DEF TypeOK, Record
<1>4. Written(j) \subseteq Codes
  BY <1>3 DEF Written, Row
<1>5. gold' \subseteq Row
  BY <1>1, <1>2, <1>3
<1>6. /\ \A r \in gold : r.id \notin job[j].closes => r \in gold'
      /\ \A r \in gold : r.id \in job[j].closes => Retired(r) \in gold'
      /\ \A r \in gold' : \/ r \in job[j].news
                          \/ r \in gold /\ r.id \notin job[j].closes
                          \/ \E s \in gold : s.id \in job[j].closes /\ r = Retired(s)
  BY <1>2
<1> QED
  BY <1>1, <1>2, <1>4, <1>5, <1>6 DEF CommitCodelist

-----------------------------------------------------------------------------
(* The invariant, part by part.                                             *)

Inv ==
  /\ TypeOK /\ PhaseInv /\ IdInv /\ LockInv /\ KeptInv /\ TreeInv /\ ValidInv /\ LandInv

LEMMA InitInv == ASSUME Init PROVE Inv
<1>1. \A j \in Jobs :
        /\ job[j].step = "idle" /\ job[j].kind = "none" /\ job[j].payload = <<>>
        /\ job[j].todo = {} /\ job[j].code = None /\ job[j].target = None
        /\ job[j].closes = {} /\ job[j].news = {} /\ job[j].bound = {} /\ job[j].rival = {}
  BY DEF Init, Idle
<1>2. TypeOK
  BY DEF Init, TypeOK, Record, Steps, Idle
<1>3. PhaseInv /\ ValidInv /\ LandInv
  BY <1>1 DEF PhaseInv, ValidInv, LandInv, Working
<1>4. IdInv /\ LockInv /\ KeptInv
  BY <1>1 DEF Init, IdInv, LockInv, KeptInv
<1>5. TreeInv
  <2>1. gold = {} /\ Rows = {}
    BY <1>1 DEF Init, Rows
  <2> QED
    BY <1>1, <2>1 DEF TreeInv
<1> QED
  BY <1>2, <1>3, <1>4, <1>5 DEF Inv

\* What a commit or a failure leaves of the jobs.
LEMMA LeaveFields ==
  ASSUME TypeOK, NEW j \in Jobs, NEW st \in {"done", "failed"}, NEW W \in SUBSET Codes,
         job' = Leave(j, st, W)
  PROVE  /\ job' \in [Jobs -> Record]
         /\ job'[j].step = st /\ job'[j].kind = job[j].kind
         /\ job'[j].payload = job[j].payload
         /\ job'[j].todo = {} /\ job'[j].closes = {} /\ job'[j].news = {}
         /\ \A k \in Jobs \ {j} :
              /\ job'[k].step = job[k].step /\ job'[k].kind = job[k].kind
              /\ job'[k].payload = job[k].payload /\ job'[k].todo = job[k].todo
              /\ job'[k].code = job[k].code /\ job'[k].target = job[k].target
              /\ job'[k].closes = job[k].closes /\ job'[k].news = job[k].news
              /\ job'[k].bound = job[k].bound
              /\ Working(k) \/ job[k].step = "bound" => W \cup job[k].rival \subseteq job'[k].rival
<1>1. /\ job' \in [Jobs -> Record]
      /\ job'[j] = [Idle EXCEPT !.step = st, !.kind = job[j].kind, !.payload = job[j].payload]
      /\ \A k \in Jobs \ {j} : \E rv \in SUBSET Codes :
           /\ job'[k] = [job[k] EXCEPT !.rival = rv]
           /\ Working(k) \/ job[k].step = "bound" => W \cup job[k].rival \subseteq rv
  BY LeaveDoes
<1>2. /\ job'[j].step = st /\ job'[j].kind = job[j].kind
      /\ job'[j].payload = job[j].payload
      /\ job'[j].todo = {} /\ job'[j].closes = {} /\ job'[j].news = {}
  BY <1>1 DEF Idle
<1>3. ASSUME NEW k \in Jobs \ {j}
      PROVE   /\ job'[k].step = job[k].step /\ job'[k].kind = job[k].kind
              /\ job'[k].payload = job[k].payload /\ job'[k].todo = job[k].todo
              /\ job'[k].code = job[k].code /\ job'[k].target = job[k].target
              /\ job'[k].closes = job[k].closes /\ job'[k].news = job[k].news
              /\ job'[k].bound = job[k].bound
              /\ Working(k) \/ job[k].step = "bound" => W \cup job[k].rival \subseteq job'[k].rival
  <2>1. PICK rv \in SUBSET Codes :
           /\ job'[k] = [job[k] EXCEPT !.rival = rv]
           /\ Working(k) \/ job[k].step = "bound" => W \cup job[k].rival \subseteq rv
    BY <1>1, <1>3
  <2>2. job[k] \in Record
    BY DEF TypeOK
  <2> QED
    BY <2>1, <2>2 DEF Record
<1> QED
  BY <1>1, <1>2, <1>3

\* CommitDisplays and Fail: j leaves, the rows stay.
Quits(j) ==
  /\ gold' = gold
  /\ \/ /\ CommitDisplays(j) /\ job[j].step = "bound" /\ job' = Leave(j, "done", {})
     \/ /\ Working(j) \/ job[j].step = "bound"
        /\ job' = Leave(j, "failed", {})
  /\ overlay' \in [Ids -> Texts \cup {None}]

LEMMA QuitsDoes ==
  ASSUME TypeOK, NEW j \in Jobs, CommitDisplays(j) \/ Fail(j)
  PROVE  Quits(j)
<1>1. CASE Fail(j)
  BY <1>1 DEF Fail, Quits, Working, TypeOK
<1>2. CASE CommitDisplays(j)
  <2>1. ASSUME NEW i \in Ids, \E b \in job[j].bound : b[1] = i
        PROVE  (CHOOSE b \in job[j].bound : b[1] = i)[2] \in Texts
    BY <2>1 DEF TypeOK, Record
  <2>2. overlay' \in [Ids -> Texts \cup {None}]
    BY <1>2, <2>1 DEF CommitDisplays, TypeOK
  <2> QED
    BY <1>2, <2>2 DEF CommitDisplays, Quits
<1> QED
  BY <1>1, <1>2

\* What a step does to the jobs, with the facts of every kind of step.
LEMMA NextCases ==
  ASSUME Inv, Next
  PROVE  \E j \in Jobs :
           \/ Submits(j) \/ Begin(j) \/ Find(j) \/ Close(j) \/ Insert(j) \/ CommitCodelist(j)
           \/ Bind(j) \/ Quits(j)
<1> QED
  BY QuitsDoes DEF Next, Inv, Submits

LEMMA TypesStep == ASSUME Inv, Next PROVE TypeOK'
<1>0. TypeOK /\ PhaseInv /\ IdInv /\ LockInv /\ KeptInv /\ TreeInv
  BY DEF Inv
<1>1. ASSUME NEW j \in Jobs, Only(j), job' \in [Jobs -> Record] PROVE TypeOK'
  BY <1>0, <1>1 DEF Only, TypeOK
<1>2. ASSUME NEW j \in Jobs, CommitCodelist(j) PROVE TypeOK'
  <2>1. /\ job' = Leave(j, "done", Written(j)) /\ Written(j) \subseteq Codes
        /\ gold' \subseteq Row /\ overlay' = overlay
    BY <1>0, <1>2, CommitDoes
  <2> QED
    BY <1>0, <2>1, LeaveFields DEF TypeOK
<1>3. ASSUME NEW j \in Jobs, Quits(j) PROVE TypeOK'
  BY <1>0, <1>3, LeaveFields DEF Quits, TypeOK
<1>4. ASSUME NEW j \in Jobs,
             Submits(j) \/ Begin(j) \/ Find(j) \/ Close(j) \/ Insert(j) \/ Bind(j)
      PROVE  Only(j) /\ job' \in [Jobs -> Record]
  <2>1. CASE Submits(j)
    BY <1>0, <2>1, SubmitDoes
  <2>2. CASE Begin(j)
    BY <1>0, <2>2, BeginDoes
  <2>3. CASE Find(j)
    BY <1>0, <2>3, FindDoes
  <2>4. CASE Close(j)
    BY <1>0, <2>4, CloseDoes
  <2>5. CASE Insert(j)
    BY <1>0, <2>5, InsertDoes
  <2>6. CASE Bind(j)
    BY <1>0, <2>6, BindDoes
  <2> QED
    BY <1>4, <2>1, <2>2, <2>3, <2>4, <2>5, <2>6
<1> QED
  BY <1>1, <1>2, <1>3, <1>4, NextCases

-----------------------------------------------------------------------------
(* The same, as far as the invariant needs it.                              *)

SameTask(j) ==
  /\ job'[j].kind = job[j].kind /\ job'[j].payload = job[j].payload
  /\ job'[j].rival = job[j].rival

SameWork(j) == job'[j].closes = job[j].closes /\ job'[j].news = job[j].news

SubmitEff(j) ==
  /\ Only(j) /\ job[j].step = "idle" /\ job'[j].step = "staged"
  /\ job'[j].todo = job[j].todo /\ SameWork(j)
  /\ Carries(job'[j].kind, job'[j].payload) /\ Valid(job'[j].kind, job'[j].payload)

BeginEff(j) ==
  /\ Only(j) /\ job[j].step = "staged" /\ job'[j].step = "open" /\ job[j].kind = "codelists"
  /\ SameTask(j) /\ SameWork(j) /\ job'[j].todo = DOMAIN job[j].payload

FindEff(j) ==
  /\ Only(j) /\ job[j].step = "open" /\ job'[j].step = "close"
  /\ SameTask(j) /\ SameWork(j) /\ job'[j].todo = job[j].todo
  /\ job'[j].code \in job[j].todo /\ Ready(j, job'[j].code)
  /\ job'[j].target = None =>
       \A r \in Current(j, job'[j].code) : r.label = job[j].payload[job'[j].code].label
  /\ job'[j].target # None => \E r \in Current(j, job'[j].code) : r.id = job'[j].target

CloseEff(j) ==
  /\ Only(j) /\ job[j].step = "close" /\ job'[j].step = "insert"
  /\ SameTask(j) /\ job'[j].news = job[j].news /\ job'[j].todo = job[j].todo
  /\ job'[j].code = job[j].code
  /\ \A k \in Jobs \ {j} : job[j].target \notin job[k].closes
  /\ \A r \in gold : r.current /\ r.id = job[j].target => r.id \in job'[j].closes
  /\ job[j].closes \subseteq job'[j].closes
  /\ \A i \in job'[j].closes \ job[j].closes :
       i = job[j].target /\ \E r \in gold : r.current /\ r.id = i

InsertEff(j) ==
  /\ Only(j) /\ job[j].step = "insert" /\ job'[j].step = "open"
  /\ \A k \in Jobs \ {j} : job[j].code \notin Written(k)
  /\ SameTask(j) /\ job'[j].closes = job[j].closes
  /\ job'[j].todo = job[j].todo \ {job[j].code}
  /\ \E N \in SUBSET Row : Adds(j, N) /\ job'[j].news = job[j].news \cup N

BindEff(j) ==
  /\ Only(j) /\ job[j].step = "staged" /\ job'[j].step = "bound" /\ job[j].kind = "displays"
  /\ SameTask(j) /\ SameWork(j) /\ job'[j].todo = job[j].todo
  /\ Valid("displays", job[j].payload)
  /\ job'[j].bound = {<<r.id, job[j].payload[r.code]>> :
                        r \in {s \in gold : s.current /\ s.code \in DOMAIN job[j].payload}}

LEMMA Effects ==
  ASSUME Inv, Next
  PROVE  \E j \in Jobs :
           \/ SubmitEff(j) \/ BeginEff(j) \/ FindEff(j) \/ CloseEff(j) \/ InsertEff(j)
           \/ BindEff(j) \/ CommitCodelist(j) \/ Quits(j)
<1>0. TypeOK /\ PhaseInv /\ IdInv /\ LockInv /\ KeptInv /\ TreeInv
  BY DEF Inv
<1>1. PICK j \in Jobs : \/ Submits(j) \/ Begin(j) \/ Find(j) \/ Close(j) \/ Insert(j)
                        \/ CommitCodelist(j) \/ Bind(j) \/ Quits(j)
  BY NextCases
<1>2. job[j] \in Record
  BY <1>0 DEF TypeOK
<1>3. CASE Submits(j)
  <2>1. PICK kind \in {"codelists", "displays"} : \E p \in Codelists \cup Displays :
              /\ Carries(kind, p)
              /\ Valid(kind, p)
              /\ job'[j] = [job[j] EXCEPT !.step = "staged", !.kind = kind, !.payload = p]
    BY <1>0, <1>3, SubmitDoes
  <2>2. PICK p \in Codelists \cup Displays :
              /\ Carries(kind, p)
              /\ Valid(kind, p)
              /\ job'[j] = [job[j] EXCEPT !.step = "staged", !.kind = kind, !.payload = p]
    BY <2>1
  <2>3. /\ job'[j].step = "staged" /\ job'[j].kind = kind /\ job'[j].payload = p
        /\ job'[j].todo = job[j].todo /\ SameWork(j)
    BY <1>2, <2>2 DEF Record, SameWork
  <2>4. Only(j) /\ job[j].step = "idle"
    BY <1>0, <1>3, SubmitDoes
  <2> QED
    BY <2>2, <2>3, <2>4 DEF SubmitEff
<1>4. CASE Begin(j)
  <2>1. job'[j] = [job[j] EXCEPT !.step = "open", !.todo = DOMAIN job[j].payload]
    BY <1>0, <1>4, BeginDoes
  <2>2. job'[j].step = "open" /\ SameTask(j) /\ SameWork(j) /\ job'[j].todo = DOMAIN job[j].payload
    BY <1>2, <2>1 DEF Record, SameWork, SameTask
  <2> QED
    BY <1>0, <1>4, <2>2, BeginDoes DEF BeginEff
<1>5. CASE Find(j)
  <2>1. PICK c \in job[j].todo, t \in Ids \cup {None} :
                /\ Ready(j, c)
                /\ t = None => \A r \in Current(j, c) : r.label = job[j].payload[c].label
                /\ t # None => \E r \in Current(j, c) : r.id = t
                /\ job'[j] = [job[j] EXCEPT !.step = "close", !.code = c, !.target = t]
    BY <1>0, <1>5, FindDoes
  <2>2. /\ job'[j].step = "close" /\ SameTask(j) /\ SameWork(j) /\ job'[j].todo = job[j].todo
        /\ job'[j].code = c /\ job'[j].target = t
    BY <1>2, <2>1 DEF Record, SameWork, SameTask
  <2> QED
    BY <1>0, <1>5, <2>1, <2>2, FindDoes DEF FindEff
<1>6. CASE Close(j)
  <2>1. PICK C \in SUBSET {r.id : r \in {s \in gold : s.current}} :
              /\ \A r \in gold : r.current => (r.id \in C <=> r.id = job[j].target)
              /\ C \subseteq {job[j].target}
              /\ job'[j] = [job[j] EXCEPT !.step = "insert", !.target = None,
                                          !.closes = job[j].closes \cup C]
    BY <1>0, <1>6, CloseDoes
  <2>2. /\ job'[j].step = "insert" /\ SameTask(j) /\ job'[j].news = job[j].news
        /\ job'[j].todo = job[j].todo /\ job'[j].code = job[j].code
        /\ job'[j].closes = job[j].closes \cup C
    BY <1>2, <2>1 DEF Record, SameTask
  <2>3. \A i \in C : i = job[j].target /\ \E r \in gold : r.current /\ r.id = i
    BY <2>1
  <2> QED
    BY <1>0, <1>6, <2>1, <2>2, <2>3, CloseDoes DEF CloseEff
<1>7. CASE Insert(j)
  <2>1. PICK N \in SUBSET Row :
          /\ Adds(j, N)
          /\ job'[j] = [job[j] EXCEPT !.step = "open", !.todo = job[j].todo \ {job[j].code},
                                      !.code = None, !.news = job[j].news \cup N]
    BY <1>0, <1>7, InsertDoes
  <2>2. /\ job'[j].step = "open" /\ SameTask(j) /\ job'[j].closes = job[j].closes
        /\ job'[j].todo = job[j].todo \ {job[j].code} /\ job'[j].news = job[j].news \cup N
    BY <1>2, <2>1 DEF Record, SameTask
  <2> QED
    BY <1>0, <1>7, <2>1, <2>2, InsertDoes DEF InsertEff
<1>8. CASE Bind(j)
  <2>1. PICK B \in SUBSET (Ids \X Texts) :
              /\ B = {<<r.id, job[j].payload[r.code]>> :
                        r \in {s \in gold : s.current /\ s.code \in DOMAIN job[j].payload}}
              /\ job'[j] = [job[j] EXCEPT !.step = "bound", !.bound = B]
    BY <1>0, <1>8, BindDoes
  <2>2. /\ job'[j].step = "bound" /\ SameTask(j) /\ SameWork(j) /\ job'[j].todo = job[j].todo
        /\ job'[j].bound = B
    BY <1>2, <2>1 DEF Record, SameTask, SameWork
  <2> QED
    BY <1>0, <1>8, <2>1, <2>2, BindDoes DEF BindEff
<1> QED
  BY <1>1, <1>3, <1>4, <1>5, <1>6, <1>7, <1>8

LEMMA PhaseStep == ASSUME Inv, Next PROVE PhaseInv'
<1>0. PhaseInv /\ TypeOK
  BY DEF Inv
<1> DEFINE P(k) ==
    /\ ~Working(k) => job[k].todo = {} /\ job[k].closes = {} /\ job[k].news = {}
    /\ job[k].step # "idle" => \/ job[k].kind = "codelists" /\ job[k].payload \in Codelists
                               \/ job[k].kind = "displays" /\ job[k].payload \in Displays
    /\ Working(k) => job[k].kind = "codelists" /\ job[k].todo \subseteq DOMAIN job[k].payload
    /\ job[k].step = "bound" => job[k].kind = "displays"
    /\ job[k].step \in {"close", "insert"} => job[k].code \in job[k].todo
<1>1. PICK j \in Jobs :
           \/ SubmitEff(j) \/ BeginEff(j) \/ FindEff(j) \/ CloseEff(j) \/ InsertEff(j)
           \/ BindEff(j) \/ CommitCodelist(j) \/ Quits(j)
  BY Effects
<1>2. ASSUME NEW k \in Jobs \ {j}, job'[k] = job[k] PROVE P(k)'
  BY <1>0, <1>2 DEF PhaseInv, Working
<1>3. CASE SubmitEff(j)
  <2>1. P(j)'
    BY <1>0, <1>3 DEF SubmitEff, SameWork, PhaseInv, Working, Carries
  <2> QED
    BY <1>2, <1>3, <2>1 DEF SubmitEff, Only, PhaseInv
<1>4. CASE BeginEff(j)
  <2>1. P(j)'
    BY <1>0, <1>4 DEF BeginEff, SameWork, SameTask, PhaseInv, Working
  <2> QED
    BY <1>2, <1>4, <2>1 DEF BeginEff, Only, PhaseInv
<1>5. CASE FindEff(j)
  <2>1. P(j)'
    BY <1>0, <1>5 DEF FindEff, SameWork, SameTask, PhaseInv, Working
  <2> QED
    BY <1>2, <1>5, <2>1 DEF FindEff, Only, PhaseInv
<1>6. CASE CloseEff(j)
  <2>1. P(j)'
    BY <1>0, <1>6 DEF CloseEff, SameTask, PhaseInv, Working
  <2> QED
    BY <1>2, <1>6, <2>1 DEF CloseEff, Only, PhaseInv
<1>7. CASE InsertEff(j)
  <2>1. P(j)'
    BY <1>0, <1>7 DEF InsertEff, SameTask, PhaseInv, Working
  <2> QED
    BY <1>2, <1>7, <2>1 DEF InsertEff, Only, PhaseInv
<1>8. CASE BindEff(j)
  <2>1. P(j)'
    BY <1>0, <1>8 DEF BindEff, SameWork, SameTask, PhaseInv, Working
  <2> QED
    BY <1>2, <1>8, <2>1 DEF BindEff, Only, PhaseInv
<1>9. ASSUME NEW st \in {"done", "failed"}, NEW W \in SUBSET Codes, job' = Leave(j, st, W),
             job[j].step # "idle"
      PROVE  PhaseInv'
  <2>1. P(j)'
    BY <1>0, <1>9, LeaveFields DEF PhaseInv, Working
  <2>2. ASSUME NEW k \in Jobs \ {j} PROVE P(k)'
    BY <1>0, <1>9, <2>2, LeaveFields DEF PhaseInv, Working
  <2> QED
    BY <2>1, <2>2 DEF PhaseInv
<1>10. CASE CommitCodelist(j)
  BY <1>0, <1>9, <1>10, CommitDoes
<1>11. CASE Quits(j)
  BY <1>9, <1>11 DEF Quits, Working
<1> QED
  BY <1>1, <1>3, <1>4, <1>5, <1>6, <1>7, <1>8, <1>10, <1>11

LEMMA IdStep == ASSUME Inv, Next PROVE IdInv'
<1>0. PhaseInv /\ TypeOK /\ IdInv
  BY DEF Inv
<1>1. PICK j \in Jobs :
           \/ SubmitEff(j) \/ BeginEff(j) \/ FindEff(j) \/ CloseEff(j) \/ InsertEff(j)
           \/ BindEff(j) \/ CommitCodelist(j) \/ Quits(j)
  BY Effects
<1>2. \A r \in gold : r.id[1] \in Jobs
  BY <1>0 DEF TypeOK, Row, Ids
<1>3. ASSUME gold' = gold, job[j].step # "done",
             \A k \in Jobs \ {j} : job'[k] = job[k],
             job'[j].todo \subseteq job[j].todo \/ job[j].news = {},
             job'[j].news = job[j].news
      PROVE  IdInv'
  <2>1. \A r \in gold : job'[r.id[1]].step = "done" /\ r.id[2] = r.code
    BY <1>0, <1>2, <1>3 DEF IdInv
  <2>2. \A k \in Jobs : job'[k].news = job[k].news /\ (job'[k].todo \subseteq job[k].todo
                                                        \/ job[k].news = {})
    BY <1>3
  <2> QED
    BY <1>0, <1>3, <2>1, <2>2 DEF IdInv
<1>4. CASE SubmitEff(j)
  BY <1>3, <1>4 DEF SubmitEff, Only, SameWork
<1>5. CASE BeginEff(j)
  BY <1>0, <1>3, <1>5 DEF BeginEff, Only, SameWork, PhaseInv, Working
<1>6. CASE FindEff(j)
  BY <1>3, <1>6 DEF FindEff, Only, SameWork
<1>7. CASE CloseEff(j)
  BY <1>3, <1>7 DEF CloseEff, Only
<1>8. CASE BindEff(j)
  BY <1>3, <1>8 DEF BindEff, Only, SameWork
<1>9. CASE InsertEff(j)
  <2>1. PICK N \in SUBSET Row : Adds(j, N) /\ job'[j].news = job[j].news \cup N
    BY <1>9 DEF InsertEff
  <2>2. \A r \in gold : job'[r.id[1]].step = "done" /\ r.id[2] = r.code
    BY <1>0, <1>2, <1>9 DEF IdInv, InsertEff, Only
  <2>3. \A r \in N : r.id = <<j, r.code>> /\ r.current /\ r.code = job[j].code /\ N = {r}
    BY <2>1 DEF Adds
  <2>4. N # {} => \A r \in job[j].news : r.code # job[j].code
    BY <2>1 DEF Adds, Current
  <2>5. job'[j].todo = job[j].todo \ {job[j].code}
    BY <1>9 DEF InsertEff
  <2>6. /\ \A r \in job'[j].news : r.id = <<j, r.code>> /\ r.current /\ r.code \notin job'[j].todo
        /\ \A r, s \in job'[j].news : r.code = s.code => r = s
    BY <1>0, <2>1, <2>3, <2>4, <2>5 DEF IdInv
  <2> QED
    BY <1>0, <1>9, <2>2, <2>6 DEF IdInv, InsertEff, Only
<1>10. ASSUME NEW st \in {"done", "failed"}, NEW W \in SUBSET Codes, job' = Leave(j, st, W)
       PROVE  /\ \A k \in Jobs : job[k].step = "done" /\ k # j => job'[k].step = "done"
              /\ job'[j].step = st
              /\ \A k \in Jobs : \A r \in job'[k].news :
                   r.id = <<k, r.code>> /\ r.current /\ r.code \notin job'[k].todo
              /\ \A k \in Jobs : \A r, s \in job'[k].news : r.code = s.code => r = s
  BY <1>0, <1>10, LeaveFields DEF IdInv
<1>11. CASE CommitCodelist(j)
  <2>1. /\ job[j].step = "open" /\ job' = Leave(j, "done", Written(j)) /\ Written(j) \subseteq Codes
        /\ \A r \in gold : Retired(r).id = r.id /\ Retired(r).code = r.code
        /\ \A r \in gold' : \/ r \in job[j].news
                            \/ r \in gold /\ r.id \notin job[j].closes
                            \/ \E s \in gold : s.id \in job[j].closes /\ r = Retired(s)
    BY <1>0, <1>11, CommitDoes
  <2>2. \A r \in gold : r.id[1] # j
    BY <1>0, <2>1 DEF IdInv
  <2>3. ASSUME NEW r \in gold'
        PROVE  \/ r \in job[j].news /\ r.id = <<j, r.code>>
               \/ \E s \in gold : /\ r.id = s.id /\ r.code = s.code
                                  /\ r = IF s.id \in job[j].closes THEN Retired(s) ELSE s
    BY <1>0, <2>1, <2>3 DEF IdInv
  <2>4. \A r \in gold' : job'[r.id[1]].step = "done" /\ r.id[2] = r.code
    <3>1. ASSUME NEW r \in job[j].news, r.id = <<j, r.code>>
          PROVE  job'[r.id[1]].step = "done" /\ r.id[2] = r.code
      BY <1>10, <2>1, <3>1
    <3>2. ASSUME NEW r \in gold', NEW s \in gold, r.id = s.id, r.code = s.code
          PROVE  job'[r.id[1]].step = "done" /\ r.id[2] = r.code
      BY <1>0, <1>2, <1>10, <2>1, <2>2, <3>2 DEF IdInv
    <3> QED
      BY <2>3, <3>1, <3>2
  <2>5. \A r, s \in gold' : r.id = s.id => r = s
    <3>1. SUFFICES ASSUME NEW r \in gold', NEW s \in gold', r.id = s.id PROVE r = s
      OBVIOUS
    <3>2. CASE r \in job[j].news /\ s \in job[j].news
      <4>1. r.id[2] = r.code /\ s.id[2] = s.code
        BY <1>0, <3>2 DEF IdInv
      <4>2. r.code = s.code
        BY <3>1, <4>1
      <4> QED
        BY <1>0, <3>2, <4>2 DEF IdInv
    <3>3. ASSUME NEW x \in job[j].news, NEW y \in gold PROVE x.id # y.id
      <4>1. x.id = <<j, x.code>>
        BY <1>0, <3>3 DEF IdInv
      <4>2. x.id[1] = j
        BY <4>1
      <4> QED
        BY <2>2, <3>3, <4>2
    <3>4. ASSUME NEW x \in gold, NEW y \in gold, r.id = x.id, s.id = y.id,
                 r = IF x.id \in job[j].closes THEN Retired(x) ELSE x,
                 s = IF y.id \in job[j].closes THEN Retired(y) ELSE y
          PROVE  r = s
      <4>1. x = y
        BY <1>0, <3>1, <3>4 DEF IdInv
      <4> QED
        BY <3>4, <4>1
    <3> QED
      BY <2>3, <3>1, <3>2, <3>3, <3>4
  <2> QED
    BY <1>10, <2>1, <2>4, <2>5 DEF IdInv
<1>12. CASE Quits(j)
  <2>1. PICK st \in {"done", "failed"} : job' = Leave(j, st, {}) /\ gold' = gold
                                         /\ job[j].step # "done"
    BY <1>12 DEF Quits, Working
  <2>2. \A r \in gold : job'[r.id[1]].step = "done" /\ r.id[2] = r.code
    BY <1>0, <1>2, <1>10, <2>1 DEF IdInv
  <2> QED
    BY <1>0, <1>10, <2>1, <2>2 DEF IdInv
<1> QED
  BY <1>1, <1>4, <1>5, <1>6, <1>7, <1>8, <1>9, <1>11, <1>12

LEMMA LockStep == ASSUME Inv, Next PROVE LockInv'
<1>0. PhaseInv /\ TypeOK /\ IdInv /\ LockInv /\ LandInv
  BY DEF Inv
<1>1. PICK j \in Jobs :
           \/ SubmitEff(j) \/ BeginEff(j) \/ FindEff(j) \/ CloseEff(j) \/ InsertEff(j)
           \/ BindEff(j) \/ CommitCodelist(j) \/ Quits(j)
  BY Effects
<1>2. ASSUME gold' = gold, job[j].step # "insert",
             \A k \in Jobs \ {j} : job'[k] = job[k], SameWork(j)
      PROVE  LockInv'
  <2>1. /\ \A k \in Jobs : job'[k].news = job[k].news /\ job'[k].closes = job[k].closes
        /\ \A r \in gold : r.id \in job[j].closes => \E s \in job[j].news : s.code = r.code
    BY <1>0, <1>2 DEF LockInv, SameWork
  <2>2. ASSUME NEW k \in Jobs, NEW r \in gold', r.id \in job'[k].closes
        PROVE  \/ \E s \in job'[k].news : s.code = r.code
               \/ job'[k].step = "insert" /\ job'[k].code = r.code
    <3>1. CASE k = j
      BY <1>2, <2>1, <2>2, <3>1
    <3>2. CASE k # j
      BY <1>0, <1>2, <2>2, <3>2 DEF LockInv
    <3> QED
      BY <3>1, <3>2
  <2> QED
    BY <1>0, <1>2, <2>1, <2>2 DEF LockInv
<1>3. CASE SubmitEff(j)
  BY <1>2, <1>3 DEF SubmitEff, Only
<1>4. CASE BeginEff(j)
  BY <1>2, <1>4 DEF BeginEff, Only
<1>5. CASE FindEff(j)
  BY <1>2, <1>5 DEF FindEff, Only
<1>6. CASE BindEff(j)
  BY <1>2, <1>6 DEF BindEff, Only
<1>7. CASE CloseEff(j)
  <2>1. /\ gold' = gold /\ \A k \in Jobs \ {j} : job'[k] = job[k]
        /\ job'[j].news = job[j].news /\ job[j].closes \subseteq job'[j].closes
        /\ job'[j].step = "insert" /\ job'[j].code = job[j].code /\ job[j].step = "close"
    BY <1>7 DEF CloseEff, Only
  <2>2. ASSUME NEW i \in job'[j].closes \ job[j].closes
        PROVE  /\ \E r \in gold : r.id = i /\ r.current /\ r.code = job[j].code
               /\ \A k \in Jobs \ {j} : i \notin job[k].closes
    <3>1. i = job[j].target /\ \E r \in gold : r.id = i /\ r.current
      BY <1>7, <2>2 DEF CloseEff
    <3>2. i # None
      BY <1>0, <3>1, ConstantsOK DEF TypeOK, Row, Ids
    <3>3. \E r \in gold : r.id = i /\ r.code = job[j].code
      BY <1>0, <2>1, <3>1, <3>2 DEF LandInv
    <3>4. \E r \in gold : r.id = i /\ r.current /\ r.code = job[j].code
      BY <1>0, <3>1, <3>3 DEF IdInv
    <3> QED
      BY <1>7, <3>1, <3>4 DEF CloseEff
  <2>3. \A k \in Jobs : \A i \in job'[k].closes : \E r \in gold : r.id = i /\ r.current
    BY <1>0, <2>1, <2>2 DEF LockInv
  <2>4. \A k, l \in Jobs : k # l => job'[k].closes \cap job'[l].closes = {}
    <3>1. \A k \in Jobs \ {j} : job'[j].closes \cap job[k].closes = {}
      BY <1>0, <2>1, <2>2 DEF LockInv
    <3> QED
      BY <1>0, <2>1, <3>1 DEF LockInv
  <2>5. \A k \in Jobs : job'[k].news = job[k].news /\ job[k].closes \subseteq job'[k].closes
    BY <2>1
  <2>6. ASSUME NEW k \in Jobs, NEW r \in gold, r.id \in job'[k].closes
        PROVE  \/ \E s \in job'[k].news : s.code = r.code
               \/ job'[k].step = "insert" /\ job'[k].code = r.code
    <3>1. CASE k # j
      BY <1>0, <2>1, <2>6, <3>1 DEF LockInv
    <3>2. CASE k = j /\ r.id \in job[j].closes
      BY <1>0, <2>1, <3>2 DEF LockInv
    <3>3. CASE k = j /\ r.id \notin job[j].closes
      <4>1. \E q \in gold : q.id = r.id /\ q.code = job[j].code
        BY <2>2, <2>6, <3>3
      <4> QED
        BY <1>0, <2>1, <3>3, <4>1 DEF IdInv
    <3> QED
      BY <3>1, <3>2, <3>3
  <2> QED
    BY <1>0, <2>1, <2>3, <2>4, <2>5, <2>6 DEF LockInv
<1>8. CASE InsertEff(j)
  <2> DEFINE c == job[j].code
  <2>1. PICK N \in SUBSET Row : Adds(j, N) /\ job'[j].news = job[j].news \cup N
    BY <1>8 DEF InsertEff
  <2>2. /\ gold' = gold /\ \A k \in Jobs \ {j} : job'[k] = job[k]
        /\ job'[j].closes = job[j].closes /\ job[j].step = "insert"
        /\ \A k \in Jobs \ {j} : c \notin Written(k)
    BY <1>8 DEF InsertEff, Only
  <2>3. \A r \in N : r.code = c /\ Current(j, c) = {}
    BY <2>1 DEF Adds
  <2>4. \A k \in Jobs \ {j} : \A r \in job[k].news : r.code # c
    BY <2>2 DEF Written
  <2>5. ASSUME NEW k \in Jobs, NEW l \in Jobs, k # l,
               NEW r \in job'[k].news, NEW s \in job'[l].news
        PROVE  r.code # s.code
    <3>1. CASE k # j /\ l # j
      BY <1>0, <2>2, <2>5, <3>1 DEF LockInv
    <3>2. CASE k = j
      BY <1>0, <2>1, <2>2, <2>3, <2>4, <2>5, <3>2 DEF LockInv
    <3>3. CASE l = j
      BY <1>0, <2>1, <2>2, <2>3, <2>4, <2>5, <3>3 DEF LockInv
    <3> QED
      BY <3>1, <3>2, <3>3
  <2>6. ASSUME NEW k \in Jobs, NEW r \in job'[k].news, NEW s \in gold,
               s.current, s.code = r.code
        PROVE  s.id \in job'[k].closes
    <3>1. CASE r \in N /\ k = j
      BY <2>2, <2>3, <2>6, <3>1 DEF Current
    <3>2. CASE r \in job[k].news
      BY <1>0, <2>2, <2>6, <3>2 DEF LockInv
    <3> QED
      BY <2>1, <2>2, <2>6, <3>1, <3>2
  <2>7. ASSUME NEW k \in Jobs, NEW r \in gold, r.id \in job'[k].closes
        PROVE  \/ \E s \in job'[k].news : s.code = r.code
               \/ job'[k].step = "insert" /\ job'[k].code = r.code
    <3>1. CASE k # j
      BY <1>0, <2>2, <2>7, <3>1 DEF LockInv
    <3>2. CASE k = j /\ r.code # c
      BY <1>0, <2>1, <2>2, <2>7, <3>2 DEF LockInv
    <3>3. CASE k = j /\ r.code = c
      <4>1. r.current
        BY <1>0, <2>2, <2>7, <3>3 DEF LockInv, IdInv
      <4>2. CASE Current(j, c) = {}
        BY <2>1, <3>3, <4>2 DEF Adds
      <4>3. CASE Current(j, c) # {}
        <5>1. PICK x \in Current(j, c) : TRUE
          BY <4>3
        <5>2. x \in job[j].news /\ x.code = c
          BY <1>0, <2>2, <2>7, <3>3, <4>1, <5>1 DEF Current, LockInv
        <5> QED
          BY <2>1, <3>3, <5>2
      <4> QED
        BY <4>2, <4>3
    <3> QED
      BY <3>1, <3>2, <3>3
  <2>8. \A k \in Jobs : job'[k].closes = job[k].closes
    BY <2>2
  <2> QED
    BY <1>0, <2>2, <2>5, <2>6, <2>7, <2>8 DEF LockInv
<1>9. CASE CommitCodelist(j)
  <2>1. /\ job[j].step = "open" /\ job' = Leave(j, "done", Written(j)) /\ Written(j) \subseteq Codes
        /\ \A r \in gold : r.id \notin job[j].closes => r \in gold'
        /\ \A r \in gold : Retired(r).id = r.id /\ Retired(r).current = FALSE
        /\ \A r \in gold' : \/ r \in job[j].news
                            \/ r \in gold /\ r.id \notin job[j].closes
                            \/ \E s \in gold : s.id \in job[j].closes /\ r = Retired(s)
    BY <1>0, <1>9, CommitDoes
  <2>2. /\ job'[j].closes = {} /\ job'[j].news = {}
        /\ \A k \in Jobs \ {j} : /\ job'[k].closes = job[k].closes /\ job'[k].news = job[k].news
                                 /\ job'[k].step = job[k].step /\ job'[k].code = job[k].code
    BY <1>0, <2>1, LeaveFields
  <2>3. \A r \in gold' : r.current =>
          r \in job[j].news \/ (r \in gold /\ r.id \notin job[j].closes)
    <3>1. \A r \in gold : ~Retired(r).current
      BY <2>1
    <3> QED
      BY <2>1, <3>1
  <2>4. \A r, s \in gold' : r.current /\ s.current /\ r.code = s.code => r = s
    <3>1. SUFFICES ASSUME NEW r \in gold', NEW s \in gold', r.current, s.current, r.code = s.code
                   PROVE  r = s
      OBVIOUS
    <3>2. CASE r \in job[j].news /\ s \in job[j].news
      BY <1>0, <3>1, <3>2 DEF IdInv
    <3>3. CASE r \in gold /\ s \in gold
      BY <1>0, <3>1, <3>3 DEF LockInv
    <3>4. ASSUME NEW x \in job[j].news, NEW y \in gold, y.id \notin job[j].closes, y.current
          PROVE  x.code # y.code
      BY <1>0, <3>4 DEF LockInv
    <3> QED
      BY <2>3, <3>1, <3>2, <3>3, <3>4
  <2>5. \A k \in Jobs : \A i \in job'[k].closes : \E r \in gold' : r.id = i /\ r.current
    <3>1. SUFFICES ASSUME NEW k \in Jobs \ {j}, NEW i \in job[k].closes
                   PROVE  \E r \in gold' : r.id = i /\ r.current
      BY <2>2
    <3>2. PICK r \in gold : r.id = i /\ r.current
      BY <1>0 DEF LockInv
    <3>3. i \notin job[j].closes
      BY <1>0 DEF LockInv
    <3> QED
      BY <2>1, <3>2, <3>3
  <2>6. /\ \A k, l \in Jobs : k # l => job'[k].closes \cap job'[l].closes = {}
        /\ \A k, l \in Jobs : \A r \in job'[k].news, s \in job'[l].news : k # l => r.code # s.code
    BY <1>0, <2>2 DEF LockInv
  <2>7. ASSUME NEW k \in Jobs, NEW r \in job'[k].news, NEW s \in gold', s.current, s.code = r.code
        PROVE  s.id \in job'[k].closes
    <3>1. k # j /\ r \in job[k].news
      BY <2>2, <2>7
    <3>2. s \notin job[j].news
      BY <1>0, <2>7, <3>1 DEF LockInv
    <3> QED
      BY <1>0, <2>2, <2>3, <2>7, <3>1, <3>2 DEF LockInv
  <2>8. ASSUME NEW k \in Jobs, NEW r \in gold', r.id \in job'[k].closes
        PROVE  \/ \E s \in job'[k].news : s.code = r.code
               \/ job'[k].step = "insert" /\ job'[k].code = r.code
    <3>1. k # j /\ r.id \in job[k].closes /\ r.id \notin job[j].closes
      BY <1>0, <2>2, <2>8 DEF LockInv
    <3>2. r \notin job[j].news
      <4>1. PICK q \in gold : q.id = r.id
        BY <1>0, <3>1 DEF LockInv
      <4>2. r.id[1] # j
        BY <1>0, <2>1, <4>1 DEF IdInv
      <4>3. \A n \in job[j].news : n.id[1] = j
        BY <1>0 DEF IdInv
      <4> QED
        BY <4>2, <4>3
    <3>3. r \in gold
      BY <2>1, <3>1, <3>2
    <3> QED
      BY <1>0, <2>2, <3>1, <3>3 DEF LockInv
  <2> QED
    BY <2>4, <2>5, <2>6, <2>7, <2>8 DEF LockInv
<1>10. CASE Quits(j)
  <2>1. PICK st \in {"done", "failed"} : job' = Leave(j, st, {}) /\ gold' = gold
    BY <1>10 DEF Quits
  <2>2. /\ job'[j].closes = {} /\ job'[j].news = {}
        /\ \A k \in Jobs \ {j} : /\ job'[k].closes = job[k].closes /\ job'[k].news = job[k].news
                                 /\ job'[k].step = job[k].step /\ job'[k].code = job[k].code
    BY <1>0, <2>1, LeaveFields
  <2>3. ASSUME NEW k \in Jobs, NEW r \in gold, r.id \in job'[k].closes
        PROVE  \/ \E s \in job'[k].news : s.code = r.code
               \/ job'[k].step = "insert" /\ job'[k].code = r.code
    BY <1>0, <2>2, <2>3 DEF LockInv
  <2>4. \A k \in Jobs : job'[k].closes \subseteq job[k].closes /\ job'[k].news \subseteq job[k].news
    BY <2>2
  <2>5. ASSUME NEW k \in Jobs, NEW r \in job'[k].news, NEW s \in gold, s.current, s.code = r.code
        PROVE  s.id \in job'[k].closes
    BY <1>0, <2>2, <2>5 DEF LockInv
  <2> QED
    BY <1>0, <2>1, <2>3, <2>4, <2>5 DEF LockInv
<1> QED
  BY <1>1, <1>3, <1>4, <1>5, <1>6, <1>7, <1>8, <1>9, <1>10

\* What a step does to the rows of gold: a current row stays, or another of its code is
\* current in its place.
LEMMA GoldStep ==
  ASSUME Inv, Next
  PROVE  \/ gold' = gold
         \/ \E j \in Jobs : CommitCodelist(j)
<1> QED
  BY Effects DEF SubmitEff, BeginEff, FindEff, CloseEff, InsertEff, BindEff, Only, Quits

LEMMA KeptStep ==
  ASSUME Inv, Next
  PROVE  /\ KeptInv'
         /\ \A r \in gold : \E s \in gold' : s.code = r.code /\ s.current
<1>0. TypeOK /\ IdInv /\ LockInv /\ KeptInv
  BY DEF Inv
<1>1. CASE gold' = gold
  BY <1>0, <1>1 DEF KeptInv
<1>2. ASSUME NEW j \in Jobs, CommitCodelist(j)
      PROVE  /\ KeptInv'
             /\ \A r \in gold : \E s \in gold' : s.code = r.code /\ s.current
  <2>1. /\ job[j].step = "open" /\ job[j].news \subseteq gold'
        /\ \A r \in gold : r.id \notin job[j].closes => r \in gold'
        /\ \A r \in gold : Retired(r).code = r.code
        /\ \A r \in gold' : \/ r \in job[j].news
                            \/ r \in gold /\ r.id \notin job[j].closes
                            \/ \E s \in gold : s.id \in job[j].closes /\ r = Retired(s)
    BY <1>0, <1>2, CommitDoes
  <2>2. ASSUME NEW r \in gold PROVE \E s \in gold' : s.code = r.code /\ s.current
    <3>1. PICK s \in gold : s.code = r.code /\ s.current
      BY <1>0 DEF KeptInv
    <3>2. CASE s.id \notin job[j].closes
      BY <2>1, <3>1, <3>2
    <3>3. CASE s.id \in job[j].closes
      <4>1. PICK n \in job[j].news : n.code = s.code
        BY <1>0, <2>1, <3>1, <3>3 DEF LockInv
      <4>2. n.current
        BY <1>0, <4>1 DEF IdInv
      <4> QED
        BY <2>1, <3>1, <4>1, <4>2
    <3> QED
      BY <3>2, <3>3
  <2>3. \A n \in job[j].news : n.current
    BY <1>0 DEF IdInv
  <2> QED
    BY <2>1, <2>2, <2>3 DEF KeptInv
<1> QED
  BY <1>1, <1>2, GoldStep

LEMMA ValidStep == ASSUME Inv, Next PROVE ValidInv'
<1>0. TypeOK /\ ValidInv
  BY DEF Inv
<1>1. \A kind, p : Valid(kind, p) => Valid(kind, p)'
  <2>1. \A r \in {s \in gold : s.current} : \E q \in {s \in gold' : s.current} : q.code = r.code
    BY KeptStep
  <2>2. {r.code : r \in {s \in gold : s.current}} \subseteq {r.code : r \in {s \in gold' : s.current}}
    BY <2>1
  <2> QED
    BY <2>2 DEF Valid
<1>2. PICK j \in Jobs :
           \/ SubmitEff(j) \/ BeginEff(j) \/ FindEff(j) \/ CloseEff(j) \/ InsertEff(j)
           \/ BindEff(j) \/ CommitCodelist(j) \/ Quits(j)
  BY Effects
<1>3. ASSUME \A k \in Jobs : (job[k].step = "staged" \/ Working(k))'
                => /\ job[k].step = "staged" \/ Working(k)
                   /\ job'[k].kind = job[k].kind /\ job'[k].payload = job[k].payload
      PROVE  ValidInv'
  BY <1>0, <1>1, <1>3 DEF ValidInv
<1>4. ASSUME NEW st \in {"done", "failed"}, NEW W \in SUBSET Codes, job' = Leave(j, st, W)
      PROVE  ValidInv'
  <2>1. ~(job[j].step = "staged" \/ Working(j))'
    BY <1>0, <1>4, LeaveFields DEF Working
  <2>2. \A k \in Jobs \ {j} : /\ job'[k].step = job[k].step /\ job'[k].kind = job[k].kind
                              /\ job'[k].payload = job[k].payload
    BY <1>0, <1>4, LeaveFields
  <2> QED
    BY <1>3, <2>1, <2>2 DEF Working
<1>5. CASE SubmitEff(j)
  <2>1. Valid(job[j].kind, job[j].payload)'
    BY <1>5 DEF SubmitEff, Only, Valid
  <2>2. \A k \in Jobs \ {j} : job'[k] = job[k]
    BY <1>5 DEF SubmitEff, Only
  <2> QED
    BY <1>0, <1>1, <2>1, <2>2 DEF ValidInv, Working
<1>6. CASE BeginEff(j)
  BY <1>3, <1>6 DEF BeginEff, Only, SameTask, Working
<1>7. CASE FindEff(j) \/ CloseEff(j) \/ InsertEff(j)
  BY <1>3, <1>7 DEF FindEff, CloseEff, InsertEff, Only, SameTask, Working
<1>8. CASE BindEff(j)
  BY <1>3, <1>8 DEF BindEff, Only, SameTask, Working
<1>9. CASE CommitCodelist(j)
  BY <1>0, <1>4, <1>9, CommitDoes
<1>10. CASE Quits(j)
  BY <1>4, <1>10 DEF Quits
<1> QED
  BY <1>2, <1>5, <1>6, <1>7, <1>8, <1>9, <1>10

\* The parent of a row is the one every payload gives its code.
LEMMA SameParent ==
  ASSUME TreeInv, NEW r \in Rows
  PROVE  /\ \A p \in Codelists : r.code \in DOMAIN p => r.parent = p[r.code].parent
         /\ \A s \in Rows : s.code = r.code => s.parent = r.parent
<1>1. ASSUME NEW s \in Rows, NEW p \in Codelists, s.code \in DOMAIN p
      PROVE  s.parent = p[s.code].parent
  <2>1. PICK q \in Codelists : s.code \in DOMAIN q /\ s.parent = q[s.code].parent
    BY DEF TreeInv
  <2> QED
    BY <1>1, <2>1, ParentsAgree
<1>2. PICK p \in Codelists : r.code \in DOMAIN p
  BY DEF TreeInv
<1> QED
  BY <1>1, <1>2

Settled(R) ==
  /\ \A r \in R : \E p \in Codelists : r.code \in DOMAIN p /\ r.parent = p[r.code].parent
  /\ \A r \in R : r.parent # r.code
  /\ \A r, s \in R : r.code = s.code => r.path = s.path

Alike(r, s) == r.code = s.code /\ r.parent = s.parent /\ r.path = s.path

LEMMA SettledRows ==
  ASSUME NEW R, NEW S, Settled(R), \A s \in S : \E r \in R : Alike(r, s)
  PROVE  Settled(S)
<1> QED
  BY DEF Settled, Alike

LEMMA ChainedRows ==
  ASSUME NEW R, NEW S, NEW r, NEW s, Chained(r, R), Alike(r, s),
         \A x \in R : \E y \in S : Alike(x, y)
  PROVE  Chained(s, S)
<1> QED
  BY DEF Chained, Alike

LEMMA TreeStep == ASSUME Inv, Next PROVE TreeInv'
<1>0. PhaseInv /\ TypeOK /\ IdInv /\ LockInv /\ KeptInv /\ TreeInv
  BY DEF Inv
<1>1. PICK j \in Jobs :
           \/ SubmitEff(j) \/ BeginEff(j) \/ FindEff(j) \/ CloseEff(j) \/ InsertEff(j)
           \/ BindEff(j) \/ CommitCodelist(j) \/ Quits(j)
  BY Effects
<1>2. Settled(Rows)
  BY <1>0 DEF TreeInv, Settled
<1> DEFINE
      Below(k) ==
        job[k].step \in {"close", "insert"} =>
          LET parent == job[k].payload[job[k].code].parent
          IN  \/ parent = None
              \/ parent # job[k].code /\ \E r \in gold \cup job[k].news : r.code = parent
<1>3. \A k \in Jobs : Below(k)
  BY <1>0 DEF TreeInv
<1>4. ASSUME gold' = gold, \A k \in Jobs \ {j} : job'[k] = job[k], job'[j].news = job[j].news,
             Below(j)'
      PROVE  TreeInv'
  <2>1. \A k \in Jobs : job'[k].news = job[k].news
    BY <1>4
  <2>2. Rows' = Rows
    BY <1>4, <2>1 DEF Rows
  <2>3. \A k \in Jobs : Below(k)'
    BY <1>3, <1>4
  <2> QED
    BY <1>0, <1>4, <2>1, <2>2, <2>3 DEF TreeInv
<1>5. CASE SubmitEff(j)
  BY <1>4, <1>5 DEF SubmitEff, Only, SameWork
<1>6. CASE BeginEff(j)
  BY <1>4, <1>6 DEF BeginEff, Only, SameWork
<1>7. CASE BindEff(j)
  BY <1>4, <1>7 DEF BindEff, Only, SameWork
<1>8. CASE CloseEff(j)
  <2>1. Below(j)'
    BY <1>3, <1>8 DEF CloseEff, Only, SameTask
  <2> QED
    BY <1>4, <1>8, <2>1 DEF CloseEff, Only
<1>9. CASE FindEff(j)
  <2> DEFINE c == job'[j].code
             parent == job[j].payload[c].parent
  <2>1. gold' = gold /\ job'[j].payload = job[j].payload /\ job'[j].news = job[j].news
    BY <1>9 DEF FindEff, Only, SameWork, SameTask
  <2>2. c \in DOMAIN job[j].payload /\ job[j].payload \in Codelists
    <3>1. Working(j) /\ job[j].step # "idle" /\ c \in job[j].todo
      BY <1>9 DEF FindEff, Working
    <3> QED
      BY <1>0, <3>1 DEF PhaseInv
  <2>3. parent = None \/ \E r \in gold \cup job[j].news : r.code = parent
    BY <1>9 DEF FindEff, Ready, Current
  <2>4. ASSUME NEW r \in gold \cup job[j].news, r.code = c PROVE parent # c
    <3>1. r \in Rows
      BY DEF Rows
    <3>2. r.parent = parent
      BY <1>0, <2>2, <2>4, <3>1, SameParent
    <3>3. r.parent # r.code
      BY <1>2, <3>1 DEF Settled
    <3> QED
      BY <2>4, <3>2, <3>3
  <2>5. \/ parent = None
        \/ parent # c /\ \E r \in gold \cup job[j].news : r.code = parent
    BY <2>3, <2>4
  <2>6. Below(j)'
    BY <2>1, <2>5
  <2> QED
    BY <1>4, <1>9, <2>6 DEF FindEff, Only, SameWork
<1>10. CASE InsertEff(j)
  <2> DEFINE c == job[j].code
             p == job[j].payload
  <2>1. PICK N \in SUBSET Row : Adds(j, N) /\ job'[j].news = job[j].news \cup N
    BY <1>10 DEF InsertEff
  <2>2. /\ gold' = gold /\ \A k \in Jobs \ {j} : job'[k] = job[k]
        /\ job[j].step = "insert" /\ job'[j].step = "open"
    BY <1>10 DEF InsertEff, Only
  <2>3. c \in DOMAIN p /\ p \in Codelists
    <3>1. Working(j) /\ job[j].step # "idle" /\ c \in job[j].todo
      BY <1>0, <2>2 DEF Working, PhaseInv
    <3> QED
      BY <1>0, <3>1 DEF PhaseInv
  <2>4. CASE N = {}
    BY <1>4, <2>1, <2>2, <2>4
  <2>5. CASE N # {}
    <3>1. PICK n \in Row :
              /\ N = {n} /\ n.code = c /\ n.parent = p[c].parent
              /\ IF n.parent = None THEN n.path = <<c>>
                 ELSE \E q \in Current(j, n.parent) : n.path = Append(q.path, c)
      BY <2>1, <2>5 DEF Adds
    <3>2. n.parent # n.code
      BY <1>3, <2>2, <2>3, <3>1, ConstantsOK
    <3>3. \A q \in Current(j, n.parent) : q \in gold \cup job[j].news /\ q \in Rows
                                          /\ q.code = n.parent
      BY DEF Current, Rows
    <3>4. ASSUME NEW s \in Rows, s.code = c PROVE s.path = n.path
      <4>1. s.parent = n.parent
        BY <1>0, <2>3, <3>1, <3>4, SameParent
      <4>2. IF s.parent = None THEN s.path = <<s.code>>
            ELSE \E q \in Rows : q.code = s.parent /\ s.path = Append(q.path, s.code)
        <5>1. CASE s \in gold
          BY <1>0, <5>1 DEF TreeInv, Chained, Rows
        <5>2. ASSUME NEW k \in Jobs, s \in job[k].news
              PROVE  IF s.parent = None THEN s.path = <<s.code>>
                     ELSE \E q \in Rows : q.code = s.parent /\ s.path = Append(q.path, s.code)
          <6>1. Chained(s, gold \cup job[k].news) /\ gold \cup job[k].news \subseteq Rows
            BY <1>0, <5>2 DEF TreeInv, Rows
          <6> QED
            BY <6>1 DEF Chained
        <5> QED
          BY <5>1, <5>2 DEF Rows
      <4>3. CASE n.parent = None
        BY <3>1, <3>4, <4>1, <4>2, <4>3
      <4>4. CASE n.parent # None
        <5>1. PICK q \in Current(j, n.parent) : n.path = Append(q.path, c)
          BY <3>1, <4>4
        <5>2. PICK x \in Rows : x.code = s.parent /\ s.path = Append(x.path, s.code)
          BY <4>1, <4>2, <4>4
        <5>3. q.path = x.path
          BY <1>2, <3>3, <4>1, <5>1, <5>2 DEF Settled
        <5> QED
          BY <3>4, <5>1, <5>2, <5>3
      <4> QED
        BY <4>3, <4>4
    <3>5. Rows' = Rows \cup {n}
      <4>1. \A k \in Jobs : job'[k].news = IF k = j THEN job[j].news \cup {n} ELSE job[k].news
        BY <2>1, <2>2, <3>1
      <4> QED
        BY <2>2, <4>1 DEF Rows
    <3>6. /\ \A r \in Rows' : \E q \in Codelists : r.code \in DOMAIN q /\ r.parent = q[r.code].parent
          /\ \A r \in Rows' : r.parent # r.code
          /\ \A r, s \in Rows' : r.code = s.code => r.path = s.path
      BY <1>2, <2>3, <3>1, <3>2, <3>4, <3>5 DEF Settled
    <3>7. \A k \in Jobs : \A r \in job'[k].news : Chained(r, gold \cup job'[k].news)
      <4>1. ASSUME NEW k \in Jobs \ {j}, NEW r \in job'[k].news
            PROVE  Chained(r, gold \cup job'[k].news)
        BY <1>0, <2>2, <4>1 DEF TreeInv
      <4>2. ASSUME NEW r \in job[j].news PROVE Chained(r, gold \cup job'[j].news)
        <5>1. Chained(r, gold \cup job[j].news)
          BY <1>0 DEF TreeInv
        <5> QED
          BY <2>1, <5>1 DEF Chained
      <4>3. Chained(n, gold \cup job'[j].news)
        BY <2>1, <3>1, <3>3 DEF Chained
      <4> QED
        BY <2>1, <3>1, <4>1, <4>2, <4>3
    <3>8. \A k \in Jobs : Below(k)'
      BY <1>3, <2>2
    <3>9. \A r \in gold' : Chained(r, gold)
      BY <1>0, <2>2 DEF TreeInv
    <3> QED
      BY <2>2, <3>6, <3>7, <3>8, <3>9 DEF TreeInv
  <2> QED
    BY <2>4, <2>5
<1>11. CASE CommitCodelist(j)
  <2>1. /\ job[j].step = "open" /\ job' = Leave(j, "done", Written(j)) /\ Written(j) \subseteq Codes
        /\ job[j].news \subseteq gold'
        /\ \A r \in gold : r.id \notin job[j].closes => r \in gold'
        /\ \A r \in gold : r.id \in job[j].closes => Retired(r) \in gold'
        /\ \A r \in gold : Alike(r, Retired(r))
        /\ \A r \in gold' : \/ r \in job[j].news
                            \/ r \in gold /\ r.id \notin job[j].closes
                            \/ \E s \in gold : s.id \in job[j].closes /\ r = Retired(s)
    BY <1>0, <1>11, CommitDoes DEF Alike
  <2>2. \A r \in gold : \E s \in gold' : Alike(r, s)
    BY <2>1 DEF Alike
  <2>3. \A r \in gold' : r \in job[j].news \/ \E s \in gold : Alike(s, r)
    BY <2>1 DEF Alike
  <2>4. /\ job'[j].news = {} /\ job'[j].step = "done"
        /\ \A k \in Jobs \ {j} : /\ job'[k].news = job[k].news /\ job'[k].step = job[k].step
                                 /\ job'[k].code = job[k].code /\ job'[k].payload = job[k].payload
    BY <1>0, <2>1, LeaveFields
  <2>5. \A s \in Rows' : \E r \in Rows : Alike(r, s)
    <3>1. \A s \in gold' : \E r \in Rows : Alike(r, s)
      BY <2>3 DEF Rows, Alike
    <3>2. \A k \in Jobs : \A s \in job'[k].news : s \in Rows /\ Alike(s, s)
      BY <2>4 DEF Rows, Alike
    <3> QED
      BY <3>1, <3>2 DEF Rows
  <2>6. Settled(Rows')
    BY <1>2, <2>5, SettledRows
  <2>7. \A r \in gold' : Chained(r, gold')
    <3>1. ASSUME NEW r \in job[j].news PROVE Chained(r, gold')
      <4>1. Chained(r, gold \cup job[j].news) /\ Alike(r, r)
        BY <1>0 DEF TreeInv, Alike
      <4>2. \A x \in gold \cup job[j].news : \E y \in gold' : Alike(x, y)
        BY <2>1, <2>2 DEF Alike
      <4> QED
        BY <4>1, <4>2, ChainedRows
    <3>2. ASSUME NEW r \in gold, NEW s, Alike(r, s) PROVE Chained(s, gold')
      <4>1. Chained(r, gold)
        BY <1>0 DEF TreeInv
      <4> QED
        BY <2>2, <3>2, <4>1, ChainedRows
    <3> QED
      BY <2>3, <3>1, <3>2
  <2>8. \A k \in Jobs : \A r \in job'[k].news : Chained(r, gold' \cup job'[k].news)
    <3>1. SUFFICES ASSUME NEW k \in Jobs \ {j}, NEW r \in job[k].news
                   PROVE  Chained(r, gold' \cup job[k].news)
      BY <2>4
    <3>2. Chained(r, gold \cup job[k].news) /\ Alike(r, r)
      BY <1>0 DEF TreeInv, Alike
    <3>3. \A x \in gold \cup job[k].news : \E y \in gold' \cup job[k].news : Alike(x, y)
      BY <2>2 DEF Alike
    <3> QED
      BY <3>2, <3>3, ChainedRows
  <2>9. ASSUME NEW k \in Jobs PROVE Below(k)'
    <3>1. CASE k = j
      BY <2>4, <3>1
    <3>2. CASE k # j
      <4>1. Below(k)
        BY <1>3
      <4>2. \A r \in gold \cup job[k].news : \E s \in gold' \cup job'[k].news : s.code = r.code
        BY <2>2, <2>4, <3>2 DEF Alike
      <4> QED
        BY <2>4, <3>2, <4>1, <4>2
    <3> QED
      BY <3>1, <3>2
  <2> QED
    BY <2>6, <2>7, <2>8, <2>9 DEF TreeInv, Settled
<1>12. CASE Quits(j)
  <2>1. PICK st \in {"done", "failed"} : job' = Leave(j, st, {}) /\ gold' = gold
    BY <1>12 DEF Quits
  <2>2. /\ job'[j].news = {} /\ job'[j].step = st
        /\ \A k \in Jobs \ {j} : /\ job'[k].news = job[k].news /\ job'[k].step = job[k].step
                                 /\ job'[k].code = job[k].code /\ job'[k].payload = job[k].payload
    BY <1>0, <2>1, LeaveFields
  <2>3. Rows' \subseteq Rows
    <3>1. \A k \in Jobs : job'[k].news \subseteq job[k].news
      BY <2>2
    <3> QED
      BY <2>1, <3>1 DEF Rows
  <2>4. Settled(Rows')
    BY <1>2, <2>3 DEF Settled
  <2>5. \A k \in Jobs : \A r \in job'[k].news : Chained(r, gold \cup job'[k].news)
    BY <1>0, <2>2 DEF TreeInv
  <2>6. ASSUME NEW k \in Jobs PROVE Below(k)'
    BY <1>3, <2>1, <2>2
  <2>7. \A r \in gold' : Chained(r, gold')
    BY <1>0, <2>1 DEF TreeInv
  <2> QED
    BY <2>1, <2>4, <2>5, <2>6, <2>7 DEF TreeInv, Settled
<1> QED
  BY <1>1, <1>5, <1>6, <1>7, <1>8, <1>9, <1>10, <1>11, <1>12

LEMMA LandStep == ASSUME Inv, Next PROVE LandInv'
<1>0. PhaseInv /\ TypeOK /\ IdInv /\ LockInv /\ LandInv
  BY DEF Inv
<1>1. PICK j \in Jobs :
           \/ SubmitEff(j) \/ BeginEff(j) \/ FindEff(j) \/ CloseEff(j) \/ InsertEff(j)
           \/ BindEff(j) \/ CommitCodelist(j) \/ Quits(j)
  BY Effects
<1> DEFINE
      L1(k) == Working(k) => \A d \in DOMAIN job[k].payload \ (job[k].todo \cup job[k].rival) :
                 \E r \in Current(k, d) : r.label = job[k].payload[d].label
      L2(k) == job[k].step = "close" /\ job[k].target # None =>
                 \E r \in gold : r.id = job[k].target /\ r.code = job[k].code
      L3(k) == job[k].step = "close" /\ job[k].code \notin job[k].rival =>
                 IF job[k].target = None
                 THEN \A r \in Current(k, job[k].code) :
                        r.label = job[k].payload[job[k].code].label
                 ELSE \E r \in gold : r.id = job[k].target /\ r.current
      L4(k) == job[k].step = "insert" /\ job[k].code \notin job[k].rival =>
                 \A r \in Current(k, job[k].code) :
                   r.label = job[k].payload[job[k].code].label
      L5(k) == job[k].step = "bound" =>
                 /\ \A a, b \in job[k].bound : a[1] = b[1] => a = b
                 /\ \A d \in DOMAIN job[k].payload \ job[k].rival : \E r \in gold :
                      r.current /\ r.code = d /\ <<r.id, job[k].payload[d]>> \in job[k].bound
      L(k) == L1(k) /\ L2(k) /\ L3(k) /\ L4(k) /\ L5(k)
<1>2. LandInv <=> \A k \in Jobs : L(k)
  BY DEF LandInv
<1>3. LandInv' <=> \A k \in Jobs : L(k)'
  BY DEF LandInv
<1>4. ASSUME gold' = gold, NEW k \in Jobs, job'[k] = job[k] PROVE L(k)'
  BY <1>0, <1>2, <1>4 DEF Current, Working
<1>5. ASSUME Only(j), L(j)' PROVE LandInv'
  BY <1>3, <1>4, <1>5 DEF Only
<1>6. CASE SubmitEff(j)
  BY <1>5, <1>6 DEF SubmitEff, Working
<1>7. CASE BeginEff(j)
  <2>1. L1(j)'
    BY <1>7 DEF BeginEff, SameTask
  <2>2. L(j)'
    BY <1>7, <2>1 DEF BeginEff
  <2> QED
    BY <1>5, <1>7, <2>2 DEF BeginEff
<1>8. CASE FindEff(j)
  <2> DEFINE c == job'[j].code
  <2>1. /\ gold' = gold /\ SameTask(j) /\ SameWork(j) /\ job'[j].todo = job[j].todo
        /\ job'[j].step = "close" /\ Working(j) /\ c \in job[j].todo
    BY <1>8 DEF FindEff, Only, Working
  <2>2. \A d : Current(j, d)' = Current(j, d)
    BY <2>1 DEF Current, SameWork
  <2>3. L1(j)'
    BY <1>0, <1>2, <2>1, <2>2 DEF SameTask, Working
  <2>4. \A r \in Current(j, c) : r \in gold /\ r.code = c /\ r.current
    BY <1>0, <2>1 DEF Current, IdInv
  <2>5. L2(j)' /\ L3(j)'
    BY <1>8, <2>1, <2>2, <2>4 DEF FindEff, SameTask
  <2>6. L(j)'
    BY <2>1, <2>3, <2>5
  <2> QED
    BY <1>5, <1>8, <2>6 DEF FindEff
<1>9. CASE CloseEff(j)
  <2> DEFINE c == job[j].code
  <2>1. /\ gold' = gold /\ SameTask(j) /\ job'[j].todo = job[j].todo /\ job'[j].code = c
        /\ job'[j].news = job[j].news /\ job[j].closes \subseteq job'[j].closes
        /\ job[j].step = "close" /\ job'[j].step = "insert" /\ Working(j)
        /\ c \in job[j].todo
    BY <1>0, <1>9 DEF CloseEff, Only, Working, PhaseInv
  <2>2. \A r \in gold : r.id \in job'[j].closes \ job[j].closes => r.code = c
    <3>1. ASSUME NEW r \in gold, r.id \in job'[j].closes \ job[j].closes
          PROVE  r.code = c
      <4>1. r.id = job[j].target
        BY <1>9, <3>1 DEF CloseEff
      <4>2. r.id # None
        BY <1>0, ConstantsOK DEF TypeOK, Row, Ids
      <4>3. PICK s \in gold : s.id = r.id /\ s.code = c
        BY <1>0, <1>2, <2>1, <4>1, <4>2
      <4> QED
        BY <1>0, <4>3 DEF IdInv
    <3> QED
      BY <3>1
  <2>3. L1(j)'
    <3>1. ASSUME NEW d \in DOMAIN job[j].payload \ (job[j].todo \cup job[j].rival)
          PROVE  \E r \in Current(j, d)' : r.label = job[j].payload[d].label
      <4>1. PICK r \in Current(j, d) : r.label = job[j].payload[d].label
        BY <1>0, <1>2, <2>1
      <4>2. d # c /\ r.code = d
        BY <2>1, <4>1 DEF Current
      <4>3. r \in Current(j, d)'
        BY <2>1, <2>2, <4>2 DEF Current
      <4> QED
        BY <4>1, <4>3
    <3> QED
      BY <2>1, <3>1 DEF SameTask
  <2>4. L4(j)'
    <3>1. SUFFICES ASSUME c \notin job[j].rival, NEW x \in Current(j, c)'
                   PROVE  x.label = job[j].payload[c].label
      BY <2>1 DEF SameTask
    <3>2. x \in gold /\ x.current /\ x.code = c /\ x.id \notin job'[j].closes
      BY <1>0, <2>1 DEF Current, IdInv
    <3>3. CASE job[j].target = None
      <4>1. x \in Current(j, c)
        BY <2>1, <3>2 DEF Current
      <4> QED
        BY <1>0, <1>2, <2>1, <3>1, <3>3, <4>1
    <3>4. CASE job[j].target # None
      <4>1. PICK r \in gold : r.id = job[j].target /\ r.current
        BY <1>0, <1>2, <2>1, <3>1, <3>4
      <4>2. PICK s \in gold : s.id = job[j].target /\ s.code = c
        BY <1>0, <1>2, <2>1, <3>4
      <4>3. r.id \in job'[j].closes /\ r.code = c
        BY <1>0, <1>9, <4>1, <4>2 DEF CloseEff, IdInv
      <4>4. x = r
        BY <1>0, <3>2, <4>1, <4>3 DEF LockInv
      <4> QED
        BY <3>2, <4>3, <4>4
    <3> QED
      BY <3>3, <3>4
  <2>5. L(j)'
    BY <2>1, <2>3, <2>4
  <2> QED
    BY <1>5, <1>9, <2>5 DEF CloseEff
<1>10. CASE InsertEff(j)
  <2> DEFINE c == job[j].code
             p == job[j].payload
  <2>1. PICK N \in SUBSET Row : Adds(j, N) /\ job'[j].news = job[j].news \cup N
    BY <1>10 DEF InsertEff
  <2>2. /\ gold' = gold /\ SameTask(j) /\ job'[j].todo = job[j].todo \ {c}
        /\ job'[j].closes = job[j].closes /\ job[j].step = "insert"
        /\ job'[j].step = "open" /\ Working(j)
    BY <1>10 DEF InsertEff, Only, Working
  <2>3. ASSUME NEW d \in DOMAIN p \ (job'[j].todo \cup job[j].rival)
        PROVE  \E r \in Current(j, d)' : r.label = p[d].label
    <3>1. \A r \in Current(j, d) : r \in Current(j, d)'
      BY <2>1, <2>2 DEF Current
    <3>2. CASE d # c
      <4>1. \E r \in Current(j, d) : r.label = p[d].label
        BY <1>0, <1>2, <2>2, <3>2
      <4> QED
        BY <3>1, <4>1
    <3>3. CASE d = c /\ N = {}
      <4>1. PICK r \in Current(j, c) : TRUE
        BY <2>1, <3>3 DEF Adds
      <4>2. r.label = p[c].label
        BY <1>0, <1>2, <2>2, <3>3, <4>1
      <4> QED
        BY <3>1, <3>3, <4>1, <4>2
    <3>4. CASE d = c /\ N # {}
      <4>1. PICK r \in N : r.code = c /\ r.label = p[c].label
        BY <2>1, <3>4 DEF Adds
      <4>2. r \in Current(j, d)'
        BY <2>1, <3>4, <4>1 DEF Current
      <4> QED
        BY <3>4, <4>1, <4>2
    <3> QED
      BY <3>2, <3>3, <3>4
  <2>4. L1(j)'
    BY <2>2, <2>3 DEF SameTask
  <2>5. L(j)'
    BY <2>2, <2>4
  <2> QED
    BY <1>5, <1>10, <2>5 DEF InsertEff
<1>11. CASE BindEff(j)
  <2> DEFINE p == job[j].payload
             B == {<<r.id, p[r.code]>> : r \in {s \in gold : s.current /\ s.code \in DOMAIN p}}
  <2>1. gold' = gold /\ SameTask(j) /\ job'[j].step = "bound" /\ job'[j].bound = B
    BY <1>11 DEF BindEff, Only
  <2>2. \A a, b \in B : a[1] = b[1] => a = b
    <3>1. SUFFICES ASSUME NEW r \in gold, NEW s \in gold, r.id = s.id
                   PROVE  r = s
      OBVIOUS
    <3> QED
      BY <1>0, <3>1 DEF IdInv
  <2>3. \A d \in DOMAIN p : \E r \in gold : r.current /\ r.code = d
    <3>1. DOMAIN p \subseteq {r.code : r \in {s \in gold : s.current}}
      BY <1>11 DEF BindEff, Valid
    <3> QED
      BY <3>1
  <2>4. \A d \in DOMAIN p : \E r \in gold : r.current /\ r.code = d /\ <<r.id, p[d]>> \in B
    BY <2>3
  <2> HIDE DEF B
  <2>5. L5(j)'
    BY <2>1, <2>2, <2>4 DEF SameTask
  <2>6. L(j)'
    BY <2>1, <2>5 DEF Working
  <2> QED
    BY <1>5, <1>11, <2>6 DEF BindEff
<1>12. CASE CommitCodelist(j)
  <2>1. /\ job[j].step = "open" /\ job' = Leave(j, "done", Written(j)) /\ Written(j) \subseteq Codes
        /\ \A r \in gold : r.id \notin job[j].closes => r \in gold'
        /\ \A r \in gold : r.id \in job[j].closes => Retired(r) \in gold'
        /\ \A r \in gold : Retired(r).id = r.id /\ Retired(r).code = r.code
        /\ \A r \in gold : Retired(r).current = FALSE
        /\ \A r \in gold' : \/ r \in job[j].news
                            \/ r \in gold /\ r.id \notin job[j].closes
                            \/ \E s \in gold : s.id \in job[j].closes /\ r = Retired(s)
    BY <1>0, <1>12, CommitDoes
  <2>2. \A r \in gold : ~Retired(r).current
    BY <2>1
  <2>3. \A r : r.code \notin Written(j) =>
               (r \in gold' /\ r.current <=> r \in gold /\ r.current)
    <3>1. /\ \A r \in job[j].news : r.code \in Written(j)
          /\ \A r \in gold : r.id \in job[j].closes => r.code \in Written(j)
      BY DEF Written
    <3> QED
      BY <2>1, <2>2, <3>1
  <2>4. job'[j].step = "done"
    BY <1>0, <2>1, LeaveFields
  <2>5. L(j)'
    BY <2>4 DEF Working
  <2>6. ASSUME NEW k \in Jobs \ {j} PROVE L(k)'
    <3>1. /\ job'[k].step = job[k].step /\ job'[k].payload = job[k].payload
          /\ job'[k].todo = job[k].todo /\ job'[k].code = job[k].code
          /\ job'[k].target = job[k].target /\ job'[k].closes = job[k].closes
          /\ job'[k].news = job[k].news /\ job'[k].bound = job[k].bound
          /\ Working(k) \/ job[k].step = "bound" =>
               Written(j) \cup job[k].rival \subseteq job'[k].rival
      BY <1>0, <2>1, LeaveFields
    <3>2. Working(k)' <=> Working(k)
      BY <3>1 DEF Working
    <3>3. \A d : d \notin Written(j) => \A r : r \in Current(k, d)' <=> r \in Current(k, d)
      BY <2>3, <3>1 DEF Current
    <3>4. L1(k)'
      <4>1. SUFFICES ASSUME Working(k),
                            NEW d \in DOMAIN job[k].payload \ (job[k].todo \cup job'[k].rival)
                     PROVE  \E r \in Current(k, d)' : r.label = job[k].payload[d].label
        BY <3>1, <3>2
      <4>2. d \notin Written(j) /\ d \notin job[k].rival
        BY <3>1, <4>1
      <4>3. PICK r \in Current(k, d) : r.label = job[k].payload[d].label
        BY <1>0, <1>2, <4>1, <4>2
      <4> QED
        BY <3>3, <4>2, <4>3
    <3>5. L2(k)'
      <4>1. SUFFICES ASSUME job[k].step = "close", job[k].target # None
                     PROVE  \E r \in gold' : r.id = job[k].target /\ r.code = job[k].code
        BY <3>1
      <4>2. PICK r \in gold : r.id = job[k].target /\ r.code = job[k].code
        BY <1>0, <1>2, <4>1
      <4> QED
        BY <2>1, <4>2
    <3>6. L3(k)'
      <4>1. SUFFICES ASSUME job[k].step = "close", job[k].code \notin job'[k].rival
                     PROVE  IF job[k].target = None
                            THEN \A r \in Current(k, job[k].code)' :
                                   r.label = job[k].payload[job[k].code].label
                            ELSE \E r \in gold' : r.id = job[k].target /\ r.current
        BY <3>1
      <4>2. job[k].code \notin Written(j) /\ job[k].code \notin job[k].rival
        BY <3>1, <4>1 DEF Working
      <4>3. CASE job[k].target = None
        BY <1>0, <1>2, <3>1, <3>3, <4>1, <4>2, <4>3
      <4>4. CASE job[k].target # None
        <5>1. PICK r \in gold : r.id = job[k].target /\ r.current
          BY <1>0, <1>2, <4>1, <4>2, <4>4
        <5>2. PICK s \in gold : s.id = job[k].target /\ s.code = job[k].code
          BY <1>0, <1>2, <4>1, <4>4
        <5>3. r.code = job[k].code
          BY <1>0, <5>1, <5>2 DEF IdInv
        <5>4. r \in gold'
          BY <2>3, <4>2, <5>1, <5>3
        <5> QED
          BY <4>4, <5>1, <5>4
      <4> QED
        BY <4>3, <4>4
    <3>7. L4(k)'
      <4>1. SUFFICES ASSUME job[k].step = "insert", job[k].code \notin job'[k].rival
                     PROVE  \A r \in Current(k, job[k].code)' :
                              r.label = job[k].payload[job[k].code].label
        BY <3>1
      <4>2. job[k].code \notin Written(j) /\ job[k].code \notin job[k].rival
        BY <3>1, <4>1 DEF Working
      <4> QED
        BY <1>0, <1>2, <3>1, <3>3, <4>1, <4>2
    <3>8. L5(k)'
      <4>1. SUFFICES ASSUME job[k].step = "bound"
                     PROVE  /\ \A a, b \in job[k].bound : a[1] = b[1] => a = b
                            /\ \A d \in DOMAIN job[k].payload \ job'[k].rival : \E r \in gold' :
                                 r.current /\ r.code = d
                                   /\ <<r.id, job[k].payload[d]>> \in job[k].bound
        BY <3>1
      <4>2. ASSUME NEW d \in DOMAIN job[k].payload \ job'[k].rival
            PROVE  \E r \in gold' : r.current /\ r.code = d
                                      /\ <<r.id, job[k].payload[d]>> \in job[k].bound
        <5>1. d \notin Written(j) /\ d \notin job[k].rival
          BY <3>1, <4>1
        <5>2. PICK r \in gold : r.current /\ r.code = d
                                  /\ <<r.id, job[k].payload[d]>> \in job[k].bound
          BY <1>0, <1>2, <4>1, <5>1
        <5> QED
          BY <2>3, <5>1, <5>2
      <4> QED
        BY <1>0, <1>2, <4>1, <4>2
    <3> QED
      BY <3>4, <3>5, <3>6, <3>7, <3>8
  <2> QED
    BY <1>3, <2>5, <2>6
<1>13. CASE Quits(j)
  <2>1. PICK st \in {"done", "failed"} : job' = Leave(j, st, {}) /\ gold' = gold
    BY <1>13 DEF Quits
  <2>2. L(j)'
    BY <1>0, <2>1, LeaveFields DEF Working
  <2>3. ASSUME NEW k \in Jobs \ {j} PROVE L(k)'
    <3>1. /\ job'[k].step = job[k].step /\ job'[k].payload = job[k].payload
          /\ job'[k].todo = job[k].todo /\ job'[k].code = job[k].code
          /\ job'[k].target = job[k].target /\ job'[k].closes = job[k].closes
          /\ job'[k].news = job[k].news /\ job'[k].bound = job[k].bound
          /\ Working(k) \/ job[k].step = "bound" => job[k].rival \subseteq job'[k].rival
      BY <1>0, <2>1, LeaveFields
    <3>2. \A d : Current(k, d)' = Current(k, d)
      BY <2>1, <3>1 DEF Current
    <3>3. Working(k)' <=> Working(k)
      BY <3>1 DEF Working
    <3>4. L1(k)'
      BY <1>0, <1>2, <3>1, <3>2, <3>3
    <3>5. L2(k)' /\ L3(k)' /\ L4(k)'
      BY <1>0, <1>2, <2>1, <3>1, <3>2 DEF Working
    <3>6. L5(k)'
      <4>1. L5(k)
        BY <1>0, <1>2
      <4> QED
        BY <2>1, <3>1, <4>1
    <3> QED
      BY <3>4, <3>5, <3>6
  <2> QED
    BY <1>3, <2>2, <2>3
<1> QED
  BY <1>1, <1>6, <1>7, <1>8, <1>9, <1>10, <1>11, <1>12, <1>13

LEMMA InvHolds == Spec => []Inv
<1>1. Inv /\ [Next]_vars => Inv'
  <2>1. ASSUME Inv, Next PROVE Inv'
    BY <2>1, TypesStep, PhaseStep, IdStep, LockStep, KeptStep, TreeStep, ValidStep, LandStep
       DEF Inv
  <2>2. ASSUME Inv, UNCHANGED vars PROVE Inv'
    <3>1. TypeOK' /\ PhaseInv' /\ IdInv' /\ KeptInv'
      BY <2>2 DEF vars, Inv, TypeOK, PhaseInv, IdInv, KeptInv, Working
    <3>2. LockInv'
      BY <2>2 DEF vars, Inv, LockInv
    <3>3. TreeInv' /\ ValidInv'
      BY <2>2 DEF vars, Inv, TreeInv, ValidInv, Rows, Chained, Valid, Working
    <3>4. LandInv'
      BY <2>2 DEF vars, Inv, LandInv, Current, Working
    <3> QED
      BY <3>1, <3>2, <3>3, <3>4 DEF Inv
  <2> QED
    BY <2>1, <2>2
<1> QED
  BY InitInv, <1>1, PTL DEF Spec

-----------------------------------------------------------------------------
(* What follows from it.                                                    *)

\* Types of gold, of the overlays and of the transactions at work.
THEOREM TypeCorrect == Spec => []TypeOK
<1>1. Inv => TypeOK
  BY DEF Inv
<1> QED
  BY <1>1, InvHolds, PTL

\* V18, "CURRENT-row invariant": however many publishes relabel one code, in any
\* interleaving of their statements, and whichever of them fail, the code has one current
\* row from its first publication on.
THEOREM CodesHaveOneRow == Spec => []OneCurrentRow
<1>1. Inv => OneCurrentRow
  <2> SUFFICES ASSUME Inv, NEW r \in gold
               PROVE  Cardinality({s \in gold : s.code = r.code /\ s.current}) = 1
    BY DEF OneCurrentRow
  <2>1. PICK q \in gold : q.code = r.code /\ q.current
    BY DEF Inv, KeptInv
  <2>2. {s \in gold : s.code = r.code /\ s.current} = {q}
    BY <2>1 DEF Inv, LockInv
  <2> QED
    BY <2>2, FS_Singleton
<1> QED
  BY <1>1, InvHolds, PTL

\* validateClassifiers() and validateDisplays() look at gold when a submission is staged;
\* what they accept still holds when the publish reads gold, any time later.
THEOREM ValidationHolds == Spec => []ValidStays
<1>1. Inv => ValidStays
  BY DEF Inv, ValidInv, ValidStays, Working
<1> QED
  BY <1>1, InvHolds, PTL

\* V23, refresh_classifier_code_path(): the path of a current row is its parent's and its
\* code, whichever of them was relabelled last and by whom.
THEOREM PathsAreChains == Spec => []PathIsTheChain
<1>1. Inv => PathIsTheChain
  <2> SUFFICES ASSUME Inv, NEW r \in gold, r.current
               PROVE  IF r.parent = None THEN r.path = <<r.code>>
                      ELSE \E q \in gold : /\ q.code = r.parent /\ q.current
                                           /\ r.path = Append(q.path, r.code)
    BY DEF PathIsTheChain
  <2>1. Chained(r, gold)
    BY DEF Inv, TreeInv
  <2>2. ASSUME NEW q \in gold, q.code = r.parent, r.path = Append(q.path, r.code)
        PROVE  \E s \in gold : /\ s.code = r.parent /\ s.current
                               /\ r.path = Append(s.path, r.code)
    <3>1. PICK s \in gold : s.code = q.code /\ s.current
      BY DEF Inv, KeptInv
    <3>2. s.path = q.path
      BY <3>1 DEF Inv, TreeInv, Rows
    <3> QED
      BY <2>2, <3>1, <3>2
  <2> QED
    BY <2>1, <2>2 DEF Chained
<1> QED
  BY <1>1, InvHolds, PTL

\* V18: a publish of a codelist retires rows and adds rows, and does nothing else to gold.
THEOREM HistoryIsKept == Spec => HistoryStands
<1>1. Inv /\ [Next]_vars =>
        [\A r \in gold : \/ r \in gold'
                         \/ r.current /\ [r EXCEPT !.current = FALSE] \in gold']_vars
  <2> SUFFICES ASSUME Inv, Next, NEW r \in gold
               PROVE  \/ r \in gold'
                      \/ r.current /\ [r EXCEPT !.current = FALSE] \in gold'
    OBVIOUS
  <2>1. CASE gold' = gold
    BY <2>1
  <2>2. ASSUME NEW j \in Jobs, CommitCodelist(j)
        PROVE  \/ r \in gold'
               \/ r.current /\ [r EXCEPT !.current = FALSE] \in gold'
    <3>1. /\ r.id \notin job[j].closes => r \in gold'
          /\ r.id \in job[j].closes => Retired(r) \in gold'
      BY <2>2, CommitDoes DEF Inv
    <3>2. ASSUME r.id \in job[j].closes PROVE r.current
      <4>1. PICK s \in gold : s.id = r.id /\ s.current
        BY <3>2 DEF Inv, LockInv
      <4> QED
        BY <4>1 DEF Inv, IdInv
    <3> QED
      BY <3>1, <3>2 DEF Retired
  <2> QED
    BY <2>1, <2>2, GoldStep
<1> QED
  BY <1>1, InvHolds, PTL DEF Spec, HistoryStands

LEMMA WhoCommits ==
  ASSUME Inv, Next, NEW j \in Jobs, Commits(j)
  PROVE  \/ job[j].step = "open" /\ CommitCodelist(j)
         \/ job[j].step = "bound" /\ CommitDisplays(j)
<1>0. TypeOK /\ PhaseInv
  BY DEF Inv
<1>1. PICK i \in Jobs :
           \/ SubmitEff(i) \/ BeginEff(i) \/ FindEff(i) \/ CloseEff(i) \/ InsertEff(i)
           \/ BindEff(i) \/ CommitCodelist(i) \/ Quits(i)
  BY Effects
<1>2. job[j].step # job'[j].step /\ job'[j].step = "done" /\ job[j].step \in {"open", "bound"}
  BY DEF Commits
<1>3. CASE SubmitEff(i) \/ BeginEff(i) \/ FindEff(i) \/ CloseEff(i) \/ InsertEff(i) \/ BindEff(i)
  BY <1>2, <1>3 DEF SubmitEff, BeginEff, FindEff, CloseEff, InsertEff, BindEff, Only
<1>4. CASE CommitCodelist(i)
  <2>1. job' = Leave(i, "done", Written(i)) /\ Written(i) \subseteq Codes /\ job[i].step = "open"
    BY <1>0, <1>4, CommitDoes
  <2>2. i = j
    BY <1>0, <1>2, <2>1, LeaveFields
  <2> QED
    BY <1>4, <2>1, <2>2
<1>5. CASE Quits(i)
  <2>1. PICK st \in {"done", "failed"} :
          /\ job' = Leave(i, st, {})
          /\ st = "done" => job[i].step = "bound" /\ CommitDisplays(i)
    BY <1>5 DEF Quits
  <2>2. i = j /\ st = "done"
    BY <1>0, <1>2, <2>1, LeaveFields
  <2> QED
    BY <2>1, <2>2
<1> QED
  BY <1>1, <1>3, <1>4, <1>5

\* publishClassifiers(): the labels of a submission are the current labels when it
\* commits, but for the codes that an overlapping publish has committed.
THEOREM LabelsLand == Spec => CodelistLands
<1>1. ASSUME Inv, Next, NEW j \in Jobs, Commits(j), job[j].kind = "codelists",
             NEW c \in DOMAIN job[j].payload \ job[j].rival
      PROVE  \E r \in gold' : r.code = c /\ r.current /\ r.label = job[j].payload[c].label
  <2>0. TypeOK /\ PhaseInv /\ IdInv /\ LandInv
    BY <1>1 DEF Inv
  <2>1. job[j].step = "open" /\ CommitCodelist(j)
    BY <1>1, <2>0, WhoCommits DEF PhaseInv
  <2>2. /\ job[j].todo = {} /\ job[j].news \subseteq gold'
        /\ \A r \in gold : r.id \notin job[j].closes => r \in gold'
    BY <2>0, <2>1, CommitDoes
  <2>3. PICK r \in Current(j, c) : r.label = job[j].payload[c].label
    BY <1>1, <2>0, <2>1, <2>2 DEF LandInv, Working
  <2>4. r \in gold' /\ r.code = c /\ r.current
    BY <2>0, <2>2, <2>3 DEF Current, IdInv
  <2> QED
    BY <2>3, <2>4
<1>2. Inv /\ [Next]_vars =>
        [\A j \in Jobs : Commits(j) /\ job[j].kind = "codelists" =>
           \A c \in DOMAIN job[j].payload \ job[j].rival :
             \E r \in gold' : r.code = c /\ r.current /\ r.label = job[j].payload[c].label]_vars
  BY <1>1
<1> QED
  BY <1>2, InvHolds, PTL DEF Spec, CodelistLands

\* publishDisplays(): the overlays of a submission hang on the current rows when it
\* commits, but for the codes that an overlapping publish has committed.
THEOREM OverlaysLand == Spec => DisplaysLand
<1>1. ASSUME Inv, Next, NEW j \in Jobs, Commits(j), job[j].kind = "displays",
             NEW c \in DOMAIN job[j].payload \ job[j].rival
      PROVE  \E r \in gold' : r.code = c /\ r.current /\ overlay'[r.id] = job[j].payload[c]
  <2>0. TypeOK /\ PhaseInv /\ LandInv
    BY <1>1 DEF Inv
  <2>1. job[j].step = "bound" /\ CommitDisplays(j)
    <3>1. job[j].step = "open" => job[j].kind = "codelists"
      BY <2>0 DEF PhaseInv, Working
    <3> QED
      BY <1>1, <3>1, WhoCommits
  <2>2. PICK r \in gold : r.current /\ r.code = c /\ <<r.id, job[j].payload[c]>> \in job[j].bound
    BY <1>1, <2>0, <2>1 DEF LandInv
  <2>3. \A a, b \in job[j].bound : a[1] = b[1] => a = b
    BY <2>0, <2>1 DEF LandInv
  <2>4. PICK b \in job[j].bound : /\ b = (CHOOSE x \in job[j].bound : x[1] = r.id)
                                  /\ b[1] = r.id
    BY <2>2
  <2>5. b = <<r.id, job[j].payload[c]>>
    BY <2>2, <2>3, <2>4
  <2>6. overlay'[r.id] = b[2] /\ gold' = gold
    <3>1. r.id \in Ids
      BY <2>0, <2>2 DEF TypeOK, Row
    <3> QED
      BY <2>1, <2>4, <3>1 DEF CommitDisplays
  <2> QED
    BY <2>2, <2>5, <2>6
<1>2. Inv /\ [Next]_vars =>
        [\A j \in Jobs : Commits(j) /\ job[j].kind = "displays" =>
           \A c \in DOMAIN job[j].payload \ job[j].rival :
             \E r \in gold' : r.code = c /\ r.current /\ overlay'[r.id] = job[j].payload[c]]_vars
  BY <1>1
<1> QED
  BY <1>2, InvHolds, PTL DEF Spec, DisplaysLand
=============================================================================
