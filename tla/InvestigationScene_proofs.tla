---------------------- MODULE InvestigationScene_proofs ----------------------
(***************************************************************************)
(* Proofs about InvestigationScene, for every set of selections, services, *)
(* filters and samples, and every bound on what the person does.           *)
(***************************************************************************)
EXTENDS InvestigationScene, TLAPS

(* The inductive invariant.                                                *)

\* The queries of a panel are numbered up to requestId.
NumberedUpTo(st) == \A r \in st.inflight : r.id <= st.requestId

\* The numbered panel loads exactly while its last query is in flight.
LastInv(st) ==
  /\ \A r \in st.inflight : r.id = st.requestId =>
       /\ st.loading
       /\ st.selection # None
       /\ r.question = st.question
  /\ st.loading =>
       [id |-> st.requestId, question |-> st.question] \in st.inflight
  /\ (st.selection # None /\ ~st.loading /\ ~st.unavailable) =>
       st.answer # None /\ st.answer.question = st.question

\* Another panel that has sent one query at a time waits for, or shows, the
\* answer of its last query.
LoneInv(st) ==
  /\ st.loading => st.inflight # {}
  /\ ~st.unavailable
  /\ (st.selection # None /\ ~st.overlap) =>
       /\ \A r \in st.inflight : r.question = st.question
       /\ ~st.loading => st.answer # None /\ st.answer.question = st.question

PanelInv(p, st) ==
  /\ NumberedUpTo(st)
  /\ IF p = Numbered THEN LastInv(st) ELSE LoneInv(st)

\* The mode a panel over spans was handed is the mode of the scene.
ModeInv == \A p \in Panels \ {Numbered} : panel[p].modeFilter = mode

IInv ==
  /\ TypeOK
  /\ \A p \in Panels : PanelInv(p, panel[p])
  /\ ModeInv
  /\ UpToDate

-----------------------------------------------------------------------------
(* The methods of a panel.                                                 *)

LEMMA ClauseTypes ==
  ASSUME NEW m \in Modes, NEW svc \in Services \cup {All}, NEW fs \in SUBSET Filter
  PROVE  /\ Clauses(fs) \in SUBSET Clause
         /\ ServiceClauses(svc) \in SUBSET Clause
         /\ ModeClauses(m) \in SUBSET Clause
         /\ SloClauses \in SUBSET Clause
<1>1. Clauses(fs) \in SUBSET Clause
  BY DEF Clauses, Clause
<1>2. ServiceClauses(svc) \in SUBSET Clause
  BY DEF ServiceClauses, Clause
<1>3. ModeClauses(m) \in SUBSET Clause
  BY DEF ModeClauses, Clause
<1>4. SloClauses \in SUBSET Clause
  BY DEF SloClauses, Clause
<1> QED
  BY <1>1, <1>2, <1>3, <1>4

LEMMA QuestionType ==
  ASSUME NEW p, NEW sel \in Selections, NEW m \in Modes,
         NEW svc \in Services \cup {All}, NEW fs \in SUBSET Filter
  PROVE  Question(p, sel, m, svc, fs) \in Questions
<1>2. SpanQuestion(sel, m, svc, fs) \in Questions
  BY ClauseTypes DEF SpanQuestion, Questions
<1>3. SaturationQuestion(sel, svc) \in Questions
  BY ClauseTypes DEF SaturationQuestion, Questions
<1> QED
  BY <1>2, <1>3 DEF Question

LEMMA HeatmapSqlType ==
  ASSUME NEW sc, NEW m \in Modes, NEW n \in Samples,
         NEW svc \in Services \cup {All}, NEW fs \in SUBSET Filter
  PROVE  HeatmapSql(sc, fs, svc, m, n) \in HeatmapSqls
<1>1. BuildHeatmapSql(fs, svc, m, n) \in HeatmapSqls
  BY ClauseTypes DEF BuildHeatmapSql, HeatmapSqls
<1>2. BuildDrilldownSql(fs) \in HeatmapSqls
  BY ClauseTypes DEF BuildDrilldownSql, HeatmapSqls
<1> QED
  BY <1>1, <1>2 DEF HeatmapSql

\* A query makes a panel load, wait for that query and disown older ones.
LEMMA RunQueryLemma ==
  ASSUME NEW p \in Panels, NEW st \in PanelState, NumberedUpTo(st),
         st.selection # None, NEW q \in Questions
  PROVE  LET r == RunQuery(st, q)
         IN /\ r \in PanelState
            /\ PanelInv(p, r)
            /\ r.selection = st.selection
            /\ r.modeFilter = st.modeFilter
            /\ r.question = q
            /\ r.loading
<1> DEFINE r == RunQuery(st, q)
           new == [id |-> st.requestId + 1, question |-> q]
<1>1. st.requestId + 1 \in Nat /\ new \in [id : Nat, question : Questions]
  BY DEF PanelState
<1>2. /\ r.selection = st.selection /\ r.modeFilter = st.modeFilter
      /\ r.loading = TRUE /\ r.unavailable = FALSE /\ r.answer = st.answer
      /\ r.requestId = st.requestId + 1
      /\ r.inflight = st.inflight \cup {new}
      /\ r.question = q /\ r.overlap = (st.inflight # {})
  BY DEF RunQuery, PanelState
<1>3. r \in PanelState
  <2>1. st.inflight \cup {new} \in SUBSET [id : Nat, question : Questions]
    BY <1>1 DEF PanelState
  <2>2. (st.inflight # {}) \in BOOLEAN
    OBVIOUS
  <2> QED
    BY <1>1, <2>1, <2>2 DEF RunQuery, PanelState
<1>4. \A x \in st.inflight : x.id \in Nat /\ x.id <= st.requestId
  BY DEF NumberedUpTo, PanelState
<1>5. NumberedUpTo(r)
  <2> SUFFICES ASSUME NEW x \in r.inflight
               PROVE  x.id <= r.requestId
    BY DEF NumberedUpTo
  <2>1. CASE x = new
    BY <2>1, <1>1, <1>2
  <2>2. CASE x \in st.inflight
    BY <2>2, <1>2, <1>4, <1>1 DEF PanelState
  <2> QED
    BY <2>1, <2>2, <1>2
<1>6. LastInv(r)
  <2>1. \A x \in r.inflight : x.id = r.requestId => x = new
    BY <1>1, <1>2, <1>4 DEF PanelState
  <2> HIDE DEF r
  <2> QED
    BY <2>1, <1>2 DEF LastInv
<1>7. LoneInv(r)
  <2> HIDE DEF r
  <2>1. new \in r.inflight /\ new.question = q
    BY <1>2
  <2>2. ~r.overlap => r.inflight = {new}
    BY <1>2
  <2> QED
    BY <2>1, <2>2, <1>2 DEF LoneInv
<1> QED
  BY <1>2, <1>3, <1>5, <1>6, <1>7 DEF PanelInv

\* A cleared panel shows nothing and waits for nothing.
LEMMA ResetLemma ==
  ASSUME NEW p \in Panels, NEW st \in PanelState, PanelInv(p, st)
  PROVE  LET r == Reset(p, st)
         IN /\ r \in PanelState
            /\ PanelInv(p, r)
            /\ r.selection = None
            /\ r.modeFilter = st.modeFilter
            /\ r.question = None
<1> DEFINE r == Reset(p, st)
           n == IF p = Numbered THEN st.requestId + 1 ELSE st.requestId
<1>1. n \in Nat
  BY DEF PanelState
<1>2. /\ r.selection = None /\ r.modeFilter = st.modeFilter
      /\ r.loading = FALSE /\ r.unavailable = FALSE /\ r.answer = None
      /\ r.requestId = n /\ r.inflight = st.inflight
      /\ r.question = None /\ r.overlap = st.overlap
  BY DEF Reset, PanelState
<1>3. r \in PanelState
  BY <1>1 DEF Reset, PanelState
<1>4. \A x \in st.inflight : x.id \in Nat /\ x.id <= st.requestId
  BY DEF PanelInv, NumberedUpTo, PanelState
<1>5. NumberedUpTo(r)
  BY <1>1, <1>2, <1>4 DEF NumberedUpTo, PanelState
<1>6. CASE p = Numbered
  <2>1. \A x \in r.inflight : x.id # r.requestId
    BY <1>2, <1>4, <1>6 DEF PanelState
  <2>2. LastInv(r)
    <3> HIDE DEF r
    <3> QED
      BY <2>1, <1>2 DEF LastInv
  <2> QED
    BY <2>2, <1>2, <1>3, <1>5, <1>6 DEF PanelInv
<1>7. CASE p # Numbered
  <2>1. LoneInv(r)
    <3> HIDE DEF r
    <3> QED
      BY <1>2 DEF LoneInv
  <2> QED
    BY <2>1, <1>2, <1>3, <1>5, <1>7 DEF PanelInv
<1> QED
  BY <1>6, <1>7

\* setSelection leaves a panel with that selection and asked about it.
LEMMA SetSelectionLemma ==
  ASSUME NEW p \in Panels, NEW st \in PanelState, PanelInv(p, st),
         NEW sel \in Selections \cup {None},
         NEW svc \in Services \cup {All}, NEW fs \in SUBSET Filter
  PROVE  LET r == SetSelection(p, st, sel, svc, fs)
         IN /\ r \in PanelState
            /\ PanelInv(p, r)
            /\ r.selection = sel
            /\ r.modeFilter = st.modeFilter
            /\ r.question = IF sel = None THEN None
                            ELSE Question(p, sel, st.modeFilter, svc, fs)
<1>1. CASE sel = None
  BY <1>1, ResetLemma DEF SetSelection
<1>2. CASE sel # None
  <2> DEFINE t == [st EXCEPT !.selection = sel]
             q == Question(p, sel, st.modeFilter, svc, fs)
  <2>1. t \in PanelState /\ t.selection = sel /\ t.modeFilter = st.modeFilter
        /\ t.inflight = st.inflight /\ t.requestId = st.requestId
    BY DEF PanelState
  <2>2. NumberedUpTo(t)
    BY <2>1 DEF PanelInv, NumberedUpTo
  <2>3. q \in Questions
    BY <1>2, QuestionType DEF PanelState
  <2>4. SetSelection(p, st, sel, svc, fs) = RunQuery(t, q)
    BY <1>2 DEF SetSelection
  <2> HIDE DEF t, q
  <2>5. /\ RunQuery(t, q) \in PanelState
        /\ PanelInv(p, RunQuery(t, q))
        /\ RunQuery(t, q).selection = t.selection
        /\ RunQuery(t, q).modeFilter = t.modeFilter
        /\ RunQuery(t, q).question = q
    BY <2>1, <2>2, <2>3, <1>2, RunQueryLemma
  <2> QED
    BY <2>1, <2>4, <2>5, <1>2 DEF q
<1> QED
  BY <1>1, <1>2

LEMMA RerunLemma ==
  ASSUME NEW p \in Panels, NEW st \in PanelState, PanelInv(p, st),
         NEW svc \in Services \cup {All}, NEW fs \in SUBSET Filter
  PROVE  LET r == Rerun(p, st, svc, fs)
         IN /\ r \in PanelState
            /\ PanelInv(p, r)
            /\ r.selection = st.selection
            /\ r.modeFilter = st.modeFilter
            /\ st.selection = None => r = st
            /\ st.selection # None =>
                 r.question = Question(p, st.selection, st.modeFilter, svc, fs)
<1>1. CASE st.selection = None
  BY <1>1 DEF Rerun
<1>2. CASE st.selection # None
  <2>1. st.selection \in Selections \cup {None}
    BY DEF PanelState
  <2>2. Rerun(p, st, svc, fs) = SetSelection(p, st, st.selection, svc, fs)
    BY <1>2 DEF Rerun
  <2> QED
    BY <1>2, <2>1, <2>2, SetSelectionLemma
<1> QED
  BY <1>1, <1>2

\* An answer fills the panel, or leaves a newer query its place.
LEMMA SettledLemma ==
  ASSUME NEW p \in Panels, NEW st \in PanelState, PanelInv(p, st),
         NEW r \in st.inflight, NEW outcome \in Outcomes(p)
  PROVE  LET s == Settled(p, st, r, outcome)
         IN /\ s \in PanelState
            /\ PanelInv(p, s)
            /\ s.selection = st.selection
            /\ s.modeFilter = st.modeFilter
            /\ s.question = st.question
<1> DEFINE rest == [st EXCEPT !.inflight = @ \ {r}]
           s == Fill(p, rest, r.question, outcome)
<1>1. r \in [id : Nat, question : Questions]
  BY DEF PanelState
<1>2. rest \in PanelState
  <2>1. st.inflight \ {r} \in SUBSET [id : Nat, question : Questions]
    BY DEF PanelState
  <2> QED
    BY <2>1 DEF PanelState
<1>3. /\ rest.selection = st.selection /\ rest.modeFilter = st.modeFilter
      /\ rest.loading = st.loading /\ rest.unavailable = st.unavailable
      /\ rest.answer = st.answer /\ rest.requestId = st.requestId
      /\ rest.inflight = st.inflight \ {r} /\ rest.question = st.question
      /\ rest.overlap = st.overlap
  BY DEF PanelState
<1> HIDE DEF rest
<1>4. NumberedUpTo(rest)
  BY <1>3 DEF PanelInv, NumberedUpTo
<1> DEFINE filled == [question |-> r.question, rows |-> outcome = "scores"]
<1>5. /\ s.selection = rest.selection /\ s.modeFilter = rest.modeFilter
      /\ s.loading = FALSE /\ s.unavailable = (outcome = "unavailable")
      /\ s.answer = IF outcome = "unavailable" THEN None ELSE filled
      /\ s.requestId = rest.requestId /\ s.inflight = rest.inflight
      /\ s.question = rest.question /\ s.overlap = rest.overlap
  BY <1>2 DEF Fill, PanelState
<1>a. filled \in [question : Questions, rows : BOOLEAN]
  <2>1. (outcome = "scores") \in BOOLEAN
    OBVIOUS
  <2> QED
    BY <1>1, <2>1
<1>b. filled # None /\ filled.question = r.question
  BY <1>a, AnswerAssumption
<1>6. s \in PanelState
  <2>1. (outcome = "unavailable") \in BOOLEAN
    OBVIOUS
  <2>2. (IF outcome = "unavailable" THEN None ELSE filled)
          \in [question : Questions, rows : BOOLEAN] \cup {None}
    BY <1>a
  <2> DEFINE a == IF outcome = "unavailable" THEN None ELSE filled
             b == outcome = "unavailable"
  <2>3. s = [rest EXCEPT !.answer = a, !.loading = FALSE, !.unavailable = b]
    BY DEF Fill
  <2> HIDE DEF a, b, s, filled
  <2> QED
    BY <1>2, <2>1, <2>2, <2>3 DEF PanelState, a, b
<1>7. NumberedUpTo(s)
  BY <1>4, <1>5 DEF NumberedUpTo
<1> HIDE DEF s, filled
<1>8. CASE p = Numbered /\ r.id # st.requestId
  <2>1. Settled(p, st, r, outcome) = rest
    BY <1>8 DEF Settled, rest
  <2>2. LastInv(st)
    BY <1>8 DEF PanelInv
  <2>3. LastInv(rest)
    BY <2>2, <1>3, <1>8 DEF LastInv
  <2> QED
    BY <2>1, <2>3, <1>2, <1>3, <1>4, <1>8 DEF PanelInv
<1>9. CASE p = Numbered /\ r.id = st.requestId
  <2>1. Settled(p, st, r, outcome) = s
    BY <1>9 DEF Settled, rest, s
  <2>2. LastInv(st)
    BY <1>9 DEF PanelInv
  <2>3. r.question = st.question
    BY <2>2, <1>9 DEF LastInv
  <2>4. \A x \in s.inflight : x.id # s.requestId
    <3> SUFFICES ASSUME NEW x \in st.inflight, x # r, x.id = st.requestId
                 PROVE  FALSE
      BY <1>3, <1>5
    <3>1. x.question = r.question /\ x.id = r.id
      BY <2>2, <2>3, <1>9 DEF LastInv
    <3>2. x \in [id : Nat, question : Questions]
      BY DEF PanelState
    <3> QED
      BY <3>1, <3>2, <1>1
  <2>5. (~s.unavailable) => s.answer # None /\ s.answer.question = s.question
    <3>1. SUFFICES ASSUME outcome # "unavailable"
                   PROVE  s.answer # None /\ s.answer.question = s.question
      BY <1>5
    <3> QED
      BY <3>1, <1>b, <2>3, <1>3, <1>5
  <2>6. LastInv(s)
    BY <2>4, <2>5, <1>5 DEF LastInv
  <2> QED
    BY <2>1, <2>6, <1>3, <1>5, <1>6, <1>7, <1>9 DEF PanelInv
<1>10. CASE p # Numbered
  <2>1. Settled(p, st, r, outcome) = s
    BY <1>10 DEF Settled, rest, s
  <2>2. LoneInv(st)
    BY <1>10 DEF PanelInv
  <2>3. outcome # "unavailable"
    BY <1>10 DEF Outcomes
  <2>4. s.answer # None /\ s.answer.question = r.question
    BY <2>3, <1>5, <1>b
  <2>5. (st.selection # None /\ ~st.overlap) => r.question = st.question
    BY <2>2 DEF LoneInv
  <2>6. LoneInv(s)
    BY <2>2, <2>3, <2>4, <2>5, <1>3, <1>5 DEF LoneInv
  <2> QED
    BY <2>1, <2>6, <1>3, <1>5, <1>6, <1>7, <1>10 DEF PanelInv
<1> QED
  BY <1>8, <1>9, <1>10

-----------------------------------------------------------------------------
(* The panels of a scene together.                                         *)

\* The panels are sound, hold the mode m and, where the scene has them, were
\* asked about sel in the scope of m, svc and fs.
Scoped(ps, sel, m, svc, fs) ==
  /\ ps \in [Panels -> PanelState]
  /\ \A p \in Panels : PanelInv(p, ps[p])
  /\ \A p \in Panels \ {Numbered} : ps[p].modeFilter = m
  /\ \A p \in PanelsOf(scene) :
       /\ ps[p].selection = sel
       /\ ps[p].question = IF sel = None THEN None
                           ELSE Question(p, sel, m, svc, fs)

\* The invariant says just that of the panels and the variables.
LEMMA InScope ==
  IInv => Scoped(panel, selection, mode, service, filters)
BY DEF IInv, Scoped, UpToDate, ModeInv, TypeOK

LEMMA PanelsOfPanels == PanelsOf(scene) \subseteq Panels
BY DEF PanelsOf, Panels, ExplorerPanels, DrilldownPanels

\* The question of the numbered panel does not depend on the mode.
LEMMA QuestionMode ==
  ASSUME NEW p, NEW sel, NEW m, NEW n, NEW svc, NEW fs, p = Numbered \/ m = n
  PROVE  Question(p, sel, m, svc, fs) = Question(p, sel, n, svc, fs)
BY DEF Question

LEMMA AllSetLemma ==
  ASSUME IInv, NEW sel \in Selections \cup {None}
  PROVE  Scoped(AllSet(sel), sel, mode, service, filters)
<1> DEFINE q(p) == SetSelection(p, panel[p], sel, service, filters)
<1>1. service \in Services \cup {All} /\ filters \in SUBSET Filter
  BY DEF IInv, TypeOK
<1>2. ASSUME NEW p \in Panels
      PROVE  /\ q(p) \in PanelState /\ PanelInv(p, q(p))
             /\ q(p).selection = sel
             /\ q(p).modeFilter = panel[p].modeFilter
             /\ q(p).question = IF sel = None THEN None
                  ELSE Question(p, sel, panel[p].modeFilter, service, filters)
  <2>1. panel[p] \in PanelState /\ PanelInv(p, panel[p])
    BY <1>2 DEF IInv, TypeOK
  <2> QED
    BY <2>1, <1>1, <1>2, SetSelectionLemma
<1> HIDE DEF q
<1>3. AllSet(sel) = [p \in Panels |-> IF p \in PanelsOf(scene) THEN q(p)
                                                              ELSE panel[p]]
  BY DEF AllSet, q
<1>4. \A p \in Panels : panel[p] \in PanelState /\ PanelInv(p, panel[p])
  BY DEF IInv, TypeOK
<1>5. \A p \in Panels \ {Numbered} : panel[p].modeFilter = mode
  BY DEF IInv, ModeInv
<1>6. \A p \in Panels :
        Question(p, sel, panel[p].modeFilter, service, filters)
          = Question(p, sel, mode, service, filters)
  BY <1>5, QuestionMode
<1> QED
  BY <1>2, <1>3, <1>4, <1>5, <1>6, PanelsOfPanels DEF Scoped

LEMMA AllRerunLemma ==
  ASSUME IInv, NEW svc \in Services \cup {All}, NEW fs \in SUBSET Filter
  PROVE  Scoped(AllRerun(svc, fs), selection, mode, svc, fs)
<1> DEFINE q(p) == Rerun(p, panel[p], svc, fs)
<1>1. \A p \in Panels : panel[p] \in PanelState /\ PanelInv(p, panel[p])
  BY DEF IInv, TypeOK
<1>2. ASSUME NEW p \in Panels
      PROVE  /\ q(p) \in PanelState /\ PanelInv(p, q(p))
             /\ q(p).selection = panel[p].selection
             /\ q(p).modeFilter = panel[p].modeFilter
             /\ panel[p].selection = None => q(p) = panel[p]
             /\ panel[p].selection # None => q(p).question =
                  Question(p, panel[p].selection, panel[p].modeFilter, svc, fs)
  BY <1>1, <1>2, RerunLemma
<1> HIDE DEF q
<1>3. AllRerun(svc, fs) = [p \in Panels |-> q(p)]
  BY DEF AllRerun, q
<1>4. \A p \in Panels \ {Numbered} : panel[p].modeFilter = mode
  BY DEF IInv, ModeInv
<1>5. \A p \in PanelsOf(scene) :
        /\ panel[p].selection = selection
        /\ selection = None => panel[p].question = None
  BY DEF IInv, UpToDate
<1>6. \A p \in Panels : Question(p, selection, panel[p].modeFilter, svc, fs)
                          = Question(p, selection, mode, svc, fs)
  BY <1>4, QuestionMode
<1> QED
  BY <1>2, <1>3, <1>4, <1>5, <1>6, PanelsOfPanels DEF Scoped

LEMMA ModeFilteredLemma ==
  ASSUME IInv, NEW m \in Modes
  PROVE  Scoped(ModeFiltered(m), selection, m, service, filters)
<1> DEFINE t(p) == [panel[p] EXCEPT !.modeFilter = m]
           q(p) == Rerun(p, t(p), service, filters)
<1>1. service \in Services \cup {All} /\ filters \in SUBSET Filter
  BY DEF IInv, TypeOK
<1>2. \A p \in Panels : panel[p] \in PanelState /\ PanelInv(p, panel[p])
  BY DEF IInv, TypeOK
<1>3. ASSUME NEW p \in Panels
      PROVE  /\ t(p) \in PanelState
             /\ t(p).modeFilter = m
             /\ t(p).selection = panel[p].selection
             /\ t(p).question = panel[p].question
             /\ PanelInv(p, t(p))
  <2>1. /\ t(p) \in PanelState
        /\ t(p).modeFilter = m
        /\ t(p).selection = panel[p].selection
        /\ t(p).question = panel[p].question
        /\ t(p).loading = panel[p].loading
        /\ t(p).unavailable = panel[p].unavailable
        /\ t(p).answer = panel[p].answer
        /\ t(p).requestId = panel[p].requestId
        /\ t(p).inflight = panel[p].inflight
        /\ t(p).overlap = panel[p].overlap
    BY <1>2, <1>3 DEF PanelState
  <2> HIDE DEF t
  <2> QED
    BY <2>1, <1>2, <1>3 DEF PanelInv, NumberedUpTo, LastInv, LoneInv
<1> HIDE DEF t
<1>4. ASSUME NEW p \in Panels
      PROVE  /\ q(p) \in PanelState /\ PanelInv(p, q(p))
             /\ q(p).selection = panel[p].selection
             /\ q(p).modeFilter = m
             /\ panel[p].selection = None => q(p).question = panel[p].question
             /\ panel[p].selection # None => q(p).question =
                  Question(p, panel[p].selection, m, service, filters)
  BY <1>1, <1>3, <1>4, RerunLemma
<1> HIDE DEF q
<1>5. ModeFiltered(m) = [p \in Panels |-> IF p = Numbered THEN panel[p]
                                                          ELSE q(p)]
  BY DEF ModeFiltered, q, t
<1>6. \A p \in PanelsOf(scene) :
        /\ panel[p].selection = selection
        /\ panel[p].question = IF selection = None THEN None
             ELSE Question(p, selection, mode, service, filters)
  BY DEF IInv, UpToDate
<1>7. Question(Numbered, selection, mode, service, filters)
        = Question(Numbered, selection, m, service, filters)
  BY QuestionMode
<1> QED
  BY <1>2, <1>4, <1>5, <1>6, <1>7, PanelsOfPanels DEF Scoped

-----------------------------------------------------------------------------
(* The steps.                                                              *)

\* A step of the person keeps the invariant if it leaves the panels asked in
\* the scope it leaves the variables in, and the heatmap drawn in it.
LEMMA InScopeStep ==
  ASSUME IInv,
         actions' \in 0..MaxActions,
         scene' = scene,
         filters' \in SUBSET Filter,
         service' \in Services \cup {All},
         mode' \in Modes,
         samples' \in Samples,
         selection' \in Selections \cup {None},
         detail' \in (Services \X Pods) \cup {None},
         heatmapSql' = HeatmapSql(scene, filters', service', mode', samples'),
         stripSql' = service',
         Scoped(panel', selection', mode', service', filters')
  PROVE  IInv'
<1>1. scene \in {"explorer", "drilldown"}
  BY DEF IInv, TypeOK
<1>2. heatmapSql' \in HeatmapSqls
  BY HeatmapSqlType
<1>3. TypeOK'
  BY <1>1, <1>2 DEF TypeOK, Scoped
<1>4. ModeInv' /\ (\A p \in Panels : PanelInv(p, panel[p]))'
  BY DEF Scoped, ModeInv
<1>5. UpToDate'
  BY DEF Scoped, UpToDate
<1> QED
  BY <1>3, <1>4, <1>5 DEF IInv

LEMMA Initially == Init => IInv
<1> SUFFICES ASSUME Init
             PROVE  IInv
  OBVIOUS
<1> USE DEF Init
<1>1. {} \in SUBSET Filter /\ {} \in SUBSET [id : Nat, question : Questions]
  OBVIOUS
<1>2. NewPanel \in PanelState
  BY <1>1 DEF NewPanel, PanelState, Modes
<1>3. heatmapSql \in HeatmapSqls
  BY <1>1, HeatmapSqlType, SampleAssumption DEF Modes
<1>4. TypeOK
  BY <1>1, <1>2, <1>3, SampleAssumption, BoundAssumption DEF TypeOK, Modes
<1>5. \A p \in Panels : PanelInv(p, panel[p])
  BY DEF NewPanel, PanelInv, NumberedUpTo, LastInv, LoneInv
<1>6. ModeInv /\ UpToDate
  BY PanelsOfPanels DEF ModeInv, UpToDate, NewPanel
<1> QED
  BY <1>4, <1>5, <1>6 DEF IInv

\* Every step of the scene keeps the invariant.
LEMMA Inductive == IInv /\ [Next]_vars => IInv'
<1> SUFFICES ASSUME IInv, [Next]_vars
             PROVE  IInv'
  OBVIOUS
<1>0. TypeOK /\ UpToDate /\ Scoped(panel, selection, mode, service, filters)
  BY InScope DEF IInv
<1>00. actions < MaxActions => actions + 1 \in 0..MaxActions
  BY <1>0, BoundAssumption DEF TypeOK
<1> USE DEF variables, queries
<1>1. ASSUME NEW sel \in Selections, Select(sel)
      PROVE  IInv'
  <2>1. Scoped(panel', selection', mode', service', filters')
    BY <1>1, AllSetLemma DEF Select
  <2> QED
    BY <2>1, <1>1, <1>0, <1>00, InScopeStep DEF Select, Act, TypeOK, UpToDate
<1>2. CASE ClearSelection
  <2>1. Scoped(panel', selection', mode', service', filters')
    BY <1>2, AllSetLemma DEF ClearSelection
  <2> QED
    BY <2>1, <1>2, <1>0, <1>00, InScopeStep DEF ClearSelection, Act, TypeOK, UpToDate
<1>3. ASSUME NEW f \in Filter, ToggleFilter(f)
      PROVE  IInv'
  <2>1. filters' \in SUBSET Filter
    BY <1>3, <1>0 DEF ToggleFilter, FiltersChanged, TypeOK
  <2>2. /\ panel' = AllRerun(service, filters')
        /\ heatmapSql' = HeatmapSql(scene, filters', service, mode, samples)
    BY <1>3 DEF ToggleFilter, FiltersChanged
  <2>3. Scoped(panel', selection', mode', service', filters')
    BY <2>1, <2>2, <1>3, <1>0, AllRerunLemma DEF ToggleFilter, TypeOK
  <2> QED
    BY <2>1, <2>2, <2>3, <1>3, <1>0, <1>00, InScopeStep
    DEF ToggleFilter, Act, TypeOK, UpToDate
<1>4. ASSUME NEW f \in Filter, AddFilter(f)
      PROVE  IInv'
  <2> DEFINE fs  == filters \cup {f}
             set == AllRerun(service, fs)
             st  == set["comparison"]
             q   == Question("comparison", st.selection, st.modeFilter,
                             service, fs)
  <2>1. fs \in SUBSET Filter /\ service \in Services \cup {All}
    BY <1>0 DEF TypeOK
  <2>2. Scoped(set, selection, mode, service, fs)
    BY <2>1, AllRerunLemma
  <2>3. /\ filters' = fs
        /\ heatmapSql' = HeatmapSql(scene, fs, service, mode, samples)
        /\ panel' = [set EXCEPT !["comparison"] = RunQuery(st, q)]
    BY <1>4 DEF AddFilter
  <2>4. /\ "comparison" \in Panels /\ "comparison" \in PanelsOf(scene)
        /\ "comparison" # Numbered
    BY DEF Panels, PanelsOf, ExplorerPanels, DrilldownPanels, Numbered
  <2> HIDE DEF fs, set
  <2>5. st \in PanelState /\ NumberedUpTo(st) /\ st.modeFilter = mode
        /\ st.selection = selection
    BY <2>2, <2>4 DEF Scoped, PanelInv
  <2>6. panel["comparison"].selection # None
    BY <1>4 DEF AddFilter, ComparisonCards, View
  <2>7. selection # None /\ selection \in Selections
    BY <2>6, <2>4, <1>0 DEF UpToDate, TypeOK
  <2>8. q \in Questions /\ q = Question("comparison", selection, mode, service, fs)
    BY <2>1, <2>5, <2>7, <1>0, QuestionType DEF TypeOK
  <2> HIDE DEF q, st
  <2>9. /\ RunQuery(st, q) \in PanelState
        /\ PanelInv("comparison", RunQuery(st, q))
        /\ RunQuery(st, q).selection = selection
        /\ RunQuery(st, q).modeFilter = mode
        /\ RunQuery(st, q).question = q
    BY <2>4, <2>5, <2>7, <2>8, RunQueryLemma
  <2>10. Scoped(panel', selection, mode, service, fs)
    BY <2>2, <2>3, <2>4, <2>7, <2>8, <2>9, PanelsOfPanels DEF Scoped
  <2> QED
    BY <2>1, <2>3, <2>10, <1>4, <1>0, <1>00, InScopeStep
    DEF AddFilter, Act, TypeOK, UpToDate
<1>5. ASSUME NEW pod \in Pods, FilterToPod(pod)
      PROVE  IInv'
  <2>1. [on |-> pod, op |-> "="] \in Filter
    BY PodAssumption, OperatorAssumption DEF Filter
  <2>2. /\ filters' = filters \cup {[on |-> pod, op |-> "="]}
        /\ panel' = AllRerun(service, filters')
        /\ heatmapSql' = HeatmapSql(scene, filters', service, mode, samples)
    BY <1>5 DEF FilterToPod, FiltersChanged
  <2>3. filters' \in SUBSET Filter
    BY <2>1, <2>2, <1>0 DEF TypeOK
  <2>4. Scoped(panel', selection', mode', service', filters')
    BY <2>2, <2>3, <1>5, <1>0, AllRerunLemma DEF FilterToPod, TypeOK
  <2> QED
    BY <2>2, <2>3, <2>4, <1>5, <1>0, <1>00, InScopeStep
    DEF FilterToPod, Act, TypeOK, UpToDate
<1>6. ASSUME NEW svc \in Services \cup {All},
             ChangeService(svc) \/ FocusService(svc)
      PROVE  IInv'
  <2>1. /\ Act /\ ServiceChanged(svc)
        /\ UNCHANGED <<scene, filters, mode, samples, selection, detail>>
    BY <1>6 DEF ChangeService, FocusService
  <2>2. Scoped(panel', selection', mode', service', filters')
    BY <2>1, <1>0, AllRerunLemma DEF ServiceChanged, TypeOK
  <2> QED
    BY <2>1, <2>2, <1>0, <1>00, InScopeStep
    DEF ServiceChanged, Act, TypeOK, UpToDate
<1>7. ASSUME NEW svc \in Services, NEW pod \in Pods, ViewSignals(svc, pod)
      PROVE  IInv'
  BY <1>7, <1>0, <1>00, InScopeStep DEF ViewSignals, Act, TypeOK, UpToDate
<1>8. ASSUME NEW m \in Modes, ChangeMode(m)
      PROVE  IInv'
  <2>1. Scoped(panel', selection', mode', service', filters')
    BY <1>8, ModeFilteredLemma DEF ChangeMode
  <2> QED
    BY <2>1, <1>8, <1>0, <1>00, InScopeStep DEF ChangeMode, Act, TypeOK, UpToDate
<1>9. ASSUME NEW n \in Samples, ChangeSamples(n)
      PROVE  IInv'
  BY <1>9, <1>0, <1>00, InScopeStep DEF ChangeSamples, Act, TypeOK, UpToDate
<1>10. ASSUME NEW p \in Panels, Answer(p)
       PROVE  IInv'
  <2>1. PICK r \in panel[p].inflight, outcome \in Outcomes(p) :
          panel' = [panel EXCEPT ![p] = Settled(p, panel[p], r, outcome)]
    BY <1>10 DEF Answer
  <2> DEFINE s == Settled(p, panel[p], r, outcome)
  <2>2. /\ s \in PanelState /\ PanelInv(p, s)
        /\ s.selection = panel[p].selection
        /\ s.modeFilter = panel[p].modeFilter
        /\ s.question = panel[p].question
    BY <1>10, <1>0, SettledLemma DEF Scoped
  <2> HIDE DEF s
  <2>3. Scoped(panel', selection, mode, service, filters)
    BY <2>1, <2>2, <1>0, PanelsOfPanels DEF Scoped, s
  <2> QED
    BY <2>3, <1>10, <1>0, InScopeStep DEF Answer, TypeOK, UpToDate
<1>11. CASE UNCHANGED vars
  BY <1>11, <1>0, InScopeStep DEF vars, TypeOK, UpToDate
<1> QED
  BY <1>1, <1>2, <1>3, <1>4, <1>5, <1>6, <1>7, <1>8, <1>9, <1>10, <1>11 DEF Next

-----------------------------------------------------------------------------
(* The theorems.                                                           *)

LEMMA Invariance == Spec => []IInv
BY Initially, Inductive, PTL DEF Spec

\* Every variable of the scenes and every field of a panel stays in its type.
THEOREM TypeCorrect == Spec => []TypeOK
<1>1. IInv => TypeOK
  BY DEF IInv
<1> QED
  BY <1>1, Invariance, PTL

\* In the drilldown nobody changes the service or the mode: it has no control
\* for them, and no saturation panel whose cards could.
DrilldownInv ==
  scene = "drilldown" =>
    service = All /\ mode = "latency" /\ panel[Numbered].selection = None

LEMMA DrilldownStep ==
  ASSUME IInv, DrilldownInv, [Next]_vars
  PROVE  DrilldownInv'
<1> SUFFICES ASSUME scene' = "drilldown"
             PROVE  service' = All /\ mode' = "latency"
                    /\ panel'[Numbered].selection = None
  BY DEF DrilldownInv
<1> USE DEF variables, queries
<1>0. /\ Numbered \in Panels /\ panel \in [Panels -> PanelState]
      /\ panel[Numbered] \in PanelState
      /\ "comparison" # Numbered
  BY DEF IInv, TypeOK, Numbered, Panels
\* What leaves the scene, its service and its mode alone.
<1>1. ASSUME scene' = scene, service' = service, mode' = mode,
             panel[Numbered].selection = None =>
               (scene = "drilldown" => panel'[Numbered].selection = None)
      PROVE  service' = All /\ mode' = "latency"
             /\ panel'[Numbered].selection = None
  BY <1>1 DEF DrilldownInv
<1>2. ASSUME NEW svc, NEW fs, panel[Numbered].selection = None
      PROVE  AllRerun(svc, fs)[Numbered].selection = None
  BY <1>0, <1>2 DEF AllRerun, Rerun
<1>3. ASSUME NEW sel, panel[Numbered].selection = None, scene = "drilldown"
      PROVE  AllSet(sel)[Numbered].selection = None
  BY <1>0, <1>3 DEF AllSet, PanelsOf, DrilldownPanels, Numbered
\* Without a selection the numbered panel shows no cards to act on.
<1>4. panel[Numbered].selection = None => View(panel[Numbered]).kind # "scores"
  BY DEF View
<1>5. ASSUME NEW sel, Select(sel)
      PROVE  service' = All /\ mode' = "latency"
             /\ panel'[Numbered].selection = None
  BY <1>1, <1>3, <1>5 DEF Select
<1>6. CASE ClearSelection
  BY <1>1, <1>3, <1>6 DEF ClearSelection
<1>7. ASSUME NEW f, ToggleFilter(f)
      PROVE  service' = All /\ mode' = "latency"
             /\ panel'[Numbered].selection = None
  BY <1>1, <1>2, <1>7 DEF ToggleFilter, FiltersChanged
<1>8. ASSUME NEW f, AddFilter(f)
      PROVE  service' = All /\ mode' = "latency"
             /\ panel'[Numbered].selection = None
  <2>1. PICK st : panel' = [AllRerun(service, filters \cup {f}) EXCEPT
                              !["comparison"] = st]
    BY <1>8 DEF AddFilter
  <2>2. panel'[Numbered] = AllRerun(service, filters \cup {f})[Numbered]
    BY <1>0, <2>1 DEF AllRerun
  <2> QED
    BY <1>1, <1>2, <1>8, <2>2 DEF AddFilter
<1>9. ASSUME NEW pod, FilterToPod(pod)
      PROVE  service' = All /\ mode' = "latency"
             /\ panel'[Numbered].selection = None
  BY <1>1, <1>2, <1>9 DEF FilterToPod, FiltersChanged
<1>10. ASSUME NEW svc, ChangeService(svc) \/ FocusService(svc)
       PROVE  FALSE
  BY <1>4, <1>10 DEF ChangeService, FocusService, DrilldownInv
<1>11. ASSUME NEW svc, NEW pod, ViewSignals(svc, pod)
       PROVE  service' = All /\ mode' = "latency"
              /\ panel'[Numbered].selection = None
  BY <1>1, <1>11 DEF ViewSignals
<1>12. ASSUME NEW m, ChangeMode(m)
       PROVE  FALSE
  BY <1>12 DEF ChangeMode
<1>13. ASSUME NEW n, ChangeSamples(n)
       PROVE  FALSE
  BY <1>13 DEF ChangeSamples
<1>14. ASSUME NEW p \in Panels, Answer(p)
       PROVE  service' = All /\ mode' = "latency"
              /\ panel'[Numbered].selection = None
  <2>1. PICK r \in panel[p].inflight, outcome \in Outcomes(p) :
          panel' = [panel EXCEPT ![p] = Settled(p, panel[p], r, outcome)]
    BY <1>14 DEF Answer
  <2>2. Settled(p, panel[p], r, outcome).selection = panel[p].selection
    BY <2>1, SettledLemma DEF IInv, TypeOK
  <2>3. panel'[Numbered].selection = panel[Numbered].selection
    BY <1>0, <2>1, <2>2
  <2> QED
    BY <1>1, <1>14, <2>3 DEF Answer
<1>15. CASE UNCHANGED vars
  BY <1>1, <1>15 DEF vars
<1> QED
  BY <1>5, <1>6, <1>7, <1>8, <1>9, <1>10, <1>11, <1>12, <1>13, <1>14, <1>15
  DEF Next

\* Whatever the person does and whenever queries are answered: heatmap, strip
\* and panels follow the variables, what the explorer compares is what it
\* draws, its failed spans in the errors mode, and what the drilldown draws is
\* the part of its SLO of what it compares.
THEOREM ScopesAlwaysAgree == Spec => []ScopesAgree
<1>1. Init => DrilldownInv
  BY DEF Init, DrilldownInv, NewPanel, Numbered, Panels
<1>2. IInv /\ DrilldownInv /\ [Next]_vars => DrilldownInv'
  BY DrilldownStep
<1>3. ASSUME IInv, DrilldownInv
      PROVE  ScopesAgree
  <2>1. UpToDate /\ TypeOK
    BY <1>3 DEF IInv
  <2>2. ASSUME NEW p \in PanelsOf(scene) \ {Numbered}, selection # None
        PROVE  panel[p].question.where =
                 ModeClauses(mode) \cup ServiceClauses(service) \cup Clauses(filters)
    BY <2>1, <2>2 DEF UpToDate, Question, SpanQuestion
  <2>3. CASE scene = "explorer"
    <3>1. heatmapSql.where = ServiceClauses(service) \cup Clauses(filters)
      BY <2>1, <2>3 DEF UpToDate, HeatmapSql, BuildHeatmapSql
    <3> QED
      BY <2>1, <2>2, <2>3, <3>1 DEF ScopesAgree, OneScope
  <2>4. CASE scene = "drilldown"
    <3>1. heatmapSql.where = SloClauses \cup Clauses(filters)
      BY <2>1, <2>4 DEF UpToDate, HeatmapSql, BuildDrilldownSql
    <3>2. ModeClauses(mode) = {} /\ ServiceClauses(service) = {}
      BY <1>3, <2>4 DEF DrilldownInv, ModeClauses, ServiceClauses
    <3> QED
      BY <2>1, <2>2, <2>4, <3>1, <3>2 DEF ScopesAgree, OneScope
  <2> QED
    BY <2>1, <2>3, <2>4 DEF TypeOK
<1> QED
  BY <1>1, <1>2, <1>3, Invariance, PTL DEF Spec

\* A panel that loads has the query in flight whose answer ends the wait.
THEOREM WaitsAreAwaited == Spec => []LoadingIsAwaited
<1>1. IInv => LoadingIsAwaited
  BY DEF IInv, PanelInv, LastInv, LoneInv, LoadingIsAwaited
<1> QED
  BY <1>1, Invariance, PTL

\* The saturation panel shows answers to its last question only, whatever
\* the order in which its queries are answered.
THEOREM NumberedIsCurrent == Spec => []NeverStale
<1>1. IInv => NeverStale
  <2> SUFFICES ASSUME IInv, View(panel[Numbered]).kind
                              \in {"scores", "nothing", "unavailable"}
               PROVE  View(panel[Numbered]).question = panel[Numbered].question
    BY DEF NeverStale
  <2>1. LastInv(panel[Numbered])
    BY DEF IInv, PanelInv, Panels, Numbered
  <2>2. panel[Numbered].selection # None /\ ~panel[Numbered].loading
    BY DEF View
  <2> QED
    BY <2>1, <2>2 DEF LastInv, View
<1> QED
  BY <1>1, Invariance, PTL

\* A panel that does not number its queries is stale only after two of them
\* were in flight together.
THEOREM LoneIsCurrent == Spec => []StaleOnlyByOverlap
<1>1. IInv => StaleOnlyByOverlap
  <2> SUFFICES ASSUME IInv, NEW p \in Panels, ~panel[p].overlap,
                      View(panel[p]).kind \in {"scores", "nothing"}
               PROVE  View(panel[p]).question = panel[p].question
    BY DEF StaleOnlyByOverlap
  <2>1. PanelInv(p, panel[p])
    BY DEF IInv
  <2>2. /\ panel[p].selection # None /\ ~panel[p].loading
        /\ ~panel[p].unavailable
    BY DEF View
  <2> QED
    BY <2>1, <2>2 DEF PanelInv, LastInv, LoneInv, View
<1> QED
  BY <1>1, Invariance, PTL

-----------------------------------------------------------------------------
(* The saturation panel implements CurrentAnswers.                         *)

\* Asking shows the panel waiting for that question, in the abstract too.
LEMMA ViewOfQuery ==
  ASSUME NEW st \in PanelState, st.selection # None, NEW q
  PROVE  View(RunQuery(st, q)) = Promise!Showing("waiting", q)
BY DEF View, RunQuery, PanelState, Promise!Showing

LEMMA ViewOfReset ==
  ASSUME NEW p, NEW st \in PanelState
  PROVE  View(Reset(p, st)) = Promise!Showing("placeholder", None)
BY DEF View, Reset, PanelState, Promise!Showing

LEMMA ViewOfSelection ==
  ASSUME NEW st \in PanelState, NEW sel \in Selections \cup {None},
         NEW svc \in Services \cup {All}, NEW fs \in SUBSET Filter,
         View(panel[Numbered])' = View(SetSelection(Numbered, st, sel, svc, fs))
  PROVE  Promise!Next
<1>1. CASE sel = None
  BY <1>1, ViewOfReset DEF SetSelection, Promise!Next, Promise!Clear
<1>2. CASE sel # None
  <2> DEFINE t == [st EXCEPT !.selection = sel]
             q == Question(Numbered, sel, st.modeFilter, svc, fs)
  <2>1. t \in PanelState /\ t.selection # None
    BY <1>2 DEF PanelState
  <2>2. q \in Questions
    BY <1>2, QuestionType DEF PanelState
  <2>3. View(panel[Numbered])' = View(RunQuery(t, q))
    BY <1>2 DEF SetSelection
  <2> HIDE DEF t, q
  <2>4. View(panel[Numbered])' = Promise!Showing("waiting", q)
    BY <2>1, <2>3, ViewOfQuery
  <2> QED
    BY <2>2, <2>4 DEF Promise!Next, Promise!Ask
<1> QED
  BY <1>1, <1>2

LEMMA ViewOfRerun ==
  ASSUME IInv, NEW svc \in Services \cup {All}, NEW fs \in SUBSET Filter,
         panel'[Numbered] = Rerun(Numbered, panel[Numbered], svc, fs)
  PROVE  [Promise!Next]_(View(panel[Numbered]))
<1>1. panel[Numbered] \in PanelState
  BY DEF IInv, TypeOK, Panels, Numbered
<1>2. panel[Numbered].selection \in Selections \cup {None}
  BY <1>1 DEF PanelState
<1>3. View(panel[Numbered])' = View(panel'[Numbered])
  BY DEF View
<1>4. CASE panel[Numbered].selection = None
  BY <1>3, <1>4 DEF Rerun
<1>5. CASE panel[Numbered].selection # None
  <2>1. View(panel[Numbered])'
          = View(SetSelection(Numbered, panel[Numbered],
                              panel[Numbered].selection, svc, fs))
    BY <1>3, <1>5 DEF Rerun
  <2> QED
    BY <2>1, <1>1, <1>2, ViewOfSelection
<1> QED
  BY <1>4, <1>5

\* An answer settles the wait, or is dropped without a trace.
LEMMA ViewOfAnswer ==
  ASSUME IInv, NEW r \in panel[Numbered].inflight,
         NEW outcome \in Outcomes(Numbered),
         panel'[Numbered] = Settled(Numbered, panel[Numbered], r, outcome)
  PROVE  [Promise!Next]_(View(panel[Numbered]))
<1> DEFINE st == panel[Numbered]
           rest == [st EXCEPT !.inflight = @ \ {r}]
           s == Fill(Numbered, rest, r.question, outcome)
<1>1. st \in PanelState /\ LastInv(st)
  BY DEF IInv, TypeOK, PanelInv, Panels, Numbered
<1>2. View(panel[Numbered])' = View(panel'[Numbered])
  BY DEF View
<1>3. View(rest) = View(st) /\ rest \in PanelState
      /\ rest.selection = st.selection /\ rest.question = st.question
  BY <1>1 DEF View, PanelState
<1>4. CASE r.id # st.requestId
  BY <1>2, <1>3, <1>4 DEF Settled
<1>5. CASE r.id = st.requestId
  <2>1. st.loading /\ st.selection # None /\ r.question = st.question
    BY <1>1, <1>5 DEF LastInv
  <2>2. View(st) = Promise!Showing("waiting", st.question)
    BY <2>1 DEF View, Promise!Showing
  <2>3. View(panel[Numbered])' = View(s)
    BY <1>2, <1>5 DEF Settled
  <2> HIDE DEF rest, st
  <2>4. outcome \in {"scores", "nothing", "unavailable"}
    BY DEF Outcomes
  <2>5. r.question \in Questions
    BY <1>1 DEF PanelState, st
  <2> DEFINE filled == [question |-> r.question, rows |-> outcome = "scores"]
  <2>6. /\ filled # None /\ filled.question = r.question
        /\ filled.rows = (outcome = "scores")
    <3>1. (outcome = "scores") \in BOOLEAN
      OBVIOUS
    <3>2. filled \in [question : Questions, rows : BOOLEAN]
      BY <3>1, <2>5
    <3> QED
      BY <3>2, AnswerAssumption
  <2>7. View(s) = Promise!Showing(outcome, st.question)
    <3>1. /\ s.selection # None /\ s.loading = FALSE
          /\ s.unavailable = (outcome = "unavailable")
          /\ s.question = st.question
          /\ s.answer = IF outcome = "unavailable" THEN None ELSE filled
      BY <1>3, <2>1 DEF Fill, PanelState
    <3> HIDE DEF s, filled
    <3>2. CASE outcome = "unavailable"
      BY <3>1, <3>2 DEF View, Promise!Showing
    <3>3. CASE outcome = "scores"
      BY <3>1, <3>3, <2>1, <2>6 DEF View, Promise!Showing
    <3>4. CASE outcome = "nothing"
      BY <3>1, <3>4, <2>1, <2>6 DEF View, Promise!Showing
    <3> QED
      BY <3>2, <3>3, <3>4, <2>4
  <2>8. /\ View(panel[Numbered]).kind = "waiting"
        /\ View(panel[Numbered]).question = st.question
    BY <2>2 DEF st, Promise!Showing
  <2>9. Promise!Settle(outcome)
    BY <2>3, <2>7, <2>8 DEF Promise!Settle
  <2> QED
    BY <2>4, <2>9 DEF Promise!Next, Promise!Outcomes
<1> QED
  BY <1>4, <1>5

\* The saturation panel never shows an outcome it was not waiting for, nor
\* that of another question than the one it says it waits for.
THEOREM Refinement == Spec => PromiseSpec
<1>1. Init => Promise!Init
  BY DEF Init, Promise!Init, View, NewPanel, Panels, Numbered, Promise!Showing
<1>2. IInv /\ [Next]_vars => [Promise!Next]_(View(panel[Numbered]))
  <2> SUFFICES ASSUME IInv, [Next]_vars
               PROVE  [Promise!Next]_(View(panel[Numbered]))
    OBVIOUS
  <2>0. /\ service \in Services \cup {All} /\ filters \in SUBSET Filter
        /\ panel \in [Panels -> PanelState] /\ Numbered \in Panels
        /\ selection \in Selections \cup {None}
    BY DEF IInv, TypeOK, Panels, Numbered
  <2>1. CASE panel'[Numbered] = panel[Numbered]
    BY <2>1 DEF View
  <2>2. ASSUME NEW sel \in Selections \cup {None}, panel' = AllSet(sel)
        PROVE  [Promise!Next]_(View(panel[Numbered]))
    <3>1. CASE Numbered \notin PanelsOf(scene)
      <4>1. panel'[Numbered] = panel[Numbered]
        BY <2>2, <3>1, <2>0 DEF AllSet
      <4> QED
        BY <4>1, <2>1
    <3>2. CASE Numbered \in PanelsOf(scene)
      <4>1. panel'[Numbered]
              = SetSelection(Numbered, panel[Numbered], sel, service, filters)
        BY <2>2, <3>2, <2>0 DEF AllSet
      <4>2. View(panel[Numbered])' = View(panel'[Numbered])
        BY DEF View
      <4> QED
        BY <4>1, <4>2, <2>0, ViewOfSelection
    <3> QED
      BY <3>1, <3>2
  <2>3. ASSUME NEW svc \in Services \cup {All}, NEW fs \in SUBSET Filter,
               panel' = AllRerun(svc, fs)
        PROVE  [Promise!Next]_(View(panel[Numbered]))
    BY <2>3, <2>0, ViewOfRerun DEF AllRerun
  <2>4. ASSUME NEW sel \in Selections, Select(sel)
        PROVE  [Promise!Next]_(View(panel[Numbered]))
    BY <2>2, <2>4 DEF Select
  <2>5. CASE ClearSelection
    BY <2>2, <2>5 DEF ClearSelection
  <2>6. ASSUME NEW f \in Filter, ToggleFilter(f)
        PROVE  [Promise!Next]_(View(panel[Numbered]))
    <3>1. filters' \in SUBSET Filter /\ panel' = AllRerun(service, filters')
      BY <2>6, <2>0 DEF ToggleFilter, FiltersChanged
    <3> QED
      BY <3>1, <2>0, <2>3
  <2>7. ASSUME NEW f \in Filter, AddFilter(f)
        PROVE  [Promise!Next]_(View(panel[Numbered]))
    <3> DEFINE fs == filters \cup {f}
    <3>1. fs \in SUBSET Filter
      BY <2>0
    <3>2. AllRerun(service, fs)[Numbered]
            = Rerun(Numbered, panel[Numbered], service, fs)
      BY <2>0 DEF AllRerun
    <3>3. panel'[Numbered] = AllRerun(service, fs)[Numbered]
      BY <2>7, <2>0 DEF AddFilter, AllRerun, Numbered
    <3> QED
      BY <3>1, <3>2, <3>3, <2>0, ViewOfRerun
  <2>8. ASSUME NEW pod \in Pods, FilterToPod(pod)
        PROVE  [Promise!Next]_(View(panel[Numbered]))
    <3>1. [on |-> pod, op |-> "="] \in Filter
      BY PodAssumption, OperatorAssumption DEF Filter
    <3>2. filters' \in SUBSET Filter /\ panel' = AllRerun(service, filters')
      BY <2>8, <2>0, <3>1 DEF FilterToPod, FiltersChanged
    <3> QED
      BY <3>2, <2>0, <2>3
  <2>9. ASSUME NEW svc \in Services \cup {All},
               ChangeService(svc) \/ FocusService(svc)
        PROVE  [Promise!Next]_(View(panel[Numbered]))
    BY <2>9, <2>0, <2>3 DEF ChangeService, FocusService, ServiceChanged
  <2>10. ASSUME NEW svc \in Services, NEW pod \in Pods, ViewSignals(svc, pod)
         PROVE  [Promise!Next]_(View(panel[Numbered]))
    BY <2>1, <2>10 DEF ViewSignals
  <2>11. ASSUME NEW m \in Modes, ChangeMode(m)
         PROVE  [Promise!Next]_(View(panel[Numbered]))
    BY <2>0, <2>1, <2>11 DEF ChangeMode, ModeFiltered
  <2>12. ASSUME NEW n \in Samples, ChangeSamples(n)
         PROVE  [Promise!Next]_(View(panel[Numbered]))
    BY <2>1, <2>12 DEF ChangeSamples
  <2>13. ASSUME NEW p \in Panels, Answer(p)
         PROVE  [Promise!Next]_(View(panel[Numbered]))
    <3>1. PICK r \in panel[p].inflight, outcome \in Outcomes(p) :
            panel' = [panel EXCEPT ![p] = Settled(p, panel[p], r, outcome)]
      BY <2>13 DEF Answer
    <3>2. CASE p = Numbered
      BY <3>1, <3>2, <2>0, ViewOfAnswer
    <3>3. CASE p # Numbered
      BY <3>1, <3>3, <2>0, <2>1
    <3> QED
      BY <3>2, <3>3
  <2>14. CASE UNCHANGED vars
    BY <2>1, <2>14 DEF vars
  <2> QED
    BY <2>4, <2>5, <2>6, <2>7, <2>8, <2>9, <2>10, <2>11, <2>12, <2>13, <2>14
    DEF Next
<1> QED
  BY <1>1, <1>2, Invariance, PTL DEF Spec, PromiseSpec, Promise!Spec
=============================================================================
