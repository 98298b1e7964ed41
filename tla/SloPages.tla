------------------------------ MODULE SloPages ------------------------------
(***************************************************************************)
(* The pages of the SLO application, as functions of what they are built   *)
(* from: a scene, that is the four lists of one refresh and the            *)
(* definitions SLO_DEFINITIONS held when getSceneApp ran.                  *)
(*                                                                         *)
(* A page is what it says and where it leads to; layout is left out.       *)
(***************************************************************************)
EXTENDS Integers, FiniteSets, FiniteSetsExt, Sequences

CONSTANTS
  QueueLength,  \* burn events in the risk queue of Investigations
  BurnsShown,   \* active burn events on Operations
  TeamsShown,   \* teams on Operations
  DefaultIds,   \* ids of the definitions the application starts with
  Null          \* nothing there

Scene(ls, defs) ==
  [ teams |-> ls.teams, services |-> ls.services, slos |-> ls.slos,
    events |-> ls.events, definitions |-> defs ]

-----------------------------------------------------------------------------
(* Risk.                                                                   *)

SeverityWeight(severity) ==
  CASE severity = "fast" -> 3 [] severity = "slow" -> 2 [] OTHER -> 1

Weight(burn) == SeverityWeight(burn.severity)
Active(sc)   == {b \in sc.events : b.type # "burn_resolved"}

\* computeActiveRisk: every event counts but burn_resolved, and that one takes
\* nothing back.
ActiveRisk(sc, n) == MapThenSumSet(Weight, {b \in Active(sc) : b.slo = n})
RiskOf(sc, rows)  == MapThenSumSet(LAMBDA o : ActiveRisk(sc, o.id), rows)

-----------------------------------------------------------------------------
(* Routes.                                                                 *)

Route(page, n) == [page |-> page, id |-> n]
TeamRoute(n)    == Route("team", n)
ServiceRoute(n) == Route("service", n)
SloRoute(n)     == Route("slo", n)
MainRoutes == {Route(page, Null) :
                 page \in {"investigations", "catalog", "ownership", "operations"}}

\* The pages the application registers.
PageRoutes(sc) ==
  MainRoutes
    \cup {TeamRoute(t.id) : t \in sc.teams}
    \cup {ServiceRoute(s.id) : s \in sc.services}
    \cup {SloRoute(d.id) : d \in sc.definitions}

-----------------------------------------------------------------------------
(* Teams and services.                                                     *)

ServicesOfTeam(sc, t) == {s \in sc.services : s.owner = t.id}
SlosOfService(sc, s)  == {o \in sc.slos : o.service = s.id}

\* What the page of a service shows.
ServicePage(sc, s) ==
  [ risk |-> RiskOf(sc, SlosOfService(sc, s)),
    slos |-> SlosOfService(sc, s),
    owner |-> {t \in sc.teams : t.id = s.owner} ]

\* Mutant of TeamPage: an SLO counts for a team when its service is listed at
\* all.
TeamPageOfAll(sc, t) ==
  LET own == {o \in sc.slos : \E s \in sc.services : s.id = o.service}
  IN  [ risk |-> RiskOf(sc, own), services |-> ServicesOfTeam(sc, t), slos |-> own ]

\* The page of a team takes the SLOs whose service belongs to it.
TeamPage(sc, t) ==
  LET serviceToTeam == [n \in {s.id : s \in sc.services} |->
                          (CHOOSE s \in sc.services : s.id = n).owner]
      own == {o \in sc.slos : /\ o.service \in DOMAIN serviceToTeam
                              /\ serviceToTeam[o.service] = t.id}
  IN  [ risk |-> RiskOf(sc, own), services |-> ServicesOfTeam(sc, t), slos |-> own ]

\* Under each service of a team its SLOs, and a badge with their risk.
ServiceCard(sc, s) ==
  LET own == {o \in TeamPage(sc, [id |-> s.owner]).slos : o.service = s.id}
  IN  [risk |-> RiskOf(sc, own), slos |-> own]

\* Ownership collects services by team and SLOs by service.
OwnershipCard(sc, t) ==
  LET own == UNION {SlosOfService(sc, s) : s \in ServicesOfTeam(sc, t)}
  IN  [ risk |-> RiskOf(sc, own), services |-> ServicesOfTeam(sc, t), slos |-> own ]

-----------------------------------------------------------------------------
(* Burn events.                                                            *)

\* The queue is sorted by severity; the newest comes first among equals.
Ahead(b, c) ==
  \/ Weight(b) > Weight(c)
  \/ Weight(b) = Weight(c) /\ b.id > c.id
RiskQueue(sc) ==
  {b \in Active(sc) : Cardinality({c \in Active(sc) : Ahead(c, b)}) < QueueLength}

\* Operations shows the newest.
BurnCards(sc) ==
  {b \in Active(sc) :
     Cardinality({c \in Active(sc) : c.id > b.id}) < BurnsShown}

\* An SLO leads to its service, and that to its owner, as far as they are
\* listed.
ServicesOfSlo(sc, n) ==
  {s \in sc.services : \E o \in sc.slos : o.id = n /\ o.service = s.id}
OwnersOfSlo(sc, n) ==
  {t \in sc.teams : \E s \in ServicesOfSlo(sc, n) : s.owner = t.id}
LinksOfSlo(sc, n) ==
  {SloRoute(n)} \cup {ServiceRoute(s.id) : s \in ServicesOfSlo(sc, n)}
                \cup {TeamRoute(t.id) : t \in OwnersOfSlo(sc, n)}

-----------------------------------------------------------------------------
(* Where the pages lead to.                                                *)

InvestigationsLinks(sc) == UNION {LinksOfSlo(sc, b.slo) : b \in RiskQueue(sc)}
CatalogLinks(sc)        == UNION {LinksOfSlo(sc, o.id) : o \in sc.slos}

\* "Open top service" opens the first one.
OwnershipLinks(sc) ==
  {TeamRoute(t.id) : t \in sc.teams}
    \cup {ServiceRoute(s.id) : s \in UNION {ServicesOfTeam(sc, t) : t \in sc.teams}}
OperationsLinks(sc) ==
  {TeamRoute(t.id) : t \in {t \in sc.teams :
                        Cardinality({q \in sc.teams : q.id > t.id}) < TeamsShown}}
    \cup {SloRoute(b.slo) : b \in BurnCards(sc)}
TeamLinks(sc, t) ==
  {ServiceRoute(s.id) : s \in ServicesOfTeam(sc, t)}
    \cup {SloRoute(o.id) : o \in TeamPage(sc, t).slos}
ServiceLinks(sc, s) ==
  {TeamRoute(t.id) : t \in ServicePage(sc, s).owner}
    \cup {SloRoute(o.id) : o \in ServicePage(sc, s).slos}

Links(sc) ==
  UNION ({InvestigationsLinks(sc), CatalogLinks(sc), OwnershipLinks(sc),
          OperationsLinks(sc)}
           \cup {TeamLinks(sc, t) : t \in sc.teams}
           \cup {ServiceLinks(sc, s) : s \in sc.services})

-----------------------------------------------------------------------------
(* Definitions, and the drilldown of one.  Targets are in thousandths, and *)
(* so are thresholds of error rates; those of latencies in milliseconds.   *)

LatencyDefinition(id, threshold, target) ==
  [ id |-> id, type |-> "latency", target |-> target,
    thresholdMs |-> threshold, thresholdRate |-> Null ]
ErrorRateDefinition(id, threshold, target) ==
  [ id |-> id, type |-> "error_rate", target |-> target,
    thresholdMs |-> Null, thresholdRate |-> threshold ]

\* What SLO_DEFINITIONS starts with.
Defaults ==
  { LatencyDefinition(DefaultIds[1], 500, 990),
    ErrorRateDefinition(DefaultIds[2], 10, 990),
    ErrorRateDefinition(DefaultIds[3], 10, 900),
    LatencyDefinition(DefaultIds[4], 200, 990),
    LatencyDefinition(DefaultIds[5], 150, 995),
    ErrorRateDefinition(DefaultIds[6], 5, 990),
    LatencyDefinition(DefaultIds[7], 300, 990) }

\* Of a minute of spans a query uses one number, the p99 of the durations or
\* the share of errors.
Bad(minutes, limit) == {i \in DOMAIN minutes : minutes[i] > limit}

\* complianceSql: of which share of the minutes the metric kept the threshold;
\* all of it when there were no spans.  Shares are pairs.
Compliance(d, minutes) ==
  LET bad == IF d.type = "latency" THEN Bad(minutes, d.thresholdMs)
                                   ELSE Bad(minutes, d.thresholdRate)
  IN  IF minutes = <<>> THEN <<1, 1>>
      ELSE <<Len(minutes) - Cardinality(bad), Len(minutes)>>

\* Mutant of ErrorBudget: one limit for both types.
ErrorBudgetMs(d, minutes) ==
  LET limit == IF d.thresholdMs = Null THEN 500 ELSE d.thresholdMs
      n == IF minutes = <<>> THEN 1 ELSE Len(minutes)
  IN  1000 * (n - Cardinality(Bad(minutes, limit))) - d.target * n

\* errorBudgetSql subtracts the target; the sign, in thousandths of a minute.
ErrorBudget(d, minutes) ==
  LET limit == IF d.type = "latency" THEN d.thresholdMs ELSE d.thresholdRate
      n == IF minutes = <<>> THEN 1 ELSE Len(minutes)
  IN  1000 * (n - Cardinality(Bad(minutes, limit))) - d.target * n

\* The colours of the two and the threshold line of the chart.  The orange of
\* the stat begins one hundredth below the target.
Drilldown(d, minutes) ==
  LET c == Compliance(d, minutes)
      Reaches(target) == 1000 * c[1] >= target * c[2]
  IN  [ stat |-> CASE Reaches(d.target) -> "green"
                   [] ~Reaches(d.target) /\ Reaches(d.target - 10) -> "orange"
                   [] OTHER -> "red",
        gauge |-> IF ErrorBudget(d, minutes) >= 0 THEN "green" ELSE "red",
        line |-> IF d.type = "latency" THEN d.thresholdMs ELSE d.thresholdRate ]

-----------------------------------------------------------------------------
(* Properties.                                                             *)

\* Every button leads to a page of the application (App.tsx:31-72), but those
\* of burn events whose SLO is not listed, which are shown by its id.
LinksLead(sc) ==
  \A l \in Links(sc) :
    \/ l \in PageRoutes(sc)
    \/ l.page = "slo" /\ \A o \in sc.slos : o.id # l.id

\* A card says of a team or a service what its own page says, and the risk of
\* a team is that of its services (ownershipPage.tsx:42-43, teamPage.tsx:24,
\* :48, servicePage.tsx:22).
RisksAgree(sc) ==
  \A t \in sc.teams :
    /\ OwnershipCard(sc, t) = TeamPage(sc, t)
    /\ \A s \in ServicesOfTeam(sc, t) :
         /\ ServiceCard(sc, s).risk = ServicePage(sc, s).risk
         /\ ServiceCard(sc, s).slos = ServicePage(sc, s).slos
    /\ TeamPage(sc, t).risk =
         MapThenSumSet(LAMBDA s : ServicePage(sc, s).risk, ServicesOfTeam(sc, t))

\* The stat and the gauge of a drilldown are green together, although each has
\* a query of its own (sloDefinitions.ts:129, :171), and are while no minute
\* crosses the line of the chart.
ColoursAgree(sc, measured) ==
  \A d \in sc.definitions, minutes \in measured :
    LET shown == Drilldown(d, minutes)
    IN  /\ shown.stat = "green" <=> shown.gauge = "green"
        /\ (\A i \in DOMAIN minutes : minutes[i] <= shown.line) => shown.gauge = "green"
=============================================================================
