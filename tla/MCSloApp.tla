------------------------------ MODULE MCSloApp ------------------------------
(* Small instances of SloApp.                                              *)
EXTENDS SloApp, TLC

CONSTANTS s1, s2, s3, latencyText, errorText, brokenText, o1, o2, d1, d2, d3,
  d4, d5, d6, d7

MCSlugs     == {s1, s2, s3}
MCTexts     == {latencyText, errorText}
MCMalformed == {brokenText}

\* Both texts define their SLO; the second has an object of its own besides.
MCObjectsIn == (latencyText :> {o1}) @@ (errorText :> {o1, o2})

MCSeverities == {"fast", "slow"}
MCBurnTypes  == {"burn_started", "burn_resolved"}

\* Durations in milliseconds and shares of errors in the thousand.
MCRuntime ==
  (latencyText :> [type |-> "latency", threshold |-> 500, target |-> 900]) @@
  (errorText   :> [type |-> "error_rate", threshold |-> 10, target |-> 500])

MCDefaultIds == <<d1, d2, d3, d4, d5, d6, d7>>

Burned(n, slo, severity) ==
  [id |-> n, slo |-> slo, type |-> "burn_started", severity |-> severity]

\* Two teams, a service, its SLO and two burn events, one of an SLO that is
\* gone: a page of teams and one of events are full.  And a team with events of
\* an SLO that is gone, where a person can create two rows and others do no more.
MCStores ==
  { [ lastId |-> 7, changes |-> 0,
      teams    |-> {[id |-> 1, slug |-> s1], [id |-> 2, slug |-> s2]},
      services |-> {[id |-> 3, slug |-> s1, owner |-> 2]},
      slos     |-> {[id |-> 5, service |-> 3, openslo |-> latencyText]},
      objects  |-> {[slo |-> 5, object |-> o1]},
      events   |-> {Burned(6, 4, "slow"), Burned(7, 5, "fast")} ],
    [ lastId |-> 6, changes |-> MaxChanges,
      teams    |-> {[id |-> 1, slug |-> s1]},
      services |-> {}, slos |-> {}, objects |-> {},
      events   |-> {Burned(n, 2, "fast") : n \in 3 .. 6} ] }

\* No spans, on a threshold, across one, and across in half of the minutes.
MCMeasured == {<<>>, <<10>>, <<500, 10>>, <<11, 10>>, <<501, 10>>, <<501, 501>>}
=============================================================================
