------------------------ MODULE MCInvestigationScene ------------------------
(* InvestigationScene on two boxes, a service and a pod.                   *)
EXTENDS InvestigationScene

CONSTANTS s1, s2, v1, pod1, n1, n2

MCSelections == {s1, s2}
MCServices   == {v1}
MCSamples    == {n1, n2}
MCAttributes == {pod1}
MCPods       == {pod1}
MCOperators  == {"=", "!=", "=~"}
=============================================================================
