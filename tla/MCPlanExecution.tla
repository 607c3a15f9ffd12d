--------------------------- MODULE MCPlanExecution ---------------------------
(* Instances of PlanExecution for TLC. *)
EXTENDS PlanExecution

CONSTANTS n1, n2

BothDeclareAll == [n \in Nodes |-> Steps]

(* The graphs on three steps up to a renaming: every acyclic one has its   *)
(* edges forward, then cycles, one with a step behind it, and references   *)
(* to an unknown step.                                                     *)
Acyclic == SUBSET {<<1, 2>>, <<1, 3>>, <<2, 3>>}
Cyclic == {{<<1, 2>>, <<2, 1>>} \cup more :
             more \in {{}, {<<2, 3>>}}}
          \cup {{<<1, 2>>, <<2, 3>>, <<3, 1>>}}
Dangling == {{<<Unknown, 1>>}, {<<Unknown, 1>>, <<1, 2>>}}
AllGraphs == Acyclic \cup Cyclic \cup Dangling
=============================================================================
