---------------------------- MODULE MCMcpServer ----------------------------
(* The branches are interchangeable, and symmetry does not go with the     *)
(* liveness property: it is enough that HEAD starts on one of them.        *)
EXTENDS McpServer

CONSTANT First
ASSUME FirstAssumption == First \in Branches

FirstInit == Init /\ head = First
FirstSpec == FirstInit /\ [][Next]_vars /\ Fairness

=============================================================================
