--------------------------- MODULE MCArmSelector ----------------------------
EXTENDS ArmSelector

MCPolicies == {"current", "round_robin", "weighted_fair", "racing", "sampling"}
MCWeight == [a \in Arms |-> IF a = 2 THEN 2 ELSE 1]
=============================================================================
