--------------------------- MODULE MCPulseCommands --------------------------
EXTENDS PulseCommands

MCAxes == {"x", "y"}
MCPositions == {0, 1}
MCCommand == {[type |-> "MOVE_PV", mask |-> m, pos |-> p] :
                m \in (SUBSET MCAxes) \ {{}}, p \in [MCAxes -> MCPositions]}
             \cup {[type |-> "HOME_START", mask |-> m] : m \in (SUBSET MCAxes) \ {{}}}
             \cup {[type |-> "EXTERNAL_OUTPUT_SET", out |-> o] : o \in {"off", "on"}}
MCOutputs == {"off", "on"}
MCNoCommand == [type |-> "none"]
=============================================================================
