------------------------------ MODULE MCGateway ------------------------------
EXTENDS Gateway

CONSTANTS busy, quiet    \* a session with long answers and one without any

BusyAndQuiet == [s \in {busy, quiet} |-> IF s = busy THEN {MaxActions} ELSE {0}]

=============================================================================
