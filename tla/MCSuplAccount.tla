--------------------------- MODULE MCSuplAccount ---------------------------
EXTENDS SuplAccount
CONSTANTS none, a, torn, unset
=============================================================================
