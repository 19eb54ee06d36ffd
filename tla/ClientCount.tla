---------------------------- MODULE ClientCount ----------------------------
(***************************************************************************)
(* What main_loop's accounting of clients promises: a client that opens    *)
(* its port is counted once, and is dropped only after it has gone.  The   *)
(* GPS is wanted while a client is counted.                                *)
(***************************************************************************)
CONSTANT Ports

VARIABLES open,    \* does a program have the port open?
          phase,   \* "free", "waiting" to be counted, or "counted"
          excused  \* nothing is promised any more

vars == <<open, phase, excused>>

Init == /\ open = [p \in Ports |-> FALSE] /\ phase = [p \in Ports |-> "free"]
        /\ excused = FALSE

Open(p) ==
  /\ ~open[p] /\ open' = [open EXCEPT ![p] = TRUE]
  /\ phase' = [phase EXCEPT ![p] = IF @ = "free" THEN "waiting" ELSE @]
  /\ UNCHANGED excused

Close(p) ==
  /\ open[p] /\ open' = [open EXCEPT ![p] = FALSE]
  /\ UNCHANGED <<phase, excused>>

Count(p) ==
  /\ phase[p] = "waiting" /\ phase' = [phase EXCEPT ![p] = "counted"]
  /\ UNCHANGED <<open, excused>>

Drop(p) ==
  /\ phase[p] = "counted" /\ ~open[p]
  /\ phase' = [phase EXCEPT ![p] = "free"]
  /\ UNCHANGED <<open, excused>>

Promised == \E p \in Ports : Open(p) \/ Close(p) \/ Count(p) \/ Drop(p)

Next == excused' = TRUE \/ Promised

Spec == Init /\ [][Next]_vars

\* Who waits is counted; who has gone for good is dropped.
InTime == \A p \in Ports : WF_vars(Count(p)) /\ WF_vars(Drop(p))
=============================================================================
