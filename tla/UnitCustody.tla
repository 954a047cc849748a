----------------------------- MODULE UnitCustody -----------------------------
(***************************************************************************)
(* What the unit endpoints promise together: who holds each unit.  A sale, *)
(* a pull or a write-off takes units nobody holds, in one step and only    *)
(* once; a return gives units back, and they are free again.               *)
(***************************************************************************)
CONSTANTS Unit, Doc, None

VARIABLES
  holder,   \* document a unit is out on, None: in stock
  closed    \* documents that have taken their units, or never will

vars == <<holder, closed>>

Init == holder = [u \in Unit |-> None] /\ closed = {}

Take(d) ==
  /\ d \notin closed
  /\ \A u \in Unit :
       holder'[u] = holder[u] \/ (holder[u] = None /\ holder'[u] = d)
  /\ closed' = closed \cup {d}

GiveBack(d) ==
  /\ holder' # holder
  /\ \A u \in Unit :
       holder'[u] = holder[u] \/ (holder[u] = d /\ holder'[u] = None)
  /\ UNCHANGED closed

Next ==
  /\ holder' \in [Unit -> Doc \cup {None}]
  /\ \E d \in Doc : Take(d) \/ GiveBack(d)

Spec == Init /\ [][Next]_vars
=============================================================================
