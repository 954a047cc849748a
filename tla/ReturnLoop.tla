----------------------------- MODULE ReturnLoop ------------------------------
(***************************************************************************)
(* A PART line from its sale to its last return: the loop of               *)
(* consume_quantity_fifo (ConsumeLoop) draws it, and _return_part_line     *)
(* takes it back over a sequence of partial returns, each with the over-   *)
(* return check of create_sale_return, the loop that walks the sale's cost *)
(* lines newest batch first skipping what earlier returns restored, and    *)
(* the restoring loop.  The sale line is locked, so the returns of one     *)
(* line follow one another.                                                *)
(***************************************************************************)
EXTENDS ConsumeLoop

VARIABLES
  back,       \* the return: "idle", "walk" or "refused" (the 409)
  returned,   \* _returned_so_far: sum of the line's SaleReturnLine rows
  restored,   \* sum of the RETURNED cost lines for a batch
  qty,        \* quantity asked by the current return
  toVisit,    \* cost lines the walk has not reached
  toSkip, toRestore, plan

returnVars == <<back, returned, restored, qty, toVisit, toSkip, toRestore, plan>>

Nothing == [b \in Batch |-> 0]

ReturnInit ==
  /\ Init
  /\ back = "idle" /\ returned = 0 /\ restored = Nothing
  /\ qty = 0 /\ toVisit = {} /\ toSkip = 0 /\ toRestore = 0 /\ plan = Nothing

(* A line can be returned once its sale is done.                           *)
Idle == pc = "done" /\ back = "idle"

(* sale_line.quantity is what the sale consumed: create_sale writes both.  *)
OverReturn(q) ==
  /\ Idle
  /\ returned + q > need
  /\ back' = "refused"
  /\ qty' = q
  /\ UNCHANGED <<vars, returned, restored, toVisit, toSkip, toRestore, plan>>

Start(q) ==
  /\ Idle
  /\ returned + q <= need
  /\ back' = "walk"
  /\ qty' = q
  /\ toVisit' = {b \in Batch : lines[b] > 0}
  /\ toSkip' = returned
  /\ toRestore' = q
  /\ plan' = Nothing
  /\ UNCHANGED <<vars, returned, restored>>

(* Mutant: oldest first.                                                   *)
NextBack_Oldest(b) == b \in toVisit /\ \A o \in toVisit : b <= o

NextBack(b) == b \in toVisit /\ \A n \in toVisit : n <= b

Skipped(b) == Clip(toSkip, lines[b])

(* Mutant: the skipped pieces of the cost line still count as available.   *)
Give_Whole(b) == Clip(toRestore, lines[b])

Give(b) == Clip(toRestore, lines[b] - Skipped(b))

Walk(b) ==
  /\ back = "walk" /\ toRestore # 0
  /\ NextBack(b)
  /\ toSkip' = toSkip - Skipped(b)
  /\ plan' = [plan EXCEPT ![b] = Give(b)]
  /\ toRestore' = toRestore - Give(b)
  /\ toVisit' = toVisit \ {b}
  /\ UNCHANGED <<vars, back, returned, restored, qty>>

(* The walk has stopped at to_restore == 0: the plan is credited to the    *)
(* batches and the SaleReturnLine is written.                              *)
Restore ==
  /\ back = "walk"
  /\ toRestore = 0
  /\ restored' = [b \in Batch |-> restored[b] + plan[b]]
  /\ returned' = returned + qty
  /\ back' = "idle"
  /\ UNCHANGED <<vars, qty, toVisit, toSkip, toRestore, plan>>

LineNext ==
  \/ Next /\ UNCHANGED returnVars
  \/ \E q \in 1 .. need + 1 : Start(q) \/ OverReturn(q)
  \/ \E b \in Batch : Walk(b)
  \/ Restore

LineSpec ==
  ReturnInit /\ [][LineNext]_<<vars, returnVars>> /\ WF_vars(Next)
-----------------------------------------------------------------------------
(* However a line's returns are split, what they have put back is the      *)
(* newest pieces of what the sale drew, each once.                         *)
PartialReturnsCompose ==
  pc = "done" => restored = LifoPrefix(lines, returned)

(* One walk computes the plan the closed form gives, and never asks for a  *)
(* piece beyond the cost lines: the "Return exceeds the quantity           *)
(* originally consumed" branch cannot be reached.                          *)
WalkIsThePlan ==
  /\ back = "walk" /\ toVisit = {} => toRestore = 0
  /\ back = "walk" /\ toRestore = 0 => plan = ReturnPlan(lines, returned, qty)
=============================================================================
