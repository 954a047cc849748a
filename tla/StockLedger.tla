----------------------------- MODULE StockLedger -----------------------------
(***************************************************************************)
(* What the stock endpoints promise together: the batches and the cost     *)
(* lines of each consuming request, changed by one atomic step per         *)
(* committed request.  No request shows partly, no piece is taken twice    *)
(* and none comes back twice.                                              *)
(***************************************************************************)
EXTENDS Integers

CONSTANTS Batch, ProductOf, Opening, Tx

VARIABLES
  remaining,   \* pieces left in a batch
  received,    \* pieces the batch came with, 0: not received yet
  drawn,       \* pieces of a batch a consuming request took
  restored     \* pieces of a batch returned against that request

vars == <<remaining, received, drawn, restored>>

NoPieces == [b \in Batch |-> 0]

Init ==
  /\ remaining = Opening /\ received = Opening
  /\ drawn = [t \in Tx |-> NoPieces]
  /\ restored = [t \in Tx |-> NoPieces]

(* A sale, ticket or write-off takes all its pieces at once, from batches  *)
(* that have them.                                                         *)
Consume(t) ==
  /\ drawn[t] = NoPieces /\ drawn'[t] # NoPieces
  /\ drawn'[t] \in [Batch -> Nat]
  /\ \A b \in Batch : drawn'[t][b] <= remaining[b]
  /\ drawn' = [drawn EXCEPT ![t] = drawn'[t]]
  /\ remaining' = [b \in Batch |-> remaining[b] - drawn'[t][b]]
  /\ UNCHANGED <<received, restored>>

(* A return puts pieces back where the sale took them, at most those, the  *)
(* newest batch of each product first.                                     *)
GiveBack(s) ==
  /\ restored'[s] \in [Batch -> Nat] /\ restored'[s] # restored[s]
  /\ \A b \in Batch :
       restored[s][b] <= restored'[s][b] /\ restored'[s][b] <= drawn[s][b]
  /\ \A o, n \in Batch :
       o < n /\ ProductOf[o] = ProductOf[n] /\ restored'[s][o] > 0 =>
         restored'[s][n] = drawn[s][n]
  /\ restored' = [restored EXCEPT ![s] = restored'[s]]
  /\ remaining' = [b \in Batch |->
                     remaining[b] + (restored'[s][b] - restored[s][b])]
  /\ UNCHANGED <<received, drawn>>

Receive(b) ==
  /\ received[b] = 0 /\ received'[b] \in Nat \ {0}
  /\ received' = [received EXCEPT ![b] = received'[b]]
  /\ remaining' = [remaining EXCEPT ![b] = received'[b]]
  /\ UNCHANGED <<drawn, restored>>

Next ==
  \/ \E t \in Tx : Consume(t) \/ GiveBack(t)
  \/ \E b \in Batch : Receive(b)

Spec == Init /\ [][Next]_vars
=============================================================================
