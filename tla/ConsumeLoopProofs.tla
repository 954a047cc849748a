-------------------------- MODULE ConsumeLoopProofs ---------------------------
(***************************************************************************)
(* The consuming loop takes the oldest pieces and the returns of its line  *)
(* put the newest of them back, for every set of batches, every quantity   *)
(* and every way the returns are split.                                    *)
(***************************************************************************)
EXTENDS ReturnLoop, FifoTheorems

(* What the loop has done between two iterations: the batches it has left  *)
(* behind are the older ones, each emptied unless nothing is left to find, *)
(* and the others are untouched.                                           *)
Progress ==
  /\ left <= need
  /\ left + Total(lines, Batch) = need
  /\ \A b \in Batch : stock[b] + lines[b] = avail[b]
  /\ \A b \in todo : lines[b] = 0 /\ avail[b] > 0
  /\ \A b \in Batch \ todo : avail[b] > 0 => \A o \in todo : b < o
  /\ \A b \in Batch \ todo : left > 0 => stock[b] = 0
  /\ \A b \in Batch \ todo : lines[b] = FifoTake(avail, need)[b]

LoopInv ==
  /\ TypeOK
  /\ pc \in {"query", "short"} =>
       stock = avail /\ left = need /\ lines = [b \in Batch |-> 0]
  /\ pc = "query" => todo = {}
  /\ pc \in {"loop", "done"} => Total(avail, Batch) >= need /\ Progress
  /\ pc = "done" => left = 0 \/ todo = {}

(* The query leaves the loop's invariant true at the start.                *)
LEMMA LoopInit == Init => LoopInv
<1> SUFFICES ASSUME Init PROVE LoopInv
  OBVIOUS
<1> USE BoundAssumption
<1>1. TypeOK
  BY DEF Init, TypeOK
<1> QED BY <1>1 DEF Init, LoopInv

(* Accepting the total starts the loop with nothing taken.                 *)
LEMMA LoopAccept == ASSUME LoopInv, Accept PROVE LoopInv'
<1> USE BatchAssumption DEF LoopInv, Accept
<1>1. TypeOK'
  BY DEF TypeOK
<1>2. Total(avail, Batch) >= need
  BY DEF Enough
<1>3. Total(lines, Batch) = 0
  <2>1. Total(lines, Batch) = Total(lines, {})
    BY TotalZeroOutside
  <2> QED BY <2>1, TotalEmpty
<1>4. \A b \in Batch : avail[b] = 0 => FifoTake(avail, need)[b] = 0
  <2>1. avail \in [Batch -> Nat] /\ need \in Nat
    BY DEF TypeOK
  <2>2. /\ FifoTake(avail, need) \in [Batch -> Nat]
        /\ \A b \in Batch : FifoTake(avail, need)[b] <= avail[b]
    BY <2>1, FifoTakeBounds
  <2> QED BY <2>1, <2>2
<1>5. Progress'
  BY <1>3, <1>4 DEF Progress, TypeOK
<1> QED BY <1>1, <1>2, <1>5

(* One iteration: the next oldest row gives up what FIFO takes from it,    *)
(* because the rows behind it have given up everything they had.           *)
LEMMA LoopIterate ==
  ASSUME LoopInv, NEW b \in Batch, Iterate(b) PROVE LoopInv'
<1> USE BatchAssumption
<1>0. /\ pc' = pc /\ avail' = avail /\ need' = need /\ todo' = todo \ {b}
      /\ stock' = [stock EXCEPT ![b] = stock[b] - Take(b)]
      /\ lines' = [lines EXCEPT ![b] = Take(b)]
      /\ left' = left - Take(b)
      /\ pc = "loop" /\ b \in todo /\ \A o \in todo : b <= o
  BY DEF Iterate, IsNext
<1>1. /\ avail \in [Batch -> Nat] /\ need \in Nat /\ left \in Nat
      /\ stock \in [Batch -> Nat] /\ lines \in [Batch -> Nat]
      /\ todo \subseteq Batch /\ Batch \subseteq Nat /\ left > 0
      /\ Progress
  BY DEF LoopInv, TypeOK, Iterate
<1>2. /\ Take(b) \in Nat /\ Take(b) <= stock[b] /\ Take(b) <= left
      /\ stock[b] = avail[b] /\ lines[b] = 0
      /\ Take(b) = left \/ Take(b) = stock[b]
  BY <1>0, <1>1 DEF Take, Clip, Progress
<1>3. TypeOK'
  BY <1>0, <1>1, <1>2 DEF TypeOK
<1>4. Total(lines', Batch) = Total(lines, Batch) + Take(b)
  <2>1. /\ \A c \in Batch : lines[c] \in Nat /\ lines'[c] \in Nat
        /\ \A c \in Batch \ {b} : lines[c] = lines'[c]
        /\ lines'[b] = Take(b)
    BY <1>0, <1>1, <1>2
  <2>2. /\ Total(lines, Batch) \in Nat /\ Total(lines', Batch) \in Nat
        /\ Total(lines', Batch) = Total(lines, Batch) + lines'[b] - lines[b]
    BY <2>1, TotalChange
  <2> QED BY <1>2, <2>1, <2>2
<1>5. Total(lines, Batch) \in Nat
  BY <1>0, <1>1, TotalType
<1>6. Older(avail, b) = Total(lines, Batch)
  <2> DEFINE O == {o \in Batch : o < b}
  <2>1. \A c \in Batch \ O : lines[c] = 0
    <3> SUFFICES ASSUME NEW c \in Batch \ O PROVE lines[c] = 0
      OBVIOUS
    <3>1. CASE c \in todo
      BY <1>0, <1>1, <3>1 DEF Progress
    <3>2. CASE c \notin todo
      <4>1. avail[c] = 0
        BY <1>0, <1>1, <3>2 DEF Progress
      <4> QED BY <1>0, <1>1, <4>1 DEF Progress
    <3> QED BY <3>1, <3>2
  <2>2. \A o \in O : lines[o] = avail[o]
    <3> SUFFICES ASSUME NEW o \in O PROVE lines[o] = avail[o]
      OBVIOUS
    <3>1. o \notin todo
      BY <1>0, <1>1
    <3> QED BY <1>0, <1>1, <3>1 DEF Progress
  <2>3. O \subseteq Batch /\ O = {o \in DOMAIN avail : o < b}
    BY <1>0, <1>1
  <2> HIDE DEF O
  <2>4. Total(lines, Batch) = Total(lines, O)
    BY <2>1, <2>3, TotalZeroOutside
  <2>5. Total(lines, O) = Total(avail, O)
    BY <2>2, TotalSame
  <2> QED BY <2>3, <2>4, <2>5 DEF Older
<1>7. Take(b) = FifoTake(avail, need)[b]
  <2>1. left = need - Older(avail, b)
    BY <1>0, <1>1, <1>5, <1>6 DEF Progress
  <2> QED BY <1>0, <1>1, <1>2, <2>1 DEF FifoTake, Take
<1>8. Progress'
  <2>1. left' <= need' /\ left' + Total(lines', Batch) = need'
    <3>1. left + Total(lines, Batch) = need /\ left <= need
      BY <1>1 DEF Progress
    <3>2. left' = left - Take(b) /\ need' = need
      BY <1>0
    <3> QED BY <1>1, <1>2, <1>4, <1>5, <3>1, <3>2
  <2>2. \A c \in Batch : stock'[c] + lines'[c] = avail'[c]
    BY <1>0, <1>1, <1>2 DEF Progress
  <2>3. \A c \in todo' : lines'[c] = 0 /\ avail'[c] > 0
    BY <1>0, <1>1 DEF Progress
  <2>4. \A c \in Batch \ todo' : avail'[c] > 0 => \A o \in todo' : c < o
    BY <1>0, <1>1 DEF Progress
  <2>5. \A c \in Batch \ todo' : left' > 0 => stock'[c] = 0
    BY <1>0, <1>1, <1>2 DEF Progress
  <2>6. \A c \in Batch \ todo' : lines'[c] = FifoTake(avail', need')[c]
    BY <1>0, <1>1, <1>7 DEF Progress
  <2> QED BY <2>1, <2>2, <2>3, <2>4, <2>5, <2>6 DEF Progress
<1> QED BY <1>0, <1>1, <1>3, <1>8 DEF LoopInv

(* No step of consume_quantity_fifo breaks the loop's invariant.           *)
LEMMA LoopNext == ASSUME LoopInv, [Next]_vars PROVE LoopInv'
<1>1. CASE Refuse
  BY <1>1 DEF LoopInv, Refuse, TypeOK, Progress
<1>2. CASE Accept
  BY <1>2, LoopAccept
<1>3. CASE Return
  BY <1>3 DEF LoopInv, Return, TypeOK, Progress
<1>4. CASE \E b \in Batch : Iterate(b)
  BY <1>4, LoopIterate
<1>5. CASE UNCHANGED vars
  BY <1>5 DEF vars, LoopInv, TypeOK, Progress
<1> QED BY <1>1, <1>2, <1>3, <1>4, <1>5 DEF Next

(* The loop's invariant holds throughout the call.                         *)
LEMMA LoopInvariant == Spec => []LoopInv
BY LoopInit, LoopNext, PTL DEF Spec
-----------------------------------------------------------------------------
(* The locals, the locked rows and the cost lines keep their types: no row *)
(* and no cost line of consume_quantity_fifo goes below zero.              *)
THEOREM LoopTypeCorrect == Spec => []TypeOK
<1>1. LoopInv => TypeOK
  BY DEF LoopInv
<1> QED BY <1>1, LoopInvariant, PTL

(* The rows a stopped loop has passed are empty: FIFO opens a batch only   *)
(* after it takes all of every older one.                                  *)
LEMMA OldestDrained == ASSUME LoopInv PROVE OldestDrainedFirst
<1> SUFFICES ASSUME pc = "loop" PROVE OldestDrainedFirst
  BY DEF OldestDrainedFirst
<1>1. /\ avail \in [Batch -> Nat] /\ need \in Nat /\ left \in Nat
      /\ stock \in [Batch -> Nat] /\ lines \in [Batch -> Nat]
      /\ todo \subseteq Batch /\ Progress
  BY DEF LoopInv, TypeOK
<1>2. ASSUME NEW o \in Batch, NEW n \in Batch, o < n, lines[n] > 0
      PROVE  stock[o] = 0
  <2>1. n \in Batch \ todo /\ avail[n] > 0
    BY <1>1, <1>2 DEF Progress
  <2>2. o \in Batch \ todo
    <3>1. \A x \in todo : n < x
      BY <1>1, <2>1 DEF Progress
    <3> QED BY <1>2, <3>1, BatchAssumption
  <2>3. lines[n] = FifoTake(avail, need)[n] /\ lines[o] = FifoTake(avail, need)[o]
    BY <1>1, <2>1, <2>2 DEF Progress
  <2>4. lines[o] = avail[o]
    BY <1>1, <1>2, <2>3, BatchAssumption, FifoTakeOldestFirst
  <2>5. stock[o] + lines[o] = avail[o]
    BY <1>1 DEF Progress
  <2> QED BY <1>1, <2>4, <2>5
<1> QED BY <1>1, <1>2 DEF OldestDrainedFirst, Progress

(* Wherever consume_quantity_fifo's loop is interrupted, what it has taken *)
(* and what it still wants add up to the request, and no newer batch was   *)
(* opened while an older one had pieces left.                              *)
THEOREM LoopDrainsOldestFirst == Spec => []OldestDrainedFirst
BY OldestDrained, LoopInvariant, PTL

(* At the loop's end nothing is left to find, so FIFO asks nothing of the  *)
(* rows it never reached.                                                  *)
LEMMA DoneIsFifo == ASSUME LoopInv PROVE LoopIsFifo
<1> SUFFICES ASSUME pc = "done" PROVE LoopIsFifo
  BY DEF LoopIsFifo
<1>1. /\ avail \in [Batch -> Nat] /\ need \in Nat /\ left \in Nat
      /\ stock \in [Batch -> Nat] /\ lines \in [Batch -> Nat]
      /\ todo \subseteq Batch /\ Progress
      /\ Total(avail, Batch) >= need /\ (left = 0 \/ todo = {})
  BY DEF LoopInv, TypeOK
<1>2. Total(lines, Batch) \in Nat /\ Total(avail, Batch) \in Nat
  BY <1>1, BatchAssumption, TotalType
<1>3. left = 0
  <2> SUFFICES ASSUME left > 0 PROVE FALSE
    BY <1>1
  <2>1. \A b \in Batch : lines[b] = avail[b]
    BY <1>1 DEF Progress
  <2>2. Total(lines, Batch) = Total(avail, Batch)
    BY <2>1, TotalSame
  <2> QED BY <1>1, <1>2, <2>2 DEF Progress
<1>4. Total(lines, Batch) = need
  BY <1>1, <1>2, <1>3 DEF Progress
<1>5. ASSUME NEW b \in todo PROVE FifoTake(avail, need)[b] = 0
  <2> DEFINE O == {o \in Batch : o < b}
  <2>1. IsFiniteSet(O) /\ O \subseteq Batch
    BY BatchAssumption, FS_Subset
  <2>2. \A c \in Batch \ O : lines[c] = 0
    <3> SUFFICES ASSUME NEW c \in Batch, ~(c < b), lines[c] # 0 PROVE FALSE
      OBVIOUS
    <3>1. c \in Batch \ todo /\ avail[c] > 0
      BY <1>1 DEF Progress
    <3> QED BY <1>1, <3>1 DEF Progress
  <2>3. \A c \in Batch : lines[c] <= avail[c]
    BY <1>1 DEF Progress
  <2> HIDE DEF O
  <2>4. Total(lines, Batch) = Total(lines, O)
    BY <2>1, <2>2, TotalZeroOutside
  <2>5. Total(lines, O) <= Total(avail, O)
    BY <1>1, <2>1, <2>3, TotalPointwise
  <2>6. Older(avail, b) >= need /\ Older(avail, b) \in Nat
    BY <1>1, <1>4, <2>1, <2>4, <2>5, TotalType DEF Older, O
  <2>7. b \in Batch
    BY <1>1
  <2> QED BY <1>1, <2>6, <2>7 DEF FifoTake, Clip
<1>6. \A b \in Batch : lines[b] = FifoTake(avail, need)[b]
  BY <1>1, <1>5 DEF Progress
<1>7. FifoTake(avail, need) \in [Batch -> Nat]
  BY <1>1, BatchAssumption, FifoTakeBounds
<1>8. lines = FifoTake(avail, need)
  BY <1>1, <1>6, <1>7
<1> QED BY <1>1, <1>4, <1>8 DEF LoopIsFifo, Progress

(* What consume_quantity_fifo returns is the oldest quantity_needed pieces *)
(* of the locked batches, one cost line a batch, each piece out of the     *)
(* batch it is charged to.                                                 *)
THEOREM LoopTakesOldest == Spec => []LoopIsFifo
BY DoneIsFifo, LoopInvariant, PTL
-----------------------------------------------------------------------------
(* What the walk of _return_part_line has seen: the cost lines it visited  *)
(* are the newer ones, holding Walked pieces; of these it skips returned,  *)
(* and plans qty of what lies behind them.                                 *)
Walked == Total(lines, Batch \ toVisit)

WalkSoFar ==
  /\ returned + qty <= need
  /\ \A b \in toVisit : lines[b] > 0
  /\ \A n \in Batch \ toVisit : lines[n] > 0 => \A b \in toVisit : b < n
  /\ toSkip = Clip(returned - Walked, returned)
  /\ toRestore = Clip(returned + qty - Walked, qty)
  /\ \A b \in toVisit : plan[b] = 0
  /\ \A b \in Batch \ toVisit : plan[b] = ReturnPlan(lines, returned, qty)[b]

ReturnTypes ==
  /\ back \in {"idle", "walk", "refused"}
  /\ returned \in Nat /\ qty \in Nat /\ toSkip \in Nat /\ toRestore \in Nat
  /\ restored \in [Batch -> Nat] /\ plan \in [Batch -> Nat]
  /\ toVisit \subseteq Batch

ReturnInv ==
  /\ ReturnTypes
  /\ returned <= need
  /\ pc # "done" => back = "idle" /\ returned = 0 /\ restored = Nothing
  /\ PartialReturnsCompose
  /\ back = "walk" => WalkSoFar

(* What a return plans for one cost line.                                  *)
LEMMA PlanOfLine ==
  ASSUME NEW B \in SUBSET Nat, IsFiniteSet(B), NEW drawn \in [B -> Nat],
         NEW a \in Nat, NEW q \in Nat, NEW b \in B
  PROVE  ReturnPlan(drawn, a, q)[b]
           = Clip(a + q - Newer(drawn, b), drawn[b]) - Clip(a - Newer(drawn, b), drawn[b])
<1>1. \A r : LifoPrefix(drawn, r)[b] = Clip(r - Newer(drawn, b), drawn[b])
  BY DEF LifoPrefix
<1>2. PICK r \in Nat : r = a + q
  OBVIOUS
<1>3. ReturnPlan(drawn, a, q)[b] = LifoPrefix(drawn, r)[b] - LifoPrefix(drawn, a)[b]
  BY <1>2 DEF ReturnPlan
<1>4. ReturnPlan(drawn, a, q)[b]
        = Clip(r - Newer(drawn, b), drawn[b]) - Clip(a - Newer(drawn, b), drawn[b])
  BY <1>1, <1>3
<1>5. Newer(drawn, b) \in Nat
  BY OlderNewerType
<1> QED BY <1>2, <1>4, <1>5

(* A cost line of nothing takes part in no return.                         *)
LEMMA PlanOfNothing ==
  ASSUME NEW B \in SUBSET Nat, IsFiniteSet(B), NEW drawn \in [B -> Nat],
         NEW a \in Nat, NEW q \in Nat, NEW b \in B, drawn[b] = 0
  PROVE  ReturnPlan(drawn, a, q)[b] = 0
<1>1. LifoPrefix(drawn, a + q)[b] = 0 /\ LifoPrefix(drawn, a)[b] = 0
  BY LifoPrefixBounds
<1> QED BY <1>1 DEF ReturnPlan

(* The plan is never negative.                                             *)
LEMMA PlanBounds ==
  ASSUME NEW B \in SUBSET Nat, IsFiniteSet(B), NEW drawn \in [B -> Nat],
         NEW a \in Nat, NEW q \in Nat
  PROVE  ReturnPlan(drawn, a, q) \in [B -> Nat]
<1>1. /\ LifoPrefix(drawn, a) \in [B -> Nat] /\ LifoPrefix(drawn, a + q) \in [B -> Nat]
      /\ \A b \in B : LifoPrefix(drawn, a)[b] <= LifoPrefix(drawn, a + q)[b]
  BY LifoPrefixBounds, LifoPrefixMonotone
<1> QED BY <1>1 DEF ReturnPlan

(* Putting back a plan completes what earlier returns have put back.       *)
LEMMA PlanCompletes ==
  ASSUME NEW B \in SUBSET Nat, IsFiniteSet(B), NEW drawn \in [B -> Nat],
         NEW a \in Nat, NEW q \in Nat
  PROVE  [b \in B |-> LifoPrefix(drawn, a)[b] + ReturnPlan(drawn, a, q)[b]]
           = LifoPrefix(drawn, a + q)
<1>1. /\ LifoPrefix(drawn, a) \in [B -> Nat] /\ LifoPrefix(drawn, a + q) \in [B -> Nat]
  BY LifoPrefixBounds
<1>2. \A b \in B : LifoPrefix(drawn, a)[b] + ReturnPlan(drawn, a, q)[b] = LifoPrefix(drawn, a + q)[b]
  BY <1>1 DEF ReturnPlan
<1> QED BY <1>1, <1>2

(* The returns of a line begin with its sale.                              *)
LEMMA ReturnsBegin == ReturnInit => LoopInv /\ ReturnInv
<1> SUFFICES ASSUME ReturnInit PROVE LoopInv /\ ReturnInv
  OBVIOUS
<1>1. LoopInv
  BY LoopInit DEF ReturnInit
<1>2. need \in Nat
  BY <1>1 DEF LoopInv, TypeOK
<1> QED BY <1>1, <1>2 DEF ReturnInit, Init, ReturnInv, ReturnTypes, PartialReturnsCompose, Nothing

(* The sale itself leaves the returns as they are.                         *)
LEMMA ReturnsWait == ASSUME LoopInv, ReturnInv, Next, UNCHANGED returnVars PROVE ReturnInv'
<1>1. LoopInv'
  BY LoopNext
<1>2. pc # "done" /\ need' = need
  BY DEF Next, Refuse, Accept, Return, Iterate
<1>3. lines' \in [Batch -> Nat]
  BY <1>1 DEF LoopInv, TypeOK
<1>4. restored' = LifoPrefix(lines', returned')
  <2>1. /\ LifoPrefix(lines', 0) \in [Batch -> Nat]
        /\ \A b \in Batch : LifoPrefix(lines', 0)[b] = 0
    BY <1>3, BatchAssumption, LifoPrefixBounds, LifoPrefixZero
  <2>2. LifoPrefix(lines', 0) = Nothing
    BY <2>1 DEF Nothing
  <2> QED BY <1>2, <2>2 DEF ReturnInv, returnVars
<1>5. /\ back' = back /\ returned' = returned /\ restored' = restored /\ qty' = qty
      /\ toVisit' = toVisit /\ toSkip' = toSkip /\ toRestore' = toRestore /\ plan' = plan
  BY DEF returnVars
<1>6. ReturnTypes'
  BY <1>5 DEF ReturnInv, ReturnTypes
<1>7. back' = "idle" /\ returned' = 0 /\ restored' = Nothing'
  BY <1>2, <1>5 DEF ReturnInv, Nothing
<1> QED BY <1>2, <1>4, <1>5, <1>6, <1>7 DEF ReturnInv, PartialReturnsCompose

(* A return that passes the over-return check starts in front of all the   *)
(* cost lines.                                                             *)
LEMMA ReturnStarts ==
  ASSUME LoopInv, ReturnInv, NEW q \in 1 .. need + 1, Start(q) PROVE ReturnInv'
<1>1. /\ lines \in [Batch -> Nat] /\ need \in Nat
      /\ returned \in Nat /\ q \in Nat /\ q > 0
  BY DEF LoopInv, TypeOK, ReturnInv, ReturnTypes
<1>2. /\ vars' = vars /\ back' = "walk" /\ qty' = q /\ toSkip' = returned /\ toRestore' = q
      /\ toVisit' = {b \in Batch : lines[b] > 0} /\ plan' = Nothing
      /\ returned' = returned /\ restored' = restored /\ returned + q <= need
      /\ pc = "done"
  BY DEF Start, Idle
<1>3. lines' = lines /\ need' = need /\ pc' = pc
  BY <1>2 DEF vars
<1>4. Walked' = 0
  <2>1. Total(lines, Batch \ toVisit') = Total(lines, {})
    BY <1>1, <1>2, TotalZeroOutside
  <2> QED BY <1>3, <2>1, TotalEmpty DEF Walked
<1>5. \A b \in Batch \ toVisit' : ReturnPlan(lines, returned, q)[b] = 0
  BY <1>1, <1>2, BatchAssumption, PlanOfNothing
<1>6. ReturnTypes'
  BY <1>1, <1>2 DEF ReturnInv, ReturnTypes, Nothing
<1>7. WalkSoFar'
  BY <1>1, <1>2, <1>3, <1>4, <1>5 DEF WalkSoFar, Clip, Nothing
<1> QED BY <1>2, <1>3, <1>6, <1>7 DEF ReturnInv, PartialReturnsCompose

(* One visit: the cost line gives what the plan asks of it, because the    *)
(* cost lines visited before it are all the newer ones.                    *)
LEMMA ReturnWalks ==
  ASSUME LoopInv, ReturnInv, NEW b \in Batch, Walk(b) PROVE ReturnInv'
<1>0. /\ vars' = vars /\ back' = back /\ returned' = returned /\ restored' = restored
      /\ qty' = qty /\ toSkip' = toSkip - Skipped(b) /\ plan' = [plan EXCEPT ![b] = Give(b)]
      /\ toRestore' = toRestore - Give(b) /\ toVisit' = toVisit \ {b}
      /\ back = "walk" /\ toRestore # 0 /\ b \in toVisit /\ \A n \in toVisit : n <= b
  BY DEF Walk, NextBack
<1>1. lines' = lines /\ need' = need /\ pc' = pc
  BY <1>0 DEF vars
<1>2. /\ lines \in [Batch -> Nat] /\ need \in Nat /\ ReturnTypes /\ WalkSoFar
      /\ Batch \in SUBSET Nat /\ IsFiniteSet(Batch)
  BY <1>0, BatchAssumption DEF LoopInv, TypeOK, ReturnInv
<1>3. Walked \in Nat
  <2>1. IsFiniteSet(Batch \ toVisit)
    BY <1>2, FS_Difference
  <2> QED BY <1>2, <2>1, TotalType DEF Walked
<1>4. Walked' = Walked + lines[b]
  <2> DEFINE V == Batch \ toVisit
  <2>1. IsFiniteSet(V) /\ b \notin V /\ Batch \ toVisit' = V \cup {b}
    BY <1>0, <1>2, FS_Difference
  <2>2. Total(lines, V \cup {b}) = Total(lines, V) + lines[b]
    BY <1>2, <2>1, TotalAdd
  <2> QED BY <1>1, <2>1, <2>2 DEF Walked
<1>5. Newer(lines, b) = Walked
  <2> DEFINE N == {n \in DOMAIN lines : n > b}
  <2>1. N \subseteq Batch \ toVisit /\ \A n \in (Batch \ toVisit) \ N : lines[n] = 0
    <3>1. \A n \in N : n \in Batch \ toVisit
      BY <1>0, <1>2
    <3>2. ASSUME NEW n \in Batch \ toVisit, n \notin N PROVE lines[n] = 0
      <4>1. lines[n] > 0 => b < n
        BY <1>0, <1>2 DEF WalkSoFar
      <4> QED BY <1>2, <3>2, <4>1
    <3> QED BY <3>1, <3>2
  <2> HIDE DEF N
  <2>2. Total(lines, Batch \ toVisit) = Total(lines, N)
    BY <2>1, TotalZeroOutside
  <2> QED BY <2>2 DEF Newer, Walked, N
<1> DEFINE L == lines[b]
<1>6. L \in Nat /\ L > 0 /\ returned \in Nat /\ qty \in Nat
  BY <1>0, <1>2 DEF ReturnTypes, WalkSoFar
<1>7. /\ toSkip = Clip(returned - Walked, returned)
      /\ toRestore = Clip(returned + qty - Walked, qty)
  BY <1>2 DEF WalkSoFar
<1>8. ReturnPlan(lines, returned, qty)[b]
        = Clip(returned + qty - Walked, L) - Clip(returned - Walked, L)
  BY <1>2, <1>5, <1>6, PlanOfLine
<1>9. Skipped(b) = Clip(toSkip, L) /\ Give(b) = Clip(toRestore, L - Skipped(b))
  BY DEF Skipped, Give
<1> HIDE DEF L
<1>10. /\ toSkip - Skipped(b) = Clip(returned - (Walked + L), returned)
       /\ toRestore - Give(b) = Clip(returned + qty - (Walked + L), qty)
       /\ Give(b) = Clip(returned + qty - Walked, L) - Clip(returned - Walked, L)
  BY <1>3, <1>6, <1>7, <1>9 DEF Clip
<1>11. toSkip - Skipped(b) \in Nat /\ toRestore - Give(b) \in Nat /\ Give(b) \in Nat
  BY <1>3, <1>6, <1>7, <1>9 DEF Clip
<1>12. ReturnTypes'
  BY <1>0, <1>2, <1>11 DEF ReturnTypes
<1>13. WalkSoFar'
  <2>1. /\ \A c \in toVisit' : lines'[c] > 0 /\ plan'[c] = 0
        /\ \A n \in Batch \ toVisit' : lines'[n] > 0 => \A c \in toVisit' : c < n
    <3>1. \A c \in toVisit' : c \in toVisit /\ c < b
      BY <1>0, <1>2 DEF ReturnTypes
    <3> QED BY <1>0, <1>1, <1>2, <3>1 DEF WalkSoFar, ReturnTypes
  <2>2. \A c \in Batch \ toVisit' : plan'[c] = ReturnPlan(lines', returned', qty')[c]
    <3>1. plan'[b] = ReturnPlan(lines, returned, qty)[b]
      BY <1>0, <1>2, <1>8, <1>10 DEF ReturnTypes
    <3> QED BY <1>0, <1>1, <1>2, <3>1 DEF WalkSoFar, ReturnTypes
  <2>3. returned' + qty' <= need'
    BY <1>0, <1>1, <1>2 DEF WalkSoFar
  <2>4. /\ toSkip' = Clip(returned' - Walked', returned')
        /\ toRestore' = Clip(returned' + qty' - Walked', qty')
    BY <1>0, <1>4, <1>10 DEF L
  <2> QED BY <2>1, <2>2, <2>3, <2>4 DEF WalkSoFar
<1> QED BY <1>0, <1>1, <1>12, <1>13 DEF ReturnInv, PartialReturnsCompose, Nothing

(* Where the walk stops, what it has not visited has nothing to give.      *)
LEMMA WalkGivesThePlan ==
  ASSUME LoopInv, ReturnInv, back = "walk", toRestore = 0
  PROVE  plan = ReturnPlan(lines, returned, qty)
<1>1. /\ lines \in [Batch -> Nat] /\ ReturnTypes /\ WalkSoFar
      /\ Batch \in SUBSET Nat /\ IsFiniteSet(Batch)
  BY BatchAssumption DEF LoopInv, TypeOK, ReturnInv
<1>2. ASSUME NEW b \in toVisit PROVE ReturnPlan(lines, returned, qty)[b] = 0
  <2> DEFINE N == {n \in DOMAIN lines : n > b}
             V == {n \in Batch \ toVisit : lines[n] > 0}
  <2>1. V \subseteq N /\ N \subseteq Batch
    BY <1>1 DEF WalkSoFar
  <2>2. IsFiniteSet(N)
    BY <1>1, <2>1, FS_Subset
  <2> HIDE DEF N
  <2>3. Total(lines, V) <= Total(lines, N) /\ Total(lines, N) \in Nat
    BY <1>1, <2>1, <2>2, TotalMonotone, TotalType
  <2>4. Total(lines, Batch \ toVisit) = Total(lines, V)
    <3>1. V \subseteq Batch \ toVisit /\ \A n \in (Batch \ toVisit) \ V : lines[n] = 0
      BY <1>1
    <3> HIDE DEF V
    <3> QED BY <3>1, TotalZeroOutside
  <2>5. IsFiniteSet(Batch \ toVisit)
    BY <1>1, FS_Difference
  <2>6. Walked \in Nat
    BY <1>1, <2>5, TotalType DEF Walked
  <2>7. Newer(lines, b) >= Walked /\ Newer(lines, b) \in Nat
    BY <2>3, <2>4, <2>6 DEF Newer, Walked, N
  <2>8. /\ returned \in Nat /\ qty \in Nat /\ lines[b] \in Nat /\ b \in Batch
        /\ Clip(returned + qty - Walked, qty) = 0
    BY <1>1 DEF WalkSoFar, ReturnTypes
  <2>9. \/ returned + qty - Newer(lines, b) <= 0
        \/ qty = 0
    BY <2>6, <2>7, <2>8 DEF Clip
  <2>10. ReturnPlan(lines, returned, qty)[b]
          = Clip(returned + qty - Newer(lines, b), lines[b]) - Clip(returned - Newer(lines, b), lines[b])
    BY <1>1, <2>8, PlanOfLine
  <2> QED BY <2>7, <2>8, <2>9, <2>10 DEF Clip
<1>3. \A b \in Batch : plan[b] = ReturnPlan(lines, returned, qty)[b]
  BY <1>1, <1>2 DEF WalkSoFar
<1>4. returned \in Nat /\ qty \in Nat /\ plan \in [Batch -> Nat]
  BY <1>1 DEF ReturnTypes
<1>5. ReturnPlan(lines, returned, qty) \in [Batch -> Nat]
  BY <1>1, <1>4, PlanBounds
<1> QED BY <1>3, <1>4, <1>5

(* The restoring loop credits the plan.                                    *)
LEMMA ReturnRestores == ASSUME LoopInv, ReturnInv, Restore PROVE ReturnInv'
<1>1. /\ vars' = vars /\ back' = "idle" /\ returned' = returned + qty
      /\ restored' = [b \in Batch |-> restored[b] + plan[b]] /\ qty' = qty
      /\ toVisit' = toVisit /\ toSkip' = toSkip /\ toRestore' = toRestore /\ plan' = plan
      /\ back = "walk" /\ toRestore = 0
  BY DEF Restore
<1>2. lines' = lines /\ need' = need /\ pc' = pc
  BY <1>1 DEF vars
<1>3. /\ lines \in [Batch -> Nat] /\ ReturnTypes /\ WalkSoFar /\ need \in Nat
      /\ Batch \in SUBSET Nat /\ IsFiniteSet(Batch) /\ pc = "done"
  BY <1>1, BatchAssumption DEF LoopInv, TypeOK, ReturnInv
<1>4. plan = ReturnPlan(lines, returned, qty) /\ restored = LifoPrefix(lines, returned)
  BY <1>1, <1>3, WalkGivesThePlan DEF ReturnInv, PartialReturnsCompose
<1>5. restored' = LifoPrefix(lines, returned + qty)
  <2>1. returned \in Nat /\ qty \in Nat
    BY <1>3 DEF ReturnTypes
  <2>2. [b \in Batch |-> LifoPrefix(lines, returned)[b] + ReturnPlan(lines, returned, qty)[b]]
          = LifoPrefix(lines, returned + qty)
    BY <1>3, <2>1, PlanCompletes
  <2> QED BY <1>1, <1>4, <2>2
<1>6. ReturnTypes'
  BY <1>1, <1>3 DEF ReturnTypes
<1>7. returned' <= need'
  BY <1>1, <1>2, <1>3 DEF WalkSoFar
<1> QED BY <1>1, <1>2, <1>3, <1>5, <1>6, <1>7 DEF ReturnInv, PartialReturnsCompose

(* No step of a line's sale and returns breaks the invariant.              *)
LEMMA LineStep ==
  ASSUME LoopInv, ReturnInv, [LineNext]_<<vars, returnVars>> PROVE LoopInv' /\ ReturnInv'
<1>1. [Next]_vars
  BY DEF LineNext, Start, OverReturn, Walk, Restore
<1>2. LoopInv'
  BY <1>1, LoopNext
<1>3. CASE Next /\ UNCHANGED returnVars
  BY <1>2, <1>3, ReturnsWait
<1>4. CASE \E q \in 1 .. need + 1 : Start(q)
  BY <1>2, <1>4, ReturnStarts
<1>5. CASE \E q \in 1 .. need + 1 : OverReturn(q)
  <2>1. PICK q \in 1 .. need + 1 : OverReturn(q)
    BY <1>5
  <2>2. q \in Nat
    BY DEF LoopInv, TypeOK
  <2> QED BY <1>2, <2>1, <2>2 DEF OverReturn, Idle, vars, ReturnInv, ReturnTypes, PartialReturnsCompose, Nothing
<1>6. CASE \E b \in Batch : Walk(b)
  BY <1>2, <1>6, ReturnWalks
<1>7. CASE Restore
  BY <1>2, <1>7, ReturnRestores
<1>8. CASE UNCHANGED <<vars, returnVars>>
  BY <1>2, <1>8 DEF vars, returnVars, ReturnInv, ReturnTypes, PartialReturnsCompose, WalkSoFar, Walked, Nothing
<1> QED BY <1>2, <1>3, <1>4, <1>5, <1>6, <1>7, <1>8 DEF LineNext

LEMMA LineInvariant == LineSpec => [](LoopInv /\ ReturnInv)
<1>1. LoopInv /\ ReturnInv /\ [LineNext]_<<vars, returnVars>> => (LoopInv /\ ReturnInv)'
  BY LineStep
<1> QED BY ReturnsBegin, <1>1, PTL DEF LineSpec

(* The sum of a sale's cost lines covers every return that was let in, so  *)
(* the walk of _return_part_line never runs out of cost lines and its      *)
(* "Return exceeds the quantity originally consumed" is never raised.      *)
LEMMA WalkSuffices == ASSUME LoopInv, ReturnInv PROVE WalkIsThePlan
<1>1. ASSUME back = "walk", toVisit = {} PROVE toRestore = 0
  <2>1. pc = "done" /\ WalkSoFar /\ ReturnTypes /\ need \in Nat
    BY <1>1 DEF ReturnInv, LoopInv, TypeOK
  <2>2. Walked = need
    BY <1>1, <2>1, DoneIsFifo DEF LoopIsFifo, Walked
  <2> QED BY <2>1, <2>2 DEF WalkSoFar, ReturnTypes, Clip
<1> QED BY <1>1, WalkGivesThePlan DEF WalkIsThePlan

(* However the returns of a line are split, they have put back the newest  *)
(* pieces the sale drew, each once.                                        *)
THEOREM ReturnsOfALineCompose == LineSpec => []PartialReturnsCompose
<1>1. ReturnInv => PartialReturnsCompose
  BY DEF ReturnInv
<1> QED BY LineInvariant, <1>1, PTL

(* One walk over the cost lines computes what the closed form says, and    *)
(* never asks for a piece the sale did not draw.                           *)
THEOREM WalksAgree == LineSpec => []WalkIsThePlan
BY LineInvariant, WalkSuffices, PTL

(* The sale of a line that is later returned is FIFO too.                  *)
THEOREM LineTakesOldest == LineSpec => []LoopIsFifo
BY LineInvariant, DoneIsFifo, PTL
===============================================================================
