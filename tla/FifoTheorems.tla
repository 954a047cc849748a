---------------------------- MODULE FifoTheorems -----------------------------
(***************************************************************************)
(* Facts about the costing arithmetic, for every finite set of batches and *)
(* every quantity.                                                         *)
(***************************************************************************)
EXTENDS Fifo, FiniteSetTheorems, TLAPS

(* A batch with n pieces has n pieces to number.                           *)
LEMMA LotCardinality ==
  ASSUME NEW b, NEW n \in Nat
  PROVE  /\ IsFiniteSet({b} \X (1 .. n))
         /\ Cardinality({b} \X (1 .. n)) = n
<1>1. IsFiniteSet({b}) /\ Cardinality({b}) = 1
  BY FS_Singleton
<1>2. IsFiniteSet(1 .. n) /\ Cardinality(1 .. n) = n
  BY FS_Interval
<1>3. /\ IsFiniteSet({b} \X (1 .. n))
      /\ Cardinality({b} \X (1 .. n)) = Cardinality({b}) * Cardinality(1 .. n)
  BY <1>1, <1>2, FS_Product
<1> QED BY <1>1, <1>2, <1>3

(* The pieces of finitely many batches are finitely many.                  *)
LEMMA PiecesFinite ==
  ASSUME NEW S, IsFiniteSet(S), NEW f, \A b \in S : f[b] \in Nat
  PROVE  IsFiniteSet(Pieces(f, S))
<1> DEFINE Lots == {{b} \X (1 .. f[b]) : b \in S}
           lot == [b \in S |-> {b} \X (1 .. f[b])]
<1>1. lot \in Surjection(S, Lots)
  BY DEF Surjection
<1>2. IsFiniteSet(Lots)
  BY <1>1, FS_Surjection
<1>3. ASSUME NEW b \in S PROVE IsFiniteSet({b} \X (1 .. f[b]))
  <2>1. f[b] \in Nat
    OBVIOUS
  <2> QED BY <2>1, LotCardinality
<1>4. \A T \in Lots : IsFiniteSet(T)
  BY <1>3
<1> QED BY <1>2, <1>4, FS_UNION DEF Pieces

(* A sum of quantities is a quantity.                                      *)
LEMMA TotalType ==
  ASSUME NEW S, IsFiniteSet(S), NEW f, \A b \in S : f[b] \in Nat
  PROVE  Total(f, S) \in Nat
BY PiecesFinite, FS_CardinalityType DEF Total

(* The sum over no batch, Python's sum of an empty list, is zero.          *)
LEMMA TotalEmpty == ASSUME NEW f PROVE Total(f, {}) = 0
BY FS_EmptySet DEF Total, Pieces

(* The sum depends on the batches it runs over only.                       *)
LEMMA TotalSame ==
  ASSUME NEW S, NEW f, NEW g, \A b \in S : f[b] = g[b]
  PROVE  Total(f, S) = Total(g, S)
<1>1. Pieces(f, S) = Pieces(g, S)
  BY DEF Pieces
<1> QED BY <1>1 DEF Total

(* One more batch adds its quantity to the sum.                            *)
LEMMA TotalAdd ==
  ASSUME NEW S, IsFiniteSet(S), NEW x, x \notin S,
         NEW f, \A b \in S \cup {x} : f[b] \in Nat
  PROVE  Total(f, S \cup {x}) = Total(f, S) + f[x]
<1> DEFINE lot == {x} \X (1 .. f[x])
<1>1. Pieces(f, S \cup {x}) = Pieces(f, S) \cup lot
  BY DEF Pieces
<1>2. Pieces(f, S) \cap lot = {}
  BY DEF Pieces
<1>3. IsFiniteSet(Pieces(f, S)) /\ IsFiniteSet(lot) /\ Cardinality(lot) = f[x]
  BY PiecesFinite, LotCardinality
<1>4. Cardinality(Pieces(f, S) \cap lot) = 0
  BY <1>2, FS_EmptySet
<1>5. Cardinality(Pieces(f, S)) \in Nat
  BY <1>3, FS_CardinalityType
<1>6. Cardinality(Pieces(f, S) \cup lot)
        = Cardinality(Pieces(f, S)) + Cardinality(lot)
            - Cardinality(Pieces(f, S) \cap lot)
  BY <1>3, FS_Union
<1>7. Cardinality(Pieces(f, S \cup {x})) = Cardinality(Pieces(f, S)) + f[x]
  <2>1. f[x] \in Nat
    OBVIOUS
  <2>2. Cardinality(Pieces(f, S) \cup lot)
          = Cardinality(Pieces(f, S)) + f[x] - 0
    <3> HIDE DEF lot
    <3> QED BY <1>3, <1>4, <1>6
  <2>3. Cardinality(Pieces(f, S)) + f[x] - 0 = Cardinality(Pieces(f, S)) + f[x]
    <3> HIDE DEF lot
    <3> QED BY <1>5, <2>1
  <2> HIDE DEF lot
  <2> QED BY <1>1, <2>2, <2>3
<1> QED BY <1>7 DEF Total

(* Changing one summand changes the sum by as much.                        *)
LEMMA TotalChange ==
  ASSUME NEW S, IsFiniteSet(S), NEW x \in S, NEW f, NEW g,
         \A b \in S : f[b] \in Nat /\ g[b] \in Nat,
         \A b \in S \ {x} : f[b] = g[b]
  PROVE  /\ Total(f, S) \in Nat /\ Total(g, S) \in Nat
         /\ Total(g, S) = Total(f, S) + g[x] - f[x]
<1> DEFINE R == S \ {x}
<1>1. IsFiniteSet(R)
  BY FS_RemoveElement
<1>2. S = R \cup {x} /\ x \notin R
  OBVIOUS
<1>3. Total(f, R) = Total(g, R) /\ Total(f, R) \in Nat
  BY <1>1, TotalSame, TotalType
<1>4. Total(f, S) = Total(f, R) + f[x]
  BY <1>1, <1>2, TotalAdd
<1>5. Total(g, S) = Total(g, R) + g[x]
  BY <1>1, <1>2, TotalAdd
<1> QED BY <1>3, <1>4, <1>5

(* Batches that hold nothing do not count.                                 *)
LEMMA TotalZeroOutside ==
  ASSUME NEW S, NEW T, T \subseteq S, NEW f, \A b \in S \ T : f[b] = 0
  PROVE  Total(f, S) = Total(f, T)
<1>1. \A b \in S \ T : 1 .. f[b] = {}
  OBVIOUS
<1>2. Pieces(f, S) = Pieces(f, T)
  BY <1>1 DEF Pieces
<1> QED BY <1>2 DEF Total

(* The sum over fewer batches is no greater.                               *)
LEMMA TotalMonotone ==
  ASSUME NEW S, IsFiniteSet(S), NEW T, T \subseteq S,
         NEW f, \A b \in S : f[b] \in Nat
  PROVE  Total(f, T) <= Total(f, S)
<1>1. Pieces(f, T) \subseteq Pieces(f, S)
  BY DEF Pieces
<1>2. IsFiniteSet(Pieces(f, S))
  BY PiecesFinite
<1> QED BY <1>1, <1>2, FS_Subset DEF Total

(* Less in every batch is less altogether.                                 *)
LEMMA TotalPointwise ==
  ASSUME NEW S, IsFiniteSet(S), NEW f, NEW g,
         \A b \in S : f[b] \in Nat /\ g[b] \in Nat /\ f[b] <= g[b]
  PROVE  Total(f, S) <= Total(g, S)
<1>1. \A b \in S : 1 .. f[b] \subseteq 1 .. g[b]
  OBVIOUS
<1>2. Pieces(f, S) \subseteq Pieces(g, S)
  BY <1>1 DEF Pieces
<1>3. IsFiniteSet(Pieces(g, S))
  BY PiecesFinite
<1> QED BY <1>2, <1>3, FS_Subset DEF Total

-----------------------------------------------------------------------------
(* What older and newer batches hold are quantities.                       *)
LEMMA OlderNewerType ==
  ASSUME NEW B \in SUBSET Nat, IsFiniteSet(B), NEW f \in [B -> Nat], NEW b
  PROVE  Older(f, b) \in Nat /\ Newer(f, b) \in Nat
<1>1. /\ IsFiniteSet({o \in DOMAIN f : o < b})
      /\ IsFiniteSet({n \in DOMAIN f : n > b})
  BY FS_Subset
<1>2. \A c \in DOMAIN f : f[c] \in Nat
  OBVIOUS
<1> QED BY <1>1, <1>2, TotalType DEF Older, Newer

(* What consume_quantity_fifo takes from a batch is there to be taken.     *)
LEMMA FifoTakeBounds ==
  ASSUME NEW B \in SUBSET Nat, IsFiniteSet(B), NEW avail \in [B -> Nat],
         NEW need \in Nat
  PROVE  /\ FifoTake(avail, need) \in [B -> Nat]
         /\ \A b \in B : FifoTake(avail, need)[b] <= avail[b]
<1>1. ASSUME NEW b \in B
      PROVE  Clip(need - Older(avail, b), avail[b]) \in 0 .. avail[b]
  BY OlderNewerType DEF Clip
<1> QED BY <1>1 DEF FifoTake

(* A return puts back in a batch no more than the sale took from it.       *)
LEMMA LifoPrefixBounds ==
  ASSUME NEW B \in SUBSET Nat, IsFiniteSet(B), NEW drawn \in [B -> Nat],
         NEW q \in Nat
  PROVE  /\ LifoPrefix(drawn, q) \in [B -> Nat]
         /\ \A b \in B : LifoPrefix(drawn, q)[b] <= drawn[b]
<1>1. ASSUME NEW b \in B
      PROVE  Clip(q - Newer(drawn, b), drawn[b]) \in 0 .. drawn[b]
  BY OlderNewerType DEF Clip
<1> QED BY <1>1 DEF LifoPrefix

(* Returning nothing puts nothing back.                                    *)
LEMMA LifoPrefixZero ==
  ASSUME NEW B \in SUBSET Nat, IsFiniteSet(B), NEW drawn \in [B -> Nat]
  PROVE  \A b \in B : LifoPrefix(drawn, 0)[b] = 0
<1>1. ASSUME NEW b \in B
      PROVE  Clip(0 - Newer(drawn, b), drawn[b]) = 0
  BY OlderNewerType DEF Clip
<1> QED BY <1>1 DEF LifoPrefix

(* Returning more never takes a piece back out of a batch: a plan of       *)
(* _return_part_line is never negative.                                    *)
LEMMA LifoPrefixMonotone ==
  ASSUME NEW B \in SUBSET Nat, IsFiniteSet(B), NEW drawn \in [B -> Nat],
         NEW q \in Nat, NEW r \in Nat, q <= r
  PROVE  \A b \in B : LifoPrefix(drawn, q)[b] <= LifoPrefix(drawn, r)[b]
<1>1. ASSUME NEW b \in B
      PROVE  Clip(q - Newer(drawn, b), drawn[b])
               <= Clip(r - Newer(drawn, b), drawn[b])
  BY OlderNewerType DEF Clip
<1> QED BY <1>1 DEF LifoPrefix

(* FIFO opens a batch only when it takes all of every older one.           *)
LEMMA FifoTakeOldestFirst ==
  ASSUME NEW B \in SUBSET Nat, IsFiniteSet(B), NEW avail \in [B -> Nat],
         NEW need \in Nat, NEW o \in B, NEW n \in B, o < n,
         FifoTake(avail, need)[n] > 0
  PROVE  FifoTake(avail, need)[o] = avail[o]
<1> DEFINE N == {x \in B : x < n}
           O == {x \in B : x < o}
<1>1. /\ IsFiniteSet(N) /\ IsFiniteSet(O) /\ o \notin O
      /\ O \cup {o} \subseteq N
  <2>1. N \in SUBSET B /\ O \in SUBSET B
    OBVIOUS
  <2>2. IsFiniteSet(N) /\ IsFiniteSet(O)
    <3> HIDE DEF N, O
    <3> QED BY <2>1, FS_Subset
  <2>3. n \in Nat /\ o \in Nat
    OBVIOUS
  <2>4. o \notin O
    BY <2>3
  <2>5. ASSUME NEW x \in O \cup {o} PROVE x \in N
    <3>1. x \in B /\ x \in Nat /\ (x < o \/ x = o)
      OBVIOUS
    <3> QED BY <2>3, <3>1
  <2> QED BY <2>2, <2>4, <2>5
<1>2. Total(avail, O \cup {o}) = Total(avail, O) + avail[o]
  BY <1>1, TotalAdd
<1>3. Total(avail, O \cup {o}) <= Total(avail, N)
  BY <1>1, TotalMonotone
<1>4. Older(avail, o) + avail[o] <= Older(avail, n)
  BY <1>2, <1>3 DEF Older
<1>5. Older(avail, o) \in Nat /\ Older(avail, n) \in Nat
  BY OlderNewerType
<1>6. need - Older(avail, n) > 0
  BY <1>5 DEF FifoTake, Clip
<1> QED BY <1>4, <1>5, <1>6 DEF FifoTake, Clip

(* A prefix reaches an older batch only when it has all of every newer one.*)
LEMMA LifoPrefixNewestFirst ==
  ASSUME NEW B \in SUBSET Nat, IsFiniteSet(B), NEW drawn \in [B -> Nat],
         NEW q \in Nat, NEW o \in B, NEW n \in B, o < n,
         LifoPrefix(drawn, q)[o] > 0
  PROVE  LifoPrefix(drawn, q)[n] = drawn[n]
<1> DEFINE N == {x \in B : x > n}
           O == {x \in B : x > o}
<1>1. /\ IsFiniteSet(N) /\ IsFiniteSet(O) /\ n \notin N
      /\ N \cup {n} \subseteq O
  <2>1. N \in SUBSET B /\ O \in SUBSET B
    OBVIOUS
  <2>2. IsFiniteSet(N) /\ IsFiniteSet(O)
    <3> HIDE DEF N, O
    <3> QED BY <2>1, FS_Subset
  <2>3. n \in Nat /\ o \in Nat
    OBVIOUS
  <2>4. n \notin N
    BY <2>3
  <2>5. ASSUME NEW x \in N \cup {n} PROVE x \in O
    <3>1. x \in B /\ x \in Nat /\ (x > n \/ x = n)
      OBVIOUS
    <3> QED BY <2>3, <3>1
  <2> QED BY <2>2, <2>4, <2>5
<1>2. Total(drawn, N \cup {n}) = Total(drawn, N) + drawn[n]
  BY <1>1, TotalAdd
<1>3. Total(drawn, N \cup {n}) <= Total(drawn, O)
  BY <1>1, TotalMonotone
<1>4. Newer(drawn, n) + drawn[n] <= Newer(drawn, o)
  BY <1>2, <1>3 DEF Newer
<1>5. Newer(drawn, n) \in Nat /\ Newer(drawn, o) \in Nat
  BY OlderNewerType
<1>6. q - Newer(drawn, o) > 0
  BY <1>5 DEF LifoPrefix, Clip
<1> QED BY <1>4, <1>5, <1>6 DEF LifoPrefix, Clip
-----------------------------------------------------------------------------
(* Among subsets of a finite set one is minimal: the induction of what     *)
(* follows, as a search for a smallest counterexample.                     *)
LEMMA MinimalSubset ==
  ASSUME NEW S, IsFiniteSet(S), NEW F, F \subseteq SUBSET S, NEW z \in F
  PROVE  \E x \in F : \A y \in F : y \subseteq x => y = x
<1>1. IsWellFoundedOn(StrictSubsetOrdering(S), SUBSET S)
  BY FS_StrictSubsetOrderingWellFounded, FS_FiniteSubsetsOfFinite
<1>2. F \subseteq SUBSET S
  OBVIOUS
<1>3. PICK x \in F : \A y \in F : ~(<<y, x>> \in StrictSubsetOrdering(S))
  <2> HIDE DEF StrictSubsetOrdering
  <2> QED BY <1>1, <1>2, WFMin
<1>4. ASSUME NEW y \in F, y \subseteq x, y # x PROVE FALSE
  <2>1. <<y, x>> \in (SUBSET S) \X (SUBSET S)
    OBVIOUS
  <2>2. <<y, x>> \in StrictSubsetOrdering(S)
    BY <1>4, <2>1 DEF StrictSubsetOrdering
  <2> QED BY <1>3, <2>2
<1> QED BY <1>4

(* Finitely many batches have an oldest and a newest one.                  *)
LEMMA OldestNewest ==
  ASSUME NEW S, IsFiniteSet(S), S # {}
  PROVE  S \subseteq Nat => /\ \E m \in S : \A b \in S : m <= b
                           /\ \E m \in S : \A b \in S : b <= m
<1> DEFINE Good(T) == /\ \E m \in T : \A b \in T : m <= b
                      /\ \E m \in T : \A b \in T : b <= m
           F == {T \in SUBSET S : T # {} /\ ~Good(T)}
<1>1. S \in F => \E T \in F : \A U \in F : U \subseteq T => U = T
  <2>1. F \subseteq SUBSET S
    OBVIOUS
  <2> HIDE DEF F
  <2> QED BY <2>1, MinimalSubset
<1> SUFFICES ASSUME S \subseteq Nat, ~Good(S) PROVE FALSE
  OBVIOUS
<1>2. PICK T \in F : \A U \in F : U \subseteq T => U = T
  BY <1>1
<1>3. PICK x \in T : TRUE
  OBVIOUS
<1>4. /\ T \ {x} \in SUBSET S /\ T \ {x} \subseteq T /\ T \ {x} # T
      /\ x \in Nat /\ T \subseteq Nat
  BY <1>3
<1>5. T \ {x} = {} \/ Good(T \ {x})
  BY <1>2, <1>4
<1>6. Good(T)
  <2>1. CASE T \ {x} = {}
    BY <1>4, <2>1, <1>3
  <2>2. CASE Good(T \ {x})
    <3>1. PICK lo \in T \ {x} : \A b \in T \ {x} : lo <= b
      BY <2>2
    <3>2. PICK hi \in T \ {x} : \A b \in T \ {x} : b <= hi
      BY <2>2
    <3>3. \E m \in T : \A b \in T : m <= b
      <4>1. CASE lo <= x
        BY <3>1, <4>1, <1>4
      <4>2. CASE x <= lo
        BY <1>3, <3>1, <4>2, <1>4
      <4> QED BY <1>4, <4>1, <4>2
    <3>4. \E m \in T : \A b \in T : b <= m
      <4>1. CASE x <= hi
        BY <3>2, <4>1, <1>4
      <4>2. CASE hi <= x
        BY <1>3, <3>2, <4>2, <1>4
      <4> QED BY <1>4, <4>1, <4>2
    <3> QED BY <3>3, <3>4
  <2> QED BY <1>5, <2>1, <2>2
<1> QED BY <1>2, <1>6

(* One batch less takes its quantity off the sum.                          *)
LEMMA TotalRemove ==
  ASSUME NEW S, IsFiniteSet(S), NEW x \in S, NEW f, \A b \in S : f[b] \in Nat
  PROVE  /\ Total(f, S) = Total(f, S \ {x}) + f[x]
         /\ Total(f, S) \in Nat /\ Total(f, S \ {x}) \in Nat
<1>1. IsFiniteSet(S \ {x})
  BY FS_RemoveElement
<1>2. S = (S \ {x}) \cup {x} /\ x \notin S \ {x}
  OBVIOUS
<1>3. Total(f, S) = Total(f, S \ {x}) + f[x]
  BY <1>1, <1>2, TotalAdd
<1> QED BY <1>1, <1>3, TotalType

(* The sum of two quantities per batch is the sum of their sums.           *)
LEMMA TotalSum ==
  ASSUME NEW S, IsFiniteSet(S), NEW f, NEW g, NEW h,
         \A b \in S : f[b] \in Nat /\ g[b] \in Nat /\ h[b] = f[b] + g[b]
  PROVE  Total(h, S) = Total(f, S) + Total(g, S)
<1> DEFINE Good(T) == Total(h, T) = Total(f, T) + Total(g, T)
           F == {T \in SUBSET S : ~Good(T)}
<1> SUFFICES ASSUME ~Good(S) PROVE FALSE
  OBVIOUS
<1>1. S \in F
  OBVIOUS
<1>2. PICK T \in F : \A U \in F : U \subseteq T => U = T
  <2>1. F \subseteq SUBSET S
    OBVIOUS
  <2> HIDE DEF F
  <2> QED BY <1>1, <2>1, MinimalSubset
<1>3. Good({})
  BY TotalEmpty
<1>4. T # {} /\ T \in SUBSET S
  BY <1>2, <1>3
<1>5. PICK x \in T : TRUE
  BY <1>4
<1>6. T \ {x} \in SUBSET S /\ T \ {x} \subseteq T /\ T \ {x} # T /\ x \in S
  BY <1>4, <1>5
<1>7. Good(T \ {x})
  BY <1>2, <1>6
<1>8. IsFiniteSet(T)
  BY <1>4, FS_Subset
<1>9. /\ \A b \in T : f[b] \in Nat /\ g[b] \in Nat
      /\ \A b \in T : h[b] \in Nat
      /\ h[x] = f[x] + g[x] /\ f[x] \in Nat /\ g[x] \in Nat
  BY <1>4, <1>6
<1>10. Total(f, T) = Total(f, T \ {x}) + f[x] /\ Total(f, T \ {x}) \in Nat
  BY <1>8, <1>9, TotalRemove
<1>11. Total(g, T) = Total(g, T \ {x}) + g[x] /\ Total(g, T \ {x}) \in Nat
  BY <1>8, <1>9, TotalRemove
<1>12. Total(h, T) = Total(h, T \ {x}) + h[x]
  BY <1>8, <1>9, TotalRemove
<1>13. Good(T)
  BY <1>7, <1>9, <1>10, <1>11, <1>12
<1> QED BY <1>2, <1>13

(* consume_quantity_fifo finds the whole request when the stock covers it. *)
LEMMA FifoTakeTotal ==
  ASSUME NEW B \in SUBSET Nat, IsFiniteSet(B), NEW avail \in [B -> Nat],
         NEW need \in Nat, need <= Total(avail, B)
  PROVE  Total(FifoTake(avail, need), B) = need
<1> DEFINE take == FifoTake(avail, need)
           Open == {b \in B : Older(avail, b) < need}
<1>0. /\ take \in [B -> Nat] /\ \A b \in B : avail[b] \in Nat /\ take[b] \in Nat
      /\ \A b \in B : take[b] = Clip(need - Older(avail, b), avail[b])
      /\ \A b \in B : Older(avail, b) \in Nat
  <2>1. take \in [B -> Nat]
    BY FifoTakeBounds
  <2>2. \A b \in B : take[b] = Clip(need - Older(avail, b), avail[b])
    BY DEF FifoTake
  <2> HIDE DEF take
  <2> QED BY <2>1, <2>2, OlderNewerType
<1> HIDE DEF take
<1>1. CASE Open = {}
  <2>1. \A b \in B : take[b] = 0
    BY <1>0, <1>1 DEF Clip
  <2>2. Total(take, B) = 0
    <3>1. {} \subseteq B /\ \A b \in B \ {} : take[b] = 0
      BY <2>1
    <3>2. Total(take, B) = Total(take, {})
      BY <3>1, TotalZeroOutside
    <3> QED BY <3>2, TotalEmpty
  <2>3. need = 0
    <3> SUFFICES ASSUME need > 0 PROVE FALSE
      OBVIOUS
    <3>1. B # {}
      BY TotalEmpty
    <3>2. PICK m \in B : \A b \in B : m <= b
      BY <3>1, OldestNewest
    <3>3. {o \in DOMAIN avail : o < m} = {}
      <4> SUFFICES ASSUME NEW o \in B, o < m PROVE FALSE
        OBVIOUS
      <4>1. m <= o /\ o \in Nat /\ m \in Nat
        BY <3>2
      <4> QED BY <4>1
    <3>4. Older(avail, m) = 0
      BY <3>3, TotalEmpty DEF Older
    <3> QED BY <1>1, <3>4
  <2> QED BY <2>2, <2>3 DEF take
<1>2. CASE Open # {}
  <2>1. PICK x \in Open : \A b \in Open : b <= x
    <3>1. Open \in SUBSET B
      OBVIOUS
    <3>2. IsFiniteSet(Open) /\ Open \in SUBSET Nat
      <4> HIDE DEF Open
      <4> QED BY <3>1, FS_Subset
    <3> HIDE DEF Open
    <3> QED BY <1>2, <3>2, OldestNewest
  <2> DEFINE D == {o \in B : o < x}
  <2>2. /\ x \in B /\ x \in Nat /\ x \notin D /\ D \in SUBSET B
        /\ Older(avail, x) < need /\ Older(avail, x) = Total(avail, D)
    BY <2>1 DEF Older
  <2>3. IsFiniteSet(D)
    <3> HIDE DEF D
    <3> QED BY <2>2, FS_Subset
  <2>4. Total(avail, D \cup {x}) = Total(avail, D) + avail[x]
    <3> HIDE DEF D
    <3> QED BY <1>0, <2>2, <2>3, TotalAdd
  <2>5. ASSUME NEW o \in D PROVE take[o] = avail[o]
    <3> DEFINE O == {c \in B : c < o}
    <3>1. o \in B /\ o \in Nat /\ o < x
      OBVIOUS
    <3>2. O \cup {o} \subseteq D /\ o \notin O /\ O \in SUBSET B
      <4>1. ASSUME NEW c \in O PROVE c \in D /\ c # o
        <5>1. c \in B /\ c \in Nat /\ c < o
          OBVIOUS
        <5> QED BY <2>2, <3>1, <5>1
      <4> QED BY <4>1
    <3>3. IsFiniteSet(O) /\ \A c \in O \cup {o} : avail[c] \in Nat
      <4> HIDE DEF O, D
      <4> QED BY <2>2, <3>1, <3>2, <1>0, FS_Subset
    <3>4. Total(avail, O \cup {o}) = Total(avail, O) + avail[o]
      <4> HIDE DEF O, D
      <4> QED BY <3>2, <3>3, TotalAdd
    <3>5. Total(avail, O \cup {o}) <= Total(avail, D)
      <4> HIDE DEF O, D
      <4> QED BY <1>0, <2>2, <2>3, <3>2, TotalMonotone
    <3>6. Older(avail, o) = Total(avail, O)
      BY DEF Older
    <3>7. /\ Older(avail, o) \in Nat /\ avail[o] \in Nat
          /\ Older(avail, o) + avail[o] <= Older(avail, x)
          /\ Older(avail, x) \in Nat
      <4> HIDE DEF O, D
      <4> QED BY <1>0, <2>2, <3>1, <3>4, <3>5, <3>6
    <3>8. need - Older(avail, o) >= avail[o]
      BY <2>2, <3>7
    <3> QED BY <1>0, <3>1, <3>7, <3>8 DEF Clip
  <2>6. ASSUME NEW b \in B \ (D \cup {x}) PROVE take[b] = 0
    <3>1. b \in Nat /\ b > x /\ b \notin Open
      BY <2>1, <2>2
    <3>2. Older(avail, b) >= need /\ Older(avail, b) \in Nat
      BY <1>0, <3>1
    <3> QED BY <1>0, <3>2 DEF Clip
  <2>7. need <= Total(avail, D) + avail[x]
    <3> DEFINE U == {b \in B : b > x}
    <3>1. CASE U = {}
      <4>1. B = D \cup {x}
        <5>1. ASSUME NEW b \in B PROVE b \in D \cup {x}
          <6>1. b \in Nat /\ ~(b > x)
            BY <3>1
          <6> QED BY <2>2, <6>1
        <5> QED BY <2>2, <5>1
      <4> QED BY <2>4, <4>1
    <3>2. CASE U # {}
      <4>1. U \in SUBSET B
        OBVIOUS
      <4>2. IsFiniteSet(U) /\ U \in SUBSET Nat
        <5> HIDE DEF U
        <5> QED BY <4>1, FS_Subset
      <4>3. PICK n \in U : \A b \in U : n <= b
        <5> HIDE DEF U
        <5> QED BY <3>2, <4>2, OldestNewest
      <4>4. n \in B /\ n > x /\ n \in Nat
        BY <2>2, <4>3
      <4>5. {o \in DOMAIN avail : o < n} = D \cup {x}
        <5>1. ASSUME NEW o \in B, o < n PROVE o \in D \cup {x}
          <6>1. o \in Nat /\ ~(o > x)
            BY <4>3, <4>4, <5>1
          <6> QED BY <2>2, <6>1
        <5>2. ASSUME NEW o \in D \cup {x} PROVE o \in B /\ o < n
          <6>1. o \in B /\ o \in Nat /\ (o < x \/ o = x)
            BY <2>2
          <6> QED BY <2>2, <4>4, <6>1
        <5> HIDE DEF D
        <5> QED BY <5>1, <5>2
      <4>6. Older(avail, n) = Total(avail, D) + avail[x]
        BY <2>4, <4>5 DEF Older
      <4>7. n \notin Open
        BY <2>1, <2>2, <4>4
      <4> QED BY <1>0, <4>4, <4>6, <4>7
    <3> QED BY <3>1, <3>2
  <2>8. take[x] = need - Total(avail, D)
    <3>1. /\ Older(avail, x) \in Nat /\ avail[x] \in Nat
          /\ need - Older(avail, x) > 0 /\ need - Older(avail, x) <= avail[x]
      <4> HIDE DEF D
      <4> QED BY <1>0, <2>2, <2>7
    <3>2. take[x] = need - Older(avail, x)
      BY <1>0, <2>2, <3>1 DEF Clip
    <3> QED BY <2>2, <3>2
  <2> HIDE DEF D, Open
  <2> HIDE DEF D, Open
  <2>9. Total(take, B) = Total(take, D \cup {x})
    <3>1. D \cup {x} \subseteq B
      BY <2>2
    <3>2. \A b \in B \ (D \cup {x}) : take[b] = 0
      BY <2>6
    <3> QED BY <3>1, <3>2, TotalZeroOutside
  <2>10. Total(take, D \cup {x}) = Total(take, D) + take[x]
    BY <1>0, <2>2, <2>3, TotalAdd
  <2>11. Total(take, D) = Total(avail, D) /\ Total(avail, D) \in Nat
    BY <1>0, <2>2, <2>3, <2>5, TotalSame, TotalType
  <2> QED BY <2>8, <2>9, <2>10, <2>11 DEF take
<1> QED BY <1>1, <1>2

(* The sum over two separate sets of batches is the sum of their sums.     *)
LEMMA TotalUnion ==
  ASSUME NEW S, IsFiniteSet(S), NEW D, D \subseteq S,
         NEW f, \A b \in S : f[b] \in Nat
  PROVE  /\ Total(f, S) = Total(f, D) + Total(f, S \ D)
         /\ Total(f, D) \in Nat /\ Total(f, S \ D) \in Nat
<1> DEFINE g == [b \in S |-> IF b \in D THEN f[b] ELSE 0]
           h == [b \in S |-> IF b \in D THEN 0 ELSE f[b]]
<1>1. /\ \A b \in S : g[b] \in Nat /\ h[b] \in Nat /\ f[b] = g[b] + h[b]
      /\ \A b \in D : g[b] = f[b]
      /\ \A b \in S \ D : g[b] = 0
      /\ \A b \in S \ D : h[b] = f[b]
      /\ \A b \in S \ (S \ D) : h[b] = 0
  OBVIOUS
<1> HIDE DEF g, h
<1>2. Total(f, S) = Total(g, S) + Total(h, S)
  BY <1>1, TotalSum
<1>3. Total(g, S) = Total(g, D)
  BY <1>1, TotalZeroOutside
<1>4. Total(g, D) = Total(f, D)
  BY <1>1, TotalSame
<1>5. Total(h, S) = Total(h, S \ D)
  <2>1. S \ D \subseteq S
    OBVIOUS
  <2> QED BY <1>1, <2>1, TotalZeroOutside
<1>6. Total(h, S \ D) = Total(f, S \ D)
  BY <1>1, TotalSame
<1>7. Total(f, D) \in Nat /\ Total(f, S \ D) \in Nat
  <2>1. IsFiniteSet(D) /\ IsFiniteSet(S \ D)
    BY FS_Subset
  <2>2. \A b \in D : f[b] \in Nat
    OBVIOUS
  <2>3. \A b \in S \ D : f[b] \in Nat
    OBVIOUS
  <2> QED BY <2>1, <2>2, <2>3, TotalType
<1> QED BY <1>2, <1>3, <1>4, <1>5, <1>6, <1>7

(* A batch, the older ones and the newer ones are all the batches.         *)
LEMMA OlderNewerTotal ==
  ASSUME NEW B \in SUBSET Nat, IsFiniteSet(B), NEW f \in [B -> Nat], NEW b \in B
  PROVE  Total(f, B) = Older(f, b) + f[b] + Newer(f, b)
<1> DEFINE O == {o \in B : o < b}
           N == {n \in B : n > b}
<1>1. O \subseteq B /\ B \ O = N \cup {b} /\ b \notin N
  <2>1. ASSUME NEW c \in B PROVE c \in Nat /\ b \in Nat /\ (c < b \/ c = b \/ c > b)
    <3>1. c \in Nat /\ b \in Nat
      OBVIOUS
    <3> QED BY <3>1
  <2>2. ASSUME NEW c \in B \ O PROVE c \in N \cup {b}
    BY <2>1
  <2>3. ASSUME NEW c \in N \cup {b} PROVE c \in B \ O
    <3>1. c \in B /\ c \in Nat /\ b \in Nat /\ (c > b \/ c = b)
      OBVIOUS
    <3>2. ~(c < b)
      BY <3>1
    <3> QED BY <3>1, <3>2
  <2>4. b \notin N
    BY <2>1
  <2> HIDE DEF N
  <2> QED BY <2>2, <2>3, <2>4
<1>2. Older(f, b) = Total(f, O) /\ Newer(f, b) = Total(f, N)
  BY DEF Older, Newer
<1>3. IsFiniteSet(N) /\ \A c \in N \cup {b} : f[c] \in Nat
  <2>1. N \subseteq B
    OBVIOUS
  <2> HIDE DEF N
  <2> QED BY <2>1, FS_Subset
<1>4. \A c \in B : f[c] \in Nat
  OBVIOUS
<1> HIDE DEF O, N
<1>5. Total(f, B) = Total(f, O) + Total(f, N \cup {b})
  <2>1. Total(f, B) = Total(f, O) + Total(f, B \ O)
    BY <1>1, <1>4, TotalUnion
  <2> QED BY <1>1, <2>1
<1>6. Total(f, N \cup {b}) = Total(f, N) + f[b]
  BY <1>1, <1>3, TotalAdd
<1>7. Total(f, O) \in Nat /\ Total(f, N) \in Nat /\ f[b] \in Nat
  BY <1>2, OlderNewerType
<1> QED BY <1>2, <1>5, <1>6, <1>7

(* The prefix of q pieces has q pieces, when the sale drew as many.        *)
LEMMA LifoPrefixTotal ==
  ASSUME NEW B \in SUBSET Nat, IsFiniteSet(B), NEW drawn \in [B -> Nat],
         NEW q \in Nat, q <= Total(drawn, B)
  PROVE  Total(LifoPrefix(drawn, q), B) = q
<1> DEFINE back == LifoPrefix(drawn, q)
<1>1. PICK rest \in Nat : rest = Total(drawn, B) - q
  <2>1. Total(drawn, B) \in Nat
    BY TotalType
  <2> QED BY <2>1
<1> DEFINE kept == FifoTake(drawn, rest)
<1>2. Total(drawn, B) \in Nat /\ rest <= Total(drawn, B) /\ rest + q = Total(drawn, B)
  <2>1. Total(drawn, B) \in Nat
    BY TotalType
  <2> QED BY <1>1, <2>1
<1>3. back \in [B -> Nat] /\ kept \in [B -> Nat]
  BY LifoPrefixBounds, FifoTakeBounds
<1>4. ASSUME NEW b \in B PROVE drawn[b] = back[b] + kept[b]
  <2>1. back[b] = Clip(q - Newer(drawn, b), drawn[b])
    BY DEF LifoPrefix
  <2>2. kept[b] = Clip(rest - Older(drawn, b), drawn[b])
    BY DEF FifoTake
  <2>3. /\ Older(drawn, b) \in Nat /\ Newer(drawn, b) \in Nat /\ drawn[b] \in Nat
        /\ rest + q = Older(drawn, b) + drawn[b] + Newer(drawn, b)
    BY <1>2, OlderNewerType, OlderNewerTotal
  <2> HIDE DEF back, kept
  <2> QED BY <2>1, <2>2, <2>3 DEF Clip
<1>5. Total(kept, B) = rest
  BY <1>2, FifoTakeTotal
<1> HIDE DEF back, kept
<1>6. \A b \in B : back[b] \in Nat /\ kept[b] \in Nat /\ drawn[b] = back[b] + kept[b]
  BY <1>3, <1>4
<1>7. Total(drawn, B) = Total(back, B) + Total(kept, B)
  BY <1>6, TotalSum
<1>8. Total(back, B) \in Nat
  BY <1>6, TotalType
<1> QED BY <1>2, <1>5, <1>7, <1>8 DEF back

(* A return of qty pieces that the line still has puts back qty pieces.    *)
LEMMA ReturnPlanTotal ==
  ASSUME NEW B \in SUBSET Nat, IsFiniteSet(B), NEW drawn \in [B -> Nat],
         NEW already \in Nat, NEW qty \in Nat,
         already + qty <= Total(drawn, B)
  PROVE  Total(ReturnPlan(drawn, already, qty), B) = qty
<1>1. PICK upto \in Nat : upto = already + qty
  OBVIOUS
<1> DEFINE was == LifoPrefix(drawn, already)
           now == LifoPrefix(drawn, upto)
           plan == ReturnPlan(drawn, already, qty)
<1>2. was \in [B -> Nat] /\ now \in [B -> Nat] /\ \A b \in B : was[b] <= now[b]
  <2>1. already <= upto
    BY <1>1
  <2>2. was \in [B -> Nat] /\ now \in [B -> Nat]
    BY LifoPrefixBounds
  <2>3. \A b \in B : was[b] <= now[b]
    BY <2>1, LifoPrefixMonotone
  <2> HIDE DEF was, now
  <2> QED BY <2>2, <2>3
<1>3. \A b \in B : plan[b] = now[b] - was[b]
  BY <1>1 DEF ReturnPlan
<1>4. Total(was, B) = already /\ Total(now, B) = upto
  <2>1. Total(drawn, B) \in Nat
    BY TotalType
  <2>2. already <= Total(drawn, B) /\ upto <= Total(drawn, B)
    BY <1>1, <2>1
  <2> QED BY <2>2, LifoPrefixTotal
<1> HIDE DEF was, now, plan
<1>5. \A b \in B : was[b] \in Nat /\ plan[b] \in Nat /\ now[b] = was[b] + plan[b]
  BY <1>2, <1>3
<1>6. Total(now, B) = Total(was, B) + Total(plan, B)
  BY <1>5, TotalSum
<1>7. Total(plan, B) \in Nat
  BY <1>5, TotalType
<1>8. Total(plan, B) = qty
  <2>1. PICK n \in Nat : n = Total(plan, B)
    BY <1>7
  <2>2. already + qty = already + n
    BY <1>1, <1>4, <1>6, <2>1
  <2>3. n = qty
    BY <2>2
  <2> QED BY <2>1, <2>3
<1> QED BY <1>8 DEF plan
===============================================================================
