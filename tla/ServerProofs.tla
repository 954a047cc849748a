----------------------------- MODULE ServerProofs -----------------------------
(***************************************************************************)
(* What the server's row locks keep when requests of the terminals         *)
(* overlap: the batches of a day are numbered without gaps, no edit that   *)
(* counted the superusers takes the last one's access, and an account has  *)
(* one live code that binds once.  For any number of terminals, requests   *)
(* and accounts.                                                           *)
(***************************************************************************)
EXTENDS BatchNumbers, AccountScreen, TelegramCard, FiniteSetTheorems, TLAPS

(***************************************************************************)
(* Batch numbers                                                           *)
(***************************************************************************)
BatchStages == {"coming", "locked", "scanned", "done", "conflict", "failed"}

Submission == [to : {"batch"}, body : Series, st : {"sent"}, live : {TRUE}]

BatchTypeOK ==
    /\ screen = "batches" /\ screen \in Mounted
    /\ wire \in Seq(Submission) /\ Len(wire) <= MaxRequests[screen]
    /\ db \in [at : [Receipts -> BatchStages], suffix : [Receipts -> Nat], lock : [Days -> Nat]]
    /\ \A i \in Receipts : db.at[i] # "coming" => i \in 1..Len(wire)

\* Who is between its lock and its commit holds the lock of its day.
HoldsItsDay ==
    \A i \in Receipts : db.at[i] \in {"locked", "scanned"} => db.lock[Day(i)] = i

\* What a receipt has scanned is still the highest number of its series.
ScanIsCurrent ==
    \A i \in Receipts : db.at[i] = "scanned" => db.suffix[i] = NextSuffix(Suffixes(wire[i].body))

NoGaps == \A s \in Series : \E k \in Nat : Suffixes(s) = 1..k

NoConflict == \A i \in Receipts : db.at[i] # "conflict"

BatchInv == BatchTypeOK /\ HoldsItsDay /\ ScanIsCurrent /\ NoGaps /\ NoConflict
-----------------------------------------------------------------------------
(* After 1..k comes k + 1.                                                  *)
LEMMA NextOfInterval == ASSUME NEW k \in Nat PROVE NextSuffix(1..k) = k + 1
<1> DEFINE P(m) == m \in (1..k) \cup {0} /\ \A n \in (1..k) \cup {0} : n <= m
<1>1. P(k)
  OBVIOUS
<1>2. \A m : P(m) => m = k
  OBVIOUS
<1>3. (CHOOSE m \in (1..k) \cup {0} : \A n \in (1..k) \cup {0} : n <= m) = k
  BY <1>1, <1>2
<1> QED  BY <1>3 DEF NextSuffix

(* Every request on this page is a submission that is still out.            *)
LEMMA AllAreSent == ASSUME BatchTypeOK
                    PROVE /\ Sent("batch") = 1..Len(wire)
                          /\ At("batch", "sent") = 1..Len(wire)
                          /\ 1..Len(wire) \subseteq Receipts
                          /\ \A i \in 1..Len(wire) : wire[i].body \in Series /\ Day(i) \in Days
<1>1. \A i \in 1..Len(wire) : wire[i] \in Submission
  BY DEF BatchTypeOK
<1>2. \A i \in 1..Len(wire) : wire[i].to = "batch" /\ wire[i].st = "sent" /\ wire[i].body \in Series
  BY <1>1 DEF Submission
<1>3. MaxRequests[screen] \in Nat
  BY TabAssumption DEF BatchTypeOK, Mounted
<1> QED  BY <1>2, <1>3 DEF Sent, At, BatchTypeOK, Receipts, Day, Series

(* The numbers taken in a series, request by request.                       *)
LEMMA SuffixesAre == ASSUME BatchTypeOK, NEW s
                     PROVE Suffixes(s) = {db.suffix[i] : i \in {j \in 1..Len(wire) :
                                              db.at[j] = "done" /\ wire[j].body = s}}
BY AllAreSent DEF Suffixes, Committed

LEMMA BatchInit_Inv == BatchInit => BatchInv
<1> SUFFICES ASSUME BatchInit PROVE BatchInv
  OBVIOUS
<1>1. BatchTypeOK
  BY TabAssumption DEF BatchInit, BatchTypeOK, Receipts, BatchStages, Mounted
<1>2. \A s \in Series : Suffixes(s) = 1..0
  BY <1>1, SuffixesAre DEF BatchInit
<1> QED  BY <1>1, <1>2 DEF BatchInv, HoldsItsDay, ScanIsCurrent, NoGaps, NoConflict, BatchInit
-----------------------------------------------------------------------------
(* A step after which the same receipts are committed under the same        *)
(* numbers leaves the numbers taken as they are.                            *)
LEMMA SuffixesKept == ASSUME BatchTypeOK, BatchTypeOK',
                             Len(wire) <= Len(wire'),
                             \A j \in 1..Len(wire) : wire'[j] = wire[j],
                             \A j \in 1..Len(wire') : db'.at[j] = "done" <=> j \in 1..Len(wire) /\ db.at[j] = "done",
                             \A j \in 1..Len(wire) : db.at[j] = "done" => db'.suffix[j] = db.suffix[j],
                             NEW s
                      PROVE Suffixes(s)' = Suffixes(s)
<1>1. \A i \in 1..Len(wire') : wire'[i] \in Submission
  BY DEF BatchTypeOK
<1>2. \A i \in 1..Len(wire') : wire'[i].to = "batch" /\ wire'[i].st = "sent"
  BY <1>1 DEF Submission
<1>3. Suffixes(s)' = {db'.suffix[i] : i \in {j \in 1..Len(wire') : db'.at[j] = "done" /\ wire'[j].body = s}}
  BY <1>2 DEF Suffixes, Committed, Sent, At
<1>4. {j \in 1..Len(wire') : db'.at[j] = "done" /\ wire'[j].body = s}
        = {j \in 1..Len(wire) : db.at[j] = "done" /\ wire[j].body = s}
  BY DEF BatchTypeOK
<1> QED  BY <1>3, <1>4, SuffixesAre

LEMMA SubmitBatch_Inv == ASSUME BatchInv, NEW day \in Days, NEW adj \in BOOLEAN, SubmitBatch(day, adj)
                         PROVE BatchInv'
<1> DEFINE new == [to |-> "batch", body |-> <<day, adj>>, st |-> "sent", live |-> TRUE]
<1>1. wire' = Append(wire, new) /\ Len(wire) < MaxRequests[screen] /\ UNCHANGED <<screen, db>>
  BY DEF SubmitBatch, Send, SendAs
<1>2. new \in Submission
  BY DEF Submission, Series
<1>3. MaxRequests[screen] \in Nat
  BY TabAssumption DEF BatchInv, BatchTypeOK, Mounted
<1>4. /\ Len(wire') = Len(wire) + 1 /\ wire' \in Seq(Submission)
      /\ \A i \in 1..Len(wire) : wire'[i] = wire[i]
  BY <1>1, <1>2 DEF BatchInv, BatchTypeOK
<1>5. BatchTypeOK'
  BY <1>1, <1>3, <1>4 DEF BatchInv, BatchTypeOK, Receipts, Mounted
<1>6. \A i \in Receipts : db.at[i] # "coming" => wire'[i] = wire[i] /\ i \in 1..Len(wire)
  BY <1>4 DEF BatchInv, BatchTypeOK
<1>7. 1..Len(wire') \subseteq Receipts
  BY <1>1, <1>3, <1>4 DEF Receipts, BatchInv, BatchTypeOK
<1>8. \A s : Suffixes(s)' = Suffixes(s)
  <2> TAKE s
  <2>1. \A j \in 1..Len(wire') : db'.at[j] = "done" <=> j \in 1..Len(wire) /\ db.at[j] = "done"
    BY <1>1, <1>6, <1>7
  <2> QED  BY <1>1, <1>4, <1>5, <2>1, SuffixesKept DEF BatchInv, BatchTypeOK
<1>9. HoldsItsDay' /\ ScanIsCurrent' /\ NoConflict'
  BY <1>1, <1>6, <1>8 DEF BatchInv, HoldsItsDay, ScanIsCurrent, NoConflict, Day, Receipts
<1>10. NoGaps'
  BY <1>8 DEF BatchInv, NoGaps
<1> QED  BY <1>5, <1>9, <1>10 DEF BatchInv

LEMMA LockDay_Inv == ASSUME BatchInv, NEW i \in Sent("batch"), LockDay(i) PROVE BatchInv'
<1>1. i \in Receipts /\ i \in 1..Len(wire) /\ Day(i) \in Days
  BY AllAreSent DEF BatchInv
<1>2. /\ UNCHANGED <<screen, wire>> /\ db.at[i] = "coming" /\ db.lock[Day(i)] = 0
      /\ db' = [db EXCEPT !.at[i] = "locked", !.lock[Day(i)] = i]
  BY DEF LockDay, LockIsFree
<1>3. /\ db'.suffix = db.suffix /\ db'.at[i] = "locked" /\ db'.lock[Day(i)] = i
      /\ \A j \in Receipts : j # i => db'.at[j] = db.at[j]
      /\ \A d \in Days : d # Day(i) => db'.lock[d] = db.lock[d]
  BY <1>1, <1>2 DEF BatchInv, BatchTypeOK
<1>4. BatchTypeOK'
  <2>1. db' \in [at : [Receipts -> BatchStages], suffix : [Receipts -> Nat], lock : [Days -> Nat]]
    <3>1. i \in Nat /\ "locked" \in BatchStages
      BY <1>1 DEF BatchStages
    <3> QED  BY <1>1, <1>2, <3>1 DEF BatchInv, BatchTypeOK
  <2>2. UNCHANGED <<screen, wire>>
    BY <1>2
  <2>3. \A j \in Receipts : db'.at[j] # "coming" => j \in 1..Len(wire)
    BY <1>1, <1>3 DEF BatchInv, BatchTypeOK
  <2> QED  BY <2>1, <2>2, <2>3 DEF BatchInv, BatchTypeOK, Receipts, Mounted
<1>5. \A j \in 1..Len(wire) : j \in Receipts /\ Day(j) \in Days
  BY AllAreSent DEF BatchInv
<1>6. \A s : Suffixes(s)' = Suffixes(s)
  BY <1>1, <1>2, <1>3, <1>4, <1>5, SuffixesKept DEF BatchInv, BatchTypeOK
<1>7. \A j \in Receipts : j # i /\ db.at[j] \in {"locked", "scanned"} => Day(j) # Day(i) /\ Day(j) \in Days
  BY <1>2, <1>5 DEF BatchInv, HoldsItsDay, BatchTypeOK, Receipts
<1>8. HoldsItsDay'
  BY <1>2, <1>3, <1>7 DEF BatchInv, HoldsItsDay, Day, Receipts
<1>9. ScanIsCurrent' /\ NoConflict'
  BY <1>2, <1>3, <1>6 DEF BatchInv, ScanIsCurrent, NoConflict, Receipts
<1>10. NoGaps'
  BY <1>6 DEF BatchInv, NoGaps
<1> QED  BY <1>4, <1>8, <1>9, <1>10 DEF BatchInv

LEMMA ScanSuffixes_Inv == ASSUME BatchInv, NEW i \in Sent("batch"), ScanSuffixes(i) PROVE BatchInv'
<1>1. i \in Receipts /\ i \in 1..Len(wire) /\ Day(i) \in Days /\ wire[i].body \in Series
  BY AllAreSent DEF BatchInv
<1> DEFINE next == NextSuffix(Suffixes(wire[i].body))
<1>2. /\ UNCHANGED <<screen, wire>> /\ db.at[i] = "locked"
      /\ db' = [db EXCEPT !.at[i] = "scanned", !.suffix[i] = next]
  BY DEF ScanSuffixes
<1>3. next \in Nat
  <2>1. PICK k \in Nat : Suffixes(wire[i].body) = 1..k
    BY <1>1 DEF BatchInv, NoGaps
  <2> QED  BY <2>1, NextOfInterval
<1> HIDE DEF next
<1>4. /\ db'.lock = db.lock /\ db'.at[i] = "scanned" /\ db'.suffix[i] = next
      /\ \A j \in Receipts : j # i => db'.at[j] = db.at[j] /\ db'.suffix[j] = db.suffix[j]
  BY <1>1, <1>2 DEF BatchInv, BatchTypeOK
<1>5. BatchTypeOK'
  <2>1. db' \in [at : [Receipts -> BatchStages], suffix : [Receipts -> Nat], lock : [Days -> Nat]]
    BY <1>1, <1>2, <1>3 DEF BatchInv, BatchTypeOK, BatchStages
  <2> QED  BY <2>1, <1>1, <1>2, <1>4 DEF BatchInv, BatchTypeOK, Receipts, Mounted
<1>6. \A j \in 1..Len(wire) : j \in Receipts
  BY AllAreSent DEF BatchInv
<1>7. \A s : Suffixes(s)' = Suffixes(s)
  BY <1>1, <1>2, <1>4, <1>5, <1>6, SuffixesKept DEF BatchInv, BatchTypeOK
<1>8. HoldsItsDay' /\ NoConflict'
  BY <1>2, <1>4 DEF BatchInv, HoldsItsDay, NoConflict, Day, Receipts
<1>9. ScanIsCurrent'
  BY <1>2, <1>4, <1>7 DEF BatchInv, ScanIsCurrent, Receipts, next
<1>10. NoGaps'
  BY <1>7 DEF BatchInv, NoGaps
<1> QED  BY <1>5, <1>8, <1>9, <1>10 DEF BatchInv

(* What Finish leaves of the locks: every other day keeps its holder.       *)
LEMMA FinishIs == ASSUME BatchInv, NEW i \in Sent("batch"), NEW how \in BatchStages \ {"coming"},
                         db.at[i] \in {"locked", "scanned"},
                         db' = Finish(i, how), UNCHANGED <<screen, wire>>
                  PROVE /\ BatchTypeOK'
                        /\ db'.suffix = db.suffix /\ db'.at[i] = how
                        /\ \A j \in Receipts : j # i => db'.at[j] = db.at[j]
                        /\ (how \notin {"locked", "scanned"} => HoldsItsDay')
<1>1. i \in Receipts /\ i \in 1..Len(wire)
  BY AllAreSent DEF BatchInv
<1>2. /\ db'.suffix = db.suffix /\ db'.at[i] = how
      /\ \A j \in Receipts : j # i => db'.at[j] = db.at[j]
      /\ db'.lock = [d \in Days |-> IF db.lock[d] = i THEN 0 ELSE db.lock[d]]
  BY <1>1 DEF BatchInv, BatchTypeOK, Finish
<1>3. db' \in [at : [Receipts -> BatchStages], suffix : [Receipts -> Nat], lock : [Days -> Nat]]
  BY <1>1 DEF BatchInv, BatchTypeOK, Finish
<1>4. BatchTypeOK'
  BY <1>1, <1>2, <1>3 DEF BatchInv, BatchTypeOK, Receipts, Mounted
<1>5. \A j \in Receipts : db.at[j] \in {"locked", "scanned"} => Day(j) \in Days /\ db.lock[Day(j)] = j
  BY AllAreSent DEF BatchInv, BatchTypeOK, HoldsItsDay
<1>6. ASSUME how \notin {"locked", "scanned"}, NEW j \in Receipts, db'.at[j] \in {"locked", "scanned"}
      PROVE db'.lock[Day(j)] = j
  BY <1>2, <1>5, <1>6
<1>7. how \notin {"locked", "scanned"} => HoldsItsDay'
  BY <1>6 DEF HoldsItsDay, Day, Receipts
<1> QED  BY <1>2, <1>4, <1>7

LEMMA CommitBatch_Inv == ASSUME BatchInv, NEW i \in Sent("batch"), CommitBatch(i) PROVE BatchInv'
<1> DEFINE series == wire[i].body
<1>1. i \in Receipts /\ i \in 1..Len(wire) /\ series \in Series
  BY AllAreSent DEF BatchInv
<1>2. PICK k \in Nat : Suffixes(series) = 1..k
  BY <1>1 DEF BatchInv, NoGaps
<1>3. db.at[i] = "scanned" /\ db.suffix[i] = k + 1
  BY <1>1, <1>2, NextOfInterval DEF BatchInv, ScanIsCurrent, CommitBatch
<1>4. db' = Finish(i, "done") /\ UNCHANGED <<screen, wire>>
  BY <1>2, <1>3 DEF CommitBatch
<1>5. /\ BatchTypeOK' /\ HoldsItsDay' /\ db'.suffix = db.suffix /\ db'.at[i] = "done"
      /\ \A j \in Receipts : j # i => db'.at[j] = db.at[j]
  BY <1>3, <1>4, FinishIs DEF BatchStages
<1>6. NoConflict'
  BY <1>4, <1>5 DEF BatchInv, NoConflict, Receipts
<1> DEFINE DoneBefore(s) == {j \in 1..Len(wire) : db.at[j] = "done" /\ wire[j].body = s}
           DoneNow(s) == {j \in 1..Len(wire) : db'.at[j] = "done" /\ wire[j].body = s}
<1>7. \A s : Suffixes(s)' = {db.suffix[j] : j \in DoneNow(s)}
  BY <1>4, <1>5, AllAreSent DEF BatchInv, Suffixes, Committed, Sent, At
<1>8. \A s : Suffixes(s) = {db.suffix[j] : j \in DoneBefore(s)}
  BY SuffixesAre DEF BatchInv
<1>9. \A s : DoneNow(s) = IF s = series THEN DoneBefore(s) \cup {i} ELSE DoneBefore(s)
  BY <1>1, <1>3, <1>5, AllAreSent DEF BatchInv
<1>10. \A s : s = series => Suffixes(s)' = Suffixes(s) \cup {k + 1}
  <2> SUFFICES ASSUME NEW s, s = series PROVE Suffixes(s)' = Suffixes(s) \cup {k + 1}
    OBVIOUS
  <2>1. DoneNow(s) = DoneBefore(s) \cup {i}
    BY <1>9
  <2>2. {db.suffix[j] : j \in DoneNow(s)} = {db.suffix[j] : j \in DoneBefore(s)} \cup {db.suffix[i]}
    BY <2>1
  <2> HIDE DEF DoneBefore, DoneNow
  <2> QED  BY <1>3, <1>7, <1>8, <2>2
<1>11. \A s : s # series => Suffixes(s)' = Suffixes(s)
  BY <1>7, <1>8, <1>9
<1>12. NoGaps'
  <2> SUFFICES ASSUME NEW s \in Series PROVE \E n \in Nat : Suffixes(s)' = 1..n
    BY DEF NoGaps
  <2>1. CASE s = series
    <3>1. 1..(k + 1) = (1..k) \cup {k + 1}
      OBVIOUS
    <3>2. Suffixes(s) = 1..k
      BY <2>1, <1>2
    <3>3. Suffixes(s)' = 1..(k + 1)
      BY <2>1, <3>1, <3>2, <1>10
    <3> QED  BY <3>3
  <2>2. CASE s # series
    BY <2>2, <1>11 DEF BatchInv, NoGaps
  <2> QED  BY <2>1, <2>2
<1>13. ScanIsCurrent'
  <2> SUFFICES ASSUME NEW j \in Receipts, db'.at[j] = "scanned", NEW s, s = wire[j].body
               PROVE db'.suffix[j] = NextSuffix(Suffixes(s)')
    BY <1>4 DEF ScanIsCurrent, Receipts
  <2>1. j # i /\ db.at[j] = "scanned"
    BY <1>5
  <2>2. Day(j) # Day(i)
    BY <1>1, <1>3, <2>1 DEF BatchInv, HoldsItsDay
  <2>3. wire[j].body # series
    BY <2>2 DEF Day
  <2> QED  BY <1>5, <1>11, <2>1, <2>3 DEF BatchInv, ScanIsCurrent
<1> QED  BY <1>5, <1>6, <1>12, <1>13 DEF BatchInv

LEMMA RollBackBatch_Inv == ASSUME BatchInv, NEW i \in Sent("batch"), RollBackBatch(i) PROVE BatchInv'
<1>1. db' = Finish(i, "failed") /\ UNCHANGED <<screen, wire>> /\ db.at[i] \in {"locked", "scanned"}
  BY DEF RollBackBatch
<1>2. /\ BatchTypeOK' /\ HoldsItsDay' /\ db'.suffix = db.suffix /\ db'.at[i] = "failed"
      /\ \A j \in Receipts : j # i => db'.at[j] = db.at[j]
  BY <1>1, FinishIs DEF BatchStages
<1>3. \A j \in 1..Len(wire) : j \in Receipts
  BY AllAreSent DEF BatchInv
<1>4. \A s : Suffixes(s)' = Suffixes(s)
  BY <1>1, <1>2, <1>3, SuffixesKept DEF BatchInv, BatchTypeOK
<1>5. ScanIsCurrent' /\ NoConflict'
  BY <1>1, <1>2, <1>4 DEF BatchInv, ScanIsCurrent, NoConflict, Receipts
<1>6. NoGaps'
  BY <1>4 DEF BatchInv, NoGaps
<1> QED  BY <1>2, <1>5, <1>6 DEF BatchInv

LEMMA BatchNext_Inv == BatchInv /\ [BatchNext]_tabVars => BatchInv'
<1> SUFFICES ASSUME BatchInv, [BatchNext]_tabVars PROVE BatchInv'
  OBVIOUS
<1>1. ASSUME NEW d \in Days, NEW adj \in BOOLEAN, SubmitBatch(d, adj) PROVE BatchInv'
  BY <1>1, SubmitBatch_Inv
<1>2. ASSUME NEW i \in Sent("batch"), LockDay(i) PROVE BatchInv'
  BY <1>2, LockDay_Inv
<1>3. ASSUME NEW i \in Sent("batch"), ScanSuffixes(i) PROVE BatchInv'
  BY <1>3, ScanSuffixes_Inv
<1>4. ASSUME NEW i \in Sent("batch"), CommitBatch(i) PROVE BatchInv'
  BY <1>4, CommitBatch_Inv
<1>5. ASSUME NEW i \in Sent("batch"), RollBackBatch(i) PROVE BatchInv'
  BY <1>5, RollBackBatch_Inv
<1>6. ASSUME UNCHANGED tabVars PROVE BatchInv'
  <2>1. UNCHANGED <<screen, wire, db>>
    BY <1>6 DEF tabVars
  <2>2. \A s : Suffixes(s)' = Suffixes(s)
    BY <2>1 DEF Suffixes, Committed, Sent, At
  <2>3. BatchTypeOK' /\ HoldsItsDay' /\ NoConflict'
    BY <2>1 DEF BatchInv, BatchTypeOK, HoldsItsDay, NoConflict, Receipts, Mounted, Day
  <2>4. ScanIsCurrent' /\ NoGaps'
    BY <2>1, <2>2 DEF BatchInv, ScanIsCurrent, NoGaps, Receipts
  <2> QED  BY <2>3, <2>4 DEF BatchInv
<1> QED  BY <1>1, <1>2, <1>3, <1>4, <1>5, <1>6 DEF BatchNext
-----------------------------------------------------------------------------
(* For any number of receipts on any days: the committed suffixes of a      *)
(* series are 1..k, and the unique constraint never has to refuse one.      *)
THEOREM NumbersAreSequential == BatchSpec => []NumbersRunOn
<1>1. BatchInv => NumbersRunOn
  <2> SUFFICES ASSUME BatchInv PROVE NumbersRunOn
    OBVIOUS
  <2>1. \A i \in Sent("batch") : db.at[i] # "conflict"
    BY AllAreSent DEF BatchInv, NoConflict
  <2>2. ASSUME NEW s \in Series, NEW n \in Suffixes(s) PROVE n = 1 \/ n - 1 \in Suffixes(s)
    BY <2>2 DEF BatchInv, NoGaps
  <2> QED  BY <2>1, <2>2 DEF NumbersRunOn
<1> QED  BY <1>1, BatchInit_Inv, BatchNext_Inv, PTL DEF BatchSpec
-----------------------------------------------------------------------------
(***************************************************************************)
(* Users and the last superuser                                            *)
(***************************************************************************)
EditStages == {"coming", "loaded", "counted", "refused", "failed", "done"}

Loads == [super : BOOLEAN, active : BOOLEAN]

AccountDatabase ==
    [at : [Requests -> EditStages], users : SUBSET Accounts, super : SUBSET Accounts,
     active : SUBSET Accounts, loaded : [Requests -> Loads], row : [Accounts -> Nat]]

Edit == [to : {"edit"}, body : [target : Accounts, super : Changes, active : Changes],
         st : {"sent"}, live : {TRUE}]
Deletion == [to : {"delete"}, body : [target : Accounts], st : {"sent"}, live : {TRUE}]

AccountTypeOK ==
    /\ screen = "accounts" /\ screen \in Mounted
    /\ Len(wire) <= MaxRequests[screen]
    /\ wire \in Seq(Edit \cup Deletion)
    /\ db \in AccountDatabase

\* Rows are held between the count and the commit, by superusers' accounts only.
RowsAreCounted ==
    \A a \in Accounts : db.row[a] # 0 => /\ a \in Admins
                                         /\ db.row[a] \in 1..Len(wire)
                                         /\ db.at[db.row[a]] = "counted"

\* Who has counted keeps two superusers where they are.
TwoAreHeld ==
    \A i \in Requests : db.at[i] = "counted" =>
        \E a, b \in Accounts : a # b /\ db.row[a] = i /\ db.row[b] = i

AccountInv == AccountTypeOK /\ RowsAreCounted /\ TwoAreHeld

\* An edit that has counted and not committed yet goes on holding its rows.
StillCounted == \A i \in Sent("edit") : db.at[i] = "counted" => db'.at[i] = "counted"

\* What the theorem says of a step.
LeavesOne == Admins # {} /\ Admins' = {} => StillCounted
-----------------------------------------------------------------------------
LEMMA EditsAre == ASSUME AccountTypeOK
                  PROVE /\ 1..Len(wire) \subseteq Requests
                        /\ \A i \in 1..Len(wire) : wire[i].body.target \in Accounts
<1>1. MaxRequests[screen] \in Nat
  BY TabAssumption DEF AccountTypeOK, Mounted
<1>2. \A i \in 1..Len(wire) : wire[i] \in Edit \cup Deletion
  BY DEF AccountTypeOK
<1>3. 1..Len(wire) \subseteq Requests
  BY <1>1 DEF AccountTypeOK, Requests
<1>4. \A i \in 1..Len(wire) : wire[i].body.target \in Accounts
  BY <1>2 DEF Edit, Deletion
<1> QED  BY <1>3, <1>4

LEMMA AccountInit_Inv == AccountInit => AccountInv
<1> SUFFICES ASSUME AccountInit PROVE AccountInv
  OBVIOUS
<1>1. PICK super \in SUBSET Accounts, active \in SUBSET Accounts :
          db = [at |-> [i \in Requests |-> "coming"], users |-> Accounts,
                super |-> super, active |-> active,
                loaded |-> [i \in Requests |-> Unloaded], row |-> [a \in Accounts |-> 0]]
  BY DEF AccountInit
<1>2. [i \in Requests |-> Unloaded] \in [Requests -> Loads]
  BY DEF Unloaded, Loads
<1>3. db \in AccountDatabase
  BY <1>1, <1>2 DEF AccountDatabase, EditStages
<1>4. AccountTypeOK
  BY <1>3, TabAssumption DEF AccountInit, AccountTypeOK, Mounted
<1>5. (\A i \in Requests : db.at[i] = "coming") /\ (\A a \in Accounts : db.row[a] = 0)
  BY <1>1
<1> QED  BY <1>4, <1>5 DEF AccountInv, RowsAreCounted, TwoAreHeld

(* A request arrives and loads its target: no row is touched.               *)
LEMMA Request_Inv ==
    ASSUME AccountInv, NEW r \in Edit \cup Deletion, NEW target, Load(target), UNCHANGED screen,
           Len(wire) < MaxRequests[screen], wire' = Append(wire, r)
    PROVE  AccountInv' /\ Admins' = Admins
<1>1. MaxRequests[screen] \in Nat
  BY TabAssumption DEF AccountInv, AccountTypeOK, Mounted
<1>2. Fresh \in Requests /\ Fresh \notin 1..Len(wire) /\ Fresh # 0 /\ db \in AccountDatabase
  BY <1>1 DEF Fresh, Requests, AccountInv, AccountTypeOK
<1>3. PICK row \in Loads : db' = [db EXCEPT !.at[Fresh] = "loaded", !.loaded[Fresh] = row]
  <2> DEFINE row == [super |-> target \in db.super, active |-> target \in db.active]
  <2>1. row \in Loads
    BY DEF Loads
  <2>2. db' = [db EXCEPT !.at[Fresh] = "loaded", !.loaded[Fresh] = row]
    BY DEF Load
  <2> HIDE DEF row
  <2> QED  BY <2>1, <2>2
<1>4. /\ db'.at = [db.at EXCEPT ![Fresh] = "loaded"] /\ db'.row = db.row
      /\ db'.super = db.super /\ db'.active = db.active
  BY <1>2, <1>3 DEF AccountDatabase
<1>5. db' \in AccountDatabase
  BY <1>2, <1>3 DEF AccountDatabase, EditStages
<1>6. AccountDatabase' = AccountDatabase
  BY DEF AccountDatabase, Requests
<1>7. AccountTypeOK' /\ Len(wire') = Len(wire) + 1
  BY <1>1, <1>5, <1>6 DEF AccountInv, AccountTypeOK, Mounted
<1>8. db'.at[Fresh] = "loaded" /\ \A j \in Requests : j # Fresh => db'.at[j] = db.at[j]
  BY <1>2, <1>4 DEF AccountDatabase
<1>9. RowsAreCounted'
  <2> SUFFICES ASSUME NEW a \in Accounts, db'.row[a] # 0
               PROVE a \in Admins' /\ db'.row[a] \in 1..Len(wire') /\ db'.at[db'.row[a]] = "counted"
    BY DEF RowsAreCounted
  <2>1. /\ a \in Admins /\ db.row[a] \in 1..Len(wire) /\ db.row[a] \in Requests
        /\ db.at[db.row[a]] = "counted"
    BY <1>4, EditsAre DEF AccountInv, RowsAreCounted
  <2>2. db'.row[a] \in 1..Len(wire') /\ db'.at[db'.row[a]] = "counted"
    BY <1>2, <1>4, <1>7, <1>8, <2>1 DEF AccountInv, AccountTypeOK
  <2> QED  BY <1>4, <2>1, <2>2 DEF Admins
<1>10. TwoAreHeld'
  BY <1>4, <1>8 DEF AccountInv, TwoAreHeld, Requests
<1> QED  BY <1>4, <1>7, <1>9, <1>10 DEF AccountInv, Admins

(* The end of a request, whatever it does to the accounts: its rows are     *)
(* released, and the rows of the others still are superusers'.              *)
LEMMA Ended_Inv == ASSUME AccountInv, NEW i \in 1..Len(wire), NEW how \in {"refused", "failed", "done"},
                          db' \in AccountDatabase, UNCHANGED <<screen, wire>>,
                          db'.at = [db.at EXCEPT ![i] = how],
                          db'.row = [a \in Accounts |-> IF db.row[a] = i THEN 0 ELSE db.row[a]],
                          \A a \in Accounts : db.row[a] \notin {0, i} => a \in Admins'
                   PROVE AccountInv'
<1>1. i \in Requests /\ i # 0
  BY EditsAre DEF AccountInv
<1>2. AccountTypeOK'
  <2>1. AccountDatabase' = AccountDatabase
    BY DEF AccountDatabase, Requests
  <2> QED  BY <2>1 DEF AccountInv, AccountTypeOK, Mounted
<1>3. db'.at[i] = how /\ \A j \in Requests : j # i => db'.at[j] = db.at[j]
  BY <1>1 DEF AccountInv, AccountTypeOK, AccountDatabase
<1>4. RowsAreCounted'
  <2> SUFFICES ASSUME NEW a \in Accounts, db'.row[a] # 0
               PROVE a \in Admins' /\ db'.row[a] \in 1..Len(wire') /\ db'.at[db'.row[a]] = "counted"
    BY DEF RowsAreCounted
  <2>1. db.row[a] \notin {0, i} /\ db'.row[a] = db.row[a]
    OBVIOUS
  <2>2. db.row[a] \in 1..Len(wire) /\ db.row[a] \in Requests /\ db.at[db.row[a]] = "counted"
    BY <2>1, EditsAre DEF AccountInv, RowsAreCounted
  <2> QED  BY <1>3, <2>1, <2>2
<1>5. TwoAreHeld'
  <2> SUFFICES ASSUME NEW j \in Requests, db'.at[j] = "counted"
               PROVE \E a, b \in Accounts : a # b /\ db'.row[a] = j /\ db'.row[b] = j
    BY DEF TwoAreHeld, Requests
  <2>1. j # i /\ db.at[j] = "counted"
    BY <1>3
  <2>2. PICK a \in Accounts, b \in Accounts : a # b /\ db.row[a] = j /\ db.row[b] = j
    BY <2>1 DEF AccountInv, TwoAreHeld
  <2>3. db'.row[a] = j /\ db'.row[b] = j
    BY <2>1, <2>2
  <2> QED  BY <2>2, <2>3
<1> QED  BY <1>2, <1>4, <1>5 DEF AccountInv

(* What Done makes of a database.                                           *)
LEMMA DoneIs == ASSUME NEW d \in AccountDatabase, NEW i \in Requests, NEW how \in EditStages
                PROVE /\ Done(d, i, how) \in AccountDatabase
                      /\ Done(d, i, how).at = [d.at EXCEPT ![i] = how]
                      /\ Done(d, i, how).super = d.super /\ Done(d, i, how).active = d.active
                      /\ Done(d, i, how).row = [a \in Accounts |-> IF d.row[a] = i THEN 0 ELSE d.row[a]]
<1>1. Unloaded \in Loads
  BY DEF Unloaded, Loads
<1>2. Done(d, i, how) \in AccountDatabase
  BY <1>1 DEF Done, AccountDatabase
<1>3. /\ Done(d, i, how).at = [d.at EXCEPT ![i] = how]
      /\ Done(d, i, how).super = d.super /\ Done(d, i, how).active = d.active
      /\ Done(d, i, how).row = [a \in Accounts |-> IF d.row[a] = i THEN 0 ELSE d.row[a]]
  BY DEF Done, AccountDatabase
<1> QED  BY <1>2, <1>3

(* A request that ends without having counted leaves the others' counts.    *)
LEMMA OthersCount == ASSUME AccountInv, NEW i \in Requests, NEW how,
                            db.at[i] # "counted", db'.at = [db.at EXCEPT ![i] = how]
                     PROVE  StillCounted
<1>1. \A j \in Requests : j # i => db'.at[j] = db.at[j]
  BY DEF AccountInv, AccountTypeOK, AccountDatabase
<1>2. Sent("edit") \subseteq Requests
  BY EditsAre DEF AccountInv, Sent
<1> QED  BY <1>1, <1>2 DEF StillCounted

LEMMA CountSuperusers_Inv == ASSUME AccountInv, NEW i \in Sent("edit"), CountSuperusers(i)
                             PROVE AccountInv' /\ Admins' = Admins
<1>1. /\ i \in Requests /\ i \in 1..Len(wire) /\ i # 0 /\ db \in AccountDatabase
      /\ db.at[i] = "loaded" /\ UNCHANGED <<screen, wire>>
  BY EditsAre DEF AccountInv, AccountTypeOK, CountSuperusers, Sent
<1>2. \A a \in Accounts : db.row[a] # i
  BY <1>1 DEF AccountInv, RowsAreCounted
<1>3. \A a \in Accounts : db.row[a] = 0
  BY <1>1, <1>2 DEF AccountInv, RowsAreCounted, CountSuperusers, HeldByOthers, CountedRows
<1>4. CASE Cardinality(Admins) <= 1
  <2>1. db' = Done(db, i, "refused")
    BY <1>4 DEF CountSuperusers
  <2>2. /\ db' \in AccountDatabase /\ db'.at = [db.at EXCEPT ![i] = "refused"]
        /\ db'.super = db.super /\ db'.active = db.active
        /\ db'.row = [a \in Accounts |-> IF db.row[a] = i THEN 0 ELSE db.row[a]]
    BY <1>1, <2>1, DoneIs DEF EditStages
  <2>3. Admins' = Admins
    BY <2>2 DEF Admins
  <2>4. AccountInv'
    BY <1>1, <1>3, <2>2, Ended_Inv
  <2> QED  BY <2>3, <2>4
<1>5. CASE ~(Cardinality(Admins) <= 1)
  <2> DEFINE row == [a \in Accounts |-> IF a \in Admins THEN i ELSE db.row[a]]
  <2>1. db' = [db EXCEPT !.at[i] = "counted", !.row = row]
    BY <1>5 DEF CountSuperusers, CountedRows
  <2>2. row \in [Accounts -> Nat]
    BY <1>1 DEF AccountDatabase
  <2> HIDE DEF row
  <2>3. /\ db'.at = [db.at EXCEPT ![i] = "counted"] /\ db'.row = row
        /\ db'.super = db.super /\ db'.active = db.active
        /\ db' \in AccountDatabase
    BY <1>1, <2>1, <2>2 DEF AccountDatabase, EditStages
  <2>4. db'.at[i] = "counted" /\ \A j \in Requests : j # i => db'.at[j] = db.at[j]
    BY <1>1, <2>3 DEF AccountDatabase
  <2>5. AccountDatabase' = AccountDatabase
    BY <1>1 DEF AccountDatabase, Requests
  <2>6. AccountTypeOK'
    BY <1>1, <2>3, <2>5 DEF AccountInv, AccountTypeOK, Mounted
  <2>7. \A a \in Accounts : db'.row[a] = IF a \in Admins THEN i ELSE 0
    BY <1>3, <2>3 DEF row
  <2>8. Admins' = Admins
    BY <2>3 DEF Admins
  <2>9. RowsAreCounted'
    BY <1>1, <2>4, <2>7, <2>8 DEF RowsAreCounted
  <2>10. Admins \subseteq Accounts
    BY <1>1 DEF AccountDatabase, Admins
  <2>11. \E a, b \in Admins : a # b
    <3>1. IsFiniteSet(Admins)
      BY <2>10, AccountAssumption, FS_Subset
    <3>2. Cardinality(Admins) \in Nat
      BY <3>1, FS_CardinalityType
    <3>3. Admins # {}
      BY <1>5, FS_EmptySet
    <3>4. PICK a \in Admins : TRUE
      BY <3>3
    <3>5. Cardinality({a}) = 1
      BY FS_Singleton
    <3>6. Admins # {a}
      BY <1>5, <3>5
    <3> QED  BY <3>4, <3>6
  <2>12. \A j \in Requests : j # i => db.at[j] # "counted"
    BY <1>3 DEF AccountInv, TwoAreHeld, Requests
  <2>13. TwoAreHeld'
    <3> SUFFICES ASSUME NEW j \in Requests, db'.at[j] = "counted"
                 PROVE \E a, b \in Accounts : a # b /\ db'.row[a] = j /\ db'.row[b] = j
      BY <1>1 DEF TwoAreHeld, Requests
    <3>1. j = i
      BY <2>4, <2>12
    <3> QED  BY <2>7, <2>10, <2>11, <3>1
  <2> QED  BY <2>6, <2>8, <2>9, <2>13 DEF AccountInv
<1> QED  BY <1>4, <1>5

(* A row a request may write is held by nobody else.                        *)
LEMMA Writable == ASSUME AccountInv, NEW i \in Requests, NEW t \in Accounts, ~HeldByOthers(i, {t})
                  PROVE \A a \in Accounts : db.row[a] \notin {0, i} => a \in Admins \ {t}
BY DEF HeldByOthers, AccountInv, RowsAreCounted

(* Columns are what they were, but for the target.                          *)
LEMMA ColumnIs ==
    ASSUME NEW t \in Accounts, NEW column \in SUBSET Accounts, NEW change, NEW was,
           NEW next, next = Column(column, change, was, t)
    PROVE  /\ next \in SUBSET Accounts /\ column \ {t} \subseteq next
           /\ ~Differs(change, was) => next = column
BY DEF Column

LEMMA CommitEdit_Inv == ASSUME AccountInv, NEW i \in Sent("edit"), CommitEdit(i)
                        PROVE AccountInv' /\ LeavesOne
<1> DEFINE t == wire[i].body.target
<1>1. /\ i \in Requests /\ i \in 1..Len(wire) /\ i # 0 /\ db \in AccountDatabase /\ t \in Accounts
      /\ db.at[i] \in {"loaded", "counted"} /\ UNCHANGED <<screen, wire>>
  BY EditsAre DEF AccountInv, AccountTypeOK, CommitEdit, Sent
<1> HIDE DEF t
<1>2. CASE t \notin db.users
  <2>1. db' = Done(db, i, "failed")
    BY <1>2 DEF CommitEdit, t
  <2>2. /\ db' \in AccountDatabase /\ db'.at = [db.at EXCEPT ![i] = "failed"]
        /\ db'.super = db.super /\ db'.active = db.active
        /\ db'.row = [a \in Accounts |-> IF db.row[a] = i THEN 0 ELSE db.row[a]]
    BY <1>1, <2>1, DoneIs DEF EditStages
  <2>3. Admins' = Admins
    BY <2>2 DEF Admins
  <2>4. \A a \in Accounts : db.row[a] \notin {0, i} => a \in Admins'
    BY <2>3 DEF AccountInv, RowsAreCounted
  <2> QED  BY <1>1, <2>2, <2>3, <2>4, Ended_Inv DEF LeavesOne
<1>3. CASE t \in db.users
  <2>1. PICK s, a, sw, aw :
           /\ s = wire[i].body.super /\ sw = db.loaded[i].super
           /\ a = wire[i].body.active /\ aw = db.loaded[i].active
    OBVIOUS
  <2>2. PICK super, active : /\ super = Column(db.super, s, sw, t)
                             /\ active = Column(db.active, a, aw, t)
    OBVIOUS
  <2>3. PICK d : d = [db EXCEPT !.super = super, !.active = active]
    OBVIOUS
  <2>4. db' = Done(d, i, "done")
    BY <1>3, <2>1, <2>2, <2>3 DEF CommitEdit, t
  <2>5. /\ super \in SUBSET Accounts /\ db.super \ {t} \subseteq super
        /\ ~Differs(s, sw) => super = db.super
    BY <1>1, <2>2, ColumnIs DEF AccountDatabase
  <2>6. /\ active \in SUBSET Accounts /\ db.active \ {t} \subseteq active
        /\ ~Differs(a, aw) => active = db.active
    BY <1>1, <2>2, ColumnIs DEF AccountDatabase
  <2>7. d \in AccountDatabase /\ d.at = db.at /\ d.row = db.row /\ d.super = super /\ d.active = active
    BY <1>1, <2>3, <2>5, <2>6 DEF AccountDatabase
  <2>8. /\ db' \in AccountDatabase /\ db'.at = [db.at EXCEPT ![i] = "done"]
        /\ db'.super = super /\ db'.active = active
        /\ db'.row = [b \in Accounts |-> IF db.row[b] = i THEN 0 ELSE db.row[b]]
    <3>1. /\ Done(d, i, "done") \in AccountDatabase /\ Done(d, i, "done").at = [d.at EXCEPT ![i] = "done"]
          /\ Done(d, i, "done").super = d.super /\ Done(d, i, "done").active = d.active
          /\ Done(d, i, "done").row = [c \in Accounts |-> IF d.row[c] = i THEN 0 ELSE d.row[c]]
      BY <1>1, <2>7, DoneIs DEF EditStages
    <3> QED  BY <2>4, <2>7, <3>1
  <2>9. Admins \ {t} \subseteq Admins'
    BY <2>5, <2>6, <2>8 DEF Admins
  <2>10. \A b \in Accounts : db.row[b] \notin {0, i} => b \in Admins'
    <3>1. CASE Differs(s, sw) \/ Differs(a, aw)
      <4>1. ~HeldByOthers(i, {t})
        BY <2>1, <3>1 DEF CommitEdit, t
      <4> QED  BY <1>1, <2>9, <4>1, Writable
    <3>2. CASE ~(Differs(s, sw) \/ Differs(a, aw))
      <4>1. Admins' = Admins
        BY <2>5, <2>6, <2>8, <3>2 DEF Admins
      <4> QED  BY <4>1 DEF AccountInv, RowsAreCounted
    <3> QED  BY <3>1, <3>2
  <2>11. AccountInv'
    BY <1>1, <2>8, <2>10, Ended_Inv
  <2>12. CASE db.at[i] = "counted"
    <3>1. PICK b \in Accounts, c \in Accounts : b # c /\ db.row[b] = i /\ db.row[c] = i
      BY <1>1, <2>12 DEF AccountInv, TwoAreHeld
    <3>2. b \in Admins /\ c \in Admins
      BY <1>1, <3>1 DEF AccountInv, RowsAreCounted
    <3>3. Admins' # {}
      BY <2>9, <3>1, <3>2
    <3> QED  BY <2>11, <3>3 DEF LeavesOne
  <2>13. CASE db.at[i] # "counted"
    BY <1>1, <2>8, <2>11, <2>13, OthersCount DEF LeavesOne
  <2> QED  BY <2>12, <2>13
<1> QED  BY <1>2, <1>3

LEMMA CommitDelete_Inv == ASSUME AccountInv, NEW i \in Sent("delete"), CommitDelete(i)
                          PROVE AccountInv' /\ StillCounted
<1> DEFINE t == wire[i].body.target
<1>1. /\ i \in Requests /\ i \in 1..Len(wire) /\ db \in AccountDatabase /\ t \in Accounts
      /\ db.at[i] = "loaded" /\ UNCHANGED <<screen, wire>>
  BY EditsAre DEF AccountInv, AccountTypeOK, CommitDelete, Sent
<1>2. \A a \in Accounts : db.row[a] \notin {0, i} => a \in Admins \ {t}
  BY <1>1, Writable DEF CommitDelete
<1>3. CASE t \notin db.users
  <2>1. db' = Done(db, i, "failed")
    BY <1>3 DEF CommitDelete
  <2>2. /\ db' \in AccountDatabase /\ db'.at = [db.at EXCEPT ![i] = "failed"]
        /\ db'.super = db.super /\ db'.active = db.active
        /\ db'.row = [a \in Accounts |-> IF db.row[a] = i THEN 0 ELSE db.row[a]]
    BY <1>1, <2>1, DoneIs DEF EditStages
  <2>3. Admins' = Admins
    BY <2>2 DEF Admins
  <2> QED  BY <1>1, <1>2, <2>2, <2>3, Ended_Inv, OthersCount
<1>4. CASE t \in db.users
  <2> DEFINE d == [db EXCEPT !.users = @ \ {t}, !.super = @ \ {t}, !.active = @ \ {t}]
  <2>1. db' = Done(d, i, "done")
    BY <1>4 DEF CommitDelete
  <2>2. /\ d \in AccountDatabase /\ d.at = db.at /\ d.row = db.row
        /\ d.super = db.super \ {t} /\ d.active = db.active \ {t}
    BY <1>1 DEF AccountDatabase
  <2> HIDE DEF d
  <2>3. /\ db' \in AccountDatabase /\ db'.at = [db.at EXCEPT ![i] = "done"]
        /\ db'.super = db.super \ {t} /\ db'.active = db.active \ {t}
        /\ db'.row = [a \in Accounts |-> IF db.row[a] = i THEN 0 ELSE db.row[a]]
    <3>1. /\ Done(d, i, "done") \in AccountDatabase /\ Done(d, i, "done").at = [d.at EXCEPT ![i] = "done"]
          /\ Done(d, i, "done").super = d.super /\ Done(d, i, "done").active = d.active
          /\ Done(d, i, "done").row = [c \in Accounts |-> IF d.row[c] = i THEN 0 ELSE d.row[c]]
      BY <1>1, <2>2, DoneIs DEF EditStages
    <3> QED  BY <2>1, <2>2, <3>1
  <2>4. Admins' = Admins \ {t}
    BY <2>3 DEF Admins
  <2> QED  BY <1>1, <1>2, <2>3, <2>4, Ended_Inv, OthersCount
<1> QED  BY <1>3, <1>4

LEMMA AccountNext_Inv == AccountInv /\ [AccountNext]_tabVars => AccountInv' /\ LeavesOne
<1> SUFFICES ASSUME AccountInv, [AccountNext]_tabVars PROVE AccountInv' /\ LeavesOne
  OBVIOUS
<1>1. ASSUME NEW t \in Accounts, NEW s \in Changes, NEW a \in Changes, SaveUser(t, s, a)
      PROVE AccountInv' /\ Admins' = Admins
  <2> DEFINE r == [to |-> "edit", body |-> [target |-> t, super |-> s, active |-> a],
                   st |-> "sent", live |-> TRUE]
  <2>1. r \in Edit
    BY DEF Edit
  <2>2. /\ wire' = Append(wire, r) /\ Len(wire) < MaxRequests[screen] /\ UNCHANGED screen
        /\ Load(t)
    BY <1>1 DEF SaveUser, Send, SendAs
  <2> HIDE DEF r
  <2> QED  BY <2>1, <2>2, Request_Inv
<1>2. ASSUME NEW t \in Accounts, DeleteUser(t) PROVE AccountInv' /\ Admins' = Admins
  <2> DEFINE r == [to |-> "delete", body |-> [target |-> t], st |-> "sent", live |-> TRUE]
  <2>1. r \in Deletion
    BY DEF Deletion
  <2>2. /\ wire' = Append(wire, r) /\ Len(wire) < MaxRequests[screen] /\ UNCHANGED screen
        /\ Load(t)
    BY <1>2 DEF DeleteUser, Send, SendAs
  <2> HIDE DEF r
  <2> QED  BY <2>1, <2>2, Request_Inv
<1>3. ASSUME UNCHANGED tabVars PROVE AccountInv' /\ Admins' = Admins
  BY <1>3 DEF tabVars, AccountInv, AccountTypeOK, RowsAreCounted, TwoAreHeld, AccountDatabase,
              Requests, Mounted, Admins
<1> QED  BY <1>1, <1>2, <1>3, CountSuperusers_Inv, CommitEdit_Inv, CommitDelete_Inv
         DEF AccountNext, LeavesOne
-----------------------------------------------------------------------------
(* For any number of administrators and accounts: an edit that counted the  *)
(* superusers never takes the last one's access.                            *)
THEOREM CountedEditsKeepASuperuser == AccountSpec => CountedEditsLeaveOne
<1>1. AccountInv /\ [AccountNext]_tabVars =>
          [OnAccounts /\ Admins # {} /\ Admins' = {} =>
              \A i \in Sent("edit") : db.at[i] = "counted" => db'.at[i] = "counted"]_tabVars
  BY AccountNext_Inv DEF LeavesOne, StillCounted
<1>2. AccountSpec => []AccountInv
  BY AccountInit_Inv, AccountNext_Inv, PTL DEF AccountSpec
<1> QED  BY <1>1, <1>2, PTL DEF AccountSpec, CountedEditsLeaveOne
-----------------------------------------------------------------------------
(***************************************************************************)
(* The Telegram card                                                       *)
(***************************************************************************)
CardStages == {"coming", "holds", "done", "failed", "pending", "refused", "linked", "connected"}

CardRequest == [to : {"connect", "confirm", "disconnect"}, body : Nat,
            st : {"sent", "over", "lost"}, live : {TRUE}]

CardForm == [code : Nat, shown : BOOLEAN,
             notice : {"none", "connected", "linked", "limit", "timeout"},
             connect : Nat, confirm : Nat, disconnect : Nat]

CardDatabase == [at : [Attempts -> CardStages], codes : SUBSET Attempts, spent : SUBSET Attempts,
             started : SUBSET Attempts, bound : BOOLEAN, elsewhere : BOOLEAN,
             seen : [Attempts -> SUBSET Attempts], userRow : Nat, codeRow : [Attempts -> Nat]]

WireOK ==
    /\ screen = "telegram" /\ screen \in Mounted
    /\ wire \in Seq(CardRequest) /\ Len(wire) <= MaxRequests[screen]
    /\ \A i \in Sent("confirm") : wire[i].body \in Attempts

\* The code on the card and the poll it waits for are requests it made.
FormIn(f, made) == f \in CardForm /\ f.code \in 0..made /\ f.confirm \in 0..made

FormOK == FormIn(form, Len(wire))

DatabaseOK ==
    /\ db \in CardDatabase
    /\ \A i \in Attempts : db.at[i] # "coming" => i \in 1..Len(wire)

\* Who mints holds the user's row and knows every code there is.
MintsAlone ==
    \A i \in Sent("connect") : db.at[i] = "holds" => db.userRow = i /\ db.codes = db.seen[i]

\* Who confirms holds the code's row, and nobody has spent the code.
HoldsItsCode ==
    \A i \in Sent("confirm") : db.at[i] = "holds" =>
        db.codeRow[wire[i].body] = i /\ wire[i].body \notin db.spent

ConnectedIsSpent ==
    \A i \in Sent("confirm") : db.at[i] = "connected" => wire[i].body \in db.spent

OneCode == \A a, b \in db.codes : a = b

SpentOnce ==
    \A i, j \in Sent("confirm") :
        db.at[i] = "connected" /\ db.at[j] = "connected" /\ i # j => wire[i].body # wire[j].body

CodesInv == MintsAlone /\ HoldsItsCode /\ ConnectedIsSpent /\ OneCode /\ SpentOnce

CardInv == WireOK /\ FormOK /\ DatabaseOK /\ CodesInv
-----------------------------------------------------------------------------
LEMMA AttemptsAre == ASSUME WireOK
                     PROVE 1..Len(wire) \subseteq Attempts /\ MaxRequests[screen] \in Nat
<1>1. MaxRequests[screen] \in Nat
  BY TabAssumption DEF WireOK, Mounted
<1> QED  BY <1>1 DEF WireOK, Attempts

LEMMA CardInit_Inv == TelegramInit => CardInv
<1> SUFFICES ASSUME TelegramInit PROVE CardInv
  OBVIOUS
<1>1. WireOK
  BY TabAssumption DEF TelegramInit, WireOK, Sent, Mounted
<1>2. FormOK
  BY DEF TelegramInit, TelegramForm, FormOK, FormIn, CardForm
<1>3. DatabaseOK
  BY DEF TelegramInit, DatabaseOK, CardDatabase, CardStages
<1>4. CodesInv
  BY DEF TelegramInit, CodesInv, MintsAlone, HoldsItsCode, ConnectedIsSpent, OneCode, SpentOnce, Sent
<1> QED  BY <1>1, <1>2, <1>3, <1>4 DEF CardInv

(* The tab sends one more request; the server has not heard of it.          *)
LEMMA Sending == ASSUME CardInv, NEW to \in {"connect", "confirm", "disconnect"}, NEW body \in Nat,
                        to = "confirm" => body \in 1..Len(wire),
                        Send(to, body), UNCHANGED <<screen, db>>
                 PROVE WireOK' /\ DatabaseOK' /\ CodesInv' /\ Len(wire') = Len(wire) + 1
<1> DEFINE new == [to |-> to, body |-> body, st |-> "sent", live |-> TRUE]
<1>1. wire' = Append(wire, new) /\ Len(wire) < MaxRequests[screen]
  BY DEF Send, SendAs
<1>2. new \in CardRequest
  BY DEF CardRequest
<1> DEFINE n == Len(wire) + 1
<1>3. /\ wire' \in Seq(CardRequest) /\ Len(wire') = n /\ n \in Nat /\ Len(wire) \in Nat
      /\ \A i \in 1..Len(wire) : wire'[i] = wire[i]
      /\ wire'[n].to = to /\ wire'[n].body = body
  BY <1>1, <1>2 DEF CardInv, WireOK
<1> HIDE DEF new
<1>4. \A kind : \A i \in Sent(kind)' : i \in Sent(kind) \/ (i = n /\ kind = to)
  BY <1>3 DEF Sent
<1>5. n \in Attempts /\ Attempts' = Attempts /\ 1..Len(wire) \subseteq Attempts
  BY <1>1, <1>3, AttemptsAre DEF Attempts, CardInv
<1>6. WireOK'
  <2>1. \A i \in Sent("confirm")' : wire'[i].body \in Attempts'
    BY <1>3, <1>4, <1>5 DEF CardInv, WireOK, Sent
  <2>2. MaxRequests[screen] \in Nat
    BY AttemptsAre DEF CardInv
  <2>3. Len(wire') <= MaxRequests[screen] /\ UNCHANGED screen
    BY <1>1, <1>3, <2>2
  <2> QED  BY <1>3, <2>1, <2>3 DEF CardInv, WireOK, Mounted
<1>7. DatabaseOK'
  <2>1. CardDatabase' = CardDatabase
    BY <1>5 DEF CardDatabase
  <2> QED  BY <1>3, <1>5, <2>1 DEF CardInv, DatabaseOK
<1>8. db.at[n] = "coming"
  BY <1>3, <1>5 DEF CardInv, DatabaseOK
<1>9. \A kind : \A i \in Sent(kind)' : db.at[i] # "coming" => i \in Sent(kind) /\ wire'[i] = wire[i]
  BY <1>3, <1>4, <1>8 DEF Sent
<1>10. CodesInv'
  BY <1>9 DEF CardInv, CodesInv, MintsAlone, HoldsItsCode, ConnectedIsSpent, OneCode, SpentOnce
<1> QED  BY <1>3, <1>6, <1>7, <1>10

(* A request is settled: it stays the request it was.                       *)
LEMMA Settling == ASSUME CardInv, NEW i \in 1..Len(wire), NEW st \in {"over", "lost"},
                         Settle(i, st), UNCHANGED screen
                  PROVE /\ WireOK' /\ Len(wire') = Len(wire)
                        /\ \A j \in 1..Len(wire) : wire'[j].to = wire[j].to /\ wire'[j].body = wire[j].body
<1>1. wire' = [wire EXCEPT ![i] = [wire[i] EXCEPT !.st = st]]
  BY DEF Settle
<1>2. \A j \in 1..Len(wire) : wire[j] \in CardRequest
  BY DEF CardInv, WireOK
<1>3. [wire[i] EXCEPT !.st = st] \in CardRequest
  BY <1>2 DEF CardRequest
<1>4. wire' \in Seq(CardRequest) /\ Len(wire') = Len(wire)
  BY <1>1, <1>3 DEF CardInv, WireOK
<1>5. \A j \in 1..Len(wire) : wire'[j].to = wire[j].to /\ wire'[j].body = wire[j].body
  BY <1>1, <1>2 DEF CardInv, WireOK, CardRequest
<1>6. WireOK'
  BY <1>4, <1>5 DEF CardInv, WireOK, Attempts, Mounted, Sent
<1> QED  BY <1>4, <1>5, <1>6

(* The server goes on with its requests; what holds or is connected         *)
(* afterwards was so before, with the same locks.                           *)
LEMMA Serving == ASSUME CardInv, WireOK', db' \in CardDatabase, UNCHANGED screen,
                        Len(wire') = Len(wire),
                        \A i \in 1..Len(wire) : wire'[i].to = wire[i].to /\ wire'[i].body = wire[i].body,
                        db'.codes = db.codes, db'.spent = db.spent, db'.seen = db.seen,
                        \A i \in Attempts : db'.at[i] # db.at[i] =>
                            i \in 1..Len(wire) /\ db'.at[i] \notin {"holds", "connected"},
                        \A i \in Sent("connect") : db'.at[i] = "holds" => db'.userRow = db.userRow,
                        \A i \in Sent("confirm") : db'.at[i] = "holds" =>
                            db'.codeRow[wire[i].body] = db.codeRow[wire[i].body]
                 PROVE DatabaseOK' /\ CodesInv'
<1>1. Attempts' = Attempts /\ CardDatabase' = CardDatabase
  BY DEF Attempts, CardDatabase
<1>2. \A kind : Sent(kind)' = Sent(kind) /\ \A i \in Sent(kind) : wire'[i].body = wire[i].body
  BY DEF Sent
<1>3. DatabaseOK'
  BY <1>1 DEF CardInv, DatabaseOK
<1>4. \A kind : \A i \in Sent(kind) : db'.at[i] \in {"holds", "connected"} => db.at[i] = db'.at[i]
  BY AttemptsAre DEF CardInv, Sent
<1>5. MintsAlone' /\ OneCode'
  BY <1>2, <1>4 DEF CardInv, CodesInv, MintsAlone, OneCode
<1>6. HoldsItsCode'
  BY <1>2, <1>4 DEF CardInv, CodesInv, HoldsItsCode
<1>7. ConnectedIsSpent'
  BY <1>2, <1>4 DEF CardInv, CodesInv, ConnectedIsSpent
<1>8. SpentOnce'
  <2> SUFFICES ASSUME NEW j \in Sent("confirm"), NEW k \in Sent("confirm"), j # k,
                      db'.at[j] = "connected", db'.at[k] = "connected"
               PROVE wire[j].body # wire[k].body
    BY <1>2 DEF SpentOnce
  <2> QED  BY <1>4 DEF CardInv, CodesInv, SpentOnce
<1> QED  BY <1>3, <1>5, <1>6, <1>7, <1>8 DEF CodesInv

LEMMA LockUser_Inv == ASSUME CardInv, NEW i \in Sent("connect"), LockUser(i) PROVE CardInv'
<1>1. /\ i \in Attempts /\ i \in 1..Len(wire) /\ i \in Nat /\ db \in CardDatabase /\ db.at[i] = "coming"
      /\ db.userRow = 0 /\ UNCHANGED <<screen, form, wire>>
  BY AttemptsAre DEF CardInv, DatabaseOK, LockUser, UserRowFree, Sent
<1>2. db' = [db EXCEPT !.at[i] = "holds", !.userRow = i, !.seen[i] = db.codes]
  BY DEF LockUser
<1>3. /\ db' \in CardDatabase /\ db'.codes = db.codes /\ db'.spent = db.spent /\ db'.userRow = i
      /\ db'.codeRow = db.codeRow /\ db'.at = [db.at EXCEPT ![i] = "holds"]
      /\ db'.seen = [db.seen EXCEPT ![i] = db.codes]
  <2>1. "holds" \in CardStages
    BY DEF CardStages
  <2> QED  BY <1>1, <1>2, <2>1 DEF CardDatabase
<1>4. /\ db'.at[i] = "holds" /\ db'.seen[i] = db.codes
      /\ \A j \in Attempts : j # i => db'.at[j] = db.at[j] /\ db'.seen[j] = db.seen[j]
  BY <1>1, <1>3 DEF CardDatabase
<1>5. Attempts' = Attempts /\ CardDatabase' = CardDatabase /\ \A kind : Sent(kind)' = Sent(kind)
  BY <1>1 DEF Attempts, CardDatabase, Sent
<1>6. WireOK' /\ FormOK' /\ DatabaseOK'
  BY <1>1, <1>3, <1>4, <1>5 DEF CardInv, WireOK, FormOK, DatabaseOK, Mounted
<1>7. i \notin Sent("confirm") /\ \A kind : \A j \in Sent(kind) : j \in Attempts
  BY AttemptsAre DEF Sent, CardInv
<1>8. MintsAlone' /\ OneCode'
  <2>1. \A j \in Sent("connect") : db.at[j] # "holds"
    BY <1>1 DEF CardInv, CodesInv, MintsAlone, Sent
  <2> QED  BY <1>3, <1>4, <1>5, <1>7, <2>1 DEF CardInv, CodesInv, MintsAlone, OneCode
<1>9. \A j \in Sent("confirm") : db'.at[j] = db.at[j]
  BY <1>4, <1>7
<1>10. HoldsItsCode'
  BY <1>1, <1>3, <1>5, <1>9 DEF CardInv, CodesInv, HoldsItsCode
<1>11. ConnectedIsSpent'
  BY <1>1, <1>3, <1>5, <1>9 DEF CardInv, CodesInv, ConnectedIsSpent
<1>12. SpentOnce'
  <2> SUFFICES ASSUME NEW j \in Sent("confirm"), NEW k \in Sent("confirm"), j # k,
                      db'.at[j] = "connected", db'.at[k] = "connected"
               PROVE wire[j].body # wire[k].body
    BY <1>1, <1>5 DEF SpentOnce
  <2> QED  BY <1>9 DEF CardInv, CodesInv, SpentOnce
<1> QED  BY <1>6, <1>8, <1>10, <1>11, <1>12 DEF CardInv, CodesInv

LEMMA MintCode_Inv == ASSUME CardInv, NEW i \in Sent("connect"), MintCode(i) PROVE CardInv'
<1>1. /\ i \in Attempts /\ i \in 1..Len(wire) /\ i \in Nat /\ db \in CardDatabase /\ db.at[i] = "holds"
      /\ db.userRow = i /\ db.codes = db.seen[i] /\ UNCHANGED <<screen, form, wire>>
  BY AttemptsAre DEF CardInv, DatabaseOK, CodesInv, MintsAlone, MintCode, Sent
<1>2. db' = [db EXCEPT !.at[i] = "done", !.codes = (@ \ db.seen[i]) \cup {i},
                       !.userRow = IF @ = i THEN 0 ELSE @]
  BY DEF MintCode
<1>3. /\ db' \in CardDatabase /\ db'.codes = (db.codes \ db.seen[i]) \cup {i} /\ db'.spent = db.spent
      /\ db'.codeRow = db.codeRow /\ db'.at = [db.at EXCEPT ![i] = "done"] /\ db'.seen = db.seen
  <2>1. "done" \in CardStages
    BY DEF CardStages
  <2> QED  BY <1>1, <1>2, <2>1 DEF CardDatabase
<1>4. db'.at[i] = "done" /\ \A j \in Attempts : j # i => db'.at[j] = db.at[j]
  BY <1>1, <1>3 DEF CardDatabase
<1>5. Attempts' = Attempts /\ CardDatabase' = CardDatabase /\ \A kind : Sent(kind)' = Sent(kind)
  BY <1>1 DEF Attempts, CardDatabase, Sent
<1>6. WireOK' /\ FormOK' /\ DatabaseOK'
  BY <1>1, <1>3, <1>4, <1>5 DEF CardInv, WireOK, FormOK, DatabaseOK, Mounted
<1>7. i \notin Sent("confirm") /\ \A kind : \A j \in Sent(kind) : j \in Attempts
  BY AttemptsAre DEF Sent, CardInv
<1>8. MintsAlone' /\ OneCode'
  <2>1. \A j \in Sent("connect") : j # i => db.at[j] # "holds"
    BY <1>1 DEF CardInv, CodesInv, MintsAlone
  <2> QED  BY <1>1, <1>3, <1>4, <1>5, <1>7, <2>1 DEF MintsAlone, OneCode
<1>9. \A j \in Sent("confirm") : db'.at[j] = db.at[j]
  BY <1>4, <1>7
<1>10. HoldsItsCode'
  BY <1>1, <1>3, <1>5, <1>9 DEF CardInv, CodesInv, HoldsItsCode
<1>11. ConnectedIsSpent'
  BY <1>1, <1>3, <1>5, <1>9 DEF CardInv, CodesInv, ConnectedIsSpent
<1>12. SpentOnce'
  <2> SUFFICES ASSUME NEW j \in Sent("confirm"), NEW k \in Sent("confirm"), j # k,
                      db'.at[j] = "connected", db'.at[k] = "connected"
               PROVE wire[j].body # wire[k].body
    BY <1>1, <1>5 DEF SpentOnce
  <2> QED  BY <1>9 DEF CardInv, CodesInv, SpentOnce
<1> QED  BY <1>6, <1>8, <1>10, <1>11, <1>12 DEF CardInv, CodesInv

LEMMA LockCode_Inv == ASSUME CardInv, NEW i \in Sent("confirm"), LockCode(i) PROVE CardInv'
<1> DEFINE c == wire[i].body
<1>1. /\ i \in Attempts /\ i \in 1..Len(wire) /\ i \in Nat /\ c \in Attempts /\ db \in CardDatabase
      /\ db.at[i] = "coming" /\ c \notin db.spent /\ db.codeRow[c] = 0
      /\ UNCHANGED <<screen, form, wire>>
  BY AttemptsAre DEF CardInv, WireOK, DatabaseOK, LockCode, CodeRowFree, Usable, Sent
<1>2. db' = [db EXCEPT !.at[i] = "holds", !.codeRow[c] = i]
  BY DEF LockCode
<1>3. /\ db' \in CardDatabase /\ db'.codes = db.codes /\ db'.spent = db.spent /\ db'.seen = db.seen
      /\ db'.userRow = db.userRow /\ db'.at = [db.at EXCEPT ![i] = "holds"]
      /\ db'.codeRow = [db.codeRow EXCEPT ![c] = i]
  <2>1. "holds" \in CardStages
    BY DEF CardStages
  <2> HIDE DEF c
  <2> QED  BY <1>1, <1>2, <2>1 DEF CardDatabase
<1>4. /\ db'.at[i] = "holds" /\ db'.codeRow[c] = i
      /\ \A j \in Attempts : j # i => db'.at[j] = db.at[j]
      /\ \A k \in Attempts : k # c => db'.codeRow[k] = db.codeRow[k]
  BY <1>1, <1>3 DEF CardDatabase
<1>5. Attempts' = Attempts /\ CardDatabase' = CardDatabase /\ \A kind : Sent(kind)' = Sent(kind)
  BY <1>1 DEF Attempts, CardDatabase, Sent
<1>6. WireOK' /\ FormOK' /\ DatabaseOK'
  <2>1. UNCHANGED <<screen, form, wire>>
    BY <1>1
  <2> QED  BY <1>1, <1>3, <1>4, <1>5, <2>1 DEF CardInv, WireOK, FormOK, DatabaseOK, Mounted
<1>7. i \notin Sent("connect") /\ \A kind : \A j \in Sent(kind) : j \in Attempts
  BY AttemptsAre DEF Sent, CardInv
<1>8. \A j \in Sent("connect") : db'.at[j] = db.at[j]
  BY <1>4, <1>7
<1>9. MintsAlone' /\ OneCode'
  BY <1>3, <1>5, <1>8 DEF CardInv, CodesInv, MintsAlone, OneCode
<1>10. \A j \in Sent("confirm") : db.at[j] = "holds" => wire[j].body # c /\ wire[j].body \in Attempts /\ j # i
  BY <1>1 DEF CardInv, WireOK, CodesInv, HoldsItsCode, Sent
<1>11. HoldsItsCode'
  <2> SUFFICES ASSUME NEW j \in Sent("confirm"), db'.at[j] = "holds"
               PROVE db'.codeRow[wire[j].body] = j /\ wire[j].body \notin db.spent
    BY <1>1, <1>3, <1>5 DEF HoldsItsCode
  <2>1. CASE j = i
    BY <1>1, <1>4, <2>1
  <2>2. CASE j # i
    BY <1>4, <1>7, <1>10, <2>2 DEF CardInv, CodesInv, HoldsItsCode
  <2> QED  BY <2>1, <2>2
<1>12. \A j \in Sent("confirm") : db'.at[j] = "connected" => db.at[j] = "connected"
  BY <1>4, <1>7
<1>13. ConnectedIsSpent'
  BY <1>1, <1>3, <1>5, <1>12 DEF CardInv, CodesInv, ConnectedIsSpent
<1>14. SpentOnce'
  <2> SUFFICES ASSUME NEW j \in Sent("confirm"), NEW k \in Sent("confirm"), j # k,
                      db'.at[j] = "connected", db'.at[k] = "connected"
               PROVE wire[j].body # wire[k].body
    BY <1>1, <1>5 DEF SpentOnce
  <2> QED  BY <1>12 DEF CardInv, CodesInv, SpentOnce
<1> QED  BY <1>6, <1>9, <1>11, <1>13, <1>14 DEF CardInv, CodesInv

LEMMA BindChat_Inv == ASSUME CardInv, NEW i \in Sent("confirm"), BindChat(i) PROVE CardInv'
<1> DEFINE c == wire[i].body
<1>1. /\ i \in Attempts /\ i \in 1..Len(wire) /\ i \in Nat /\ c \in Attempts /\ db \in CardDatabase
      /\ db.at[i] = "holds" /\ c \notin db.spent /\ db.codeRow[c] = i
      /\ UNCHANGED <<screen, form, wire>>
  BY AttemptsAre DEF CardInv, WireOK, DatabaseOK, CodesInv, HoldsItsCode, BindChat, Sent
<1>2. db' = Release([db EXCEPT !.at[i] = "connected", !.bound = TRUE, !.spent = @ \cup {c}], i, c)
  BY DEF BindChat
<1>3. /\ db' \in CardDatabase /\ db'.codes = db.codes /\ db'.spent = db.spent \cup {c}
      /\ db'.seen = db.seen /\ db'.userRow = db.userRow
      /\ db'.at = [db.at EXCEPT ![i] = "connected"]
      /\ db'.codeRow = [db.codeRow EXCEPT ![c] = IF @ = i THEN 0 ELSE @]
  <2>1. "connected" \in CardStages
    BY DEF CardStages
  <2> HIDE DEF c
  <2> QED  BY <1>1, <1>2, <2>1 DEF CardDatabase, Release
<1>4. /\ db'.at[i] = "connected"
      /\ \A j \in Attempts : j # i => db'.at[j] = db.at[j]
      /\ \A k \in Attempts : k # c => db'.codeRow[k] = db.codeRow[k]
  BY <1>1, <1>3 DEF CardDatabase
<1>5. Attempts' = Attempts /\ CardDatabase' = CardDatabase /\ \A kind : Sent(kind)' = Sent(kind)
  BY <1>1 DEF Attempts, CardDatabase, Sent
<1>6. WireOK' /\ FormOK' /\ DatabaseOK'
  <2>1. UNCHANGED <<screen, form, wire>>
    BY <1>1
  <2> QED  BY <1>1, <1>3, <1>4, <1>5, <2>1 DEF CardInv, WireOK, FormOK, DatabaseOK, Mounted
<1>7. i \notin Sent("connect") /\ \A kind : \A j \in Sent(kind) : j \in Attempts
  BY AttemptsAre DEF Sent, CardInv
<1>8. \A j \in Sent("connect") : db'.at[j] = db.at[j]
  BY <1>4, <1>7
<1>9. MintsAlone' /\ OneCode'
  BY <1>3, <1>5, <1>8 DEF CardInv, CodesInv, MintsAlone, OneCode
<1>10. \A j \in Sent("confirm") : j # i /\ db.at[j] = "holds" => wire[j].body # c /\ wire[j].body \in Attempts
  BY <1>1 DEF CardInv, WireOK, CodesInv, HoldsItsCode
<1>11. HoldsItsCode'
  <2> SUFFICES ASSUME NEW j \in Sent("confirm"), db'.at[j] = "holds"
               PROVE db'.codeRow[wire[j].body] = j /\ wire[j].body \notin db'.spent
    BY <1>1, <1>5 DEF HoldsItsCode
  <2>1. j # i /\ db.at[j] = "holds"
    BY <1>4, <1>7
  <2> QED  BY <1>3, <1>4, <1>10, <2>1 DEF CardInv, CodesInv, HoldsItsCode
<1>12. \A j \in Sent("confirm") : j # i /\ db'.at[j] = "connected" =>
           wire[j].body \in db.spent /\ wire[j].body # c /\ db.at[j] = "connected"
  BY <1>1, <1>4, <1>7 DEF CardInv, CodesInv, ConnectedIsSpent
<1>13. ConnectedIsSpent'
  BY <1>1, <1>3, <1>5, <1>12 DEF ConnectedIsSpent
<1>14. SpentOnce'
  <2> SUFFICES ASSUME NEW j \in Sent("confirm"), NEW k \in Sent("confirm"), j # k,
                      db'.at[j] = "connected", db'.at[k] = "connected"
               PROVE wire[j].body # wire[k].body
    BY <1>1, <1>5 DEF SpentOnce
  <2>1. CASE j = i \/ k = i
    BY <1>12, <2>1
  <2>2. CASE j # i /\ k # i
    BY <1>12, <2>2 DEF CardInv, CodesInv, SpentOnce
  <2> QED  BY <2>1, <2>2
<1> QED  BY <1>6, <1>9, <1>11, <1>13, <1>14 DEF CardInv, CodesInv
-----------------------------------------------------------------------------
(* The server's other steps.                                                *)

LEMMA Refusing_Inv == ASSUME CardInv, NEW i \in 1..Len(wire), NEW how \in CardStages \ {"holds", "connected"},
                             db.at[i] = "coming", NEW bound \in BOOLEAN,
                             db' = [db EXCEPT !.at[i] = how, !.bound = bound],
                             UNCHANGED <<screen, form, wire>>
                      PROVE CardInv'
<1>1. i \in Attempts /\ db \in CardDatabase
  BY AttemptsAre DEF CardInv, DatabaseOK
<1>2. /\ db' \in CardDatabase /\ db'.at = [db.at EXCEPT ![i] = how] /\ db'.codes = db.codes
      /\ db'.spent = db.spent /\ db'.seen = db.seen /\ db'.userRow = db.userRow
      /\ db'.codeRow = db.codeRow
  BY <1>1 DEF CardDatabase
<1>3. WireOK' /\ FormOK'
  BY DEF CardInv, WireOK, FormOK, Sent, Attempts, Mounted
<1>4. \A j \in Attempts : db'.at[j] # db.at[j] => j = i /\ db'.at[j] = how
  BY <1>1, <1>2 DEF CardDatabase
<1> QED  BY <1>2, <1>3, <1>4, Serving DEF CardInv

LEMMA Releasing_Inv == ASSUME CardInv, NEW i \in Sent("confirm"), NEW how \in {"linked", "failed"},
                              db.at[i] = "holds",
                              db' = Release([db EXCEPT !.at[i] = how], i, wire[i].body),
                              UNCHANGED <<screen, form, wire>>
                       PROVE CardInv'
<1> DEFINE c == wire[i].body
<1>1. /\ i \in Attempts /\ i \in 1..Len(wire) /\ c \in Attempts /\ db \in CardDatabase /\ db.codeRow[c] = i
  BY AttemptsAre DEF CardInv, WireOK, DatabaseOK, CodesInv, HoldsItsCode, Sent
<1>2. /\ db' \in CardDatabase /\ db'.at = [db.at EXCEPT ![i] = how] /\ db'.codes = db.codes
      /\ db'.spent = db.spent /\ db'.seen = db.seen /\ db'.userRow = db.userRow
      /\ db'.codeRow = [db.codeRow EXCEPT ![c] = IF @ = i THEN 0 ELSE @]
  <2>1. how \in CardStages
    BY DEF CardStages
  <2> HIDE DEF c
  <2>2. db' = Release([db EXCEPT !.at[i] = how], i, c)
    BY DEF c
  <2> DEFINE d == [db EXCEPT !.at[i] = how]
  <2>3. d \in CardDatabase /\ d.at = [db.at EXCEPT ![i] = how] /\ d.codes = db.codes
        /\ d.spent = db.spent /\ d.seen = db.seen /\ d.userRow = db.userRow /\ d.codeRow = db.codeRow
    BY <1>1, <2>1 DEF CardDatabase
  <2>4. db' = [d EXCEPT !.codeRow[c] = IF @ = i THEN 0 ELSE @]
    BY <2>2 DEF Release
  <2> HIDE DEF c, d
  <2> DEFINE row == [db.codeRow EXCEPT ![c] = IF @ = i THEN 0 ELSE @]
  <2>5. row \in [Attempts -> Nat]
    BY <1>1 DEF CardDatabase
  <2>6. db' = [d EXCEPT !.codeRow = row]
    BY <2>3, <2>4
  <2> HIDE DEF row
  <2>7. /\ db' \in CardDatabase /\ db'.at = d.at /\ db'.codes = d.codes /\ db'.spent = d.spent
        /\ db'.seen = d.seen /\ db'.userRow = d.userRow /\ db'.codeRow = row
    BY <2>3, <2>5, <2>6 DEF CardDatabase
  <2> QED  BY <2>3, <2>7 DEF row
<1>3. WireOK' /\ FormOK'
  BY DEF CardInv, WireOK, FormOK, Sent, Attempts, Mounted
<1>4. \A j \in Attempts : db'.at[j] # db.at[j] => j = i /\ db'.at[j] = how
  BY <1>1, <1>2 DEF CardDatabase
<1>5. db'.at[i] = how /\ \A k \in Attempts : k # c => db'.codeRow[k] = db.codeRow[k]
  BY <1>1, <1>2 DEF CardDatabase
<1>6. \A j \in Sent("confirm") : db'.at[j] = "holds" => db'.codeRow[wire[j].body] = db.codeRow[wire[j].body]
  <2> SUFFICES ASSUME NEW j \in Sent("confirm"), db'.at[j] = "holds"
               PROVE db'.codeRow[wire[j].body] = db.codeRow[wire[j].body]
    OBVIOUS
  <2>1. j # i /\ j \in Attempts /\ db.at[j] = "holds" /\ wire[j].body \in Attempts
    BY <1>4, <1>5, AttemptsAre DEF CardInv, WireOK, Sent
  <2>2. db.codeRow[wire[j].body] = j
    BY <2>1 DEF CardInv, CodesInv, HoldsItsCode
  <2> QED  BY <1>1, <1>5, <2>1, <2>2
<1> QED  BY <1>1, <1>2, <1>3, <1>4, <1>6, Serving DEF CardInv

LEMMA AbortMint_Inv == ASSUME CardInv, NEW i \in Sent("connect"), AbortMint(i) PROVE CardInv'
<1>1. db.at[i] = "holds" /\ db' = [db EXCEPT !.at[i] = "failed", !.userRow = 0]
      /\ UNCHANGED <<screen, form, wire>>
  BY DEF AbortMint, Deadlocked
<1>2. i \in Attempts /\ i \in 1..Len(wire) /\ db \in CardDatabase
  BY AttemptsAre DEF CardInv, DatabaseOK, Sent
<1>3. /\ db' \in CardDatabase /\ db'.at = [db.at EXCEPT ![i] = "failed"] /\ db'.codes = db.codes
      /\ db'.spent = db.spent /\ db'.seen = db.seen /\ db'.codeRow = db.codeRow
  BY <1>1, <1>2 DEF CardDatabase, CardStages
<1>4. WireOK' /\ FormOK'
  BY <1>1 DEF CardInv, WireOK, FormOK, Sent, Attempts, Mounted
<1>5. db'.at[i] = "failed" /\ \A j \in Attempts : j # i => db'.at[j] = db.at[j]
  BY <1>2, <1>3 DEF CardDatabase
<1>6. \A j \in Sent("connect") : db'.at[j] # "holds"
  <2> SUFFICES ASSUME NEW j \in Sent("connect"), db'.at[j] = "holds" PROVE FALSE
    OBVIOUS
  <2>1. j # i /\ db.at[j] = "holds"
    BY <1>5, AttemptsAre DEF CardInv, Sent
  <2> QED  BY <1>1, <2>1 DEF CardInv, CodesInv, MintsAlone
<1> QED  BY <1>1, <1>2, <1>3, <1>4, <1>5, <1>6, Serving DEF CardInv

(* Telegram, and the other account.                                         *)
LEMMA Outside_Inv == ASSUME CardInv, PressStart \/ BoundElsewhere PROVE CardInv'
<1>1. db \in CardDatabase /\ UNCHANGED <<screen, form, wire>>
  BY DEF CardInv, DatabaseOK, PressStart, BoundElsewhere
<1>2. /\ db' \in CardDatabase /\ db'.at = db.at /\ db'.codes = db.codes /\ db'.spent = db.spent
      /\ db'.seen = db.seen /\ db'.userRow = db.userRow /\ db'.codeRow = db.codeRow
  <2>1. CASE PressStart
    <3>1. form.code \in Attempts
      BY <2>1, AttemptsAre DEF PressStart, CardInv, FormOK, FormIn, WireOK
    <3> QED  BY <1>1, <2>1, <3>1 DEF PressStart, CardDatabase
  <2>2. CASE BoundElsewhere
    BY <1>1, <2>2 DEF BoundElsewhere, CardDatabase
  <2> QED  BY <2>1, <2>2
<1>3. WireOK' /\ FormOK'
  BY <1>1 DEF CardInv, WireOK, FormOK, Sent, Attempts, Mounted
<1> QED  BY <1>1, <1>2, <1>3, Serving DEF CardInv

LEMMA Server_Inv ==
    ASSUME CardInv,
           NEW i \in 1..Len(wire),
           \/ i \in Sent("connect") /\ (LockUser(i) \/ MintCode(i) \/ AbortMint(i))
           \/ i \in Sent("confirm") /\ (\/ NotYet(i) \/ LockCode(i) \/ AlreadyLinked(i)
                                        \/ BindChat(i) \/ AbortConfirm(i))
           \/ i \in Sent("disconnect") /\ Unbind(i)
    PROVE CardInv'
<1>1. db.bound \in BOOLEAN /\ db \in CardDatabase
  BY DEF CardInv, DatabaseOK, CardDatabase
<1>2. CASE NotYet(i)
  <2>1. db.at[i] = "coming" /\ db' = [db EXCEPT !.at[i] = "pending", !.bound = db.bound]
        /\ UNCHANGED <<screen, form, wire>>
    BY <1>1, <1>2 DEF NotYet, CardDatabase
  <2>2. "pending" \in CardStages \ {"holds", "connected"}
    BY DEF CardStages
  <2> QED  BY <1>1, <2>1, <2>2, Refusing_Inv
<1>3. CASE Unbind(i)
  <2>1. "done" \in CardStages \ {"holds", "connected"}
    BY DEF CardStages
  <2> QED  BY <1>3, <2>1, Refusing_Inv DEF Unbind
<1>4. CASE i \in Sent("confirm") /\ AlreadyLinked(i)
  <2>1. db.at[i] = "holds" /\ db' = Release([db EXCEPT !.at[i] = "linked"], i, wire[i].body)
        /\ UNCHANGED <<screen, form, wire>>
    BY <1>4 DEF AlreadyLinked
  <2> QED  BY <1>4, <2>1, Releasing_Inv
<1>5. CASE i \in Sent("confirm") /\ AbortConfirm(i)
  <2>1. db.at[i] = "holds" /\ db' = Release([db EXCEPT !.at[i] = "failed"], i, wire[i].body)
        /\ UNCHANGED <<screen, form, wire>>
    BY <1>5 DEF AbortConfirm, Deadlocked
  <2> QED  BY <1>5, <2>1, Releasing_Inv
<1> QED  BY <1>2, <1>3, <1>4, <1>5, LockUser_Inv, MintCode_Inv, AbortMint_Inv, LockCode_Inv, BindChat_Inv

(* The card.                                                                *)
LEMMA Showing == ASSUME NEW made \in Nat, NEW f, FormIn(f, made), NEW code \in 0..made,
                        NEW notice \in {"none", "connected", "linked", "limit", "timeout"}
                 PROVE FormIn([f EXCEPT !.code = code, !.confirm = 0, !.notice = notice], made)
<1> DEFINE g == [f EXCEPT !.code = code]
           h == [g EXCEPT !.confirm = 0]
<1>1. FormIn(g, made)
  BY DEF FormIn, CardForm
<1> HIDE DEF g
<1>2. FormIn(h, made)
  BY <1>1 DEF FormIn, CardForm
<1> HIDE DEF h
<1>3. FormIn([h EXCEPT !.notice = notice], made)
  BY <1>2 DEF FormIn, CardForm
<1> QED  BY <1>3 DEF g, h

LEMMA Stopping == ASSUME NEW made \in Nat, NEW f, FormIn(f, made),
                         NEW notice \in {"none", "connected", "linked", "limit", "timeout"}
                  PROVE FormIn(StopPolling(f, notice), made)
<1>1. 0 \in 0..made
  OBVIOUS
<1>2. FormIn([f EXCEPT !.code = 0, !.confirm = 0, !.notice = notice], made)
  BY <1>1, Showing
<1> QED  BY <1>2 DEF StopPolling

LEMMA Ask_Inv == ASSUME CardInv, Connect \/ PollConfirm \/ Disconnect PROVE CardInv'
<1>1. FormIn(form, Len(wire)) /\ Len(wire) \in Nat
  BY DEF CardInv, FormOK, WireOK
<1>2. /\ UNCHANGED <<screen, db>>
      /\ \/ Send("connect", 0)
         \/ form.code # 0 /\ Send("confirm", form.code)
         \/ Send("disconnect", 0)
  <2>1. CASE Connect
    <3>1. Send("connect", 0)
      BY <2>1 DEF Connect
    <3>2. UNCHANGED <<screen, db>>
      BY <2>1 DEF Connect
    <3> QED  BY <3>1, <3>2
  <2>2. CASE PollConfirm
    BY <2>2 DEF PollConfirm
  <2>3. CASE Disconnect
    BY <2>3 DEF Disconnect
  <2> QED  BY <2>1, <2>2, <2>3
<1>3. WireOK' /\ DatabaseOK' /\ CodesInv' /\ Len(wire') = Len(wire) + 1
  <2>1. CASE Send("connect", 0)
    BY <1>2, <2>1, Sending
  <2>2. CASE form.code # 0 /\ Send("confirm", form.code)
    <3>1. form.code \in 1..Len(wire) /\ form.code \in Nat
      BY <1>1, <2>2 DEF FormIn
    <3> QED  BY <1>2, <2>2, <3>1, Sending
  <2>3. CASE Send("disconnect", 0)
    BY <1>2, <2>3, Sending
  <2> QED  BY <1>2, <2>1, <2>2, <2>3
<1>4. FormIn(form', Len(wire) + 1)
  <2>1. \/ form' = [form EXCEPT !.connect = Len(wire) + 1]
        \/ form' = [form EXCEPT !.confirm = Len(wire) + 1]
        \/ form' = [form EXCEPT !.disconnect = Len(wire) + 1]
    BY DEF Connect, PollConfirm, Disconnect, Fresh
  <2> QED  BY <1>1, <2>1 DEF FormIn, CardForm
<1> QED  BY <1>3, <1>4 DEF CardInv, FormOK

LEMMA Hear_Inv == ASSUME CardInv, NEW i \in 1..Len(wire),
                         \/ i \in At("connect", "sent") /\ CodeShown(i)
                         \/ ConfirmHeard(i) \/ CardHearsError(i) \/ Disconnected(i)
                  PROVE CardInv'
<1>1. FormIn(form, Len(wire)) /\ Len(wire) \in Nat /\ i \in Nat
      /\ db \in CardDatabase
  BY DEF CardInv, FormOK, WireOK, DatabaseOK
<1>2. UNCHANGED <<screen, db>> /\ (Settle(i, "over") \/ Settle(i, "lost"))
  BY DEF CodeShown, ConfirmHeard, CardHearsError, Disconnected
<1>3. /\ WireOK' /\ Len(wire') = Len(wire)
      /\ \A j \in 1..Len(wire) : wire'[j].to = wire[j].to /\ wire'[j].body = wire[j].body
  BY <1>2, Settling
<1>4. DatabaseOK' /\ CodesInv'
  BY <1>1, <1>2, <1>3, Serving
<1>5. FormIn(form', Len(wire))
  <2>1. CASE CodeShown(i)
    <3>1. form' = [form EXCEPT !.code = i, !.confirm = 0, !.notice = "none"]
      BY <2>1 DEF CodeShown
    <3>2. i \in 0..Len(wire)
      BY <1>1
    <3>3. FormIn([form EXCEPT !.code = i, !.confirm = 0, !.notice = "none"], Len(wire))
      BY <1>1, <3>2, Showing
    <3> QED  BY <3>1, <3>3
  <2>2. CASE ConfirmHeard(i)
    <3>1. \A notice \in {"connected", "linked"} : FormIn(StopPolling(form, notice), Len(wire))
      BY <1>1, Stopping
    <3>2. ASSUME NEW f, FormIn(f, Len(wire)) PROVE FormIn([f EXCEPT !.shown = TRUE], Len(wire))
      BY <3>2 DEF FormIn, CardForm
    <3>3. db.at[i] \in {"connected", "pending", "linked"}
      BY <2>2 DEF ConfirmHeard
    <3> QED  BY <1>1, <2>2, <3>1, <3>2, <3>3 DEF ConfirmHeard
  <2>3. CASE CardHearsError(i)
    BY <1>1, <2>3 DEF CardHearsError
  <2>4. CASE Disconnected(i)
    BY <1>1, <2>4 DEF Disconnected, FormIn, CardForm
  <2> QED  BY <2>1, <2>2, <2>3, <2>4
<1> QED  BY <1>3, <1>4, <1>5 DEF CardInv, FormOK

LEMMA Alone_Inv == ASSUME CardInv, GiveUp \/ FetchStatus PROVE CardInv'
<1>1. FormIn(form, Len(wire)) /\ Len(wire) \in Nat /\ db \in CardDatabase
  BY DEF CardInv, FormOK, WireOK, DatabaseOK
<1>2. UNCHANGED <<screen, wire, db>>
  BY DEF GiveUp, FetchStatus
<1>3. WireOK'
  BY <1>2 DEF CardInv, WireOK, Sent, Attempts, Mounted
<1>4. DatabaseOK' /\ CodesInv'
  BY <1>1, <1>2, <1>3, Serving
<1>5. FormIn(form', Len(wire))
  <2>1. CASE GiveUp
    BY <1>1, <2>1, Stopping DEF GiveUp
  <2>2. CASE FetchStatus
    <3>1. db.bound \in BOOLEAN
      BY <1>1 DEF CardDatabase
    <3>2. form' = [form EXCEPT !.shown = db.bound]
      BY <2>2 DEF FetchStatus
    <3> QED  BY <1>1, <3>1, <3>2 DEF FormIn, CardForm
  <2> QED  BY <2>1, <2>2
<1> QED  BY <1>2, <1>3, <1>4, <1>5 DEF CardInv, FormOK

LEMMA TooManyPolls_Inv == ASSUME CardInv, TooManyPolls PROVE CardInv'
<1> DEFINE i == form.confirm
<1>1. FormIn(form, Len(wire)) /\ Len(wire) \in Nat /\ db \in CardDatabase
  BY DEF CardInv, FormOK, WireOK, DatabaseOK
<1>2. Settle(i, "over") /\ UNCHANGED screen /\ db' = [db EXCEPT !.at[i] = "refused"]
      /\ form' = StopPolling(form, "limit")
  BY DEF TooManyPolls
<1>3. FormIn(form', Len(wire))
  BY <1>1, <1>2, Stopping
<1>4. i \in 1..Len(wire) /\ i \in Attempts
  BY <1>1, AttemptsAre DEF CardInv, FormIn, TooManyPolls, InFlight
<1> HIDE DEF i
<1>5. /\ WireOK' /\ Len(wire') = Len(wire)
      /\ \A j \in 1..Len(wire) : wire'[j].to = wire[j].to /\ wire'[j].body = wire[j].body
  BY <1>2, <1>4, Settling
<1>6. /\ db' \in CardDatabase /\ db'.at = [db.at EXCEPT ![i] = "refused"] /\ db'.codes = db.codes
      /\ db'.spent = db.spent /\ db'.seen = db.seen /\ db'.userRow = db.userRow
      /\ db'.codeRow = db.codeRow
  BY <1>1, <1>2, <1>4 DEF CardDatabase, CardStages
<1>7. \A j \in Attempts : db'.at[j] # db.at[j] => j = i /\ db'.at[j] = "refused"
  BY <1>1, <1>4, <1>6 DEF CardDatabase
<1>8. DatabaseOK' /\ CodesInv'
  BY <1>2, <1>4, <1>5, <1>6, <1>7, Serving
<1> QED  BY <1>3, <1>5, <1>8 DEF CardInv, FormOK

LEMMA CardNext_Inv == CardInv /\ [CardNext]_tabVars => CardInv'
<1> SUFFICES ASSUME CardInv, [CardNext]_tabVars PROVE CardInv'
  OBVIOUS
<1>1. CASE CardNext
  <2>1. ASSUME NEW i \in Sent("connect"), LockUser(i) \/ MintCode(i) \/ AbortMint(i) PROVE CardInv'
    BY <2>1, Server_Inv DEF Sent
  <2>2. ASSUME NEW i \in Sent("confirm"),
               NotYet(i) \/ LockCode(i) \/ AlreadyLinked(i) \/ BindChat(i) \/ AbortConfirm(i)
        PROVE CardInv'
    BY <2>2, Server_Inv DEF Sent
  <2>3. ASSUME NEW i \in Sent("disconnect"), Unbind(i) PROVE CardInv'
    BY <2>3, Server_Inv DEF Sent
  <2>4. ASSUME NEW i \in At("connect", "sent"), CodeShown(i) PROVE CardInv'
    BY <2>4, Hear_Inv DEF At, Sent
  <2>5. ASSUME NEW i \in At("confirm", "sent"), ConfirmHeard(i) PROVE CardInv'
    BY <2>5, Hear_Inv DEF At, Sent
  <2>6. ASSUME NEW i \in At("disconnect", "sent"), Disconnected(i) PROVE CardInv'
    BY <2>6, Hear_Inv DEF At, Sent
  <2>7. ASSUME NEW i \in 1..Len(wire), CardHearsError(i) PROVE CardInv'
    BY <2>7, Hear_Inv
  <2> QED  BY <1>1, <2>1, <2>2, <2>3, <2>4, <2>5, <2>6, <2>7, Ask_Inv, Alone_Inv, TooManyPolls_Inv,
              Outside_Inv DEF CardNext
<1>2. CASE UNCHANGED tabVars
  <2>1. UNCHANGED <<screen, form, wire, db>>
    BY <1>2 DEF tabVars
  <2>2. WireOK' /\ FormOK'
    BY <2>1 DEF CardInv, WireOK, FormOK, Sent, Attempts, Mounted
  <2>3. DatabaseOK' /\ CodesInv'
    BY <2>1, <2>2, Serving DEF CardInv, DatabaseOK
  <2> QED  BY <2>2, <2>3 DEF CardInv
<1> QED  BY <1>1, <1>2
-----------------------------------------------------------------------------
(* For any number of overlapping mints, confirms and disconnects, lost ones *)
(* included: at most one code is live, and a code binds a chat once.        *)
THEOREM OneCodeOneBinding == CardSpec => []CodesAreSpentOnce
<1>1. CardInv => CodesAreSpentOnce
  <2> SUFFICES ASSUME CardInv PROVE CodesAreSpentOnce
    OBVIOUS
  <2>1. Cardinality(db.codes) <= 1
    <3>1. CASE db.codes = {}
      BY <3>1, FS_EmptySet
    <3>2. CASE db.codes # {}
      <4>1. PICK c \in db.codes : db.codes = {c}
        BY <3>2 DEF CardInv, CodesInv, OneCode
      <4>2. Cardinality({c}) = 1
        BY FS_Singleton
      <4> QED  BY <4>1, <4>2
    <3> QED  BY <3>1, <3>2
  <2> QED  BY <2>1 DEF CodesAreSpentOnce, CardInv, CodesInv, SpentOnce
<1> QED  BY <1>1, CardInit_Inv, CardNext_Inv, PTL DEF CardSpec
===============================================================================
