------------------------- MODULE OfflineQueueProofs -------------------------
(***************************************************************************)
(* Safety of the offline queue, for any set of mutations and any number of *)
(* disturbances.                                                           *)
(***************************************************************************)
EXTENDS OfflineQueue, TLAPS

\* what is paused, or was persisted, was done offline
QueuedIsOffline ==
    /\ InQueue \cup disk \subseteq queuedOffline
    /\ \A m \in queuedOffline : at[m] # "fresh"

\* a request without a page belongs to a mutation that was cut off
OrphansCutOff == orphan \subseteq cutOff

Reviewed(m) == review[m] # "none" \/ \E reason \in Reason : <<m, reason>> \in posting

\* what the page still has has not taken effect and is not under review
HeldIsUndone ==
    \A m \in Mutation :
        m \notin cutOff /\ at[m] # "gone" => effects[m] = 0 /\ ~Reviewed(m)

\* ReviewedIsNotDone, already of the items on their way
PostedIsNotDone ==
    \A m \in Mutation : m \notin cutOff /\ Reviewed(m) => effects[m] = 0

Accounts ==
    /\ OneEffectPerKey
    /\ LostOnlyToA401
    /\ QueuedIsOffline
    /\ OrphansCutOff
    /\ HeldIsUndone
    /\ PostedIsNotDone

QueueInv == TypeOK /\ Accounts

LEMMA InitQueue == Init => QueueInv
<1> SUFFICES ASSUME Init PROVE QueueInv
  OBVIOUS
<1>1. TypeOK
  <2>1. at \in [Mutation -> Place] /\ At({"stored"}) = {}
    BY DEF Init, Place, At
  <2>2. /\ effects \in [Mutation -> 0..2] /\ review \in [Mutation -> Reason \cup {"none"}]
        /\ left \in 0..MaxDisturbances
    BY DisturbancesAssumption DEF Init
  <2>. QED BY <2>1, <2>2 DEF Init, TypeOK, At, Caller
<1>2. OneEffectPerKey /\ LostOnlyToA401 /\ QueuedIsOffline /\ OrphansCutOff
  BY DEF Init, OneEffectPerKey, LostOnlyToA401, Accounted, QueuedIsOffline, OrphansCutOff, At, InQueue
<1>3. HeldIsUndone /\ PostedIsNotDone
  BY DEF Init, HeldIsUndone, PostedIsNotDone, Reviewed
<1>. QED BY <1>1, <1>2, <1>3 DEF QueueInv, Accounts

-----------------------------------------------------------------------------
(* What a step does to the accounts depends only on where the mutations are *)
(* and what the server has of them.                                         *)

LEMMA AccountsKept ==
  ASSUME Accounts, cutOff \subseteq cutOff',
         UNCHANGED <<at, queuedOffline, disk, effects, review, orphan, posting>>
  PROVE  Accounts'
<1>1. (OneEffectPerKey /\ LostOnlyToA401)'
  BY DEF Accounts, OneEffectPerKey, LostOnlyToA401, Accounted, InQueue, InFlight, At
<1>2. (QueuedIsOffline /\ OrphansCutOff)'
  BY DEF Accounts, QueuedIsOffline, OrphansCutOff, InQueue, At
<1>3. (HeldIsUndone /\ PostedIsNotDone)'
  BY DEF Accounts, HeldIsUndone, PostedIsNotDone, Reviewed
<1>. QED BY <1>1, <1>2, <1>3 DEF Accounts

\* a dispatch: stale ones go to the review, the others out, whatever the token
LEMMA DispatchKeeps ==
  ASSUME QueueInv,
         NEW diverted \in SUBSET InQueue, NEW paused \in SUBSET InQueue,
         NEW sent \in SUBSET At({"paused", "stored", "refreshing"}),
         NEW tok,
         diverted \cap sent = {}, (diverted \cup sent) \cap paused = {},
         Dispatch(diverted, sent, tok, paused),
         UNCHANGED <<queuedOffline, disk, effects, review, orphan, cutOff>>
  PROVE  /\ at' \in [Mutation -> Place] /\ posting' \subseteq Mutation \X Reason
         /\ At({"stored"})' \subseteq At({"stored"}) \ (diverted \cup sent \cup paused)
         /\ Accounts'
<1>. DEFINE moved == diverted \cup sent \cup paused
<1>0. /\ at \in [Mutation -> Place] /\ posting \subseteq Mutation \X Reason
      /\ moved \subseteq Mutation
      /\ queuedOffline \subseteq Mutation /\ disk \subseteq Mutation
  BY DEF QueueInv, TypeOK, InQueue, At
<1>1. /\ at' \in [Mutation -> Place]
      /\ \A m \in Mutation :
           /\ m \in diverted => at'[m] = "gone"
           /\ m \in sent => at'[m] \in {"sent", "sentExpired"}
           /\ m \in paused => at'[m] = "paused"
           /\ m \notin moved => at'[m] = at[m]
  <2>. HIDE DEF moved
  <2>1. \A m \in Mutation :
           at'[m] = CASE m \in diverted -> "gone"
                      [] m \in sent -> Sent(tok)
                      [] m \in paused -> "paused"
                      [] OTHER -> at[m]
    BY DEF Dispatch
  <2>2. at' = [m \in Mutation |-> at'[m]]
    BY DEF Dispatch
  <2>3. \A m \in Mutation : at[m] \in Place
    BY <1>0
  <2>4. Sent(tok) \in {"sent", "sentExpired"}
    BY DEF Sent
  <2>5. \A m \in Mutation :
           /\ m \in diverted => at'[m] = "gone"
           /\ m \in sent => at'[m] \in {"sent", "sentExpired"}
           /\ m \in paused => at'[m] = "paused"
           /\ m \notin moved => at'[m] = at[m]
    <3>. SUFFICES ASSUME NEW m \in Mutation
                  PROVE  /\ m \in diverted => at'[m] = "gone"
                         /\ m \in sent => at'[m] \in {"sent", "sentExpired"}
                         /\ m \in paused => at'[m] = "paused"
                         /\ m \notin moved => at'[m] = at[m]
      OBVIOUS
    <3>1. CASE m \in diverted
      BY <3>1, <2>1 DEF moved
    <3>2. CASE m \in sent
      BY <3>2, <2>1, <2>4 DEF moved
    <3>3. CASE m \in paused
      BY <3>3, <2>1 DEF moved
    <3>4. CASE m \notin moved
      BY <3>4, <2>1 DEF moved
    <3>. QED BY <3>1, <3>2, <3>3, <3>4 DEF moved
  <2>6. \A m \in Mutation : at'[m] \in Place
    BY <2>3, <2>5 DEF moved, Place
  <2>. QED BY <2>2, <2>5, <2>6
<1>2. /\ posting' = posting \cup (diverted \X {"STALE"})
      /\ posting' \subseteq Mutation \X Reason
  BY <1>0 DEF Dispatch, Reason
<1>3. \A m \in Mutation : m \notin diverted /\ Reviewed(m)' => Reviewed(m)
  BY <1>2 DEF Reviewed
<1>4. \A m \in moved : at[m] # "gone"
  BY DEF InQueue, At
<1>5. (OneEffectPerKey /\ OrphansCutOff)'
  BY DEF QueueInv, Accounts, OneEffectPerKey, OrphansCutOff
<1>6. LostOnlyToA401'
  BY <1>0, <1>1, <1>2 DEF QueueInv, Accounts, LostOnlyToA401, Accounted, InQueue, InFlight, At, Reason
<1>7. QueuedIsOffline'
  BY <1>0, <1>1 DEF QueueInv, Accounts, QueuedIsOffline, InQueue, At
<1>8. HeldIsUndone'
  BY <1>0, <1>1, <1>3, <1>4 DEF QueueInv, Accounts, HeldIsUndone
<1>9. PostedIsNotDone'
  BY <1>0, <1>3, <1>4 DEF QueueInv, Accounts, HeldIsUndone, PostedIsNotDone
<1>10. At({"stored"})' \subseteq At({"stored"}) \ moved
  BY <1>1 DEF At
<1>. QED BY <1>1, <1>2, <1>5, <1>6, <1>7, <1>8, <1>9, <1>10 DEF Accounts

LEMMA ReplayKeeps ==
  ASSUME QueueInv, NEW S \in SUBSET InQueue, Replay(S),
         UNCHANGED <<queuedOffline, disk, effects, review, orphan, cutOff>>
  PROVE  /\ at' \in [Mutation -> Place] /\ posting' \subseteq Mutation \X Reason
         /\ At({"stored"})' \subseteq At({"stored"}) \ S
         /\ Accounts'
<1>. DEFINE diverted == Stale(S)
            sent == S \ diverted
<1>1. /\ diverted \in SUBSET InQueue
      /\ sent \in SUBSET At({"paused", "stored", "refreshing"})
      /\ diverted \cap sent = {} /\ S = diverted \cup sent
  BY DEF Stale, At, InQueue
<1>2. Dispatch(diverted, sent, token, {})
  BY DEF Replay
<1>. HIDE DEF diverted, sent
<1>. QED BY <1>1, <1>2, DispatchKeeps

-----------------------------------------------------------------------------
(* The actions *)

\* the session, the connection and the clock do not touch the accounts
LEMMA SessionSteps ==
  ASSUME QueueInv,
         \/ GoOffline \/ Query \/ Logout \/ TokenExpires \/ IdleHours \/ WeekPasses
         \/ ServeRefresh \/ FailRefresh
  PROVE  QueueInv'
<1>1. Accounts'
  <2>1. /\ UNCHANGED <<at, queuedOffline, disk, effects, review, orphan, posting>>
        /\ cutOff \subseteq cutOff'
    BY DEF GoOffline, Query, Logout, TokenExpires, IdleHours, WeekPasses, ServeRefresh,
           FailRefresh, queue, server, wire
  <2>. QED BY <2>1, AccountsKept DEF QueueInv
<1>2. TypeOK'
  <2>1. CASE GoOffline
    <3>1. left' \in 0..MaxDisturbances
      BY <2>1, DisturbancesAssumption DEF QueueInv, TypeOK, GoOffline, Disturb
    <3>2. online' \in BOOLEAN /\ managerOnline' \in BOOLEAN
      BY <2>1 DEF GoOffline
    <3>. QED BY <2>1, <3>1, <3>2 DEF QueueInv, TypeOK, GoOffline, At, queue, server, wire
  <2>2. CASE Query
    BY <2>2 DEF QueueInv, TypeOK, Query, Ask, EndSession, At, Caller, queue, server, wire
  <2>3. CASE Logout
    BY <2>3, DisturbancesAssumption DEF QueueInv, TypeOK, Logout, EndSession, Disturb, At, queue, wire
  <2>4. CASE TokenExpires
    BY <2>4, DisturbancesAssumption DEF QueueInv, TypeOK, TokenExpires, Expire, Disturb, At, queue, server, wire
  <2>5. CASE IdleHours
    BY <2>5, DisturbancesAssumption DEF QueueInv, TypeOK, IdleHours, Expire, Disturb, At, queue, wire
  <2>6. CASE WeekPasses
    BY <2>6, DisturbancesAssumption
       DEF QueueInv, TypeOK, WeekPasses, Expire, Disturb, At, InQueue, wire
  <2>7. CASE ServeRefresh
    BY <2>7 DEF QueueInv, TypeOK, ServeRefresh, At, queue, server, wire
  <2>8. CASE FailRefresh
    BY <2>8, DisturbancesAssumption DEF QueueInv, TypeOK, FailRefresh, Disturb, At, queue, server, wire
  <2>. QED BY <2>1, <2>2, <2>3, <2>4, <2>5, <2>6, <2>7, <2>8
<1>. QED BY <1>1, <1>2 DEF QueueInv

\* the places that resume the queue
LEMMA ResumeSteps ==
  ASSUME QueueInv, GoOnline \/ Focus \/ Login \/ Restore \/ RefreshRenews
  PROVE  QueueInv'
<1>0. /\ at \in [Mutation -> Place] /\ At({"paused"}) \subseteq InQueue
      /\ UNCHANGED <<queuedOffline, old, disk, effects, review, orphan, cutOff, left>>
  BY DEF QueueInv, TypeOK, At, InQueue, GoOnline, Focus, Login, Restore, RefreshRenews, server
<1>. DEFINE Moved(S) == /\ at' \in [Mutation -> Place] /\ posting' \subseteq Mutation \X Reason
                        /\ At({"stored"})' \subseteq At({"stored"}) \ S
                        /\ Accounts'
<1>1. CASE GoOnline \/ Focus
  <2>1. \/ ResumeAll(At({"paused"}), token)
        \/ Replay(At({"paused"}))
        \/ UNCHANGED <<at, posting>>
    BY <1>1 DEF GoOnline, Focus
  <2>2. Moved({})
    <3>1. CASE Replay(At({"paused"}))
      BY <3>1, <1>0, ReplayKeeps
    <3>2. CASE UNCHANGED <<at, posting>>
      BY <3>2, <1>0, AccountsKept DEF QueueInv, TypeOK, At
    <3>3. CASE ResumeAll(At({"paused"}), token)
      BY <3>3, <1>0, DispatchKeeps DEF ResumeAll, At
    <3>. QED BY <2>1, <3>1, <3>2, <3>3
  <2>3. refresh' \in {"idle", "asked", "renewed", "denied", "failed", "unreachable"}
        /\ awaiting' \subseteq Caller
    BY <1>1 DEF GoOnline, Focus, session, Ask, QueueInv, TypeOK, Caller
  <2>4. /\ online' \in BOOLEAN /\ managerOnline' \in BOOLEAN
        /\ UNCHANGED <<page, restoring, latched, token, cookie>>
    BY <1>1 DEF GoOnline, Focus, session, server, QueueInv, TypeOK
  <2>. QED BY <1>0, <2>2, <2>3, <2>4 DEF QueueInv, TypeOK
<1>2. CASE Login
  <2>1. Moved({})
    BY <1>2, <1>0, DispatchKeeps DEF Login, ResumeAll, At
  <2>2. online' = online /\ managerOnline' = managerOnline /\ restoring' = restoring /\ latched' \in BOOLEAN
    BY <1>2 DEF Login
  <2>. QED BY <1>2, <1>0, <2>1, <2>2 DEF QueueInv, TypeOK, Login
<1>3. CASE Restore
  <2>1. Moved(InQueue)
    <3>1. CASE Replay(InQueue)
      BY <3>1, <1>0, ReplayKeeps
    <3>2. CASE Dispatch({}, {}, token, InQueue)
      BY <3>2, <1>0, DispatchKeeps
    <3>. QED BY <1>3, <3>1, <3>2 DEF Restore
  <2>2. At({"stored"})' = {}
    BY <2>1 DEF InQueue, At
  <2>3. refresh' \in {"idle", "asked", "renewed", "denied", "failed", "unreachable"}
        /\ awaiting' \subseteq Caller
    <3>1. UNCHANGED <<refresh, awaiting>> \/ Ask({"restore"})
      BY <1>3 DEF Restore
    <3>. QED BY <3>1 DEF Ask, QueueInv, TypeOK, Caller
  <2>4. online' = online /\ managerOnline' = managerOnline /\ restoring' \in BOOLEAN /\ latched' = latched
    BY <1>3 DEF Restore
  <2>. QED BY <1>3, <1>0, <2>1, <2>2, <2>3, <2>4 DEF QueueInv, TypeOK, Restore, server
<1>4. CASE RefreshRenews
  <2>. DEFINE again == IF managerOnline /\ awaiting \cap {"online", "restore"} # {}
                       THEN At({"paused"}) ELSE {}
              sent == (again \ Stale(again)) \cup At({"refreshing"})
  <2>1. /\ Stale(again) \in SUBSET InQueue
        /\ sent \in SUBSET At({"paused", "stored", "refreshing"})
        /\ Stale(again) \cap sent = {}
    <3>1. again \subseteq At({"paused"})
      OBVIOUS
    <3>. HIDE DEF again
    <3>. QED BY <3>1 DEF Stale, At, InQueue
  <2>2. Dispatch(Stale(again), sent, "valid", {})
    BY <1>4 DEF RefreshRenews
  <2>3. Moved({})
    <3>. HIDE DEF again, sent
    <3>. QED BY <2>1, <2>2, <1>0, DispatchKeeps
  <2>4. online' = online /\ managerOnline' = managerOnline /\ restoring' = restoring /\ latched' = latched
    BY <1>4 DEF RefreshRenews
  <2>. QED BY <1>4, <1>0, <2>3, <2>4 DEF QueueInv, TypeOK, RefreshRenews, Settled, Caller, server
<1>. QED BY <1>1, <1>2, <1>3, <1>4

\* a load gives up what it had in flight and takes the rest from the disk
LEMMA LoadKeeps ==
  ASSUME QueueInv, Load, left' \in 0..MaxDisturbances
  PROVE  QueueInv'
<1>0. /\ at \in [Mutation -> Place] /\ queuedOffline \subseteq Mutation /\ disk \subseteq Mutation
      /\ cutOff \subseteq cutOff' /\ InFlight \subseteq cutOff'
      /\ (InQueue \ disk) \cup (disk \ InQueue) \subseteq cutOff'
      /\ UNCHANGED <<queuedOffline, old, disk, effects, review, posting, cookie>>
  BY DEF QueueInv, TypeOK, Load, server
<1>1. \A m \in Mutation :
         /\ m \in disk => at'[m] = "stored"
         /\ m \in (InQueue \cup InFlight) \ disk => at'[m] = "gone"
         /\ m \notin disk \cup InQueue \cup InFlight => at'[m] = at[m]
  BY DEF Load
<1>2. at' \in [Mutation -> Place]
  BY <1>0 DEF Load, Place
<1>3. \A m \in Mutation \ cutOff' :
         /\ m \notin cutOff /\ m \notin InFlight
         /\ m \in disk <=> m \in InQueue
  BY <1>0
<1>4. TypeOK'
  <2>1. page' \in {"app", "login", "leaving"} /\ latched' \in BOOLEAN /\ restoring' = TRUE
        /\ UNCHANGED <<online, token>> /\ managerOnline' = TRUE
    BY DEF Load
  <2>2. orphan' \subseteq Mutation /\ cutOff' \subseteq Mutation \cup {"refresh"}
    BY DEF Load, QueueInv, TypeOK, At, InQueue, InFlight
  <2>3. refresh' \in {"idle", "asked"} /\ awaiting' \subseteq Caller
    BY DEF Load, Caller
  <2>. QED BY <1>0, <1>2, <2>1, <2>2, <2>3 DEF QueueInv, TypeOK
<1>5. OneEffectPerKey'
  BY <1>0 DEF QueueInv, Accounts, OneEffectPerKey
<1>6. LostOnlyToA401'
  <2>. SUFFICES ASSUME NEW m \in queuedOffline, m \notin cutOff'
                PROVE  Accounted(m)' \/ at'[m] = "unauthorized"
    BY <1>0 DEF LostOnlyToA401
  <2>0. m \in Mutation /\ m \notin cutOff
    BY <1>0
  <2>1. CASE m \in InQueue
    BY <2>1, <2>0, <1>0, <1>1, <1>3 DEF InQueue, At, Accounted
  <2>2. CASE m \notin InQueue
    <3>1. at'[m] = at[m] /\ m \notin InFlight
      BY <2>0, <2>2, <1>1, <1>3
    <3>2. Accounted(m) => Accounted(m)'
      BY <3>1, <2>0, <2>2, <1>0 DEF Accounted
    <3>. QED BY <3>1, <3>2, <2>0 DEF QueueInv, Accounts, LostOnlyToA401
  <2>. QED BY <2>1, <2>2
<1>7. QueuedIsOffline'
  BY <1>0, <1>1 DEF QueueInv, Accounts, QueuedIsOffline, InQueue, InFlight, At
<1>8. OrphansCutOff'
  BY <1>0 DEF QueueInv, Accounts, OrphansCutOff, Load, InFlight, At
<1>9. HeldIsUndone' /\ PostedIsNotDone'
  <2>1. \A m \in Mutation \ cutOff' : at'[m] # "gone" => at[m] # "gone"
    BY <1>0, <1>1, <1>3 DEF InQueue, At
  <2>2. \A m \in Mutation : Reviewed(m)' = Reviewed(m)
    BY <1>0 DEF Reviewed
  <2>. QED BY <2>1, <2>2, <1>0, <1>3 DEF QueueInv, Accounts, HeldIsUndone, PostedIsNotDone
<1>. QED BY <1>4, <1>5, <1>6, <1>7, <1>8, <1>9 DEF QueueInv, Accounts

LEMMA PageSteps ==
  ASSUME QueueInv, Reload \/ Navigate \/ Persist
  PROVE  QueueInv'
<1>1. CASE Reload
  <2>1. left' \in 0..MaxDisturbances
    BY <1>1, DisturbancesAssumption DEF Reload, Lost, Disturb, QueueInv, TypeOK
  <2>. QED BY <1>1, <2>1, LoadKeeps DEF Reload
<1>2. CASE Navigate
  BY <1>2, LoadKeeps DEF Navigate, QueueInv, TypeOK
<1>3. CASE Persist
  <2>1. /\ UNCHANGED <<at, queuedOffline, effects, review, orphan, posting, cutOff>>
        /\ disk' = At({"paused"})
    BY <1>3 DEF Persist, server, wire
  <2>2. (OneEffectPerKey /\ LostOnlyToA401 /\ OrphansCutOff)'
    BY <2>1 DEF QueueInv, Accounts, OneEffectPerKey, LostOnlyToA401, Accounted, OrphansCutOff,
                InQueue, InFlight, At
  <2>3. QueuedIsOffline'
    BY <2>1 DEF QueueInv, Accounts, QueuedIsOffline, InQueue, At
  <2>4. (HeldIsUndone /\ PostedIsNotDone)'
    BY <2>1 DEF QueueInv, Accounts, HeldIsUndone, PostedIsNotDone, Reviewed
  <2>5. TypeOK'
    BY <1>3, <2>1 DEF QueueInv, TypeOK, Persist, session, server, At
  <2>. QED BY <2>2, <2>3, <2>4, <2>5 DEF QueueInv, Accounts
<1>. QED BY <1>1, <1>2, <1>3

\* a mutation whose refresh failed leaves the page: with a 401, or cut off
LEMMA RefreshFails ==
  ASSUME QueueInv, RefreshDenies \/ RefreshThrows
  PROVE  QueueInv'
<1>0. /\ at \in [Mutation -> Place] /\ queuedOffline \subseteq Mutation /\ disk \subseteq Mutation
      /\ cutOff \subseteq cutOff'
      /\ UNCHANGED <<online, managerOnline, restoring, queuedOffline, old, disk, effects, review, cookie,
                     orphan, posting, left>>
  BY DEF QueueInv, TypeOK, RefreshDenies, RefreshThrows, server, wire
<1>1. PICK w \in {"gone", "unauthorized"} :
         /\ at' = [m \in Mutation |-> IF at[m] = "refreshing" THEN w ELSE at[m]]
         /\ w = "gone" => At({"refreshing"}) \subseteq cutOff'
  BY DEF RefreshDenies, RefreshThrows
<1>2. \A m \in Mutation :
         /\ at[m] # "refreshing" => at'[m] = at[m]
         /\ at[m] = "refreshing" => at'[m] = w /\ (m \in cutOff' \/ at'[m] = "unauthorized")
  BY <1>0, <1>1 DEF At
<1>3. TypeOK'
  <2>1. at' \in [Mutation -> Place] /\ (At({"stored"})' # {} => restoring')
    BY <1>0, <1>1, <1>2 DEF QueueInv, TypeOK, Place, At
  <2>2. cutOff' \subseteq Mutation \cup {"refresh"}
    BY DEF QueueInv, TypeOK, RefreshDenies, RefreshThrows, MissedReplay, At
  <2>3. page' \in {"app", "login", "leaving"} /\ token' \in {"none", "valid", "expired"}
    BY DEF QueueInv, TypeOK, RefreshDenies, RefreshThrows, EndSession
  <2>4. latched' \in BOOLEAN
    <3>1. CASE RefreshDenies
      BY <3>1, Zenon DEF RefreshDenies, EndSession
    <3>2. CASE RefreshThrows
      BY <3>2 DEF RefreshThrows, QueueInv, TypeOK
    <3>. QED BY <3>1, <3>2
  <2>5. refresh' = "idle" /\ awaiting' = {}
    BY DEF RefreshDenies, RefreshThrows, Settled
  <2>. QED BY <1>0, <2>1, <2>2, <2>3, <2>4, <2>5 DEF QueueInv, TypeOK
<1>4. (OneEffectPerKey /\ OrphansCutOff)'
  BY <1>0 DEF QueueInv, Accounts, OneEffectPerKey, OrphansCutOff
<1>5. LostOnlyToA401'
  BY <1>0, <1>2 DEF QueueInv, Accounts, LostOnlyToA401, Accounted, InQueue, InFlight, At
<1>6. QueuedIsOffline'
  BY <1>0, <1>1, <1>2 DEF QueueInv, Accounts, QueuedIsOffline, InQueue, At
<1>7. (HeldIsUndone /\ PostedIsNotDone)'
  BY <1>0, <1>2 DEF QueueInv, Accounts, HeldIsUndone, PostedIsNotDone, Reviewed
<1>. QED BY <1>3, <1>4, <1>5, <1>6, <1>7 DEF QueueInv, Accounts

-----------------------------------------------------------------------------
(* One mutation *)

\* what is new was not in the queue before
LEMMA Submits ==
  ASSUME QueueInv, NEW m \in Mutation, Submit(m)
  PROVE  QueueInv'
<1>0. /\ at \in [Mutation -> Place] /\ at[m] = "fresh"
      /\ at' = [at EXCEPT ![m] = IF managerOnline THEN Sent(token) ELSE "paused"]
      /\ queuedOffline' = IF managerOnline THEN queuedOffline ELSE queuedOffline \cup {m}
      /\ queuedOffline \subseteq Mutation /\ disk \subseteq Mutation
      /\ UNCHANGED <<effects, review, old, disk, orphan, posting, cutOff, left>>
  BY DEF QueueInv, TypeOK, Submit, server
<1>1. /\ at'[m] \in {"sent", "sentExpired", "paused"} /\ at'[m] \in Place
      /\ \A n \in Mutation \ {m} : at'[n] = at[n]
      /\ at' \in [Mutation -> Place]
  BY <1>0 DEF Sent, Place
<1>2. /\ queuedOffline' \subseteq queuedOffline \cup {m} /\ queuedOffline \subseteq queuedOffline'
      /\ at'[m] = "paused" => m \in queuedOffline'
      /\ m \in queuedOffline' /\ m \notin queuedOffline => at'[m] = "paused"
  BY <1>0 DEF Sent
<1>3. m \notin disk /\ m \notin InQueue
  BY <1>0 DEF QueueInv, Accounts, QueuedIsOffline, InQueue, At
<1>4. m \notin queuedOffline
  BY <1>0 DEF QueueInv, Accounts, QueuedIsOffline
<1>5. TypeOK'
  <2>1. At({"stored"})' # {} => restoring'
    BY <1>1 DEF Submit, session, QueueInv, TypeOK, At
  <2>. QED BY <1>0, <1>1, <1>2, <2>1 DEF Submit, session, server, QueueInv, TypeOK
<1>6. (OneEffectPerKey /\ OrphansCutOff)'
  BY <1>0 DEF QueueInv, Accounts, OneEffectPerKey, OrphansCutOff
<1>7. LostOnlyToA401'
  BY <1>0, <1>1, <1>2 DEF QueueInv, Accounts, LostOnlyToA401, Accounted, InQueue, InFlight, At
<1>8. QueuedIsOffline'
  BY <1>0, <1>1, <1>2, <1>3, <1>4 DEF QueueInv, Accounts, QueuedIsOffline, InQueue, At
<1>9. (HeldIsUndone /\ PostedIsNotDone)'
  BY <1>0, <1>1 DEF QueueInv, Accounts, HeldIsUndone, PostedIsNotDone, Reviewed
<1>. QED BY <1>5, <1>6, <1>7, <1>8, <1>9 DEF QueueInv, Accounts

\* an answered request is over: done, refused, or on its way to the review
LEMMA Serves ==
  ASSUME QueueInv, NEW m \in Mutation, Serve(m)
  PROVE  QueueInv'
<1>. PICK a \in Answer :
          /\ Apply(m, a)
          /\ \/ /\ a = "ok"
                /\ at' = [at EXCEPT ![m] = "gone"]
                /\ UNCHANGED posting
             \/ /\ DivertConflict(m, a)
                /\ at' = [at EXCEPT ![m] = "gone"]
                /\ posting' = posting \cup {<<m, "CONFLICT">>}
             \/ /\ a # "ok" /\ ~DivertConflict(m, a)
                /\ at' = [at EXCEPT ![m] = "refused"]
                /\ UNCHANGED posting
  BY DEF Serve
<1>0. /\ at \in [Mutation -> Place] /\ at[m] = "sent"
      /\ effects \in [Mutation -> 0..2]
      /\ posting \subseteq Mutation \X Reason
      /\ queuedOffline \subseteq Mutation /\ disk \subseteq Mutation
      /\ UNCHANGED <<queuedOffline, old, disk, review, orphan, cutOff, left>>
  BY DEF QueueInv, TypeOK, Serve
<1>1. /\ at' \in [Mutation -> Place] /\ at'[m] \in {"gone", "refused"}
      /\ \A n \in Mutation \ {m} : at'[n] = at[n]
  BY <1>0 DEF Place
<1>2. /\ effects' \in [Mutation -> 0..2]
      /\ effects'[m] = IF a = "ok" /\ effects[m] = 0 THEN 1 ELSE effects[m]
      /\ \A n \in Mutation \ {m} : effects'[n] = effects[n]
      /\ effects[m] > 0 => a = "ok"
  BY <1>0 DEF Apply, KeyTaken, QueueInv, Accounts, OneEffectPerKey
<1>3. /\ posting \subseteq posting' /\ posting' \subseteq posting \cup {<<m, "CONFLICT">>}
      /\ posting' \subseteq Mutation \X Reason
      /\ a = "ok" => at'[m] = "gone" /\ posting' = posting
      /\ a # "ok" => \/ at'[m] = "refused" /\ posting' = posting
                   \/ <<m, "CONFLICT">> \in posting'
  BY <1>0 DEF DivertConflict, Reason
<1>4. TypeOK'
  <2>1. At({"stored"})' # {} => restoring'
    BY <1>1 DEF Serve, session, QueueInv, TypeOK, At
  <2>. QED BY <1>0, <1>1, <1>2, <1>3, <2>1 DEF Serve, session, QueueInv, TypeOK
<1>5. (OneEffectPerKey /\ OrphansCutOff)'
  BY <1>0, <1>2 DEF QueueInv, Accounts, OneEffectPerKey, OrphansCutOff
<1>6. LostOnlyToA401'
  <2>1. effects'[m] > 0 \/ at'[m] = "refused" \/ <<m, "CONFLICT">> \in posting'
    BY <1>0, <1>2, <1>3
  <2>. QED BY <2>1, <1>0, <1>1, <1>2, <1>3
           DEF QueueInv, Accounts, LostOnlyToA401, Accounted, InQueue, InFlight, At, Reason
<1>7. QueuedIsOffline'
  BY <1>0, <1>1 DEF QueueInv, Accounts, QueuedIsOffline, InQueue, At
<1>8. HeldIsUndone'
  BY <1>0, <1>1, <1>2, <1>3 DEF QueueInv, Accounts, HeldIsUndone, Reviewed
<1>9. PostedIsNotDone'
  BY <1>0, <1>1, <1>2, <1>3 DEF QueueInv, Accounts, HeldIsUndone, PostedIsNotDone, Reviewed
<1>. QED BY <1>4, <1>5, <1>6, <1>7, <1>8, <1>9 DEF QueueInv, Accounts

\* only a mutation that was cut off is done without a page
LEMMA OrphanServed ==
  ASSUME QueueInv, NEW m \in Mutation, ServeOrphan(m)
  PROVE  QueueInv'
<1>. PICK a \in Answer : Apply(m, a)
  BY DEF ServeOrphan
<1>0. /\ m \in cutOff
      /\ effects \in [Mutation -> 0..2]
      /\ UNCHANGED <<at, queuedOffline, old, disk, review, posting, cutOff, left>>
      /\ queuedOffline \subseteq Mutation
      /\ orphan' \subseteq orphan
  BY DEF QueueInv, TypeOK, Accounts, OrphansCutOff, ServeOrphan, queue
<1>1. /\ effects' \in [Mutation -> 0..2] /\ effects'[m] <= 1
      /\ \A n \in Mutation \ {m} : effects'[n] = effects[n]
  BY <1>0 DEF Apply, KeyTaken, QueueInv, Accounts, OneEffectPerKey
<1>2. TypeOK'
  BY <1>0, <1>1 DEF ServeOrphan, session, QueueInv, TypeOK, At
<1>3. (OneEffectPerKey /\ OrphansCutOff)'
  BY <1>0, <1>1 DEF QueueInv, Accounts, OneEffectPerKey, OrphansCutOff
<1>4. (LostOnlyToA401 /\ QueuedIsOffline)'
  BY <1>0, <1>1 DEF QueueInv, Accounts, LostOnlyToA401, Accounted, QueuedIsOffline, InQueue, InFlight, At
<1>5. (HeldIsUndone /\ PostedIsNotDone)'
  BY <1>0, <1>1 DEF QueueInv, Accounts, HeldIsUndone, PostedIsNotDone, Reviewed
<1>. QED BY <1>2, <1>3, <1>4, <1>5 DEF QueueInv, Accounts

\* a request that was refused its token, or got no answer
LEMMA Unanswered ==
  ASSUME QueueInv, NEW m \in Mutation, Unauthorized(m) \/ NetworkError(m)
  PROVE  QueueInv'
<1>0. /\ at \in [Mutation -> Place] /\ at[m] \in {"sent", "sentExpired"}
      /\ at'[m] \in {"refreshing", "unauthorized", "gone"} /\ at' \in [Mutation -> Place]
      /\ \A n \in Mutation \ {m} : at'[n] = at[n]
      /\ queuedOffline \subseteq Mutation /\ disk \subseteq Mutation
      /\ UNCHANGED <<queuedOffline, old, disk, effects, review, cookie, posting>>
  BY DEF QueueInv, TypeOK, Unauthorized, NetworkError, server, Place
<1>1. at'[m] \in {"refreshing", "unauthorized"} \/ m \in cutOff'
  BY <1>0 DEF QueueInv, TypeOK, Unauthorized, NetworkError
<1>2. cutOff \subseteq cutOff' /\ cutOff' \subseteq Mutation \cup {"refresh"}
      /\ orphan' \subseteq Mutation /\ orphan' \subseteq cutOff'
  BY DEF QueueInv, TypeOK, Accounts, OrphansCutOff, Unauthorized, NetworkError
<1>3. TypeOK'
  <2>1. At({"stored"})' # {} => restoring'
    BY <1>0 DEF Unauthorized, NetworkError, session, QueueInv, TypeOK, At
  <2>2. left' \in 0..MaxDisturbances
    BY DisturbancesAssumption DEF Unauthorized, NetworkError, Lost, Disturb, QueueInv, TypeOK
  <2>3. CASE NetworkError(m)
    BY <2>1, <2>2, <2>3, <1>0, <1>2 DEF NetworkError, session, QueueInv, TypeOK
  <2>4. CASE Unauthorized(m)
    <3>1. page' \in {"app", "login", "leaving"} /\ token' \in {"none", "valid", "expired"}
      BY <2>4 DEF Unauthorized, EndSession, QueueInv, TypeOK
    <3>2. /\ refresh' \in {"idle", "asked", "renewed", "denied", "failed", "unreachable"}
          /\ awaiting' \subseteq Caller
      BY <2>4 DEF Unauthorized, Ask, QueueInv, TypeOK, Caller
    <3>3. latched' \in BOOLEAN
      BY <2>4 DEF Unauthorized, EndSession, QueueInv, TypeOK
    <3>4. UNCHANGED <<online, managerOnline, restoring>>
      BY <2>4 DEF Unauthorized
    <3>. QED BY <2>1, <2>2, <3>1, <3>2, <3>3, <3>4, <1>0, <1>2 DEF QueueInv, TypeOK
  <2>. QED BY <2>3, <2>4
<1>4. (OneEffectPerKey /\ OrphansCutOff)'
  BY <1>0, <1>2 DEF QueueInv, Accounts, OneEffectPerKey, OrphansCutOff
<1>5. LostOnlyToA401'
  BY <1>0, <1>1, <1>2 DEF QueueInv, Accounts, LostOnlyToA401, Accounted, InQueue, InFlight, At
<1>6. QueuedIsOffline'
  BY <1>0, <1>1 DEF QueueInv, Accounts, QueuedIsOffline, InQueue, At
<1>7. (HeldIsUndone /\ PostedIsNotDone)'
  BY <1>0, <1>2 DEF QueueInv, Accounts, HeldIsUndone, PostedIsNotDone, Reviewed
<1>. QED BY <1>3, <1>4, <1>5, <1>6, <1>7 DEF QueueInv, Accounts

\* a review item arrives, and was counted before; or it is lost
LEMMA ReviewSteps ==
  ASSUME QueueInv, NEW m \in Mutation, NEW reason \in Reason,
         PostArrives(m, reason) \/ PostLost(m, reason)
  PROVE  QueueInv'
<1>0. /\ <<m, reason>> \in posting /\ posting' = posting \ {<<m, reason>>}
      /\ posting \subseteq Mutation \X Reason
      /\ review \in [Mutation -> Reason \cup {"none"}]
      /\ queuedOffline \subseteq Mutation
      /\ UNCHANGED <<at, queuedOffline, old, disk, effects, cookie, orphan>>
      /\ UNCHANGED <<page, online, managerOnline, restoring, token, latched, refresh, awaiting>>
  BY DEF QueueInv, TypeOK, PostArrives, PostLost, session, queue, server
<1>1. /\ review' \in [Mutation -> Reason \cup {"none"}]
      /\ \A n \in Mutation : review[n] # "none" => review'[n] # "none"
      /\ \A n \in Mutation \ {m} : review'[n] = review[n]
      /\ review'[m] # "none" \/ m \in cutOff'
      /\ Reviewed(m)
  BY <1>0 DEF PostArrives, PostLost, server, Reason, Reviewed
<1>2. /\ cutOff \subseteq cutOff' /\ cutOff' \subseteq Mutation \cup {"refresh"}
      /\ left' \in 0..MaxDisturbances
  BY DisturbancesAssumption DEF QueueInv, TypeOK, PostArrives, PostLost, Lost, Disturb
<1>3. \A n \in Mutation : Reviewed(n)' => Reviewed(n)
  BY <1>0, <1>1 DEF Reviewed
<1>4. TypeOK'
  BY <1>0, <1>1, <1>2 DEF QueueInv, TypeOK, At
<1>5. (OneEffectPerKey /\ OrphansCutOff /\ QueuedIsOffline)'
  BY <1>0, <1>2 DEF QueueInv, Accounts, OneEffectPerKey, OrphansCutOff, QueuedIsOffline,
                    InQueue, At
<1>6. LostOnlyToA401'
  BY <1>0, <1>1, <1>2 DEF QueueInv, Accounts, LostOnlyToA401, Accounted, InQueue, InFlight, At
<1>7. (HeldIsUndone /\ PostedIsNotDone)'
  BY <1>0, <1>2, <1>3 DEF QueueInv, Accounts, HeldIsUndone, PostedIsNotDone
<1>. QED BY <1>4, <1>5, <1>6, <1>7 DEF QueueInv, Accounts

-----------------------------------------------------------------------------

LEMMA NextQueue == QueueInv /\ [Next]_vars => QueueInv'
<1>. SUFFICES ASSUME QueueInv, [Next]_vars PROVE QueueInv'
  OBVIOUS
<1>1. CASE \/ GoOffline \/ Query \/ Logout \/ TokenExpires \/ IdleHours \/ WeekPasses
           \/ ServeRefresh \/ FailRefresh
  BY <1>1, SessionSteps
<1>2. CASE GoOnline \/ Focus \/ Login \/ Restore \/ RefreshRenews
  BY <1>2, ResumeSteps
<1>3. CASE Reload \/ Navigate \/ Persist
  BY <1>3, PageSteps
<1>4. CASE RefreshDenies \/ RefreshThrows
  BY <1>4, RefreshFails
<1>5. ASSUME NEW m \in Mutation, Mutate(m) PROVE QueueInv'
  <2>1. CASE Submit(m)
    BY <2>1, Submits
  <2>2. CASE Serve(m)
    BY <2>2, Serves
  <2>3. CASE ServeOrphan(m)
    BY <2>3, OrphanServed
  <2>4. CASE Unauthorized(m) \/ NetworkError(m)
    BY <2>4, Unanswered
  <2>5. CASE \E reason \in Reason : PostArrives(m, reason) \/ PostLost(m, reason)
    BY <2>5, ReviewSteps
  <2>. QED BY <1>5, <2>1, <2>2, <2>3, <2>4, <2>5 DEF Mutate
<1>6. CASE UNCHANGED vars
  <2>1. UNCHANGED <<at, queuedOffline, disk, effects, review, orphan, posting, cutOff>>
    BY <1>6 DEF vars, queue, server, wire
  <2>2. TypeOK'
    BY <1>6 DEF vars, session, queue, server, wire, QueueInv, TypeOK, At
  <2>. QED BY <2>1, <2>2, AccountsKept DEF QueueInv
<1>. QED BY <1>1, <1>2, <1>3, <1>4, <1>5, <1>6 DEF Next, SettleRefresh

LEMMA AlwaysQueueInv == Spec => []QueueInv
BY InitQueue, NextQueue, PTL DEF Spec

\* The types, and that what was read from the disk waits for its restoration.
THEOREM QueueTypes == Spec => []TypeOK
<1>1. QueueInv => TypeOK
  BY DEF QueueInv
<1>. QED BY <1>1, AlwaysQueueInv, PTL

\* A mutation takes effect at most once, whatever is replayed, reloaded or lost:
\* the look-up of the key in each endpoint, on every way a request can take.
THEOREM EffectsOnce == Spec => []OneEffectPerKey
<1>1. QueueInv => OneEffectPerKey
  BY DEF QueueInv, Accounts
<1>. QED BY <1>1, AlwaysQueueInv, PTL

\* Work done offline that lost no message and no page is accounted for, or its 401
\* ended the session: nothing else in divertStaleMutations, handleMutationError, the
\* restore and the resumes loses it.
THEOREM OfflineWorkIsKept == Spec => []LostOnlyToA401
<1>1. QueueInv => LostOnlyToA401
  BY DEF QueueInv, Accounts
<1>. QED BY <1>1, AlwaysQueueInv, PTL

\* A row of the review queue stands for work that was not done.
THEOREM ReviewIsHonest == Spec => []ReviewedIsNotDone
<1>1. QueueInv => ReviewedIsNotDone
  BY DEF QueueInv, Accounts, PostedIsNotDone, ReviewedIsNotDone, Reviewed
<1>. QED BY <1>1, AlwaysQueueInv, PTL
=============================================================================
