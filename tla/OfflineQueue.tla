---------------------------- MODULE OfflineQueue ----------------------------
(***************************************************************************)
(* One browser of the point of sale and the server behind it: the queue of *)
(* mutations made offline (lib/query-client.ts, lib/sync-producer.ts), the *)
(* session it needs to replay them (lib/auth-session.ts, main.tsx,         *)
(* hooks/useAuth.ts), and what the server does with a request, a refresh   *)
(* and a review item.                                                      *)
(*                                                                         *)
(* JavaScript runs one task at a time, so a step is one task: from an      *)
(* event, an answer or a settled promise to the next await.  The memory of *)
(* the page, at, latched, refresh, awaiting and managerOnline, is lost by  *)
(* a reload; token (localStorage), cookie and disk (IndexedDB) are not.    *)
(* Each mutation has a key of its own, as queued() is given one per        *)
(* attempt.                                                                *)
(*                                                                         *)
(* TanStack Query resumes paused mutations by itself, when its             *)
(* onlineManager turns online and when the page becomes visible, whatever  *)
(* the session and however old they are.  Its onlineManager believes in a  *)
(* connection from every load of the page until the first "offline" event. *)
(***************************************************************************)
EXTENDS Naturals, FiniteSets

CONSTANTS
    Mutation,          \* the mutations the user will make
    MaxDisturbances    \* bound on reloads, losses of connection, logouts and
                       \* expiries in a behaviour

ASSUME DisturbancesAssumption == MaxDisturbances \in Nat

VARIABLES
    \* the page and its session
    page,              \* "app", "login", or "leaving" for /login
    online,            \* there is a connection: navigator.onLine
    managerOnline,     \* onlineManager.isOnline()
    restoring,         \* the persisted cache is being read
    token,             \* the access token in localStorage
    latched,           \* sessionDead
    refresh,           \* inFlight: the one refresh request and its answer
    awaiting,          \* who awaits it: "boot", "restore", "online", "query"
    \* the mutations
    at,                \* where the page has each, or its outcome
    queuedOffline,     \* those with meta.queuedOffline
    old,               \* those with submittedAt past the cap of seven days
    disk,              \* the paused mutations as last persisted
    \* the server and the network
    cookie,            \* the refresh cookie
    effects,           \* how often each has taken effect
    review,            \* the reason of its row in the review queue
    orphan,            \* requests on their way that no page waits for
    posting,           \* review items on their way to the server
    \* history
    cutOff,            \* mutations that lost a message, or the page they were in
    left               \* disturbances left

session == <<page, online, managerOnline, restoring, token, latched, refresh, awaiting>>
queue == <<at, queuedOffline, old, disk>>
server == <<cookie, effects, review>>
wire == <<orphan, posting>>
vars == <<session, queue, server, wire, cutOff, left>>

\* "unauthorized": its 401 ended the session, and the mutation with it
Place == {"fresh", "paused", "stored", "sent", "sentExpired", "refreshing",
          "refused", "unauthorized", "gone"}
Caller == {"boot", "restore", "online", "query"}
Answer == {"ok", "conflict", "refused"}
Reason == {"STALE", "CONFLICT"}

At(P) == {m \in Mutation : at[m] \in P}

\* Types; and a mutation is only on the disk while the page restores its cache.
TypeOK ==
    /\ page \in {"app", "login", "leaving"}
    /\ online \in BOOLEAN /\ managerOnline \in BOOLEAN
    /\ restoring \in BOOLEAN /\ latched \in BOOLEAN
    /\ token \in {"none", "valid", "expired"}
    /\ refresh \in {"idle", "asked", "renewed", "denied", "failed", "unreachable"}
    /\ awaiting \subseteq Caller
    /\ at \in [Mutation -> Place]
    /\ queuedOffline \subseteq Mutation /\ old \subseteq Mutation
    /\ disk \subseteq Mutation
    /\ At({"stored"}) # {} => restoring
    /\ cookie \in {"live", "dead"}
    /\ effects \in [Mutation -> 0..2]
    /\ review \in [Mutation -> Reason \cup {"none"}]
    /\ orphan \subseteq Mutation
    /\ posting \subseteq Mutation \X Reason
    /\ cutOff \subseteq Mutation \cup {"refresh"}
    /\ left \in 0..MaxDisturbances

\* staleItemFor: a paused mutation past the cap is held back, not replayed
Stale(S) == S \cap old

\* A browser that was in use before: it may be offline with paused mutations,
\* perhaps for a week, which no access token outlives.
Init ==
    /\ page = "app" /\ online \in BOOLEAN /\ managerOnline = online
    /\ restoring = FALSE
    /\ token \in {"valid", "expired"}
    /\ cookie = "live" \/ (cookie = "dead" /\ token = "expired")
    /\ latched = FALSE /\ refresh = "idle" /\ awaiting = {}
    /\ at \in [Mutation -> {"fresh", "paused"}]
    /\ online => At({"paused"}) = {}
    /\ disk = At({"paused"})
    /\ queuedOffline = At({"paused"})
    /\ old \in {{}, At({"paused"})} /\ (old # {} => token = "expired")
    /\ effects = [m \in Mutation |-> 0]
    /\ review = [m \in Mutation |-> "none"]
    /\ orphan = {} /\ posting = {}
    /\ cutOff = {} /\ left = MaxDisturbances

-----------------------------------------------------------------------------
(* Pieces of the handlers *)

InQueue == At({"paused", "stored"})
InFlight == At({"sent", "sentExpired", "refreshing"})

\* isAccessTokenValid
HasSession == token = "valid"

\* a request carries the token the page has when it is sent
Sent(tok) == IF tok = "valid" THEN "sent" ELSE "sentExpired"

\* Mutant: a stale mutation is removed without being recorded for review.
Dispatch_RemovesOnly(diverted, sent, tok, paused) ==
    /\ at' = [m \in Mutation |-> CASE m \in diverted -> "gone"
                                   [] m \in sent -> Sent(tok)
                                   [] m \in paused -> "paused"
                                   [] OTHER -> at[m]]
    /\ UNCHANGED posting

\* Mutant: what was read from the disk is not put into the cache.
Dispatch_LeavesStored(diverted, sent, tok, paused) ==
    /\ at' = [m \in Mutation |-> CASE m \in diverted -> "gone"
                                   [] m \in sent -> Sent(tok)
                                   [] OTHER -> at[m]]
    /\ posting' = posting \cup (diverted \X {"STALE"})

\* Divert some mutations (removed, and posted for review), send others with the
\* token tok, and put the paused ones, read from the disk, into the cache.
Dispatch(diverted, sent, tok, paused) ==
    /\ at' = [m \in Mutation |-> CASE m \in diverted -> "gone"
                                   [] m \in sent -> Sent(tok)
                                   [] m \in paused -> "paused"
                                   [] OTHER -> at[m]]
    /\ posting' = posting \cup (diverted \X {"STALE"})

\* Mutant: a stale mutation is posted, but not removed from the cache.
Replay_PostsAndSends(S) ==
    /\ at' = [m \in Mutation |-> IF m \in S THEN Sent(token) ELSE at[m]]
    /\ posting' = posting \cup (Stale(S) \X {"STALE"})

\* divertStaleMutations(), resumePausedMutations(), on the mutations in S
Replay(S) == Dispatch(Stale(S), S \ Stale(S), token, {})

\* resumePausedMutations() alone: the library by itself, and login()
ResumeAll(S, tok) == Dispatch({}, S, tok, {})

\* Mutant: false at once, without waiting, when a refresh is in flight.
Ask_NotShared(c) ==
    /\ refresh' = IF refresh = "idle" THEN "asked" ELSE refresh
    /\ awaiting' = IF refresh = "idle" THEN c ELSE awaiting

\* refreshAccessToken() shares the request in flight, or sends one
Ask(c) ==
    /\ refresh' = IF refresh = "idle" THEN "asked" ELSE refresh
    /\ awaiting' = awaiting \cup c

EndSession ==
    /\ token' = "none"
    /\ latched' = TRUE
    /\ page' = IF page = "app" THEN "leaving" ELSE page

Disturb == left > 0 /\ left' = left - 1

\* nothing is on its way: hours or days may pass
Quiet ==
    /\ InFlight = {} /\ orphan = {} /\ posting = {}
    /\ refresh = "idle" /\ ~restoring /\ page # "leaving"

Expire == token' = IF token = "valid" THEN "expired" ELSE token

-----------------------------------------------------------------------------
(* The user, the connection and the clock *)

\* mutate(queued(body, key)): paused when the library believes to be offline, else
\* sent with the token
Submit(m) ==
    /\ page = "app" /\ ~restoring
    /\ at[m] = "fresh"
    /\ at' = [at EXCEPT ![m] = IF managerOnline THEN Sent(token) ELSE "paused"]
    /\ queuedOffline' = IF managerOnline THEN queuedOffline ELSE queuedOffline \cup {m}
    /\ UNCHANGED <<session, server, old, disk, orphan, posting, cutOff, left>>

GoOffline ==
    /\ online /\ Disturb
    /\ online' = FALSE /\ managerOnline' = FALSE
    /\ UNCHANGED <<page, restoring, token, latched, refresh, awaiting,
                   queue, server, wire, cutOff>>

\* The "online" event.  The listener of main.tsx, which comes first, wants a valid
\* session before it diverts and resumes; with one it does so at once, which is
\* nothing as long as the onlineManager is offline.  Then the onlineManager turns
\* online, unless it was, and the library resumes what is paused with the token
\* there is.
GoOnline ==
    /\ ~online
    /\ online' = TRUE /\ managerOnline' = TRUE
    /\ IF HasSession \/ latched THEN UNCHANGED <<refresh, awaiting>> ELSE Ask({"online"})
    /\ \/ /\ ~managerOnline
          /\ ResumeAll(At({"paused"}), token)
       \/ /\ managerOnline /\ HasSession
          /\ Replay(At({"paused"}))
       \/ /\ managerOnline /\ ~HasSession
          /\ UNCHANGED <<at, posting>>
    /\ UNCHANGED <<page, restoring, token, latched, queuedOffline, old, disk,
                   server, orphan, cutOff, left>>

\* the page becomes visible: the library resumes what is paused
Focus ==
    /\ managerOnline /\ At({"paused"}) # {}
    /\ ResumeAll(At({"paused"}), token)
    /\ UNCHANGED <<session, queuedOffline, old, disk, server, orphan, cutOff, left>>

\* a query of the page, which is refetched as long as the page is open: its 401
\* goes through the interceptor
Query ==
    /\ page = "app" /\ online
    /\ token # "valid" /\ "query" \notin awaiting
    /\ \/ /\ ~latched
          /\ Ask({"query"})
          /\ UNCHANGED <<page, token, latched>>
       \/ /\ latched
          /\ EndSession
          /\ UNCHANGED <<refresh, awaiting>>
    /\ UNCHANGED <<online, managerOnline, restoring, queue, server, wire, cutOff, left>>

\* login(), from the answer of POST /login/access-token on
Login ==
    /\ page = "login" /\ online
    /\ token' = "valid" /\ cookie' = "live"
    /\ latched' = FALSE
    /\ ResumeAll(At({"paused"}), "valid")
    /\ page' = "app"
    /\ UNCHANGED <<online, managerOnline, restoring, refresh, awaiting, queuedOffline, old, disk,
                   effects, review, orphan, cutOff, left>>

\* logout(): the call that clears the cookie is best-effort
Logout ==
    /\ page = "app" /\ Disturb
    /\ \/ online /\ cookie' = "dead"
       \/ UNCHANGED cookie
    /\ EndSession
    /\ UNCHANGED <<online, managerOnline, restoring, refresh, awaiting, queue, effects, review,
                   wire, cutOff>>

\* the access token is within EXPIRY_SKEW_MS of its end, which is longer than a
\* request takes
TokenExpires ==
    /\ token = "valid" /\ Disturb
    /\ At({"sent"}) = {}
    /\ Expire
    /\ UNCHANGED <<page, online, managerOnline, restoring, latched, refresh, awaiting,
                   queue, server, wire, cutOff>>

\* nobody used the application for the twelve hours of the cookie
IdleHours ==
    /\ cookie = "live" /\ Quiet /\ Disturb
    /\ cookie' = "dead" /\ Expire
    /\ UNCHANGED <<page, online, managerOnline, restoring, latched, refresh, awaiting,
                   queue, effects, review, wire, cutOff>>

\* seven days; the cookie outlives them only if the application is in use
WeekPasses ==
    /\ Quiet /\ Disturb
    /\ ~(InQueue \subseteq old)
    /\ old' = old \cup InQueue
    /\ Expire
    /\ \/ cookie' = "dead"
       \/ online /\ page = "app" /\ UNCHANGED cookie
    /\ UNCHANGED <<page, online, managerOnline, restoring, latched, refresh, awaiting,
                   at, queuedOffline, disk, effects, review, wire, cutOff>>

-----------------------------------------------------------------------------
(* The page is loaded, restored and persisted *)

\* A load, by the user or because endSession went to /login.  What was in flight
\* goes on without a page to answer to; what was persisted will be restored.
\* The boot check, which public pages skip, asks for a refresh at once.  A new
\* onlineManager starts online.
Load ==
    /\ page' = IF token = "none" THEN "login" ELSE "app"
    /\ latched' = FALSE
    /\ restoring' = TRUE
    /\ managerOnline' = TRUE
    /\ at' = [m \in Mutation |-> CASE m \in disk -> "stored"
                                   [] m \in (InQueue \cup InFlight) \ disk -> "gone"
                                   [] OTHER -> at[m]]
    /\ orphan' = orphan \cup At({"sent"})
    /\ cutOff' = cutOff \cup InFlight
                        \cup (InQueue \ disk) \cup (disk \ InQueue)
    /\ LET check == online /\ page = "app" /\ token = "expired"
       IN  /\ refresh' = IF check THEN "asked" ELSE "idle"
           /\ awaiting' = IF check THEN {"boot"} ELSE {}
    /\ UNCHANGED <<online, token, queuedOffline, old, disk, server, posting>>

Reload == page # "leaving" /\ Disturb /\ Load
Navigate == page = "leaving" /\ UNCHANGED left /\ Load

\* onSuccess of PersistQueryClientProvider
Restore ==
    /\ restoring
    /\ restoring' = FALSE
    /\ \/ /\ HasSession /\ managerOnline
          /\ Replay(InQueue)
          /\ UNCHANGED <<refresh, awaiting>>
       \/ /\ HasSession /\ ~managerOnline
          /\ Dispatch({}, {}, token, InQueue)
          /\ UNCHANGED <<refresh, awaiting>>
       \/ /\ ~HasSession
          /\ Dispatch({}, {}, token, InQueue)
          /\ IF latched THEN UNCHANGED <<refresh, awaiting>> ELSE Ask({"restore"})
    /\ UNCHANGED <<page, online, managerOnline, token, latched, queuedOffline, old, disk,
                   server, orphan, cutOff, left>>

\* the persister writes the paused mutations, some time after they changed
Persist ==
    /\ ~restoring /\ disk # At({"paused"})
    /\ disk' = At({"paused"})
    /\ UNCHANGED <<session, at, queuedOffline, old, server, wire, cutOff, left>>

-----------------------------------------------------------------------------
(* The refresh of the access token *)

ServeRefresh ==
    /\ refresh = "asked" /\ online
    /\ refresh' = IF cookie = "live" THEN "renewed" ELSE "denied"
    /\ UNCHANGED <<page, online, managerOnline, restoring, token, latched, awaiting,
                   queue, server, wire, cutOff, left>>

\* a 429 or 5xx, or no answer at all
FailRefresh ==
    /\ refresh = "asked"
    /\ \/ online /\ Disturb /\ refresh' \in {"failed", "unreachable"}
       \/ ~online /\ refresh' = "unreachable" /\ UNCHANGED left
    /\ UNCHANGED <<page, online, managerOnline, restoring, token, latched, awaiting,
                   queue, server, wire, cutOff>>

Settled == refresh' = "idle" /\ awaiting' = {}

\* a listener that was online will not be called again for this connection
MissedReplay ==
    IF online /\ refresh # "denied" /\ awaiting \cap {"online", "restore"} # {}
    THEN {"refresh"} ELSE {}

\* true: the interceptor retries, the listeners replay
RefreshRenews ==
    /\ refresh = "renewed"
    /\ token' = "valid"
    /\ LET again == IF managerOnline /\ awaiting \cap {"online", "restore"} # {}
                    THEN At({"paused"}) ELSE {}
       IN  Dispatch(Stale(again), (again \ Stale(again)) \cup At({"refreshing"}), "valid", {})
    /\ Settled
    /\ UNCHANGED <<page, online, managerOnline, restoring, latched, queuedOffline, old, disk,
                   server, orphan, cutOff, left>>

\* false: a 401 passes through the interceptor and ends the session, as does the
\* boot check; the listeners do nothing
RefreshDenies ==
    /\ refresh \in {"denied", "failed"}
    /\ IF awaiting \cap {"boot", "query"} # {} \/ At({"refreshing"}) # {}
       THEN EndSession
       ELSE /\ latched' = (latched \/ refresh = "denied")
            /\ UNCHANGED <<token, page>>
    /\ at' = [m \in Mutation |-> IF at[m] = "refreshing" THEN "unauthorized" ELSE at[m]]
    /\ Settled
    /\ cutOff' = cutOff \cup MissedReplay
    /\ UNCHANGED <<online, managerOnline, restoring, queuedOffline, old, disk, server, wire, left>>

\* thrown: whoever awaited it fails with a network error
RefreshThrows ==
    /\ refresh = "unreachable"
    /\ at' = [m \in Mutation |-> IF at[m] = "refreshing" THEN "gone" ELSE at[m]]
    /\ cutOff' = cutOff \cup At({"refreshing"}) \cup MissedReplay
    /\ Settled
    /\ UNCHANGED <<page, online, managerOnline, restoring, token, latched, queuedOffline, old, disk,
                   server, wire, left>>

SettleRefresh == RefreshRenews \/ RefreshDenies \/ RefreshThrows

-----------------------------------------------------------------------------
(* A mutation on the wire, and its answer *)

\* Mutant: the endpoint does not look the key up.
KeyTaken_NoLookup(m) == FALSE

\* the endpoint has a row with this idempotency key
KeyTaken(m) == effects[m] > 0

Apply(m, a) ==
    /\ KeyTaken(m) => a = "ok"
    /\ effects' = [effects EXCEPT ![m] = IF a = "ok" /\ ~KeyTaken(m) THEN @ + 1 ELSE @]

\* shouldDivertConflict
DivertConflict(m, a) == a = "conflict" /\ m \in queuedOffline

\* The request arrives, and its answer.  handleMutationError: an offline-origin 409
\* is diverted, every other refusal is for the screen.
Serve(m) ==
    /\ at[m] = "sent" /\ online
    /\ \E a \in Answer :
          /\ Apply(m, a)
          /\ \/ /\ a = "ok"
                /\ at' = [at EXCEPT ![m] = "gone"]
                /\ UNCHANGED posting
             \/ /\ DivertConflict(m, a)
                /\ at' = [at EXCEPT ![m] = "gone"]
                /\ posting' = posting \cup {<<m, "CONFLICT">>}
             \/ /\ a # "ok" /\ ~DivertConflict(m, a)
                /\ at' = [at EXCEPT ![m] = "refused"]
                /\ UNCHANGED posting
    /\ UNCHANGED <<session, queuedOffline, old, disk, cookie, review, orphan, cutOff, left>>

ServeOrphan(m) ==
    /\ m \in orphan
    /\ orphan' = orphan \ {m}
    /\ \E a \in Answer : Apply(m, a)
    /\ UNCHANGED <<session, queue, cookie, review, posting, cutOff, left>>

\* the interceptor: refresh, then retry; or the 401 passes through
Unauthorized(m) ==
    /\ at[m] = "sentExpired" /\ online
    /\ \/ /\ ~latched
          /\ Ask({})
          /\ at' = [at EXCEPT ![m] = "refreshing"]
          /\ UNCHANGED <<page, token, latched>>
       \/ /\ latched
          /\ EndSession
          /\ at' = [at EXCEPT ![m] = "unauthorized"]
          /\ UNCHANGED <<refresh, awaiting>>
    /\ UNCHANGED <<online, managerOnline, restoring, queuedOffline, old, disk, server, orphan,
                   posting, cutOff, left>>

\* an answer may get lost; without a connection it does
Lost ==
    \/ online /\ Disturb
    \/ ~online /\ UNCHANGED left

\* No answer comes, whether or not the server had the request: mutations are not
\* retried.
NetworkError(m) ==
    /\ at[m] \in {"sent", "sentExpired"} /\ Lost
    /\ at' = [at EXCEPT ![m] = "gone"]
    /\ orphan' = IF at[m] = "sent" THEN orphan \cup {m} ELSE orphan
    /\ cutOff' = cutOff \cup {m}
    /\ UNCHANGED <<session, queuedOffline, old, disk, server, posting>>

\* POST /sync-review: get_or_replay by the mutation's key
PostArrives(m, reason) ==
    /\ <<m, reason>> \in posting /\ online
    /\ posting' = posting \ {<<m, reason>>}
    /\ review' = [review EXCEPT ![m] = IF @ = "none" THEN reason ELSE @]
    /\ UNCHANGED <<session, queue, cookie, effects, orphan, cutOff, left>>

\* postSyncReviewItem swallows the error
PostLost(m, reason) ==
    /\ <<m, reason>> \in posting /\ Lost
    /\ posting' = posting \ {<<m, reason>>}
    /\ cutOff' = cutOff \cup {m}
    /\ UNCHANGED <<session, queue, server, orphan>>

-----------------------------------------------------------------------------

Mutate(m) ==
    \/ Submit(m) \/ Serve(m) \/ ServeOrphan(m)
    \/ Unauthorized(m) \/ NetworkError(m)
    \/ \E reason \in Reason : PostArrives(m, reason) \/ PostLost(m, reason)

Next ==
    \/ GoOffline \/ GoOnline \/ Focus \/ Query \/ Login \/ Logout
    \/ TokenExpires \/ IdleHours \/ WeekPasses
    \/ Reload \/ Navigate \/ Restore \/ Persist
    \/ ServeRefresh \/ FailRefresh \/ SettleRefresh
    \/ \E m \in Mutation : Mutate(m)

Spec == Init /\ [][Next]_vars

\* The page's own tasks run, requests are served while there is a connection; the
\* connection comes back, and the user logs in when asked to.
FairSpec ==
    /\ Spec
    /\ WF_vars(GoOnline) /\ WF_vars(Login)
    /\ WF_vars(Query) /\ WF_vars(Navigate) /\ WF_vars(Restore)
    /\ WF_vars(ServeRefresh) /\ WF_vars(SettleRefresh)

-----------------------------------------------------------------------------
(* Properties *)

\* a mutation that is waiting, under way, done, refused to the screen or held for
\* an administrator
Accounted(m) ==
    \/ m \in InQueue \cup InFlight
    \/ at[m] = "refused"
    \/ effects[m] > 0
    \/ review[m] # "none"
    \/ \E reason \in Reason : <<m, reason>> \in posting

\* However often a mutation is sent, by a replay, a reload or a request that nobody
\* waited for, it takes effect at most once.
OneEffectPerKey == \A m \in Mutation : effects[m] <= 1

\* What was done offline and lost neither a message nor its page is accounted for,
\* or was dropped with the 401 that ended the session: neither a conflict nor the
\* cap, a reload or a shared refresh loses it.
LostOnlyToA401 ==
    \A m \in queuedOffline \ cutOff : Accounted(m) \/ at[m] = "unauthorized"

\* What an administrator finds in the review queue has not been done as well.
ReviewedIsNotDone ==
    \A m \in Mutation : review[m] # "none" /\ m \notin cutOff => effects[m] = 0

\* The queue empties once there are a connection and a session, unless a refresh
\* failed that a replay was waiting for.
QueueDrains ==
    At({"paused"}) # {} ~> (At({"paused"}) = {} \/ "refresh" \in cutOff)

\* The comments in main.tsx: the queue is replayed with a valid session only, so a
\* dead one never loses what was done offline.
NothingVanishes == \A m \in queuedOffline \ cutOff : Accounted(m)

\* The comment on divertStaleMutations: a stale mutation is never replayed.
StaleNeverReplays ==
    [][\A m \in Mutation : at[m] = "paused" /\ at'[m] \in {"sent", "sentExpired"}
                               => m \notin old]_vars

\* The comment on divertStaleMutations: without a connection, resuming the queue
\* does nothing.
ReplaysOnlyOnline ==
    [][\A m \in Mutation : m \in InQueue /\ at'[m] \in {"sent", "sentExpired"}
                               => online']_vars

\* The comment in main.tsx: only a dead refresh cookie, or the user, ends a session.
OnlyDeadCookieEndsSession ==
    [][page = "app" /\ page' = "leaving" => cookie = "dead" \/ Logout]_vars
=============================================================================
