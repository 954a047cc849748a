---------------------------- MODULE TelegramCard ----------------------------
(***************************************************************************)
(* Connecting a Telegram account: the card mints a code and shows it, the  *)
(* user starts the bot with it, the card polls until the server has bound  *)
(* the chat.  The server's part is here too, statement by statement where  *)
(* its row locks matter.  A code is named by the request that minted it.   *)
(*                                                                         *)
(*   form.notice  what the card says of the last attempt                   *)
(*   db.at        how far the server is with each request                  *)
(*   db.userRow, db.codeRow   who holds the user's row and a code's row    *)
(***************************************************************************)
EXTENDS Tab, FiniteSets

Attempts == 1..MaxRequests[screen]

TelegramForm == [code |-> 0, shown |-> FALSE, notice |-> "none",
                 connect |-> 0, confirm |-> 0, disconnect |-> 0]

TelegramInit ==
    /\ screen = "telegram" /\ screen \in Mounted
    /\ form = TelegramForm
    /\ wire = <<>>
    /\ db = [at |-> [i \in Attempts |-> "coming"], codes |-> {}, spent |-> {}, started |-> {},
             bound |-> FALSE, elsewhere |-> FALSE, seen |-> [i \in Attempts |-> {}],
             userRow |-> 0, codeRow |-> [i \in Attempts |-> 0]]

OnCard == screen = "telegram"

-----------------------------------------------------------------------------
(* The card.                                                                *)

Connect ==
    /\ OnCard
    /\ form.code = 0 /\ ~InFlight(form.connect)
    /\ Send("connect", 0)
    /\ form' = [form EXCEPT !.connect = Fresh]
    /\ UNCHANGED <<screen, db>>

\* onSuccess: a new code, and with it a new confirm query.
CodeShown(i) ==
    /\ OnCard /\ db.at[i] = "done"
    /\ Settle(i, "over")
    /\ form' = [form EXCEPT !.code = i, !.confirm = 0, !.notice = "none"]
    /\ UNCHANGED <<screen, db>>

\* Every three seconds, one fetch at a time.
PollConfirm ==
    /\ OnCard
    /\ form.code # 0 /\ ~InFlight(form.confirm)
    /\ Send("confirm", form.code)
    /\ form' = [form EXCEPT !.confirm = Fresh]
    /\ UNCHANGED <<screen, db>>

StopPolling(f, notice) == [f EXCEPT !.code = 0, !.confirm = 0, !.notice = notice]

\* The effects on confirmQuery.data, which is the present code's alone.
ConfirmHeard(i) ==
    /\ OnCard /\ db.at[i] \in {"connected", "pending", "linked"}
    /\ Settle(i, "over")
    /\ form' = IF i # form.confirm THEN form
               ELSE CASE db.at[i] = "connected" -> [StopPolling(form, "connected") EXCEPT !.shown = TRUE]
                      [] db.at[i] = "linked" -> StopPolling(form, "linked")
                      [] db.at[i] = "pending" -> form
    /\ UNCHANGED <<screen, db>>

\* The rate limit ends the attempt.
TooManyPolls ==
    /\ OnCard /\ InFlight(form.confirm) /\ db.at[form.confirm] = "coming"
    /\ Settle(form.confirm, "over")
    /\ db' = [db EXCEPT !.at[form.confirm] = "refused"]
    /\ form' = StopPolling(form, "limit")
    /\ UNCHANGED screen

\* Two minutes without an answer that ends it.
GiveUp ==
    /\ OnCard /\ form.code # 0
    /\ form' = StopPolling(form, "timeout")
    /\ UNCHANGED <<screen, wire, db>>

\* The tab hears an error; the request may still reach the server or finish there.
CardHearsError(i) ==
    /\ OnCard
    /\ Settle(i, "lost")
    /\ UNCHANGED <<screen, form, db>>

Disconnect ==
    /\ OnCard
    /\ form.shown /\ ~InFlight(form.disconnect)
    /\ Send("disconnect", 0)
    /\ form' = [form EXCEPT !.disconnect = Fresh]
    /\ UNCHANGED <<screen, db>>

Disconnected(i) ==
    /\ OnCard /\ db.at[i] = "done"
    /\ Settle(i, "over")
    /\ form' = [form EXCEPT !.shown = FALSE]
    /\ UNCHANGED <<screen, db>>

\* Mount, focus or an invalidation fetches the status.
FetchStatus ==
    /\ OnCard /\ form.shown # db.bound
    /\ form' = [form EXCEPT !.shown = db.bound]
    /\ UNCHANGED <<screen, wire, db>>

-----------------------------------------------------------------------------
(* The user in Telegram, and another account with the same chat.            *)

PressStart ==
    /\ OnCard /\ form.code # 0
    /\ db' = [db EXCEPT !.started = @ \cup {form.code}]
    /\ UNCHANGED <<screen, form, wire>>

BoundElsewhere ==
    /\ OnCard
    /\ ~db.bound
    /\ db' = [db EXCEPT !.elsewhere = ~@]
    /\ UNCHANGED <<screen, form, wire>>

-----------------------------------------------------------------------------
(* Minting: lock the user, read his codes, delete them, insert a new one.   *)

(* Mutant: the user's row is not locked.                                    *)
UserRowFree_NoLock == TRUE

UserRowFree == db.userRow = 0

LockUser(i) ==
    /\ OnCard /\ db.at[i] = "coming"
    /\ UserRowFree
    /\ db' = [db EXCEPT !.at[i] = "holds", !.userRow = i, !.seen[i] = db.codes]
    /\ UNCHANGED <<screen, form, wire>>

\* The deletes wait for a confirm that holds one of the codes.
MintCode(i) ==
    /\ OnCard /\ db.at[i] = "holds"
    /\ \A c \in db.seen[i] : db.codeRow[c] = 0
    /\ db' = [db EXCEPT !.at[i] = "done", !.codes = (@ \ db.seen[i]) \cup {i},
                        !.userRow = IF @ = i THEN 0 ELSE @]
    /\ UNCHANGED <<screen, form, wire>>

-----------------------------------------------------------------------------
(* Confirming: lock the code, check it, bind the chat.                      *)

CodeRowFree(c) == db.codeRow[c] = 0

Usable(c) == c \in db.codes /\ c \notin db.spent

\* Not started yet, unknown, superseded, consumed or expired: keep polling.
NotYet(i) ==
    /\ OnCard /\ db.at[i] = "coming"
    /\ CodeRowFree(wire[i].body)
    /\ db' = [db EXCEPT !.at[i] = "pending"]
    /\ UNCHANGED <<screen, form, wire>>

LockCode(i) ==
    LET c == wire[i].body IN
    /\ OnCard /\ db.at[i] = "coming"
    /\ c \in db.started /\ Usable(c)
    /\ CodeRowFree(c)
    /\ db' = [db EXCEPT !.at[i] = "holds", !.codeRow[c] = i]
    /\ UNCHANGED <<screen, form, wire>>

Release(d, i, c) == [d EXCEPT !.codeRow[c] = IF @ = i THEN 0 ELSE @]

AlreadyLinked(i) ==
    /\ OnCard /\ db.at[i] = "holds"
    /\ db.elsewhere
    /\ db' = Release([db EXCEPT !.at[i] = "linked"], i, wire[i].body)
    /\ UNCHANGED <<screen, form, wire>>

\* The update of the user waits for a mint that holds his row.
BindChat(i) ==
    /\ OnCard /\ db.at[i] = "holds"
    /\ ~db.elsewhere
    /\ UserRowFree
    /\ db' = Release([db EXCEPT !.at[i] = "connected", !.bound = TRUE,
                                !.spent = @ \cup {wire[i].body}], i, wire[i].body)
    /\ UNCHANGED <<screen, form, wire>>

\* A mint and a confirm wait for each other: one of them is aborted.
Deadlocked(m, c) ==
    /\ db.at[m] = "holds" /\ db.at[c] = "holds"
    /\ wire[c].body \in db.seen[m]

AbortMint(m) ==
    /\ OnCard
    /\ \E c \in Sent("confirm") : Deadlocked(m, c)
    /\ db' = [db EXCEPT !.at[m] = "failed", !.userRow = 0]
    /\ UNCHANGED <<screen, form, wire>>

AbortConfirm(c) ==
    /\ OnCard
    /\ \E m \in Sent("connect") : Deadlocked(m, c)
    /\ db' = Release([db EXCEPT !.at[c] = "failed"], c, wire[c].body)
    /\ UNCHANGED <<screen, form, wire>>

Unbind(i) ==
    /\ OnCard /\ db.at[i] = "coming"
    /\ UserRowFree
    /\ db' = [db EXCEPT !.at[i] = "done", !.bound = FALSE]
    /\ UNCHANGED <<screen, form, wire>>

CardNext ==
    \/ Connect \/ PollConfirm \/ TooManyPolls \/ GiveUp \/ Disconnect \/ FetchStatus
    \/ PressStart \/ BoundElsewhere
    \/ \E i \in At("connect", "sent") : CodeShown(i)
    \/ \E i \in At("confirm", "sent") : ConfirmHeard(i)
    \/ \E i \in At("disconnect", "sent") : Disconnected(i)
    \/ \E i \in 1..Len(wire) : wire[i].st = "sent" /\ CardHearsError(i)
    \/ \E i \in Sent("connect") : LockUser(i) \/ MintCode(i) \/ AbortMint(i)
    \/ \E i \in Sent("confirm") :
          NotYet(i) \/ LockCode(i) \/ AlreadyLinked(i) \/ BindChat(i) \/ AbortConfirm(i)
    \/ \E i \in Sent("disconnect") : Unbind(i)

CardSpec == TelegramInit /\ [][CardNext]_tabVars

-----------------------------------------------------------------------------
(* However the mints of an impatient user overlap, his account never has    *)
(* two live codes; and however confirms of one code overlap, a lost one     *)
(* still running on the server included, the code binds a chat once.        *)
CodesAreSpentOnce ==
    OnCard =>
    /\ Cardinality(db.codes) <= 1
    /\ \A i, j \in Sent("confirm") :
          db.at[i] = "connected" /\ db.at[j] = "connected" /\ i # j => wire[i].body # wire[j].body
=============================================================================
