--------------------------- MODULE AccountScreen ---------------------------
(***************************************************************************)
(* User management as several administrators do it at once: each edit or   *)
(* deletion is one request, and the server's part of it is here statement  *)
(* by statement, with the row locks that keep the last superuser.  A       *)
(* request changes nothing on its way, so it is loaded as it is sent, and  *)
(* one that is not admitted leaves no trace.                               *)
(*                                                                         *)
(*   db.at              how far the server is with each request            *)
(*   db.users           the accounts                                       *)
(*   db.super, .active  their is_superuser and is_active columns           *)
(*   db.loaded          the two columns of its target as a request loaded  *)
(*                      them                                               *)
(*   db.row             who holds the row of an account                    *)
(***************************************************************************)
EXTENDS Tab, FiniteSets

CONSTANT Accounts

ASSUME AccountAssumption == IsFiniteSet(Accounts)

Requests == 1..MaxRequests[screen]

\* What an edit says of a column: nothing, TRUE or FALSE.
Changes == {"unset", "on", "off"}

Unloaded == [super |-> FALSE, active |-> FALSE]

\* Who can still log in with superuser access.
Admins == db.super \cap db.active

AccountInit ==
    /\ screen = "accounts" /\ screen \in Mounted
    /\ form = [dialog |-> NoKey]
    /\ wire = <<>>
    /\ \E super, active \in SUBSET Accounts :
          db = [at |-> [i \in Requests |-> "coming"], users |-> Accounts,
                super |-> super, active |-> active,
                loaded |-> [i \in Requests |-> Unloaded], row |-> [a \in Accounts |-> 0]]

OnAccounts == screen = "accounts"

\* session.get: what the request knows of its target from now on.
Load(target) ==
    db' = [db EXCEPT !.at[Fresh] = "loaded",
                     !.loaded[Fresh] = [super |-> target \in db.super, active |-> target \in db.active]]

\* The edit dialog's save, of any tab, sent by an active superuser.
SaveUser(target, super, active) ==
    /\ OnAccounts
    /\ Admins # {} /\ target \in db.users
    /\ Send("edit", [target |-> target, super |-> super, active |-> active])
    /\ Load(target)
    /\ UNCHANGED <<screen, form>>

\* The delete dialog's confirmation: nobody deletes himself.
DeleteUser(target) ==
    /\ OnAccounts
    /\ Admins \ {target} # {} /\ target \in db.users
    /\ Send("delete", [target |-> target])
    /\ Load(target)
    /\ UNCHANGED <<screen, form>>

HeldByOthers(i, rows) == \E a \in rows : db.row[a] \notin {0, i}

Done(d, i, how) == [d EXCEPT !.at[i] = how, !.loaded[i] = Unloaded,
                             !.row = [a \in Accounts |-> IF @[a] = i THEN 0 ELSE @[a]]]

\* Only what takes access from a row that had it when it was loaded is counted.
Removes(i) ==
    /\ db.loaded[i].super /\ db.loaded[i].active
    /\ wire[i].body.super = "off" \/ wire[i].body.active = "off"

(* Mutant: the superusers are counted without FOR UPDATE.                   *)
CountedRows_NoLock == {}

\* count_active_superusers: the rows are locked, then counted as they are now.
CountedRows == Admins

CountSuperusers(i) ==
    /\ OnAccounts /\ db.at[i] = "loaded"
    /\ Removes(i)
    /\ ~HeldByOthers(i, CountedRows)
    /\ db' = IF Cardinality(Admins) <= 1 THEN Done(db, i, "refused")
             ELSE [db EXCEPT !.at[i] = "counted",
                             !.row = [a \in Accounts |-> IF a \in CountedRows THEN i ELSE @[a]]]
    /\ UNCHANGED <<screen, form, wire>>

\* A column is written when it differs from what was loaded.
Differs(change, was) == change = IF was THEN "off" ELSE "on"

Column(column, change, was, target) ==
    IF ~Differs(change, was) THEN column
    ELSE IF change = "on" THEN column \cup {target} ELSE column \ {target}

\* Only changed columns are written, and the row is waited for if there are any;
\* the row of a deleted account is not found.
CommitEdit(i) ==
    LET body == wire[i].body
        was == db.loaded[i] IN
    /\ OnAccounts /\ db.at[i] = IF Removes(i) THEN "counted" ELSE "loaded"
    /\ Differs(body.super, was.super) \/ Differs(body.active, was.active) =>
          ~HeldByOthers(i, {body.target})
    /\ db' = IF body.target \notin db.users THEN Done(db, i, "failed")
             ELSE Done([db EXCEPT !.super = Column(@, body.super, was.super, body.target),
                                  !.active = Column(@, body.active, was.active, body.target)],
                       i, "done")
    /\ UNCHANGED <<screen, form, wire>>

\* The superusers that remain are not counted.
CommitDelete(i) ==
    LET target == wire[i].body.target IN
    /\ OnAccounts /\ db.at[i] = "loaded"
    /\ ~HeldByOthers(i, {target})
    /\ db' = IF target \notin db.users THEN Done(db, i, "failed")
             ELSE Done([db EXCEPT !.users = @ \ {target}, !.super = @ \ {target},
                                  !.active = @ \ {target}], i, "done")
    /\ UNCHANGED <<screen, form, wire>>

AccountNext ==
    \/ \E t \in Accounts, s, a \in Changes : SaveUser(t, s, a)
    \/ \E t \in Accounts : DeleteUser(t)
    \/ \E i \in Sent("edit") : CountSuperusers(i) \/ CommitEdit(i)
    \/ \E i \in Sent("delete") : CommitDelete(i)

AccountSpec == AccountInit /\ [][AccountNext]_tabVars

-----------------------------------------------------------------------------
(* "Used to block demoting/deactivating the last one (which would lock      *)
(* everyone out of user management)": no edit, however it overlaps with     *)
(* others, takes the last superuser's access.  The code does not keep it:   *)
(* an edit that loaded an account before it was promoted is not counted.    *)
LastOneIsNotDemoted ==
    [][OnAccounts /\ Admins # {} /\ Admins' = {} =>
          \E i \in Sent("delete") : db.at[i] = "loaded" /\ db'.at[i] = "done"]_tabVars

(* An edit that counted the superusers does not take the last one's access, *)
(* however long it takes to commit and whatever other edits, promotions and *)
(* deletions do meanwhile.                                                  *)
CountedEditsLeaveOne ==
    [][OnAccounts /\ Admins # {} /\ Admins' = {} =>
          \A i \in Sent("edit") : db.at[i] = "counted" => db'.at[i] = "counted"]_tabVars
=============================================================================
