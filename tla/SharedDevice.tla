---------------------------- MODULE SharedDevice ----------------------------
(***************************************************************************)
(* One device that an administrator and a member of staff share, one after *)
(* the other, in one tab.  What the tab has fetched stays in its query     *)
(* cache and most of it is persisted, so it outlives logout and login: the *)
(* menu and the drill-down of the stock page, whose rows show costs to     *)
(* administrators alone, go by the user the tab last heard of.             *)
(*                                                                         *)
(*   form.token  whose access token is in localStorage, "none" for nobody  *)
(*   form.path   "login", "app", or "leaving" for the login page           *)
(*   form.page   the page of the app on screen, form.nav the guard request *)
(*               of the page that is to follow, 0 for none                 *)
(*   form.me     the cached currentUser, form.drill the cached rows of     *)
(*               each role: as whom they were fetched                      *)
(*   db.disk     the persisted currentUser                                 *)
(***************************************************************************)
EXTENDS Tab

People == {"admin", "staff"}

\* A device someone is logged in on, or nobody, with an older user on disk.
DeviceInit ==
    /\ screen = "device" /\ screen \in Mounted
    /\ \E token, disk \in People \cup {"none"} :
          /\ form = [token |-> token, path |-> IF token = "none" THEN "login" ELSE "app",
                     page |-> "home", nav |-> 0, login |-> 0, asking |-> 0,
                     me |-> disk, drill |-> [r \in People |-> "none"]]
          /\ db = [disk |-> disk]
    /\ wire = <<>>

OnDevice == screen = "device"
InApp == OnDevice /\ form.path = "app"

\* useRole, over the cached user: anything but an administrator is staff.
RoleOf(me) == IF me = "admin" THEN "admin" ELSE "staff"

\* stockDrillQueryKey
DrillRows == form.drill[RoleOf(form.me)]

-----------------------------------------------------------------------------
(* Logging in and out, loading the page.                                    *)

LogIn(who) ==
    /\ OnDevice /\ form.path = "login"
    /\ ~InFlight(form.login)
    /\ Send("login", who)
    /\ form' = [form EXCEPT !.login = Fresh]
    /\ UNCHANGED <<screen, db>>

\* The token is stored and the router navigates: the page is not loaded anew.
LoggedIn(i) ==
    /\ OnDevice /\ wire[i].live
    /\ Drop(i)
    /\ form' = [form EXCEPT !.token = wire[i].body, !.path = "app", !.login = 0]
    /\ UNCHANGED <<screen, db>>

\* A page load: the cache starts from what was persisted, less the drill rows.
Loaded(f, disk) ==
    [f EXCEPT !.me = disk, !.drill = [r \in People |-> "none"], !.login = 0, !.asking = 0,
              !.path = IF f.token = "none" THEN "login" ELSE "app", !.page = "home", !.nav = 0]

Dead == [i \in DOMAIN wire |-> [wire[i] EXCEPT !.live = FALSE]]

LoadPage ==
    /\ OnDevice
    /\ form' = Loaded(form, db.disk)
    /\ wire' = Dead
    /\ UNCHANGED <<screen, db>>

\* The address of a page of the administrator: its guard asks first.
LoadAdminPage ==
    /\ OnDevice /\ form.token # "none"
    /\ Len(wire) < MaxRequests[screen]
    /\ wire' = Append(Dead, [to |-> "guard", body |-> form.token, st |-> "sent", live |-> TRUE])
    /\ form' = [Loaded(form, db.disk) EXCEPT !.nav = Fresh]
    /\ UNCHANGED <<screen, db>>

(* Mutant: the session ends with a navigation of the router.                *)
EndSession_Navigates(f) == [f EXCEPT !.token = "none", !.path = "login", !.page = "home", !.nav = 0]

\* endSession: the token is gone at once, then the browser loads /login; until
\* it does the page and the requests it has made live on.
EndSession(f) == [f EXCEPT !.token = "none", !.path = "leaving"]

LogOut ==
    /\ InApp
    /\ form' = EndSession(form)
    /\ UNCHANGED <<screen, wire, db>>

-----------------------------------------------------------------------------
(* Pages.  The menu offers what the cached user may see; the page of an     *)
(* administrator asks the server who this is before it loads.               *)

Menu == IF RoleOf(form.me) = "admin" THEN {"home", "admin"} ELSE {"home"}

OpenAdminPage ==
    /\ InApp
    /\ "admin" \in Menu
    /\ Send("guard", form.token)
    /\ form' = [form EXCEPT !.nav = Fresh]
    /\ UNCHANGED <<screen, db>>

OpenHome ==
    /\ InApp
    /\ <<form.page, form.nav>> # <<"home", 0>>
    /\ form' = [form EXCEPT !.page = "home", !.nav = 0]
    /\ UNCHANGED <<screen, wire, db>>

\* requireAdmin: the page, or the way home.
GuardedPage(i) == IF wire[i].body = "admin" THEN "admin" ELSE "home"

\* Only the latest navigation counts.
GuardAnswers(i) ==
    /\ OnDevice
    /\ Drop(i)
    /\ form' = IF wire[i].live /\ i = form.nav
               THEN [form EXCEPT !.page = GuardedPage(i), !.nav = 0] ELSE form
    /\ UNCHANGED <<screen, db>>

-----------------------------------------------------------------------------
(* Queries.  A request goes out with the token of the moment.               *)

FetchMe ==
    /\ InApp
    /\ Send("me", form.token)
    /\ UNCHANGED <<screen, form, db>>

MeArrives(i) ==
    /\ OnDevice
    /\ Drop(i)
    /\ form' = IF wire[i].live THEN [form EXCEPT !.me = wire[i].body] ELSE form
    /\ UNCHANGED <<screen, db>>

\* A row of the stock list is expanded; cached rows show until fresh ones come.
FetchDrill ==
    /\ InApp
    /\ ~InFlight(form.asking)
    /\ Send("drill", [role |-> RoleOf(form.me), as |-> form.token])
    /\ form' = [form EXCEPT !.asking = Fresh]
    /\ UNCHANGED <<screen, db>>

DrillArrives(i) ==
    /\ OnDevice
    /\ Drop(i)
    /\ form' = IF wire[i].live
               THEN [form EXCEPT !.drill[wire[i].body.role] = wire[i].body.as,
                                 !.asking = IF @ = i THEN 0 ELSE @]
               ELSE form
    /\ UNCHANGED <<screen, db>>

RequestFails ==
    \/ OnDevice /\ DropUnanswered("login", "login")
    \/ OnDevice /\ DropUnanswered("drill", "asking")
    \/ OnDevice /\ DropUnanswered("me", "login")
    \/ OnDevice /\ DropUnanswered("guard", "nav")

\* The persister writes the cache, without the drill rows.
Persist ==
    /\ OnDevice /\ db.disk # form.me
    /\ db' = [db EXCEPT !.disk = form.me]
    /\ UNCHANGED <<screen, form, wire>>

DeviceNext ==
    \/ \E who \in People : LogIn(who)
    \/ LoadPage \/ LogOut \/ FetchMe \/ FetchDrill \/ RequestFails \/ Persist \/ OpenHome
    \/ LoadAdminPage \/ OpenAdminPage
    \/ \E i \in At("guard", "sent") : GuardAnswers(i)
    \/ \E i \in At("login", "sent") : LoggedIn(i)
    \/ \E i \in At("me", "sent") : MeArrives(i)
    \/ \E i \in At("drill", "sent") : DrillArrives(i)

DeviceSpec == DeviceInit /\ [][DeviceNext]_tabVars

-----------------------------------------------------------------------------
(* Whoever looks at the device sees what is his: cached rows of a drill-    *)
(* down were fetched by himself, although the role they are filed under     *)
(* may still be that of the person before; and a page of the administrator  *)
(* is on screen for an administrator alone, although the menu that leads    *)
(* there may be the one of the person before.  Answers arrive across        *)
(* logout, load and login.                                                  *)
EverybodySeesHisOwn ==
    InApp => /\ DrillRows \in {"none", form.token}
             /\ form.page = "admin" => form.token = "admin"
=============================================================================
