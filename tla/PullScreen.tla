----------------------------- MODULE PullScreen -----------------------------
(***************************************************************************)
(* The stock-request screen: a polled queue of project pulls, the panel    *)
(* that gives one out, and the form that asks for a new one.  The selected *)
(* pull is looked up in the page shown, so it can vanish under the user;   *)
(* the draft is kept apart from it.                                        *)
(***************************************************************************)
EXTENDS Tab

CONSTANTS Asks,       \* the lines of each pull: pull -> unit or part -> pieces asked for
          Elsewhere   \* bound: the pulls that another terminal may give out

Pulls == DOMAIN Asks
Lines(p) == DOMAIN Asks[p]
Asked == UNION {Lines(p) : p \in Pulls}

ASSUME PullAssumption ==
    \A p \in Pulls :
        /\ p # NoKey /\ Asks[p] \in [Lines(p) -> 1..MaxQty]
        /\ \A k \in Lines(p) \cap Units : Asks[p][k] = 1

EmptyDraft == [k \in {} |-> 0]

\* page: the state each pull had when the queue was fetched, if it is shown
PullForm == [mode |-> "queue", selected |-> NoKey,
             page |-> [p \in Pulls |-> "HIDDEN"], draft |-> EmptyDraft,
             lookup |-> 0, fulfil |-> 0, cancel |-> 0, lines |-> {}, adding |-> 0, create |-> 0]

\* stock: the units that are IN_STOCK; gone: those of each pull that were not when
\* it was settled; drafted: the lines this tab settled it with, or nothing
PullInit ==
    /\ screen = "pulls" /\ screen \in Mounted
    /\ form = PullForm
    /\ wire = <<>>
    /\ db = [state |-> [p \in Pulls |-> "PENDING"],
             given |-> [p \in Pulls |-> [k \in Lines(p) |-> 0]],
             gone |-> [p \in Pulls |-> {}],
             stock |-> Units,
             drafted |-> [p \in Pulls |-> {}]]

-----------------------------------------------------------------------------
(* The queue.                                                               *)

\* The 30-second poll, a focus, an invalidation: the PENDING filter or ALL.
PollQueue(all) ==
    /\ screen = "pulls"
    /\ form' = [form EXCEPT !.page = [p \in Pulls |->
                    IF all \/ db.state[p] = "PENDING" THEN db.state[p] ELSE "HIDDEN"]]
    /\ UNCHANGED <<screen, wire, db>>

Shown == {p \in Pulls : form.page[p] # "HIDDEN"}
SelectedPull == form.selected \in Shown
ShowsQueue == form.mode = "queue" /\ ~SelectedPull
ShowsPanel == form.mode = "queue" /\ SelectedPull

\* A pending pull starts from nothing given, a settled one from what went out.
SeedDraft(p) ==
    IF form.page[p] = "PENDING" THEN [k \in Lines(p) |-> 0] ELSE db.given[p]

Select(p) ==
    /\ screen = "pulls" /\ ShowsQueue
    /\ p \in Shown
    /\ form' = [form EXCEPT !.selected = p, !.draft = SeedDraft(p)]
    /\ UNCHANGED <<screen, wire, db>>

BackToQueue ==
    /\ screen = "pulls" /\ ~ShowsQueue
    /\ form' = [form EXCEPT !.mode = "queue", !.selected = NoKey, !.draft = EmptyDraft,
                             !.lines = {}]
    /\ UNCHANGED <<screen, wire, db>>

CancelPull(p) ==
    /\ screen = "pulls" /\ ShowsQueue
    /\ form.page[p] \in {"PENDING", "SHORT"}
    /\ ~InFlight(form.cancel)
    /\ Send("cancel", p)
    /\ form' = [form EXCEPT !.cancel = Fresh]
    /\ UNCHANGED <<screen, db>>

\* A fulfilled pull is not cancelled, which the tab hears as an error; one that was
\* cancelled already answers as if it had been now.
Cancel(i) ==
    /\ screen = "pulls"
    /\ db.state[wire[i].body] # "FULFILLED"
    /\ Settle(i, "ok")
    /\ db' = [db EXCEPT !.state[wire[i].body] = "CANCELLED"]
    /\ UNCHANGED <<screen, form>>

Cancelled(i) ==
    /\ screen = "pulls"
    /\ Drop(i)
    /\ form' = Idle(form, "cancel", i)
    /\ UNCHANGED <<screen, db>>

-----------------------------------------------------------------------------
(* Giving out.                                                              *)

ScanLine(k) ==
    /\ screen = "pulls" /\ ShowsPanel
    /\ Send("line", k)
    /\ form' = [form EXCEPT !.lookup = Fresh]
    /\ UNCHANGED <<screen, db>>

\* The scan counts for the pull selected when its answer comes.
ApplyScan(draft, k) ==
    IF SelectedPull /\ k \in Lines(form.selected)
    THEN [draft EXCEPT ![k] = IF @ < Asks[form.selected][k] THEN @ + 1 ELSE @]
    ELSE draft

LineFound(i) ==
    /\ screen = "pulls"
    /\ Drop(i)
    /\ form' = IF wire[i].live /\ i = form.lookup
               THEN [form EXCEPT !.draft = ApplyScan(@, wire[i].body), !.lookup = 0]
               ELSE form
    /\ UNCHANGED <<screen, db>>

CanFulfil == ShowsPanel /\ form.page[form.selected] = "PENDING" /\ ~InFlight(form.fulfil)

SetFulfilled(k, q) ==
    /\ screen = "pulls" /\ CanFulfil
    /\ k \in Lines(form.selected) /\ q \in 0..Asks[form.selected][k]
    /\ form' = [form EXCEPT !.draft[k] = q]
    /\ UNCHANGED <<screen, wire, db>>

\* Every line of the draft is named, 0 too.
BuildFulfillPayload == [pull |-> form.selected, lines |-> form.draft]

Fulfil ==
    /\ screen = "pulls" /\ CanFulfil
    /\ Send("fulfil", BuildFulfillPayload)
    /\ form' = [form EXCEPT !.fulfil = Fresh]
    /\ UNCHANGED <<screen, db>>

\* What a payload asks of a line: all of it, when it leaves the line out.
Wanted(p, lines, k) == IF k \in DOMAIN lines THEN lines[k] ELSE Asks[p][k]

Least(a, b) == IF a < b THEN a ELSE b

\* A unit that is no longer in stock ends SHORT, without a movement.
Allotted(p, lines) ==
    [k \in Lines(p) |-> CASE k \in Units \ db.stock -> 0
                          [] k \in Units \cap db.stock -> Least(Wanted(p, lines, k), 1)
                          [] OTHER -> Least(Wanted(p, lines, k), Asks[p][k])]

GivenUnits(p) == {k \in Lines(p) \cap Units : db.given[p][k] > 0}

\* A pending pull is settled by what it gives out.
SettlePull(p, given, drafted) ==
    db' = [db EXCEPT !.given[p] = given, !.drafted[p] = drafted,
                     !.state[p] = IF given = Asks[p] THEN "FULFILLED" ELSE "SHORT",
                     !.gone[p] = Lines(p) \cap (Units \ db.stock),
                     !.stock = db.stock \ {k \in Lines(p) : given[k] > 0}]

\* fulfill_project_pull: once, from PENDING.
GiveOut(i) ==
    LET p == wire[i].body.pull
        lines == wire[i].body.lines IN
    /\ screen = "pulls"
    /\ db.state[p] = "PENDING"
    /\ Settle(i, "ok")
    /\ SettlePull(p, Allotted(p, lines), {lines})
    /\ UNCHANGED <<screen, form>>

\* A pull that was settled before answers as if it had been now.
GaveOutBefore(i) ==
    /\ screen = "pulls"
    /\ db.state[wire[i].body.pull] \in {"FULFILLED", "SHORT"}
    /\ Settle(i, "ok")
    /\ UNCHANGED <<screen, form, db>>

(* Mutant: the selection stays.                                             *)
CloseAnyPull_DraftOnly(f) == [f EXCEPT !.draft = EmptyDraft]

\* onSuccess closes whatever pull is open by now, and its draft with it.
CloseAnyPull(f) == [f EXCEPT !.selected = NoKey, !.draft = EmptyDraft]

GivenOut(i) ==
    /\ screen = "pulls"
    /\ Drop(i)
    /\ form' = IF wire[i].live THEN CloseAnyPull(Idle(form, "fulfil", i)) ELSE form
    /\ UNCHANGED <<screen, db>>

\* Another terminal gives the pull out while this tab looks on.
SettledElsewhere(p) ==
    /\ screen = "pulls"
    /\ p \in Elsewhere /\ db.state[p] = "PENDING"
    /\ \E lines \in [Lines(p) -> 0..MaxQty] : SettlePull(p, Allotted(p, lines), {})
    /\ UNCHANGED <<screen, form, wire>>

\* While a pull waits for it, a unit is sold or written off, or a sale of it is
\* returned; what a pull gave out does not come back.
UnitMoves(k) ==
    /\ screen = "pulls"
    /\ \E p \in Pulls : db.state[p] = "PENDING" /\ k \in Lines(p)
    /\ \A p \in Pulls : k \notin GivenUnits(p)
    /\ db' = [db EXCEPT !.stock = IF k \in @ THEN @ \ {k} ELSE @ \cup {k}]
    /\ UNCHANGED <<screen, form, wire>>

-----------------------------------------------------------------------------
(* Asking for stock.  The lines of a request are dead once its form is      *)
(* closed, New empties them: they are kept empty from then on.              *)

NewRequest ==
    /\ screen = "pulls" /\ ShowsQueue
    /\ form' = [form EXCEPT !.mode = "create", !.lines = {}]
    /\ UNCHANGED <<screen, wire, db>>

AddPart(k) ==
    /\ screen = "pulls" /\ form.mode = "create"
    /\ ~InFlight(form.adding)
    /\ form' = [form EXCEPT !.lines = @ \cup {k}]
    /\ UNCHANGED <<screen, wire, db>>

\* A serialized product: its units in stock are fetched, less those present.
AskUnits ==
    /\ screen = "pulls" /\ form.mode = "create"
    /\ ~InFlight(form.adding)
    /\ Send("units", Units \ form.lines)
    /\ form' = [form EXCEPT !.adding = Fresh]
    /\ UNCHANGED <<screen, db>>

\* The oldest are claimed, in whatever request is open by now.
UnitsArrive(i, take) ==
    /\ screen = "pulls"
    /\ take \subseteq wire[i].body
    /\ Drop(i)
    /\ form' = IF wire[i].live /\ form.mode = "create"
               THEN [Idle(form, "adding", i) EXCEPT !.lines = @ \cup take]
               ELSE Idle(form, "adding", i)
    /\ UNCHANGED <<screen, db>>

RemoveRequestLine(k) ==
    /\ screen = "pulls" /\ form.mode = "create"
    /\ k \in form.lines
    /\ form' = [form EXCEPT !.lines = @ \ {k}]
    /\ UNCHANGED <<screen, wire, db>>

BuildCreatePayload == form.lines

CreatePull ==
    /\ screen = "pulls" /\ form.mode = "create"
    /\ form.lines # {} /\ ~InFlight(form.create)
    /\ Send("create", BuildCreatePayload)
    /\ form' = [form EXCEPT !.create = Fresh]
    /\ UNCHANGED <<screen, db>>

RecordPull(i) ==
    /\ screen = "pulls"
    /\ Settle(i, "ok")
    /\ UNCHANGED <<screen, form, db>>

PullCreated(i) ==
    /\ screen = "pulls"
    /\ Drop(i)
    /\ form' = IF wire[i].live THEN [Idle(form, "create", i) EXCEPT !.mode = "queue", !.lines = {}] ELSE form
    /\ UNCHANGED <<screen, db>>

AskFailed(to, hook) == screen = "pulls" /\ DropUnanswered(to, hook)

LeavePulls == screen = "pulls" /\ Remount([PullForm EXCEPT !.page = form.page])

PullNext ==
    \/ \E all \in BOOLEAN : PollQueue(all)
    \/ \E p \in Pulls : Select(p) \/ CancelPull(p) \/ SettledElsewhere(p)
    \/ BackToQueue \/ Fulfil \/ NewRequest \/ AskUnits \/ CreatePull \/ LeavePulls
    \/ \E k \in Asked : ScanLine(k)
    \/ \E k \in Asked \cap Units : UnitMoves(k)
    \/ \E k \in Units \cup Parts : RemoveRequestLine(k)
    \/ \E k \in Parts : AddPart(k)
    \/ \E k \in Asked, q \in 0..MaxQty : SetFulfilled(k, q)
    \/ \E i \in At("line", "sent") : LineFound(i)
    \/ \E i \in At("cancel", "sent") : Cancel(i)
    \/ \E i \in At("cancel", "ok") : Cancelled(i)
    \/ \E i \in At("fulfil", "sent") : GiveOut(i) \/ GaveOutBefore(i)
    \/ \E i \in At("fulfil", "ok") : GivenOut(i)
    \/ \E i \in At("units", "sent"), take \in SUBSET Units : UnitsArrive(i, take)
    \/ \E i \in At("create", "sent") : RecordPull(i)
    \/ \E i \in At("create", "ok") : PullCreated(i)
    \/ AskFailed("fulfil", "fulfil") \/ AskFailed("line", "lookup") \/ AskFailed("cancel", "cancel")
    \/ AskFailed("units", "adding") \/ AskFailed("create", "create")

PullSpec == PullInit /\ [][PullNext]_tabVars

-----------------------------------------------------------------------------
(* What leaves the store for a pull is what the picker confirmed for it,    *)
(* less the units that were no longer in stock.  The server gives out in    *)
(* full every line a payload leaves out, so the draft on screen must name   *)
(* every line of the pull on screen, and nothing else, however its answers, *)
(* polls and selections interleave with the tills and other terminals.      *)
GivesOutWhatWasDrafted ==
    screen = "pulls" =>
    /\ ShowsPanel => DOMAIN form.draft = Lines(form.selected)
    /\ \A i \in At("fulfil", "sent") : DOMAIN wire[i].body.lines = Lines(wire[i].body.pull)
    /\ \A p \in Pulls : \A lines \in db.drafted[p] :
           db.given[p] = [k \in Lines(p) |-> IF k \in db.gone[p] THEN 0 ELSE lines[k]]
=============================================================================
