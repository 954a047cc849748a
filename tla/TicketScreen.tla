---------------------------- MODULE TicketScreen ----------------------------
(***************************************************************************)
(* The service-ticket screen: scan repair parts, close the ticket.  One    *)
(* idempotency key serves every attempt of a visit until a close succeeds, *)
(* and the form stays editable all along.                                  *)
(***************************************************************************)
EXTENDS Tab

TicketForm(key) == [parts |-> [p \in Parts |-> 0], catalog |-> FALSE,
                    lookup |-> 0, ticket |-> 0, key |-> key]

\* db.tickets names the request a key's ticket was recorded from, 0 for none.
TicketInit ==
    /\ screen = "ticket" /\ screen \in Mounted
    /\ form = TicketForm(1)
    /\ wire = <<>>
    /\ db = [tickets |-> [k \in 1..MaxRequests[screen] + 1 |-> 0]]

\* The products query answers; until then no SKU is a known part.
CatalogLoads ==
    /\ screen = "ticket" /\ ~form.catalog
    /\ form' = [form EXCEPT !.catalog = TRUE]
    /\ UNCHANGED <<screen, wire, db>>

ScanPart(p) ==
    /\ screen = "ticket"
    /\ Send("part", p)
    /\ form' = [form EXCEPT !.lookup = Fresh]
    /\ UNCHANGED <<screen, db>>

AddScanToParts(parts, p) ==
    IF form.catalog THEN [parts EXCEPT ![p] = @ + 1] ELSE parts

PartFound(i) ==
    /\ screen = "ticket"
    /\ form.parts[wire[i].body] < MaxQty
    /\ Drop(i)
    /\ form' = IF wire[i].live /\ i = form.lookup
               THEN [form EXCEPT !.parts = AddScanToParts(@, wire[i].body), !.lookup = 0]
               ELSE form
    /\ UNCHANGED <<screen, db>>

\* A unit, a serialized SKU, an unknown code or an error: a notice at most.
PartRefused == screen = "ticket" /\ DropUnanswered("part", "lookup")

\* The quantity buttons, and the bin.
SetPart(p, q) ==
    /\ screen = "ticket"
    /\ form.parts[p] > 0
    /\ form' = [form EXCEPT !.parts[p] = q]
    /\ UNCHANGED <<screen, wire, db>>

SetPartQuantity(p) == \E q \in 1..MaxQty : SetPart(p, q)
RemovePart(p) == SetPart(p, 0)

(* Mutant: every attempt takes a new key.                                   *)
AttemptKey_Fresh == Fresh

\* The key outlives a failed attempt.
AttemptKey == form.key

BuildTicketSubmission == [parts |-> form.parts, key |-> AttemptKey]

\* A customer and an issue are required, parts are not.
CloseTicket ==
    /\ screen = "ticket"
    /\ ~InFlight(form.ticket)
    /\ Send("tickets", BuildTicketSubmission)
    /\ form' = [form EXCEPT !.ticket = Fresh]
    /\ UNCHANGED <<screen, db>>

\* The key decides: a known one answers with the ticket it recorded.
RecordTicket(i) ==
    LET key == wire[i].body.key IN
    /\ screen = "ticket"
    /\ Settle(i, "ok")
    /\ db' = [db EXCEPT !.tickets[key] = IF @ = 0 THEN i ELSE @]
    /\ UNCHANGED <<screen, form>>

\* onSuccess clears the form as it is now and takes a new key.
ClearAndRotate(f) == [f EXCEPT !.parts = [p \in Parts |-> 0], !.key = @ + 1]

TicketClosed(i) ==
    /\ screen = "ticket"
    /\ Settle(i, "over")
    /\ form' = IF wire[i].live THEN ClearAndRotate(Idle(form, "ticket", i)) ELSE form
    /\ UNCHANGED <<screen, db>>

TicketFailed == screen = "ticket" /\ Lose("tickets", "ticket")

LeaveTicket == screen = "ticket" /\ Remount(TicketForm(form.key + 1))

TicketNext ==
    \/ CatalogLoads \/ CloseTicket \/ PartRefused \/ TicketFailed \/ LeaveTicket
    \/ \E p \in Parts : ScanPart(p) \/ SetPartQuantity(p) \/ RemovePart(p)
    \/ \E i \in At("part", "sent") : PartFound(i)
    \/ \E i \in At("tickets", "sent") : RecordTicket(i)
    \/ \E i \in At("tickets", "ok") : TicketClosed(i)

TicketSpec == TicketInit /\ [][TicketNext]_tabVars

-----------------------------------------------------------------------------
Recorded == {i \in Sent("tickets") : db.tickets[wire[i].body.key] = i}

(* While the screen stays mounted a repair draws its parts once: a second   *)
(* ticket is recorded only after the screen has heard that the first one    *)
(* closed, whatever answers were lost in between.                           *)
OneTicketPerRepair ==
    screen = "ticket" =>
    \A i, j \in Recorded : i < j /\ wire[i].live /\ wire[j].live =>
        \E m \in At("tickets", "over") : wire[m].body.key = wire[i].body.key
=============================================================================
