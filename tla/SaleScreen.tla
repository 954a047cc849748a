----------------------------- MODULE SaleScreen -----------------------------
(***************************************************************************)
(* The counter-sale screen: scan items into a cart, ask for a price        *)
(* override on a line, check out.  The server prices a sale and checks an  *)
(* override's product, not the line it was asked for: two units of one     *)
(* product are told apart by this screen alone.                            *)
(***************************************************************************)
EXTENDS Tab

SaleKeys == Units \cup Parts

Approved == {"AUTO_APPROVED", "APPROVED"}

\* One line per key: qty 0 is no line, ov names the override request, 0 is none.
NoLine == [qty |-> 0, ov |-> 0, state |-> "NONE"]

SaleForm == [cart |-> [k \in SaleKeys |-> NoLine], lookup |-> 0, dialog |-> NoKey, price |-> 0, sale |-> 0]

SaleInit ==
    /\ screen = "sale" /\ screen \in Mounted
    /\ form = SaleForm
    /\ wire = <<>>
    /\ db = [override |-> [i \in 1..MaxRequests[screen] |-> "NONE"], sales |-> {}]

InCart(k) == form.cart[k].qty > 0
Waiting == \E k \in SaleKeys : form.cart[k].state = "PENDING"

\* The override dialog is modal and is open while the line it names is there.
DialogOpen == form.dialog \in {k \in SaleKeys : InCart(k)}
PageFree == screen = "sale" /\ ~DialogOpen

-----------------------------------------------------------------------------
(* Scanning.  The lookup is a mutation: scanning again replaces the request *)
(* the hook observes, and only the observed one's result reaches the cart.  *)

AddScan(cart, k) ==
    IF cart[k].qty = 0 \/ k \in Parts THEN [cart EXCEPT ![k].qty = @ + 1] ELSE cart

ScanItem(k) ==
    /\ PageFree
    /\ Send("lookup", k)
    /\ form' = [form EXCEPT !.lookup = Fresh]
    /\ UNCHANGED <<screen, db>>

ScanFound(i) ==
    LET k == wire[i].body IN
    /\ screen = "sale"
    /\ form.cart[k].qty < MaxQty
    /\ Drop(i)
    /\ form' = IF wire[i].live /\ i = form.lookup
               THEN [form EXCEPT !.cart = AddScan(@, k), !.lookup = 0] ELSE form
    /\ UNCHANGED <<screen, db>>

\* 404, a serialized product's SKU, or a failed lookup: only a notice is shown.
ScanRefused ==
    /\ screen = "sale"
    /\ DropUnanswered("lookup", "lookup")

-----------------------------------------------------------------------------
(* Editing the cart.                                                        *)

SetLineQuantity(k, q) ==
    /\ PageFree
    /\ k \in Parts /\ InCart(k)
    /\ form' = [form EXCEPT !.cart[k].qty = q]
    /\ UNCHANGED <<screen, wire, db>>

RemoveLine(k) ==
    /\ PageFree
    /\ InCart(k)
    /\ form' = [form EXCEPT !.cart[k] = NoLine]
    /\ UNCHANGED <<screen, wire, db>>

-----------------------------------------------------------------------------
(* Price overrides.                                                         *)

ApplyOverride(cart, k, id, state) ==
    IF cart[k].qty = 0 THEN cart ELSE [cart EXCEPT ![k].ov = id, ![k].state = state]

ClearOverride(cart, k) == [cart EXCEPT ![k].ov = 0, ![k].state = "NONE"]

PriceClick(k) ==
    /\ PageFree
    /\ InCart(k)
    /\ form.cart[k].state # "PENDING"
    /\ form' = [form EXCEPT !.dialog = k]
    /\ UNCHANGED <<screen, wire, db>>

CloseDialog ==
    /\ screen = "sale"
    /\ DialogOpen
    /\ form' = [form EXCEPT !.dialog = NoKey]
    /\ UNCHANGED <<screen, wire, db>>

SavePrice ==
    /\ screen = "sale"
    /\ DialogOpen
    /\ ~InFlight(form.price)
    /\ Send("override", form.dialog)
    /\ form' = [form EXCEPT !.price = Fresh]
    /\ UNCHANGED <<screen, db>>

\* Within the deviation threshold the server approves at once.
ServeOverride(i, state) ==
    /\ screen = "sale"
    /\ state \in {"AUTO_APPROVED", "PENDING"}
    /\ Settle(i, "ok")
    /\ db' = [db EXCEPT !.override[i] = state]
    /\ UNCHANGED <<screen, form>>

(* Mutant: the line of the dialog that is open is repriced.                 *)
Repriced_OpenLine(f, i, state) ==
    IF f.dialog = NoKey THEN f
    ELSE [f EXCEPT !.cart = ApplyOverride(@, f.dialog, i, state), !.dialog = NoKey]

\* The line the request was made for is repriced; whatever dialog is open closes.
Repriced(f, i, state) ==
    [f EXCEPT !.cart = ApplyOverride(@, wire[i].body, i, state), !.dialog = NoKey]

\* The answer tells the state at creation, the administrator may have moved on.
OverrideCreated(i) ==
    LET created == IF db.override[i] = "AUTO_APPROVED" THEN "AUTO_APPROVED" ELSE "PENDING" IN
    /\ screen = "sale"
    /\ Settle(i, "over")
    /\ form' = IF wire[i].live THEN Repriced(Idle(form, "price", i), i, created) ELSE form
    /\ UNCHANGED <<screen, db>>

OverrideFailed ==
    /\ screen = "sale"
    /\ Lose("override", "price")

Decide(i, state) ==
    /\ screen = "sale"
    /\ db.override[i] = "PENDING"
    /\ state \in {"APPROVED", "REJECTED"}
    /\ db' = [db EXCEPT !.override[i] = state]
    /\ UNCHANGED <<screen, form, wire>>

\* The four-second poll of a line that waits.
Poll(k) ==
    LET id == form.cart[k].ov
        decided == db.override[id] IN
    /\ screen = "sale"
    /\ form.cart[k].state = "PENDING"
    /\ decided # "PENDING"
    /\ form' = [form EXCEPT !.cart = IF decided = "APPROVED"
                                     THEN ApplyOverride(@, k, id, decided)
                                     ELSE ClearOverride(@, k)]
    /\ UNCHANGED <<screen, wire, db>>

-----------------------------------------------------------------------------
(* Checkout, once a customer is picked.                                     *)

\* Only an approved override is cited.
BuildSale(cart) ==
    [k \in SaleKeys |->
        [qty |-> cart[k].qty, ov |-> IF cart[k].state \in Approved THEN cart[k].ov ELSE 0]]

Checkout ==
    /\ PageFree
    /\ \E k \in SaleKeys : InCart(k)
    /\ ~InFlight(form.sale)
    /\ ~Waiting
    /\ Send("sales", BuildSale(form.cart))
    /\ form' = [form EXCEPT !.sale = Fresh]
    /\ UNCHANGED <<screen, db>>

\* The server sells a unit once and lets an override price one line.
Sellable(body) ==
    \A k \in SaleKeys : body[k].qty > 0 =>
        \A s \in db.sales :
            /\ k \in Units => wire[s].body[k].qty = 0
            /\ body[k].ov # 0 => \A m \in SaleKeys : wire[s].body[m].ov # body[k].ov

RecordSale(i) ==
    /\ screen = "sale"
    /\ Sellable(wire[i].body)
    /\ Settle(i, "ok")
    /\ db' = [db EXCEPT !.sales = @ \cup {i}]
    /\ UNCHANGED <<screen, form>>

\* onSuccess empties the cart as it is now.
SaleCompleted(i) ==
    /\ screen = "sale"
    /\ Settle(i, "over")
    /\ form' = IF ~wire[i].live THEN form
               ELSE [Idle(form, "sale", i) EXCEPT !.cart = [k \in SaleKeys |-> NoLine], !.dialog = NoKey]
    /\ UNCHANGED <<screen, db>>

SaleFailed ==
    /\ screen = "sale"
    /\ Lose("sales", "sale")

LeaveSale == screen = "sale" /\ Remount(SaleForm)

SaleNext ==
    \/ \E k \in SaleKeys : ScanItem(k) \/ RemoveLine(k) \/ PriceClick(k) \/ Poll(k)
    \/ \E k \in SaleKeys, q \in 1..MaxQty : SetLineQuantity(k, q)
    \/ CloseDialog \/ SavePrice \/ Checkout \/ LeaveSale
    \/ ScanRefused \/ OverrideFailed \/ SaleFailed
    \/ \E i \in At("lookup", "sent") : ScanFound(i)
    \/ \E i \in At("override", "sent"), s \in {"AUTO_APPROVED", "PENDING"} : ServeOverride(i, s)
    \/ \E i \in At("override", "ok") : OverrideCreated(i)
    \/ \E i \in Sent("override"), s \in {"APPROVED", "REJECTED"} : Decide(i, s)
    \/ \E i \in At("sales", "sent") : RecordSale(i)
    \/ \E i \in At("sales", "ok") : SaleCompleted(i)

SaleSpec == SaleInit /\ [][SaleNext]_tabVars

-----------------------------------------------------------------------------
(* An override prices the line it was asked for and no other, and a sale    *)
(* cites it only once the server approved it, however late the answer to    *)
(* the request arrives and whatever line's dialog is open by then.          *)
OverridePricesItsLine ==
    screen = "sale" =>
    /\ \A k \in SaleKeys : form.cart[k].ov # 0 =>
          /\ wire[form.cart[k].ov].to = "override"
          /\ wire[form.cart[k].ov].body = k
          /\ form.cart[k].state \in Approved =>
                db.override[form.cart[k].ov] = form.cart[k].state
    /\ \A i \in Sent("sales") : \A k \in SaleKeys :
          LET id == wire[i].body[k].ov IN
          id # 0 => wire[id].body = k /\ db.override[id] \in Approved
=============================================================================
