----------------------------- MODULE FormScreen -----------------------------
(***************************************************************************)
(* The forms: dialogs that create or edit a record and pages that take an  *)
(* entry.  Two fields stand for all of them, one that is required and one  *)
(* that may be blank.  A form differs from another in what "Forms" says    *)
(* of it: when its payload is read, what it sends of a blank or untouched  *)
(* field, whether it can be edited while its request is on the way, and    *)
(* what success and dismissal do to it.                                    *)
(***************************************************************************)
EXTENDS Tab

Fields == {"name", "note"}
Blank == [f \in Fields |-> 0]

\* How a record reads at first; 0 is blank, others put 2 in one field.
Original == [f \in Fields |-> 1]

FormTraits(kind, traits) ==
    [kind |-> kind, vars |-> "vars" \in traits, omits |-> "omits" \in traits,
     diff |-> "diff" \in traits, edits |-> "edits" \in traits,
     locked |-> "locked" \in traits, dirty |-> "dirty" \in traits,
     forgets |-> "forgets" \in traits, follows |-> "follows" \in traits,
     scans |-> "scans" \in traits]

\* kind: a dialog that creates, a dialog on a row, an entry form, a page on
\* records, the profile.
\* vars: mutate() is handed the payload; otherwise mutationFn reads the draft.
\* omits: a blank field is left out.  diff: a field as last fetched is left out.
\* edits: the fields edited are kept apart and they alone are sent.
\* locked: no editing while pending.  dirty: nothing to save until changed.
\* forgets: dismissal resets the draft.  follows: untouched fields show what a
\* refetch brings.
\* scans: what was scanned stays beside the draft until it is added to it.

\* What the builders of the request bodies do to a draft.
BuildCustomerPayload == {"omits"}
BuildProductPayload == {"omits"}
BuildProductUpdate == {}
BuildProjectPayload == {}
BuildProjectUpdate == {}
BuildSupplierPayload == {"omits"}
BuildReceipt == {}
BuildAdjustmentPayload == {"omits"}
BuildReturnPayload == {}
BuildBulkMinStockUpdate == {"omits", "diff"}

\* What the controls on the screen decide: what can be edited while a save is on
\* its way, when there is something to save, and what dismissal leaves.
CustomerControls == {"forgets"}
QuickCustomerControls == {"forgets"}
ProductControls == {"forgets"}
ProductEditControls == {"dirty"}
ProjectControls == {"forgets"}
ProjectEditControls == {"dirty"}
SupplierControls == {"forgets"}
SupplierEditControls == {"dirty"}
PieceControls == {"locked", "scans"}
QuantityControls == {"locked"}
LevelControls == {"dirty"}
PreferenceControls == {"dirty", "locked"}
ProfileControls == {"dirty", "forgets"}

\* The forms.
CustomerCreate == FormTraits("create", BuildCustomerPayload \cup CustomerControls)
CustomerQuickCreate == FormTraits("create", BuildCustomerPayload \cup QuickCustomerControls)
CustomerEdit == FormTraits("edit", BuildCustomerPayload)
ProductCreate == FormTraits("create", BuildProductPayload \cup {"vars"} \cup ProductControls)
ProductEdit == FormTraits("edit", BuildProductUpdate \cup ProductEditControls)
ProjectCreate == FormTraits("create", BuildProjectPayload \cup {"vars"} \cup ProjectControls)
ProjectEdit == FormTraits("edit", BuildProjectUpdate \cup ProjectEditControls)
SupplierCreate == FormTraits("create", BuildSupplierPayload \cup {"vars"} \cup SupplierControls)
SupplierEdit == FormTraits("edit", BuildSupplierPayload \cup SupplierEditControls)
AddUser == FormTraits("create", {"vars"})
EditUser == FormTraits("edit", {"vars"})
ReceiveSerialized == FormTraits("entry", BuildReceipt \cup {"vars"} \cup PieceControls)
ReceiveQuantity == FormTraits("entry", BuildReceipt \cup {"vars"} \cup QuantityControls)
Adjustment == FormTraits("entry", BuildAdjustmentPayload)
SaleReturn == FormTraits("entry", BuildReturnPayload \cup {"vars"})
LowStock == FormTraits("page", BuildBulkMinStockUpdate \cup {"vars", "follows"} \cup LevelControls)
Notifications == FormTraits("page", {"vars", "edits", "follows"} \cup PreferenceControls)
UserInformation == FormTraits("profile", {"vars", "diff"} \cup ProfileControls)
ChangePassword == FormTraits("entry", {"vars"})
RecoverPassword == FormTraits("entry", {"vars"})
ResetPassword == FormTraits("entry", {"vars"})

Forms == [customerCreate |-> CustomerCreate, customerQuick |-> CustomerQuickCreate,
          customerEdit |-> CustomerEdit, productCreate |-> ProductCreate,
          productEdit |-> ProductEdit, projectCreate |-> ProjectCreate,
          projectEdit |-> ProjectEdit, supplierCreate |-> SupplierCreate,
          supplierEdit |-> SupplierEdit, addUser |-> AddUser, editUser |-> EditUser,
          receive |-> ReceiveSerialized, receiveQuantity |-> ReceiveQuantity,
          adjust |-> Adjustment, saleReturn |-> SaleReturn, lowStock |-> LowStock,
          notifications |-> Notifications, profile |-> UserInformation,
          password |-> ChangePassword, recover |-> RecoverPassword, reset |-> ResetPassword]

OnForm == screen \in DOMAIN Forms
ThisForm == Forms[screen]
Shared == OnForm /\ ThisForm.kind \in {"edit", "page", "profile"}

\* What a form shows at first, and again after a reset.
Start(kind) == IF kind \in {"page", "profile"} THEN Original ELSE Blank

\* base: the record as last fetched; touched: the fields edited since; scan: the
\* serial scanned or typed that was not added yet.
FormInit ==
    LET kind == Forms[screen].kind IN
    /\ screen \in DOMAIN Forms \cap Mounted
    /\ form = [open |-> kind \in {"entry", "page"}, draft |-> Start(kind),
               base |-> Start(kind), touched |-> {}, scan |-> 0, req |-> 0]
    /\ wire = <<>>
    /\ db = [online |-> TRUE, record |-> Original]

-----------------------------------------------------------------------------
(* What a form sends.                                                       *)

\* The required fields are filled in.
Complete(draft) == draft["name"] # 0

\* A blank field is sent as null, unless blanks are left out.
Payload(f) ==
    [g \in {h \in Fields : /\ ThisForm.omits => f.draft[h] # 0
                           /\ ThisForm.diff => f.draft[h] # f.base[h]
                           /\ ThisForm.edits => h \in f.touched} |-> f.draft[g]]

\* The fields of a record after a payload was applied to it.
Applied(pay, record) == [f \in Fields |-> IF f \in DOMAIN pay THEN pay[f] ELSE record[f]]

(* Mutant: every mutation reads the draft.                                  *)
FollowDraft_Always(requests, f) ==
    IF f.req = 0 THEN requests
    ELSE IF requests[f.req].st # "paused" THEN requests
    ELSE [requests EXCEPT ![f.req].body.pay = Payload(f)]

\* A mutation that reads the draft follows it while it waits to be sent.
FollowDraft(requests, f) ==
    IF ThisForm.vars \/ f.req = 0 THEN requests
    ELSE IF requests[f.req].st # "paused" THEN requests
    ELSE [requests EXCEPT ![f.req].body.pay = Payload(f)]

-----------------------------------------------------------------------------
(* The dialog and its fields.                                               *)

\* An edit dialog reads its row when it opens.
OpenForm ==
    /\ OnForm /\ ~form.open
    /\ form' = IF ThisForm.kind = "edit"
               THEN [form EXCEPT !.open = TRUE, !.draft = db.record, !.base = db.record]
               ELSE [form EXCEPT !.open = TRUE]
    /\ UNCHANGED <<screen, wire, db>>

\* An edit dialog goes away with its mutation, others stay mounted.
DismissForm ==
    /\ OnForm /\ form.open
    /\ \/ /\ ThisForm.kind = "edit"
          /\ form' = [form EXCEPT !.open = FALSE, !.req = 0]
          /\ wire' = [i \in DOMAIN wire |-> [wire[i] EXCEPT !.live = FALSE]]
       \/ /\ ThisForm.kind \in {"create", "profile"}
          /\ ThisForm.kind = "profile" => ~InFlight(form.req)
          /\ form' = [form EXCEPT !.open = FALSE,
                                  !.draft = IF ThisForm.forgets THEN Start(ThisForm.kind) ELSE @]
          /\ wire' = FollowDraft(wire, form')
    /\ UNCHANGED <<screen, db>>

(* Mutant: no control is disabled.                                          *)
Editable_Always == TRUE

\* Entry controls are disabled, or guarded, while the request is open.
Editable == ThisForm.locked => ~InFlight(form.req)

TypeField(f, v) ==
    /\ OnForm /\ form.open
    /\ v # form.draft[f]
    /\ ThisForm.scans /\ f = "name" => v = 0
    /\ Editable
    /\ form' = [form EXCEPT !.draft[f] = v,
                            !.touched = IF ~ThisForm.follows THEN {}
                                        ELSE IF ThisForm.edits /\ v = form.base[f]
                                        THEN @ \ {f} ELSE @ \cup {f}]
    /\ wire' = FollowDraft(wire, form')
    /\ UNCHANGED <<screen, db>>

\* Scanning is not disabled while the request is open.
ScanSerial(v) ==
    /\ OnForm /\ ThisForm.scans
    /\ v # form.scan
    /\ form' = [form EXCEPT !.scan = v]
    /\ UNCHANGED <<screen, wire, db>>

AddPiece ==
    /\ OnForm /\ ThisForm.scans
    /\ form.scan # 0
    /\ Editable
    /\ form' = [form EXCEPT !.draft["name"] = form.scan, !.scan = 0]
    /\ UNCHANGED <<screen, wire, db>>

(* Mutant: the fields keep what they showed.                                *)
Refreshed_KeepsDraft(f, record) == [f EXCEPT !.base = record]

\* Edits stay, what is not edited shows the record.
Refreshed(f, record) ==
    [f EXCEPT !.base = record,
              !.draft = [g \in Fields |-> IF ThisForm.follows /\ g \notin f.touched
                                          THEN record[g] ELSE @[g]]]

\* A refetch of what a page or the profile edits.
Reload ==
    /\ OnForm /\ ThisForm.kind \in {"page", "profile"}
    /\ form.base # db.record
    /\ form' = Refreshed(form, db.record)
    /\ UNCHANGED <<screen, wire, db>>

-----------------------------------------------------------------------------
(* The button and its request.                                              *)

HasChanges == IF ThisForm.follows THEN DOMAIN Payload(form) # {}
              ELSE form.draft # (IF ThisForm.kind = "profile" THEN Original ELSE form.base)

\* Offline a mutation waits until the browser is online again.
Press ==
    /\ OnForm /\ form.open
    /\ Complete(form.draft)
    /\ ThisForm.dirty => HasChanges
    /\ ~InFlight(form.req)
    /\ SendAs("save", [pay |-> Payload(form), meant |-> form.draft, base |-> form.base,
                       touched |-> form.touched, waited |-> ~db.online],
              IF db.online THEN "sent" ELSE "paused")
    /\ form' = [form EXCEPT !.req = Fresh]
    /\ UNCHANGED <<screen, db>>

Connection ==
    /\ OnForm
    /\ db' = [db EXCEPT !.online = ~@]
    /\ UNCHANGED <<screen, form, wire>>

Resume(i) ==
    /\ OnForm /\ db.online
    /\ Settle(i, "sent")
    /\ UNCHANGED <<screen, form, db>>

ServeForm(i) ==
    /\ OnForm /\ db.online
    /\ Settle(i, "ok")
    /\ db' = IF Shared THEN [db EXCEPT !.record = Applied(wire[i].body.pay, @)] ELSE db
    /\ UNCHANGED <<screen, form>>

\* onSuccess: dialogs close, entries start over, and a serial scanned meanwhile
\* with them, pages drop their edits.
Succeed(f) ==
    CASE ThisForm.kind \in {"create", "edit"} -> [f EXCEPT !.open = FALSE, !.draft = Blank]
      [] ThisForm.kind = "entry" -> [f EXCEPT !.draft = Blank, !.scan = 0]
      [] ThisForm.kind = "page" -> [f EXCEPT !.draft = f.base, !.touched = {}]
      [] ThisForm.kind = "profile" -> [f EXCEPT !.open = FALSE]

FormHeard(i) ==
    /\ OnForm
    /\ Settle(i, "over")
    /\ form' = IF wire[i].live THEN Succeed(Idle(form, "req", i)) ELSE form
    /\ UNCHANGED <<screen, db>>

FormFails == OnForm /\ Lose("save", "req")

OthersEdit(f) ==
    /\ Shared
    /\ db.record[f] = 1
    /\ db' = [db EXCEPT !.record[f] = 2]
    /\ UNCHANGED <<screen, form, wire>>

FormNext ==
    \/ OpenForm \/ DismissForm \/ Reload \/ Press \/ Connection \/ FormFails
    \/ OthersEdit("note")
    \/ \E f \in Fields, v \in 0..1 : TypeField(f, v)
    \/ \E v \in 0..1 : ScanSerial(v)
    \/ AddPiece
    \/ \E i \in At("save", "paused") : Resume(i)
    \/ \E i \in At("save", "sent") : ServeForm(i)
    \/ \E i \in At("save", "ok") : FormHeard(i)

FormSpec == FormInit /\ [][FormNext]_tabVars

-----------------------------------------------------------------------------
(* What a save writes is what the form showed when its button was pressed:  *)
(* every field of it, a cleared one too, whatever was typed, dismissed or   *)
(* opened since.  Two kinds of form are left out, and lose it: those that   *)
(* leave out blanks cannot clear a field of a record, and those that read   *)
(* the draft late write another one when they had to wait offline.          *)
SavesWhatWasShown ==
    OnForm => \A i \in Sent("save") :
        LET body == wire[i].body IN
        \/ Applied(body.pay, body.base) = body.meant
        \/ ThisForm.omits /\ Shared
        \/ ~ThisForm.vars /\ body.waited

(* A page that shows what others change, beside the edits made on it, saves *)
(* those edits alone: it does not put back what others changed meanwhile.   *)
SavesOnlyWhatWasEdited ==
    OnForm /\ ThisForm.follows => \A i \in Sent("save") :
        DOMAIN wire[i].body.pay \subseteq wire[i].body.touched

(* A form that locks its fields loses nothing of them to a late answer: the *)
(* edits that success is going to clear are the ones that were sent.  The   *)
(* scan of the serialized receipt, with the cost typed for it, is beside    *)
(* them: it can change meanwhile, no payload holds it, and success clears   *)
(* it.                                                                      *)
LockedFormKeepsItsDraft ==
    OnForm /\ ThisForm.locked /\ InFlight(form.req) =>
        LET pay == wire[form.req].body.pay IN
        \A f \in (IF ThisForm.follows THEN form.touched ELSE Fields) :
            f \in DOMAIN pay /\ pay[f] = form.draft[f]
=============================================================================
