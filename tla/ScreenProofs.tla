----------------------------- MODULE ScreenProofs -----------------------------
(***************************************************************************)
(* What the screens of a terminal keep for any number of requests, lost,   *)
(* late or overtaken, and any number of units, parts, pulls and fields.    *)
(***************************************************************************)
EXTENDS SaleScreen, TicketScreen, PullScreen, SharedDevice, ListScreen, FormScreen, DatePicker, TLAPS

(***************************************************************************)
(* The wire                                                                *)
(***************************************************************************)
Fields4(r) == [to |-> r.to, body |-> r.body, st |-> r.st, live |-> r.live]

\* A sequence of requests, whatever their bodies.
WireOK == /\ \E S : wire \in Seq(S)
          /\ \A i \in 1..Len(wire) : wire[i] = Fields4(wire[i])

LEMMA WireLen == ASSUME WireOK PROVE Len(wire) \in Nat /\ DOMAIN wire = 1..Len(wire)
BY DEF WireOK

LEMMA WireEmpty == ASSUME wire = <<>> PROVE WireOK /\ Len(wire) = 0
<1>1. wire \in Seq({})
  OBVIOUS
<1> QED  BY <1>1 DEF WireOK

(* One more request, the others as they were.                               *)
LEMMA Requested ==
    ASSUME WireOK, NEW to, NEW body, NEW st, SendAs(to, body, st)
    PROVE  /\ WireOK' /\ Len(wire') = Len(wire) + 1
           /\ \A i \in 1..Len(wire) : wire'[i] = wire[i]
           /\ wire'[Fresh] = [to |-> to, body |-> body, st |-> st, live |-> TRUE]
<1> DEFINE new == [to |-> to, body |-> body, st |-> st, live |-> TRUE]
<1>1. PICK S : wire \in Seq(S)
  BY DEF WireOK
<1>2. wire \in Seq(S \cup {new})
  BY <1>1
<1>3. wire' = Append(wire, new)
  BY DEF SendAs
<1>4. new = Fields4(new)
  BY DEF Fields4
<1> HIDE DEF new
<1>5. /\ wire' \in Seq(S \cup {new}) /\ Len(wire') = Len(wire) + 1
      /\ \A i \in 1..Len(wire) : wire'[i] = wire[i]
      /\ wire'[Len(wire) + 1] = new
  BY <1>2, <1>3
<1>6. WireOK'
  <2>1. ASSUME NEW i \in 1..Len(wire') PROVE wire'[i] = Fields4(wire'[i])
    <3>1. i \in 1..Len(wire) \/ i = Len(wire) + 1
      BY <1>5, WireLen
    <3> QED  BY <1>4, <1>5, <3>1 DEF WireOK
  <2> QED  BY <1>5, <2>1 DEF WireOK
<1> QED  BY <1>5, <1>6 DEF Fresh, new

(* One request moves on, the others stay as they were.                      *)
LEMMA Moved ==
    ASSUME WireOK, NEW i \in 1..Len(wire), NEW r, r = Fields4(r), wire' = [wire EXCEPT ![i] = r]
    PROVE  /\ WireOK' /\ Len(wire') = Len(wire)
           /\ \A j \in 1..Len(wire) : wire'[j] = IF j = i THEN r ELSE wire[j]
<1>1. PICK S : wire \in Seq(S)
  BY DEF WireOK
<1>2. wire \in Seq(S \cup {r})
  BY <1>1
<1>3. wire' \in Seq(S \cup {r}) /\ Len(wire') = Len(wire)
  BY <1>2
<1>4. \A j \in 1..Len(wire) : wire'[j] = IF j = i THEN r ELSE wire[j]
  BY <1>1
<1> QED  BY <1>3, <1>4 DEF WireOK

LEMMA SettledRequest ==
    ASSUME WireOK, NEW i \in 1..Len(wire), NEW st, Settle(i, st)
    PROVE  /\ WireOK' /\ Len(wire') = Len(wire)
           /\ \A j \in 1..Len(wire) : j # i => wire'[j] = wire[j]
           /\ wire'[i].to = wire[i].to /\ wire'[i].body = wire[i].body
           /\ wire'[i].live = wire[i].live /\ wire'[i].st = st
<1> DEFINE r == [to |-> wire[i].to, body |-> wire[i].body, st |-> st, live |-> wire[i].live]
<1>1. wire[i] = Fields4(wire[i])
  BY DEF WireOK
<1>2. [wire[i] EXCEPT !.st = st] = r
  BY <1>1 DEF Fields4
<1>3. wire' = [wire EXCEPT ![i] = r]
  BY <1>2 DEF Settle
<1>4. r = Fields4(r)
  BY DEF Fields4
<1>5. /\ WireOK' /\ Len(wire') = Len(wire)
      /\ \A j \in 1..Len(wire) : wire'[j] = IF j = i THEN r ELSE wire[j]
  <2> HIDE DEF r
  <2> QED  BY <1>3, <1>4, Moved
<1>6. wire'[i] = r
  BY <1>5
<1> QED  BY <1>5, <1>6

LEMMA DroppedRequest ==
    ASSUME WireOK, NEW i \in 1..Len(wire), Drop(i)
    PROVE  /\ WireOK' /\ Len(wire') = Len(wire)
           /\ \A j \in 1..Len(wire) : j # i => wire'[j] = wire[j]
           /\ wire'[i].to = wire[i].to /\ wire'[i].live = FALSE /\ wire'[i].st = "over"
<1> DEFINE r == [to |-> wire[i].to, body |-> NoKey, st |-> "over", live |-> FALSE]
<1>1. wire' = [wire EXCEPT ![i] = r]
  BY DEF Drop
<1>2. r = Fields4(r)
  BY DEF Fields4
<1>3. /\ WireOK' /\ Len(wire') = Len(wire)
      /\ \A j \in 1..Len(wire) : wire'[j] = IF j = i THEN r ELSE wire[j]
  <2> HIDE DEF r
  <2> QED  BY <1>1, <1>2, Moved
<1>4. wire'[i] = r
  BY <1>3
<1> QED  BY <1>3, <1>4

LEMMA LiveIs ==
    ASSUME NEW r, r = Fields4(r), NEW v
    PROVE  [r EXCEPT !.live = v] = [to |-> r.to, body |-> r.body, st |-> r.st, live |-> v]
BY DEF Fields4

(* The screen is left: nobody acts on the answers any more.                 *)
LEMMA Silenced ==
    ASSUME WireOK, NEW w, w = [i \in DOMAIN wire |-> [wire[i] EXCEPT !.live = FALSE]]
    PROVE  /\ \E S : w \in Seq(S)
           /\ Len(w) = Len(wire)
           /\ \A i \in 1..Len(wire) :
                 /\ w[i] = Fields4(w[i])
                 /\ w[i].to = wire[i].to /\ w[i].body = wire[i].body
                 /\ w[i].st = wire[i].st /\ w[i].live = FALSE
<1>1. DOMAIN wire = 1..Len(wire) /\ Len(wire) \in Nat
  BY WireLen
<1>2. ASSUME NEW i \in 1..Len(wire)
      PROVE  w[i] = [to |-> wire[i].to, body |-> wire[i].body, st |-> wire[i].st, live |-> FALSE]
  <2>1. wire[i] = Fields4(wire[i])
    BY DEF WireOK
  <2>2. [wire[i] EXCEPT !.live = FALSE]
          = [to |-> wire[i].to, body |-> wire[i].body, st |-> wire[i].st, live |-> FALSE]
    BY <2>1, LiveIs
  <2> QED  BY <1>1, <2>2
<1> DEFINE S == {[wire[i] EXCEPT !.live = FALSE] : i \in 1..Len(wire)}
<1>3. w \in [1..Len(wire) -> S]
  BY <1>1
<1> HIDE DEF S
<1>4. w \in Seq(S) /\ Len(w) = Len(wire)
  <2>1. PICK n \in Nat : n = Len(wire)
    BY <1>1
  <2>2. w \in [1..n -> S]
    BY <1>3, <2>1
  <2>3. w \in Seq(S)
    BY <2>2
  <2>4. Len(w) = n
    BY <2>2, <2>3
  <2> QED  BY <2>1, <2>3, <2>4
<1>5. ASSUME NEW i \in 1..Len(wire)
      PROVE  /\ w[i] = Fields4(w[i])
             /\ w[i].to = wire[i].to /\ w[i].body = wire[i].body
             /\ w[i].st = wire[i].st /\ w[i].live = FALSE
  <2> DEFINE r == [to |-> wire[i].to, body |-> wire[i].body, st |-> wire[i].st, live |-> FALSE]
  <2>1. r = Fields4(r)
    BY DEF Fields4
  <2>2. w[i] = r
    BY <1>2
  <2>3. w[i] = Fields4(w[i])
    BY <2>1, <2>2
  <2> QED  BY <2>2, <2>3
<1> QED  BY <1>4, <1>5

LEMMA Unmounted ==
    ASSUME WireOK, wire' = [i \in DOMAIN wire |-> [wire[i] EXCEPT !.live = FALSE]]
    PROVE  /\ WireOK' /\ Len(wire') = Len(wire)
           /\ \A i \in 1..Len(wire) :
                 /\ wire'[i].to = wire[i].to /\ wire'[i].body = wire[i].body
                 /\ wire'[i].st = wire[i].st /\ wire'[i].live = FALSE
<1>1. PICK w : w = wire' /\ w = [i \in DOMAIN wire |-> [wire[i] EXCEPT !.live = FALSE]]
  OBVIOUS
<1>2. /\ \E S : w \in Seq(S)
      /\ Len(w) = Len(wire)
      /\ \A i \in 1..Len(wire) :
            /\ w[i] = Fields4(w[i])
            /\ w[i].to = wire[i].to /\ w[i].body = wire[i].body
            /\ w[i].st = wire[i].st /\ w[i].live = FALSE
  BY <1>1, Silenced
<1> QED  BY <1>1, <1>2 DEF WireOK

(***************************************************************************)
(* Service tickets                                                         *)
(***************************************************************************)
(* The form of the ticket screen has its fields.                            *)
TicketFormOK ==
    /\ {"parts", "catalog", "lookup", "ticket", "key"} \subseteq DOMAIN form
    /\ form.key \in Nat

TicketOf(i) == i \in 1..Len(wire) /\ wire[i].to = "tickets"

\* One attempt is out at a time and has the key of the form.
OneAttempt ==
    \A i \in 1..Len(wire) : TicketOf(i) /\ wire[i].live /\ wire[i].st \in Open =>
        i = form.ticket /\ wire[i].body.key = form.key

\* Keys only grow, and one that was turned belongs to a close that was heard.
KeysTurnWhenHeard ==
    /\ \A i \in 1..Len(wire) : TicketOf(i) => wire[i].body.key \in Nat /\ wire[i].body.key <= form.key
    /\ \A i, j \in 1..Len(wire) : TicketOf(i) /\ TicketOf(j) /\ i < j => wire[i].body.key <= wire[j].body.key
    /\ \A i \in 1..Len(wire) : TicketOf(i) /\ wire[i].live /\ wire[i].body.key < form.key =>
          \E m \in 1..Len(wire) : TicketOf(m) /\ wire[m].st = "over" /\ wire[m].body.key = wire[i].body.key

TicketInv == screen = "ticket" /\ WireOK /\ TicketFormOK /\ OneAttempt /\ KeysTurnWhenHeard
-----------------------------------------------------------------------------
LEMMA TicketInit_Inv == TicketInit => TicketInv
<1> SUFFICES ASSUME TicketInit PROVE TicketInv
  OBVIOUS
<1>1. WireOK /\ Len(wire) = 0
  BY WireEmpty DEF TicketInit
<1>2. TicketFormOK
  BY DEF TicketInit, TicketForm, TicketFormOK
<1> QED  BY <1>1, <1>2 DEF TicketInv, OneAttempt, KeysTurnWhenHeard, TicketOf, TicketInit

(* A step that changes no attempt.                                          *)
LEMMA TicketsKept ==
    ASSUME TicketInv, UNCHANGED screen, WireOK', TicketFormOK',
           Len(wire') \in Nat, Len(wire) <= Len(wire'),
           \A i \in 1..Len(wire) :
              /\ wire'[i].to = wire[i].to
              /\ TicketOf(i) => wire'[i] = wire[i],
           \A i \in 1..Len(wire') : i > Len(wire) => wire'[i].to # "tickets",
           form'.ticket = form.ticket, form'.key = form.key
    PROVE  TicketInv'
<1>1. \A i \in 1..Len(wire') :
        TicketOf(i)' => TicketOf(i) /\ wire'[i] = wire[i]
  BY WireLen DEF TicketOf, TicketInv
<1>2. \A i \in 1..Len(wire) : TicketOf(i) => TicketOf(i)' /\ i \in 1..Len(wire')
  BY WireLen DEF TicketOf, TicketInv
<1>3. OneAttempt'
  BY <1>1 DEF TicketInv, OneAttempt, TicketOf
<1>4. KeysTurnWhenHeard'
  <2>1. \A i \in 1..Len(wire') : TicketOf(i)' => wire'[i].body.key \in Nat /\ wire'[i].body.key <= form'.key
    BY <1>1 DEF TicketInv, KeysTurnWhenHeard, TicketOf
  <2>2. \A i, j \in 1..Len(wire') :
          TicketOf(i)' /\ TicketOf(j)' /\ i < j => wire'[i].body.key <= wire'[j].body.key
    BY <1>1 DEF TicketInv, KeysTurnWhenHeard, TicketOf
  <2>3. ASSUME NEW i \in 1..Len(wire'), TicketOf(i)', wire'[i].live, wire'[i].body.key < form'.key
        PROVE  \E m \in 1..Len(wire') :
                  TicketOf(m)' /\ wire'[m].st = "over" /\ wire'[m].body.key = wire'[i].body.key
    <3>1. TicketOf(i) /\ wire'[i] = wire[i] /\ i \in 1..Len(wire)
      BY <1>1, <2>3 DEF TicketOf
    <3>2. PICK m \in 1..Len(wire) : TicketOf(m) /\ wire[m].st = "over" /\ wire[m].body.key = wire[i].body.key
      BY <2>3, <3>1 DEF TicketInv, KeysTurnWhenHeard
    <3> QED  BY <1>2, <3>1, <3>2
  <2> QED  BY <2>1, <2>2, <2>3 DEF KeysTurnWhenHeard
<1> QED  BY <1>3, <1>4 DEF TicketInv

(* An attempt changes its state; the key stays.                             *)
LEMMA AttemptMoves ==
    ASSUME TicketInv, NEW i \in 1..Len(wire), TicketOf(i), NEW st, Settle(i, st),
           wire[i].st \in Open,
           UNCHANGED screen, TicketFormOK', form'.key = form.key,
           \/ form'.ticket = form.ticket
           \/ form.ticket = i /\ st \notin Open
    PROVE  TicketInv'
<1>1. /\ WireOK' /\ Len(wire') = Len(wire)
      /\ \A j \in 1..Len(wire) : j # i => wire'[j] = wire[j]
      /\ wire'[i].to = wire[i].to /\ wire'[i].body = wire[i].body
      /\ wire'[i].live = wire[i].live /\ wire'[i].st = st
  BY SettledRequest DEF TicketInv
<1>2. \A j \in 1..Len(wire) : /\ TicketOf(j)' <=> TicketOf(j)
                              /\ wire'[j].body = wire[j].body /\ wire'[j].live = wire[j].live
                              /\ wire[j].st = "over" => wire'[j].st = "over"
  BY <1>1 DEF TicketOf, Open
<1>3. OneAttempt'
  <2> SUFFICES ASSUME NEW j \in 1..Len(wire), TicketOf(j), wire[j].live, wire'[j].st \in Open
               PROVE  j = form'.ticket /\ wire[j].body.key = form.key
    BY <1>1, <1>2 DEF OneAttempt
  <2>1. wire[j].st \in Open
    BY <1>1
  <2>2. j = form.ticket /\ wire[j].body.key = form.key
    BY <2>1 DEF TicketInv, OneAttempt
  <2> QED  BY <1>1, <2>2
<1>4. KeysTurnWhenHeard'
  <2>1. \A j \in 1..Len(wire') : TicketOf(j)' => wire'[j].body.key \in Nat /\ wire'[j].body.key <= form'.key
    BY <1>1, <1>2 DEF TicketInv, KeysTurnWhenHeard
  <2>2. \A j, k \in 1..Len(wire') :
          TicketOf(j)' /\ TicketOf(k)' /\ j < k => wire'[j].body.key <= wire'[k].body.key
    BY <1>1, <1>2 DEF TicketInv, KeysTurnWhenHeard
  <2>3. \A j \in 1..Len(wire') : TicketOf(j)' /\ wire'[j].live /\ wire'[j].body.key < form'.key =>
          \E m \in 1..Len(wire') : TicketOf(m)' /\ wire'[m].st = "over" /\ wire'[m].body.key = wire'[j].body.key
    BY <1>1, <1>2 DEF TicketInv, KeysTurnWhenHeard
  <2> QED  BY <2>1, <2>2, <2>3 DEF KeysTurnWhenHeard
<1> QED  BY <1>1, <1>3, <1>4 DEF TicketInv

(* Another attempt takes the key of the form.                               *)
LEMMA CloseTicket_Inv == ASSUME TicketInv, CloseTicket PROVE TicketInv'
<1>1. /\ SendAs("tickets", BuildTicketSubmission, "sent") /\ ~InFlight(form.ticket)
      /\ form' = [form EXCEPT !.ticket = Fresh] /\ UNCHANGED screen
  BY DEF CloseTicket, Send
<1>2. /\ WireOK' /\ Len(wire') = Len(wire) + 1 /\ Len(wire) \in Nat
      /\ \A i \in 1..Len(wire) : wire'[i] = wire[i]
      /\ wire'[Len(wire) + 1] = [to |-> "tickets", body |-> BuildTicketSubmission, st |-> "sent", live |-> TRUE]
  BY <1>1, Requested, WireLen DEF TicketInv, Fresh
<1>3. /\ wire'[Len(wire) + 1].to = "tickets" /\ wire'[Len(wire) + 1].body.key = form.key
      /\ wire'[Len(wire) + 1].st = "sent"
  BY <1>2 DEF BuildTicketSubmission, AttemptKey
<1>4. TicketFormOK' /\ form'.key = form.key /\ form'.ticket = Len(wire) + 1
  BY <1>1 DEF TicketInv, TicketFormOK, Fresh
<1>5. \A i \in 1..Len(wire') : i \in 1..Len(wire) \/ i = Len(wire) + 1
  BY <1>2
<1>6. \A i \in 1..Len(wire) : TicketOf(i)' <=> TicketOf(i)
  BY <1>2 DEF TicketOf
<1>7. \A i \in 1..Len(wire) : TicketOf(i) /\ wire[i].live => wire[i].st \notin Open
  BY <1>1 DEF TicketInv, OneAttempt, InFlight
<1>8. OneAttempt'
  BY <1>2, <1>3, <1>4, <1>5, <1>6, <1>7 DEF OneAttempt
<1>9. KeysTurnWhenHeard'
  <2>0. form.key \in Nat
    BY DEF TicketInv, TicketFormOK
  <2>1. \A i \in 1..Len(wire') : TicketOf(i)' => wire'[i].body.key \in Nat /\ wire'[i].body.key <= form'.key
    BY <1>2, <1>3, <1>4, <1>5, <1>6, <2>0 DEF TicketInv, KeysTurnWhenHeard
  <2>2. ASSUME NEW i \in 1..Len(wire'), NEW j \in 1..Len(wire'), TicketOf(i)', TicketOf(j)', i < j
        PROVE  wire'[i].body.key <= wire'[j].body.key
    <3>1. i \in 1..Len(wire)
      BY <1>2, <2>2
    <3>2. TicketOf(i) /\ wire'[i] = wire[i] /\ wire[i].body.key <= form.key
      BY <1>2, <1>6, <2>2, <3>1 DEF TicketInv, KeysTurnWhenHeard
    <3>3. CASE j = Len(wire) + 1
      BY <1>3, <3>2, <3>3
    <3>4. CASE j \in 1..Len(wire)
      BY <1>2, <1>6, <2>2, <3>1, <3>2, <3>4 DEF TicketInv, KeysTurnWhenHeard
    <3> QED  BY <1>5, <3>3, <3>4
  <2>3. ASSUME NEW i \in 1..Len(wire'), TicketOf(i)', wire'[i].live, wire'[i].body.key < form'.key
        PROVE  \E m \in 1..Len(wire') :
                  TicketOf(m)' /\ wire'[m].st = "over" /\ wire'[m].body.key = wire'[i].body.key
    <3>1. i \in 1..Len(wire)
      BY <1>3, <1>4, <1>5, <2>0, <2>3
    <3>2. PICK m \in 1..Len(wire) : TicketOf(m) /\ wire[m].st = "over" /\ wire[m].body.key = wire[i].body.key
      BY <1>2, <1>4, <1>6, <2>3, <3>1 DEF TicketInv, KeysTurnWhenHeard
    <3>3. m \in 1..Len(wire')
      BY <1>2
    <3> QED  BY <1>2, <1>6, <3>1, <3>2, <3>3
  <2> QED  BY <2>1, <2>2, <2>3 DEF KeysTurnWhenHeard
<1> QED  BY <1>1, <1>2, <1>4, <1>8, <1>9 DEF TicketInv

(* The close is heard: the form takes a new key if it still is the one that *)
(* asked.                                                                   *)
LEMMA TicketClosed_Inv == ASSUME TicketInv, NEW i \in At("tickets", "ok"), TicketClosed(i) PROVE TicketInv'
<1>1. /\ Settle(i, "over") /\ UNCHANGED screen
      /\ form' = IF wire[i].live THEN ClearAndRotate(Idle(form, "ticket", i)) ELSE form
      /\ i \in 1..Len(wire) /\ TicketOf(i) /\ wire[i].st = "ok"
  BY DEF TicketClosed, At, Sent, TicketOf
<1>2. CASE ~wire[i].live
  <2>1. form' = form
    BY <1>1, <1>2
  <2>2. TicketFormOK' /\ form'.ticket = form.ticket /\ form'.key = form.key
    BY <2>1 DEF TicketInv, TicketFormOK
  <2> QED  BY <1>1, <2>2, AttemptMoves DEF Open
<1>3. CASE wire[i].live
  <2>1. i = form.ticket /\ wire[i].body.key = form.key
    BY <1>1, <1>3 DEF TicketInv, OneAttempt, Open
  <2>2. /\ WireOK' /\ Len(wire') = Len(wire)
        /\ \A j \in 1..Len(wire) : j # i => wire'[j] = wire[j]
        /\ wire'[i].to = wire[i].to /\ wire'[i].body = wire[i].body
        /\ wire'[i].live = wire[i].live /\ wire'[i].st = "over"
    BY <1>1, SettledRequest DEF TicketInv
  <2>3. TicketFormOK' /\ form'.key = form.key + 1
    <3>1. PICK f : f = Idle(form, "ticket", i)
      OBVIOUS
    <3>2. DOMAIN f = DOMAIN form /\ f.key = form.key
      BY <3>1 DEF TicketInv, TicketFormOK, Idle
    <3>3. PICK none : form' = [f EXCEPT !.parts = none, !.key = f.key + 1]
      BY <1>1, <1>3, <3>1 DEF ClearAndRotate
    <3>4. DOMAIN form' = DOMAIN f
      BY <3>3
    <3>5. form'.key = f.key + 1
      BY <3>2, <3>3 DEF TicketInv, TicketFormOK
    <3> QED  BY <3>2, <3>4, <3>5 DEF TicketInv, TicketFormOK
  <2>4. \A j \in 1..Len(wire) : /\ TicketOf(j)' <=> TicketOf(j)
                                /\ wire'[j].body = wire[j].body /\ wire'[j].live = wire[j].live
                                /\ wire[j].st = "over" => wire'[j].st = "over"
    BY <2>2 DEF TicketOf
  <2>5. OneAttempt'
    <3> SUFFICES ASSUME NEW j \in 1..Len(wire), TicketOf(j), wire[j].live, wire'[j].st \in Open PROVE FALSE
      BY <2>2, <2>4 DEF OneAttempt
    <3>1. j # i
      BY <2>2 DEF Open
    <3> QED  BY <2>1, <2>2, <3>1 DEF TicketInv, OneAttempt
  <2>6. KeysTurnWhenHeard'
    <3>0. form.key \in Nat
      BY DEF TicketInv, TicketFormOK
    <3>1. \A j \in 1..Len(wire') : TicketOf(j)' => wire'[j].body.key \in Nat /\ wire'[j].body.key <= form'.key
      BY <2>2, <2>3, <2>4, <3>0 DEF TicketInv, KeysTurnWhenHeard
    <3>2. \A j, k \in 1..Len(wire') :
            TicketOf(j)' /\ TicketOf(k)' /\ j < k => wire'[j].body.key <= wire'[k].body.key
      BY <2>2, <2>4 DEF TicketInv, KeysTurnWhenHeard
    <3>3. ASSUME NEW j \in 1..Len(wire'), TicketOf(j)', wire'[j].live, wire'[j].body.key < form'.key
          PROVE  \E m \in 1..Len(wire') :
                    TicketOf(m)' /\ wire'[m].st = "over" /\ wire'[m].body.key = wire'[j].body.key
      <4>1. j \in 1..Len(wire) /\ TicketOf(j) /\ wire[j].live /\ wire'[j].body = wire[j].body
        BY <2>2, <2>4, <3>3
      <4>2. wire[j].body.key \in Nat /\ wire[j].body.key <= form.key
        BY <4>1 DEF TicketInv, KeysTurnWhenHeard
      <4>3. CASE wire[j].body.key = form.key
        BY <1>1, <2>1, <2>2, <2>4, <4>1, <4>3
      <4>4. CASE wire[j].body.key < form.key
        <5>1. PICK m \in 1..Len(wire) : TicketOf(m) /\ wire[m].st = "over" /\ wire[m].body.key = wire[j].body.key
          BY <4>1, <4>4 DEF TicketInv, KeysTurnWhenHeard
        <5> QED  BY <2>2, <2>4, <4>1, <5>1
      <4> QED  BY <3>0, <4>2, <4>3, <4>4
    <3> QED  BY <3>1, <3>2, <3>3 DEF KeysTurnWhenHeard
  <2> QED  BY <1>1, <2>2, <2>3, <2>5, <2>6 DEF TicketInv
<1> QED  BY <1>2, <1>3

(* Leaving forgets the attempts and turns the key.                          *)
LEMMA LeaveTicket_Inv == ASSUME TicketInv, LeaveTicket PROVE TicketInv'
<1>1. /\ form' = TicketForm(form.key + 1) /\ UNCHANGED screen
      /\ wire' = [i \in DOMAIN wire |-> [wire[i] EXCEPT !.live = FALSE]]
  BY DEF LeaveTicket, Remount
<1>2. /\ WireOK' /\ Len(wire') = Len(wire)
      /\ \A i \in 1..Len(wire) :
            /\ wire'[i].to = wire[i].to /\ wire'[i].body = wire[i].body
            /\ wire'[i].st = wire[i].st /\ wire'[i].live = FALSE
  BY <1>1, Unmounted DEF TicketInv
<1>3. TicketFormOK' /\ form'.key = form.key + 1 /\ form.key \in Nat
  BY <1>1 DEF TicketForm, TicketInv, TicketFormOK
<1>4. \A i \in 1..Len(wire) : TicketOf(i)' <=> TicketOf(i)
  BY <1>2 DEF TicketOf
<1>5. OneAttempt'
  BY <1>2 DEF OneAttempt
<1>6. KeysTurnWhenHeard'
  <2>1. \A j \in 1..Len(wire') : TicketOf(j)' => wire'[j].body.key \in Nat /\ wire'[j].body.key <= form'.key
    BY <1>2, <1>3, <1>4 DEF TicketInv, KeysTurnWhenHeard
  <2>2. \A j, k \in 1..Len(wire') :
          TicketOf(j)' /\ TicketOf(k)' /\ j < k => wire'[j].body.key <= wire'[k].body.key
    BY <1>2, <1>4 DEF TicketInv, KeysTurnWhenHeard
  <2>3. \A j \in 1..Len(wire') : ~wire'[j].live
    BY <1>2
  <2> QED  BY <2>1, <2>2, <2>3 DEF KeysTurnWhenHeard
<1> QED  BY <1>1, <1>2, <1>3, <1>5, <1>6 DEF TicketInv

LEMMA TicketNext_Inv == ASSUME TicketInv, [TicketNext]_tabVars PROVE TicketInv'
<1>0. /\ screen = "ticket" /\ WireOK /\ Len(wire) \in Nat /\ TicketFormOK
      /\ \A i \in 1..Len(wire) : i <= Len(wire)
  BY WireLen DEF TicketInv
<1>1. CASE UNCHANGED tabVars
  BY <1>1 DEF tabVars, TicketInv, WireOK, TicketFormOK, OneAttempt, KeysTurnWhenHeard, TicketOf
<1>2. ASSUME WireOK', Len(wire') = Len(wire), UNCHANGED screen, TicketFormOK',
             form'.ticket = form.ticket, form'.key = form.key,
             NEW i \in 1..Len(wire), wire[i].to # "tickets", wire'[i].to = wire[i].to,
             \A j \in 1..Len(wire) : j # i => wire'[j] = wire[j]
      PROVE  TicketInv'
  <2>1. \A j \in 1..Len(wire) : wire'[j].to = wire[j].to /\ (TicketOf(j) => wire'[j] = wire[j])
    BY <1>2 DEF TicketOf
  <2> QED  BY <1>0, <1>2, <2>1, TicketsKept
<1>3. ASSUME UNCHANGED <<screen, wire>>, TicketFormOK', form'.ticket = form.ticket, form'.key = form.key
      PROVE  TicketInv'
  <2>1. WireOK'
    BY <1>0, <1>3 DEF WireOK
  <2> QED  BY <1>0, <1>3, <2>1, TicketsKept
<1>4. CASE CatalogLoads \/ \E p \in Parts : SetPartQuantity(p) \/ RemovePart(p)
  <2>1. /\ UNCHANGED <<screen, wire>>
        /\ \/ form' = [form EXCEPT !.catalog = TRUE]
           \/ \E p \in Parts : \E q : form' = [form EXCEPT !.parts[p] = q]
    BY <1>4 DEF CatalogLoads, SetPartQuantity, RemovePart, SetPart
  <2>2. TicketFormOK' /\ form'.ticket = form.ticket /\ form'.key = form.key
    BY <1>0, <2>1 DEF TicketFormOK
  <2> QED  BY <1>3, <2>1, <2>2
<1>5. CASE \E p \in Parts : ScanPart(p)
  <2>1. PICK p : SendAs("part", p, "sent") /\ form' = [form EXCEPT !.lookup = Fresh] /\ UNCHANGED screen
    BY <1>5 DEF ScanPart, Send
  <2>2. /\ WireOK' /\ Len(wire') = Len(wire) + 1
        /\ \A i \in 1..Len(wire) : wire'[i] = wire[i]
        /\ wire'[Len(wire) + 1] = [to |-> "part", body |-> p, st |-> "sent", live |-> TRUE]
    BY <1>0, <2>1, Requested DEF Fresh
  <2>3. TicketFormOK' /\ form'.ticket = form.ticket /\ form'.key = form.key
    BY <1>0, <2>1 DEF TicketFormOK
  <2>4. \A i \in 1..Len(wire') : i > Len(wire) => wire'[i].to # "tickets"
    BY <1>0, <2>2
  <2> QED  BY <1>0, <2>1, <2>2, <2>3, <2>4, TicketsKept
<1>6. CASE PartRefused \/ \E i \in At("part", "sent") : PartFound(i)
  <2>1. PICK i \in 1..Len(wire) : wire[i].to = "part" /\ Drop(i)
    BY <1>6 DEF PartRefused, DropUnanswered, PartFound, At, Sent
  <2>2. /\ WireOK' /\ Len(wire') = Len(wire)
        /\ \A j \in 1..Len(wire) : j # i => wire'[j] = wire[j]
        /\ wire'[i].to = wire[i].to
    BY <1>0, <2>1, DroppedRequest
  <2>3. /\ UNCHANGED screen
        /\ \/ \E j : form' = Idle(form, "lookup", j)
           \/ \E parts : form' = [form EXCEPT !.parts = parts, !.lookup = 0]
           \/ form' = form
    <3>1. CASE PartRefused
      BY <3>1 DEF PartRefused, DropUnanswered
    <3>2. CASE \E j \in At("part", "sent") : PartFound(j)
      BY <3>2 DEF PartFound
    <3> QED  BY <1>6, <3>1, <3>2
  <2>4. TicketFormOK' /\ form'.ticket = form.ticket /\ form'.key = form.key
    BY <1>0, <2>3 DEF TicketFormOK, Idle
  <2> QED  BY <1>2, <2>1, <2>2, <2>3, <2>4
<1>7. CASE \E i \in At("tickets", "sent") : RecordTicket(i)
  <2>1. PICK i \in 1..Len(wire) : /\ TicketOf(i) /\ wire[i].st = "sent" /\ Settle(i, "ok")
                                  /\ UNCHANGED <<screen, form>>
    BY <1>7 DEF RecordTicket, At, Sent, TicketOf
  <2>2. TicketFormOK' /\ form'.ticket = form.ticket /\ form'.key = form.key
    BY <1>0, <2>1 DEF TicketFormOK
  <2> QED  BY <2>1, <2>2, AttemptMoves DEF Open
<1>8. CASE TicketFailed
  <2>1. PICK i \in 1..Len(wire) : /\ TicketOf(i) /\ wire[i].st \in {"sent", "ok"} /\ Settle(i, "lost")
                                  /\ UNCHANGED screen /\ form' = Idle(form, "ticket", i)
    BY <1>8 DEF TicketFailed, Lose, Sent, TicketOf
  <2>2. /\ TicketFormOK' /\ form'.key = form.key
        /\ form'.ticket = IF form.ticket = i THEN 0 ELSE form.ticket
    BY <1>0, <2>1 DEF TicketFormOK, Idle
  <2> QED  BY <2>1, <2>2, AttemptMoves DEF Open
<1>9. CASE CloseTicket \/ LeaveTicket \/ \E i \in At("tickets", "ok") : TicketClosed(i)
  BY <1>9, CloseTicket_Inv, LeaveTicket_Inv, TicketClosed_Inv
<1> QED  BY <1>1, <1>4, <1>5, <1>6, <1>7, <1>8, <1>9 DEF TicketNext

(* However answers are lost, late or overtaken, and however often the       *)
(* screen is left, a visit records a second ticket only after it heard that *)
(* the first closed: the key of an attempt turns with a heard close alone.  *)
THEOREM OneTicketPerVisit == TicketSpec => []OneTicketPerRepair
<1>1. TicketInv => OneTicketPerRepair
  <2> SUFFICES ASSUME TicketInv, NEW i \in Recorded, NEW j \in Recorded, i < j,
                      wire[i].live, wire[j].live
               PROVE  \E m \in At("tickets", "over") : wire[m].body.key = wire[i].body.key
    BY DEF OneTicketPerRepair
  <2>1. i \in 1..Len(wire) /\ j \in 1..Len(wire) /\ TicketOf(i) /\ TicketOf(j) /\ i # j
    BY WireLen DEF Recorded, Sent, TicketOf, TicketInv
  <2>2. wire[i].body.key # wire[j].body.key
    BY <2>1 DEF Recorded
  <2>3. /\ wire[i].body.key \in Nat /\ wire[j].body.key \in Nat /\ form.key \in Nat
        /\ wire[i].body.key <= wire[j].body.key /\ wire[j].body.key <= form.key
    BY <2>1 DEF TicketInv, KeysTurnWhenHeard, TicketFormOK
  <2>4. wire[i].body.key < form.key
    BY <2>2, <2>3
  <2>5. PICK m \in 1..Len(wire) : TicketOf(m) /\ wire[m].st = "over" /\ wire[m].body.key = wire[i].body.key
    BY <2>1, <2>4 DEF TicketInv, KeysTurnWhenHeard
  <2> QED  BY <2>5 DEF At, Sent, TicketOf
<1>2. TicketSpec => []TicketInv
  BY TicketInit_Inv, TicketNext_Inv, PTL DEF TicketSpec
<1> QED  BY <1>1, <1>2, PTL

(***************************************************************************)
(* Counter sales                                                           *)
(***************************************************************************)
LineStates == {"NONE", "PENDING", "AUTO_APPROVED", "APPROVED"}
OverrideStates == LineStates \cup {"REJECTED"}

SaleLine == [qty : Nat, ov : Nat, state : LineStates]

SaleForms == [cart : [SaleKeys -> SaleLine], lookup : Nat, dialog : SaleKeys \cup {NoKey},
              price : Nat, sale : Nat]

SaleDb == [override : [1..MaxRequests[screen] -> OverrideStates], sales : SUBSET Nat]

SaleTypes ==
    /\ form \in SaleForms
    /\ db \in SaleDb
    /\ Len(wire) <= MaxRequests[screen]

\* In w, request id is for an override on line k and its answer was heard.
Heard(w, id, k) == id \in 1..Len(w) /\ w[id].to = "override" /\ w[id].st = "over" /\ w[id].body = k

CartHeard ==
    \A k \in SaleKeys : form.cart[k].ov # 0 =>
        /\ Heard(wire, form.cart[k].ov, k)
        /\ form.cart[k].state \in Approved => db.override[form.cart[k].ov] = form.cart[k].state

SalesHeard ==
    \A i \in 1..Len(wire) : wire[i].to = "sales" =>
        \A k \in SaleKeys : wire[i].body[k].ov # 0 =>
            Heard(wire, wire[i].body[k].ov, k) /\ db.override[wire[i].body[k].ov] \in Approved

SaleInv == /\ screen = "sale" /\ screen \in Mounted
           /\ WireOK /\ SaleTypes /\ CartHeard /\ SalesHeard

\* What a step takes nothing back of: overrides that were heard, the lines of
\* the sales that were sent, and, unless it is heard just now, what a line has.
HeardStays ==
    \A id, k : Heard(wire, id, k) =>
        /\ Heard(wire', id, k)
        /\ db.override[id] \in Approved => db'.override[id] = db.override[id]

SalesStay ==
    \A i \in 1..Len(wire') : wire'[i].to = "sales" =>
        \/ i \in 1..Len(wire) /\ wire[i].to = "sales" /\ wire'[i].body = wire[i].body
        \/ \A k \in SaleKeys : wire'[i].body[k].ov # 0 =>
              Heard(wire, wire'[i].body[k].ov, k) /\ db.override[wire'[i].body[k].ov] \in Approved

CartStays ==
    \A k \in SaleKeys : form'.cart[k].ov # 0 =>
        \/ form'.cart[k].ov = form.cart[k].ov /\ form'.cart[k].state = form.cart[k].state
        \/ /\ Heard(wire', form'.cart[k].ov, k)
           /\ form'.cart[k].state \in Approved => db'.override[form'.cart[k].ov] = form'.cart[k].state
-----------------------------------------------------------------------------
LEMMA SaleLimit == ASSUME SaleInv PROVE MaxRequests[screen] \in Nat /\ Len(wire) \in Nat
BY TabAssumption, WireLen DEF SaleInv, Mounted

LEMMA SaleInit_Inv == SaleInit => SaleInv
<1> SUFFICES ASSUME SaleInit PROVE SaleInv
  OBVIOUS
<1>1. WireOK /\ Len(wire) = 0 /\ MaxRequests[screen] \in Nat
  BY WireEmpty, TabAssumption DEF SaleInit, Mounted
<1>2. NoLine \in SaleLine
  BY DEF NoLine, SaleLine, LineStates
<1>3. form \in SaleForms
  BY <1>2 DEF SaleInit, SaleForm, SaleForms
<1>4. SaleTypes
  BY <1>1, <1>3 DEF SaleInit, SaleTypes, SaleDb, OverrideStates, LineStates
<1>5. CartHeard
  BY DEF SaleInit, SaleForm, NoLine, CartHeard
<1> QED  BY <1>1, <1>4, <1>5 DEF SaleInit, SaleInv, SalesHeard

LEMMA SaleKept ==
    ASSUME SaleInv, UNCHANGED screen, WireOK', SaleTypes', HeardStays, SalesStay, CartStays
    PROVE  SaleInv'
<1>1. CartHeard'
  <2> SUFFICES ASSUME NEW k \in SaleKeys, form'.cart[k].ov # 0
               PROVE  /\ Heard(wire', form'.cart[k].ov, k)
                      /\ form'.cart[k].state \in Approved =>
                            db'.override[form'.cart[k].ov] = form'.cart[k].state
    BY DEF CartHeard
  <2>1. CASE form'.cart[k].ov = form.cart[k].ov /\ form'.cart[k].state = form.cart[k].state
    <3>1. /\ Heard(wire, form.cart[k].ov, k)
          /\ form.cart[k].state \in Approved => db.override[form.cart[k].ov] = form.cart[k].state
      BY <2>1 DEF SaleInv, CartHeard
    <3> QED  BY <2>1, <3>1 DEF HeardStays
  <2> QED  BY <2>1 DEF CartStays
<1>2. SalesHeard'
  <2> SUFFICES ASSUME NEW i \in 1..Len(wire'), wire'[i].to = "sales", NEW k \in SaleKeys,
                      wire'[i].body[k].ov # 0
               PROVE  /\ Heard(wire', wire'[i].body[k].ov, k)
                      /\ db'.override[wire'[i].body[k].ov] \in Approved
    BY DEF SalesHeard
  <2>1. Heard(wire, wire'[i].body[k].ov, k) /\ db.override[wire'[i].body[k].ov] \in Approved
    BY DEF SaleInv, SalesHeard, SalesStay
  <2> QED  BY <2>1 DEF HeardStays
<1> QED  BY <1>1, <1>2 DEF SaleInv

(* One line of the cart gets a new quantity, override or state.             *)
LEMMA LineScanned ==
    ASSUME NEW cart \in [SaleKeys -> SaleLine], NEW k
    PROVE  /\ AddScan(cart, k) \in [SaleKeys -> SaleLine]
           /\ \A j \in SaleKeys : AddScan(cart, k)[j].ov = cart[j].ov /\ AddScan(cart, k)[j].state = cart[j].state
<1>1. CASE AddScan(cart, k) = cart
  BY <1>1
<1>2. CASE AddScan(cart, k) = [cart EXCEPT ![k].qty = @ + 1]
  <2>1. PICK new : new = AddScan(cart, k)
    OBVIOUS
  <2>2. new = [cart EXCEPT ![k].qty = cart[k].qty + 1]
    BY <1>2, <2>1
  <2>3. new \in [SaleKeys -> SaleLine]
    <3>1. CASE k \notin SaleKeys
      <4>1. new = cart
        BY <2>2, <3>1
      <4> QED  BY <4>1
    <3>2. CASE k \in SaleKeys
      <4>1. PICK q \in Nat : q = cart[k].qty + 1
        BY <3>2 DEF SaleLine
      <4> QED  BY <2>2, <3>2, <4>1 DEF SaleLine
    <3> QED  BY <3>1, <3>2
  <2>4. \A j \in SaleKeys : new[j].ov = cart[j].ov /\ new[j].state = cart[j].state
    BY <2>2 DEF SaleLine
  <2> QED  BY <2>1, <2>3, <2>4
<1> QED  BY <1>1, <1>2 DEF AddScan

LEMMA LineRepriced ==
    ASSUME NEW cart \in [SaleKeys -> SaleLine], NEW k, NEW id \in Nat, NEW state \in LineStates,
           NEW new, new = ApplyOverride(cart, k, id, state)
    PROVE  /\ new \in [SaleKeys -> SaleLine]
           /\ \A j \in SaleKeys : new[j] = cart[j] \/ (j = k /\ new[j].ov = id /\ new[j].state = state)
<1>1. CASE new = cart
  BY <1>1
<1>2. CASE new = [cart EXCEPT ![k].ov = id, ![k].state = state]
  BY <1>2 DEF SaleLine
<1> QED  BY <1>1, <1>2 DEF ApplyOverride

LEMMA LineCleared ==
    ASSUME NEW cart \in [SaleKeys -> SaleLine], NEW k
    PROVE  /\ ClearOverride(cart, k) \in [SaleKeys -> SaleLine]
           /\ \A j \in SaleKeys : ClearOverride(cart, k)[j] = cart[j] \/ ClearOverride(cart, k)[j].ov = 0
BY DEF ClearOverride, SaleLine, LineStates

(* What a step of the wire leaves of the overrides and sales that matter.   *)
LEMMA QuietWire ==
    ASSUME SaleInv, UNCHANGED wire, NEW id0, db.override[id0] \notin Approved,
           \A id \in 1..Len(wire) : id # id0 => db'.override[id] = db.override[id]
    PROVE  WireOK' /\ HeardStays /\ SalesStay
<1>1. HeardStays
  BY DEF HeardStays, Heard
<1>2. SalesStay
  BY DEF SalesStay
<1> QED  BY <1>1, <1>2 DEF WireOK, SaleInv

LEMMA OneMore ==
    ASSUME SaleInv, NEW to, NEW body, Send(to, body), UNCHANGED <<screen, db>>,
           to = "sales" => \A k \in SaleKeys : body[k].ov # 0 =>
                              Heard(wire, body[k].ov, k) /\ db.override[body[k].ov] \in Approved
    PROVE  WireOK' /\ HeardStays /\ SalesStay /\ Len(wire') <= MaxRequests[screen]
<1>1. /\ WireOK' /\ Len(wire') = Len(wire) + 1 /\ Len(wire) \in Nat /\ MaxRequests[screen] \in Nat
      /\ \A i \in 1..Len(wire) : wire'[i] = wire[i]
      /\ wire'[Len(wire) + 1] = [to |-> to, body |-> body, st |-> "sent", live |-> TRUE]
      /\ Len(wire) < MaxRequests[screen]
  <2>1. SendAs(to, body, "sent") /\ WireOK
    BY DEF Send, SaleInv
  <2>2. Len(wire) < MaxRequests[screen]
    BY <2>1 DEF SendAs
  <2>3. /\ WireOK' /\ Len(wire') = Len(wire) + 1
        /\ \A i \in 1..Len(wire) : wire'[i] = wire[i]
        /\ wire'[Fresh] = [to |-> to, body |-> body, st |-> "sent", live |-> TRUE]
    BY <2>1, Requested
  <2> QED  BY <2>2, <2>3, SaleLimit DEF Fresh
<1>2. HeardStays
  BY <1>1 DEF HeardStays, Heard
<1>3. wire'[Len(wire) + 1].to = to /\ wire'[Len(wire) + 1].body = body
  BY <1>1
<1>4. \A i \in 1..Len(wire') : i \in 1..Len(wire) \/ i = Len(wire) + 1
  BY <1>1
<1>5. SalesStay
  BY <1>1, <1>3, <1>4 DEF SalesStay
<1>6. Len(wire') <= MaxRequests[screen]
  BY <1>1
<1> QED  BY <1>1, <1>2, <1>5, <1>6

LEMMA OneMoves ==
    ASSUME SaleInv, NEW i \in 1..Len(wire), wire[i].st # "over",
           (\E st : Settle(i, st)) \/ (wire[i].to # "sales" /\ Drop(i)),
           \A id \in 1..Len(wire) : id # i => db'.override[id] = db.override[id]
    PROVE  WireOK' /\ HeardStays /\ SalesStay /\ Len(wire') = Len(wire)
<1>1. /\ WireOK' /\ Len(wire') = Len(wire)
      /\ \A j \in 1..Len(wire) : j # i => wire'[j] = wire[j]
      /\ wire'[i].to = wire[i].to
      /\ wire[i].to = "sales" => wire'[i].body = wire[i].body
  <2>1. CASE \E st : Settle(i, st)
    BY <2>1, SettledRequest DEF SaleInv
  <2>2. CASE wire[i].to # "sales" /\ Drop(i)
    BY <2>2, DroppedRequest DEF SaleInv
  <2> QED  BY <2>1, <2>2
<1>2. HeardStays
  BY <1>1 DEF HeardStays, Heard
<1>3. SalesStay
  BY <1>1 DEF SalesStay
<1> QED  BY <1>1, <1>2, <1>3

LEMMA SaleFormKept ==
    ASSUME NEW f \in SaleForms
    PROVE  /\ \A hook \in {"lookup", "price", "sale"} : \A i :
                 Idle(f, hook, i) \in SaleForms /\ Idle(f, hook, i).cart = f.cart
           /\ \A cart \in [SaleKeys -> SaleLine] :
                 [f EXCEPT !.cart = cart] \in SaleForms /\ [f EXCEPT !.cart = cart].cart = cart
<1>1. ASSUME NEW hook \in {"lookup", "price", "sale"}, NEW i
      PROVE  Idle(f, hook, i) \in SaleForms /\ Idle(f, hook, i).cart = f.cart
  <2>1. CASE hook = "lookup"
    BY <2>1 DEF Idle, SaleForms
  <2>2. CASE hook = "price"
    BY <2>2 DEF Idle, SaleForms
  <2>3. CASE hook = "sale"
    BY <2>3 DEF Idle, SaleForms
  <2> QED  BY <2>1, <2>2, <2>3
<1>2. \A cart \in [SaleKeys -> SaleLine] :
         [f EXCEPT !.cart = cart] \in SaleForms /\ [f EXCEPT !.cart = cart].cart = cart
  BY DEF SaleForms
<1> QED  BY <1>1, <1>2

(* The user edits the cart or a dialog, the four-second poll tells.         *)
LEMMA EditCart_Inv ==
    ASSUME SaleInv, NEW k \in SaleKeys, NEW q \in 1..MaxQty,
           SetLineQuantity(k, q) \/ RemoveLine(k) \/ PriceClick(k) \/ CloseDialog \/ Poll(k)
    PROVE  SaleInv'
<1>1. /\ UNCHANGED <<screen, wire, db>> /\ form \in SaleForms /\ form.cart \in [SaleKeys -> SaleLine]
      /\ NoLine \in SaleLine /\ q \in Nat /\ NoLine.ov = 0
  BY DEF SetLineQuantity, RemoveLine, PriceClick, CloseDialog, Poll, SaleInv, SaleTypes, SaleForms,
         NoLine, SaleLine, LineStates
<1>2. form' \in SaleForms /\ CartStays
  <2>1. CASE SetLineQuantity(k, q)
    <3>1. PICK cart : cart = [form.cart EXCEPT ![k].qty = q]
      OBVIOUS
    <3>2. cart \in [SaleKeys -> SaleLine]
      BY <1>1, <3>1 DEF SaleLine
    <3>3. \A j \in SaleKeys : cart[j].ov = form.cart[j].ov /\ cart[j].state = form.cart[j].state
      BY <1>1, <3>1 DEF SaleLine
    <3>4. form' = [form EXCEPT !.cart = cart]
      BY <2>1, <3>1 DEF SetLineQuantity
    <3> QED  BY <1>1, <3>2, <3>3, <3>4, SaleFormKept DEF CartStays
  <2>2. CASE RemoveLine(k)
    <3>1. PICK cart : cart = [form.cart EXCEPT ![k] = NoLine]
      OBVIOUS
    <3>2. cart \in [SaleKeys -> SaleLine] /\ \A j \in SaleKeys : cart[j] = form.cart[j] \/ cart[j].ov = 0
      BY <1>1, <3>1
    <3>3. form' = [form EXCEPT !.cart = cart]
      BY <2>2, <3>1 DEF RemoveLine
    <3> QED  BY <1>1, <3>2, <3>3, SaleFormKept DEF CartStays
  <2>3. CASE PriceClick(k) \/ CloseDialog
    <3>1. PICK d \in SaleKeys \cup {NoKey} : form' = [form EXCEPT !.dialog = d]
      BY <2>3 DEF PriceClick, CloseDialog
    <3>2. form' \in SaleForms /\ form'.cart = form.cart
      BY <1>1, <3>1 DEF SaleForms
    <3> QED  BY <3>2 DEF CartStays
  <2>4. CASE Poll(k)
    <3>1. PICK id : id = form.cart[k].ov
      OBVIOUS
    <3>2. PICK decided : decided = db.override[id]
      OBVIOUS
    <3>3. PICK cart : cart = IF decided = "APPROVED" THEN ApplyOverride(form.cart, k, id, decided)
                             ELSE ClearOverride(form.cart, k)
      OBVIOUS
    <3>4. form' = [form EXCEPT !.cart = cart]
      BY <2>4, <3>1, <3>2, <3>3 DEF Poll
    <3>5. CASE decided = "APPROVED"
      <4>1. id \in Nat /\ decided \in LineStates
        BY <1>1, <3>1, <3>5 DEF SaleLine, LineStates
      <4>2. /\ cart \in [SaleKeys -> SaleLine]
            /\ \A j \in SaleKeys : cart[j] = form.cart[j] \/ (j = k /\ cart[j].ov = id /\ cart[j].state = decided)
        BY <1>1, <3>3, <3>5, <4>1, LineRepriced
      <4>3. form' \in SaleForms /\ form'.cart = cart
        BY <1>1, <3>4, <4>2, SaleFormKept
      <4>4. id # 0 => Heard(wire, id, k)
        BY <3>1 DEF SaleInv, CartHeard
      <4>5. CartStays
        BY <1>1, <3>2, <4>2, <4>3, <4>4 DEF CartStays
      <4> QED  BY <4>3, <4>5
    <3>6. CASE decided # "APPROVED"
      <4>1. /\ cart \in [SaleKeys -> SaleLine]
            /\ \A j \in SaleKeys : cart[j] = form.cart[j] \/ cart[j].ov = 0
        BY <1>1, <3>3, <3>6, LineCleared
      <4>2. form' \in SaleForms /\ form'.cart = cart
        BY <1>1, <3>4, <4>1, SaleFormKept
      <4> QED  BY <4>1, <4>2 DEF CartStays
    <3> QED  BY <3>5, <3>6
  <2> QED  BY <2>1, <2>2, <2>3, <2>4
<1>3. SaleTypes'
  BY <1>1, <1>2 DEF SaleInv, SaleTypes, SaleDb
<1>4. WireOK' /\ HeardStays /\ SalesStay
  BY <1>1 DEF SaleInv, WireOK, HeardStays, Heard, SalesStay
<1> QED  BY <1>1, <1>2, <1>3, <1>4, SaleKept

(* A lookup, an override or the sale is asked for.                          *)
LEMMA AskServer_Inv ==
    ASSUME SaleInv, (\E k \in SaleKeys : ScanItem(k)) \/ SavePrice \/ Checkout
    PROVE  SaleInv'
<1>1. form \in SaleForms /\ Fresh \in Nat /\ form.cart \in [SaleKeys -> SaleLine]
  BY SaleLimit DEF SaleInv, SaleTypes, SaleForms, Fresh
<1>2. PICK to, body :
         /\ Send(to, body)
         /\ to = "sales" => body = BuildSale(form.cart)
  BY DEF ScanItem, SavePrice, Checkout
<1>3. UNCHANGED <<screen, db>> /\ form' \in SaleForms /\ form'.cart = form.cart
  <2>1. /\ UNCHANGED <<screen, db>>
        /\ \/ form' = [form EXCEPT !.lookup = Fresh]
           \/ form' = [form EXCEPT !.price = Fresh]
           \/ form' = [form EXCEPT !.sale = Fresh]
    BY DEF ScanItem, SavePrice, Checkout
  <2> QED  BY <1>1, <2>1 DEF SaleForms
<1>4. to = "sales" => \A k \in SaleKeys : body[k].ov # 0 =>
                         Heard(wire, body[k].ov, k) /\ db.override[body[k].ov] \in Approved
  <2> SUFFICES ASSUME to = "sales", NEW k \in SaleKeys, body[k].ov # 0
               PROVE  Heard(wire, body[k].ov, k) /\ db.override[body[k].ov] \in Approved
    OBVIOUS
  <2>1. form.cart[k].state \in Approved /\ body[k].ov = form.cart[k].ov
    BY <1>2 DEF BuildSale
  <2> QED  BY <2>1 DEF SaleInv, CartHeard
<1>5. WireOK' /\ HeardStays /\ SalesStay /\ Len(wire') <= MaxRequests[screen]
  BY <1>2, <1>3, <1>4, OneMore
<1>6. SaleTypes'
  BY <1>3, <1>5 DEF SaleInv, SaleTypes, SaleDb
<1>7. CartStays
  BY <1>3 DEF CartStays
<1> QED  BY <1>3, <1>5, <1>6, <1>7, SaleKept

LEMMA OverrideMoves ==
    ASSUME SaleInv, UNCHANGED screen, NEW i, NEW s \in OverrideStates, db' = [db EXCEPT !.override[i] = s]
    PROVE  /\ \A id \in 1..Len(wire) : id # i => db'.override[id] = db.override[id]
           /\ db' \in SaleDb
<1>1. PICK n \in Nat : n = MaxRequests[screen] /\ Len(wire) <= n
  BY SaleLimit DEF SaleInv, SaleTypes
<1>2. db \in [override : [1..n -> OverrideStates], sales : SUBSET Nat] /\ screen' = screen
  BY <1>1 DEF SaleInv, SaleTypes, SaleDb
<1>3. db' \in [override : [1..n -> OverrideStates], sales : SUBSET Nat]
  BY <1>2
<1>4. \A id \in 1..n : id # i => db'.override[id] = db.override[id]
  BY <1>2
<1>5. \A id \in 1..Len(wire) : id \in 1..n
  BY <1>1, SaleLimit
<1> QED  BY <1>1, <1>2, <1>3, <1>4, <1>5 DEF SaleDb

(* The server prices an override, an administrator decides it, a sale is    *)
(* recorded: what was approved stays approved.                              *)
LEMMA ServerActs_Inv ==
    ASSUME SaleInv,
           \/ \E i \in At("override", "sent"), s \in {"AUTO_APPROVED", "PENDING"} : ServeOverride(i, s)
           \/ \E i \in Sent("override"), s \in {"APPROVED", "REJECTED"} : Decide(i, s)
           \/ \E i \in At("sales", "sent") : RecordSale(i)
    PROVE  SaleInv'
<1>1. UNCHANGED <<screen, form>> /\ SaleTypes
  BY DEF ServeOverride, Decide, RecordSale, SaleInv
<1>2. CartStays
  BY <1>1 DEF CartStays
<1>3. CASE \E i \in At("override", "sent"), s \in {"AUTO_APPROVED", "PENDING"} : ServeOverride(i, s)
  <2>1. PICK i \in 1..Len(wire), s \in OverrideStates :
           /\ wire[i].st = "sent" /\ Settle(i, "ok") /\ db' = [db EXCEPT !.override[i] = s]
    BY <1>3 DEF ServeOverride, At, Sent, OverrideStates, LineStates
  <2>2. /\ \A id \in 1..Len(wire) : id # i => db'.override[id] = db.override[id]
        /\ db' \in SaleDb
    BY <1>1, <2>1, OverrideMoves
  <2>3. (\E st : Settle(i, st)) /\ wire[i].st # "over"
    BY <2>1
  <2>4. WireOK' /\ HeardStays /\ SalesStay /\ Len(wire') = Len(wire)
    BY <2>2, <2>3, OneMoves
  <2>5. SaleTypes'
    BY <1>1, <2>2, <2>4 DEF SaleTypes, SaleDb
  <2> QED  BY <1>1, <1>2, <2>4, <2>5, SaleKept
<1>4. CASE \E i \in Sent("override"), s \in {"APPROVED", "REJECTED"} : Decide(i, s)
  <2>0. PICK i \in Sent("override"), s \in {"APPROVED", "REJECTED"} : Decide(i, s)
    BY <1>4
  <2>1. /\ db.override[i] = "PENDING" /\ wire' = wire /\ db' = [db EXCEPT !.override[i] = s]
        /\ s \in OverrideStates
    BY <2>0 DEF Decide, OverrideStates, LineStates
  <2>2. /\ \A id \in 1..Len(wire) : id # i => db'.override[id] = db.override[id]
        /\ db' \in SaleDb
    BY <1>1, <2>1, OverrideMoves
  <2>3. db.override[i] \notin Approved
    BY <2>1 DEF Approved
  <2>4. WireOK' /\ HeardStays /\ SalesStay
    BY <2>1, <2>2, <2>3, QuietWire
  <2>5. SaleTypes'
    BY <1>1, <2>1, <2>2 DEF SaleTypes, SaleDb
  <2> QED  BY <1>1, <1>2, <2>4, <2>5, SaleKept
<1>5. CASE \E i \in At("sales", "sent") : RecordSale(i)
  <2>1. PICK i \in 1..Len(wire) :
           /\ wire[i].st = "sent" /\ Settle(i, "ok") /\ db' = [db EXCEPT !.sales = @ \cup {i}]
    BY <1>5 DEF RecordSale, At, Sent
  <2>2. i \in Nat
    BY SaleLimit
  <2>3. /\ db'.override = db.override
        /\ db' \in SaleDb
    BY <1>1, <2>1, <2>2 DEF SaleTypes, SaleDb
  <2>3a. (\E st : Settle(i, st)) /\ wire[i].st # "over"
    BY <2>1
  <2>4. WireOK' /\ HeardStays /\ SalesStay /\ Len(wire') = Len(wire)
    BY <2>3, <2>3a, OneMoves
  <2>5. SaleTypes'
    BY <1>1, <2>3, <2>4 DEF SaleTypes, SaleDb
  <2> QED  BY <1>1, <1>2, <2>4, <2>5, SaleKept
<1> QED  BY <1>3, <1>4, <1>5

(* An answer arrives, or an error does.                                     *)
LEMMA Answer_Inv ==
    ASSUME SaleInv,
           \/ ScanRefused \/ OverrideFailed \/ SaleFailed
           \/ \E i \in At("lookup", "sent") : ScanFound(i)
           \/ \E i \in At("override", "ok") : OverrideCreated(i)
           \/ \E i \in At("sales", "ok") : SaleCompleted(i)
    PROVE  SaleInv'
<1>1. /\ UNCHANGED <<screen, db>> /\ SaleTypes /\ form \in SaleForms
      /\ form.cart \in [SaleKeys -> SaleLine] /\ NoLine \in SaleLine /\ NoLine.ov = 0
  BY DEF ScanRefused, OverrideFailed, SaleFailed, ScanFound, OverrideCreated, SaleCompleted,
         Lose, DropUnanswered, SaleInv, SaleTypes, SaleForms, SaleLine, LineStates, NoLine
<1>2. ASSUME NEW i \in 1..Len(wire), wire[i].st # "over",
             (\E st : Settle(i, st)) \/ (wire[i].to # "sales" /\ Drop(i)),
             form' \in SaleForms, CartStays
      PROVE  SaleInv'
  <2>1. WireOK' /\ HeardStays /\ SalesStay /\ Len(wire') = Len(wire)
    BY <1>1, <1>2, OneMoves
  <2>2. SaleTypes'
    BY <1>1, <1>2, <2>1 DEF SaleTypes, SaleDb
  <2> QED  BY <1>1, <1>2, <2>1, <2>2, SaleKept
<1>3. CASE ScanRefused \/ OverrideFailed \/ SaleFailed
  <2>1. PICK hook \in {"lookup", "price", "sale"}, i \in 1..Len(wire) :
           /\ wire[i].st # "over" /\ form' = Idle(form, hook, i)
           /\ (\E st : Settle(i, st)) \/ (wire[i].to # "sales" /\ Drop(i))
    <3>1. CASE ScanRefused
      BY <3>1 DEF ScanRefused, DropUnanswered, Sent
    <3>2. CASE OverrideFailed
      BY <3>2 DEF OverrideFailed, Lose, Sent
    <3>3. CASE SaleFailed
      BY <3>3 DEF SaleFailed, Lose, Sent
    <3> QED  BY <1>3, <3>1, <3>2, <3>3
  <2>2. form' \in SaleForms /\ form'.cart = form.cart
    BY <1>1, <2>1, SaleFormKept
  <2> QED  BY <1>2, <2>1, <2>2 DEF CartStays
<1>4. CASE \E i \in At("lookup", "sent") : ScanFound(i)
  <2>1. PICK i \in 1..Len(wire) :
           /\ wire[i].to = "lookup" /\ wire[i].st = "sent" /\ Drop(i)
           /\ \/ form' = form
              \/ form' = [form EXCEPT !.cart = AddScan(@, wire[i].body), !.lookup = 0]
    BY <1>4 DEF ScanFound, At, Sent
  <2>2. PICK cart : cart = AddScan(form.cart, wire[i].body)
    OBVIOUS
  <2>3. /\ cart \in [SaleKeys -> SaleLine]
        /\ \A j \in SaleKeys : cart[j].ov = form.cart[j].ov /\ cart[j].state = form.cart[j].state
    BY <1>1, <2>2, LineScanned
  <2>4. form' = form \/ form' = [form EXCEPT !.cart = cart, !.lookup = 0]
    BY <2>1, <2>2
  <2>5. form' \in SaleForms /\ (form'.cart = form.cart \/ form'.cart = cart)
    <3>1. CASE form' = form
      BY <1>1, <3>1
    <3>2. CASE form' = [form EXCEPT !.cart = cart, !.lookup = 0]
      BY <1>1, <2>3, <3>2 DEF SaleForms
    <3> QED  BY <2>4, <3>1, <3>2
  <2> QED  BY <1>2, <2>1, <2>3, <2>5 DEF CartStays
<1>5. CASE \E i \in At("override", "ok") : OverrideCreated(i)
  <2>1. PICK i \in 1..Len(wire) :
           wire[i].to = "override" /\ wire[i].st = "ok" /\ OverrideCreated(i) /\ Settle(i, "over")
    BY <1>5 DEF OverrideCreated, At, Sent
  <2>2. PICK k, created :
           /\ k = wire[i].body
           /\ created = IF db.override[i] = "AUTO_APPROVED" THEN "AUTO_APPROVED" ELSE "PENDING"
    OBVIOUS
  <2>3. PICK f : f = Idle(form, "price", i)
    OBVIOUS
  <2>4. f \in SaleForms /\ f.cart = form.cart
    BY <1>1, <2>3, SaleFormKept
  <2>5. PICK cart : cart = ApplyOverride(form.cart, k, i, created)
    OBVIOUS
  <2>6. i \in Nat /\ created \in LineStates
    BY <2>2, SaleLimit DEF LineStates
  <2>7. /\ cart \in [SaleKeys -> SaleLine]
        /\ \A j \in SaleKeys : cart[j] = form.cart[j] \/ (j = k /\ cart[j].ov = i /\ cart[j].state = created)
    <3>1. form.cart \in [SaleKeys -> SaleLine]
      BY <1>1
    <3>2. PICK id \in Nat : id = i
      BY <2>6
    <3>3. cart = ApplyOverride(form.cart, k, id, created) /\ created \in LineStates
      BY <2>5, <2>6, <3>2
    <3>4. /\ cart \in [SaleKeys -> SaleLine]
          /\ \A j \in SaleKeys : cart[j] = form.cart[j] \/ (j = k /\ cart[j].ov = id /\ cart[j].state = created)
      <4>1. PICK old \in [SaleKeys -> SaleLine] : old = form.cart
        BY <3>1
      <4>2. cart = ApplyOverride(old, k, id, created)
        BY <3>3, <4>1
      <4>3. /\ cart \in [SaleKeys -> SaleLine]
            /\ \A j \in SaleKeys : cart[j] = old[j] \/ (j = k /\ cart[j].ov = id /\ cart[j].state = created)
        BY <3>3, <4>2, LineRepriced
      <4> QED  BY <4>1, <4>3
    <3> QED  BY <3>2, <3>4
  <2>8. form' = form \/ form' = [f EXCEPT !.cart = cart, !.dialog = NoKey]
    BY <2>1, <2>2, <2>3, <2>4, <2>5 DEF OverrideCreated, Repriced
  <2>9. form' \in SaleForms /\ (form'.cart = form.cart \/ form'.cart = cart)
    <3>1. CASE form' = form
      BY <1>1, <3>1
    <3>2. CASE form' = [f EXCEPT !.cart = cart, !.dialog = NoKey]
      BY <2>4, <2>7, <3>2 DEF SaleForms
    <3> QED  BY <2>8, <3>1, <3>2
  <2>10. Len(wire') = Len(wire) /\ wire'[i].to = "override" /\ wire'[i].body = k /\ wire'[i].st = "over"
    BY <2>1, <2>2, SettledRequest DEF SaleInv
  <2>11. Heard(wire', i, k) /\ (created \in Approved => db.override[i] = created)
    BY <2>2, <2>10 DEF Heard, Approved
  <2>12. CartStays
    BY <1>1, <2>7, <2>9, <2>11 DEF CartStays
  <2>13. (\E st : Settle(i, st)) /\ wire[i].st # "over"
    BY <2>1
  <2> QED  BY <1>2, <2>9, <2>12, <2>13
<1>6. CASE \E i \in At("sales", "ok") : SaleCompleted(i)
  <2>1. PICK i \in 1..Len(wire) : wire[i].st = "ok" /\ Settle(i, "over") /\ SaleCompleted(i)
    BY <1>6 DEF SaleCompleted, At, Sent
  <2>2. PICK f : f = Idle(form, "sale", i)
    OBVIOUS
  <2>3. f \in SaleForms
    BY <1>1, <2>2, SaleFormKept
  <2>4. PICK cart : cart = [k \in SaleKeys |-> NoLine]
    OBVIOUS
  <2>5. cart \in [SaleKeys -> SaleLine] /\ \A k \in SaleKeys : cart[k].ov = 0
    BY <1>1, <2>4
  <2>6. form' = form \/ form' = [f EXCEPT !.cart = cart, !.dialog = NoKey]
    BY <2>1, <2>2, <2>4 DEF SaleCompleted
  <2>7. form' \in SaleForms /\ (form'.cart = form.cart \/ form'.cart = cart)
    <3>1. CASE form' = form
      BY <1>1, <3>1
    <3>2. CASE form' = [f EXCEPT !.cart = cart, !.dialog = NoKey]
      BY <2>3, <2>5, <3>2 DEF SaleForms
    <3> QED  BY <2>6, <3>1, <3>2
  <2>8. CartStays
    BY <2>5, <2>7 DEF CartStays
  <2>9. (\E st : Settle(i, st)) /\ wire[i].st # "over"
    BY <2>1
  <2> QED  BY <1>2, <2>7, <2>8, <2>9
<1> QED  BY <1>3, <1>4, <1>5, <1>6

LEMMA LeaveSale_Inv == ASSUME SaleInv, LeaveSale PROVE SaleInv'
<1>1. /\ form' = SaleForm /\ UNCHANGED <<screen, db>>
      /\ wire' = [i \in DOMAIN wire |-> [wire[i] EXCEPT !.live = FALSE]]
  BY DEF LeaveSale, Remount
<1>2. /\ WireOK' /\ Len(wire') = Len(wire)
      /\ \A i \in 1..Len(wire) :
            /\ wire'[i].to = wire[i].to /\ wire'[i].body = wire[i].body
            /\ wire'[i].st = wire[i].st /\ wire'[i].live = FALSE
  BY <1>1, Unmounted DEF SaleInv
<1>3. HeardStays /\ SalesStay
  BY <1>1, <1>2 DEF HeardStays, SalesStay, Heard
<1>4. NoLine \in SaleLine /\ NoLine.ov = 0
  BY DEF NoLine, SaleLine, LineStates
<1>5. form' \in SaleForms /\ CartStays
  BY <1>1, <1>4 DEF SaleForm, SaleForms, CartStays
<1>6. SaleTypes'
  BY <1>1, <1>2, <1>5 DEF SaleInv, SaleTypes, SaleDb
<1> QED  BY <1>1, <1>2, <1>3, <1>5, <1>6, SaleKept

LEMMA SaleNext_Inv == ASSUME SaleInv, [SaleNext]_tabVars PROVE SaleInv'
<1>0. 1 \in 1..MaxQty
  BY TabAssumption
<1>1. CASE UNCHANGED tabVars
  BY <1>1 DEF tabVars, SaleInv, WireOK, SaleTypes, SaleDb, CartHeard, SalesHeard, Heard
<1>2. ASSUME NEW k \in SaleKeys, NEW q \in 1..MaxQty, SetLineQuantity(k, q) PROVE SaleInv'
  BY <1>2, EditCart_Inv
<1>3. ASSUME NEW k \in SaleKeys, RemoveLine(k) \/ PriceClick(k) \/ Poll(k) PROVE SaleInv'
  BY <1>0, <1>3, EditCart_Inv
<1>4. CASE CloseDialog
  <2>1. PICK k : k \in SaleKeys
    BY <1>4 DEF CloseDialog, DialogOpen
  <2> QED  BY <1>0, <1>4, <2>1, EditCart_Inv
<1>5. CASE (\E k \in SaleKeys : ScanItem(k)) \/ SavePrice \/ Checkout
  BY <1>5, AskServer_Inv
<1>6. CASE LeaveSale
  BY <1>6, LeaveSale_Inv
<1>7. CASE \/ \E i \in At("override", "sent"), s \in {"AUTO_APPROVED", "PENDING"} : ServeOverride(i, s)
           \/ \E i \in Sent("override"), s \in {"APPROVED", "REJECTED"} : Decide(i, s)
           \/ \E i \in At("sales", "sent") : RecordSale(i)
  BY <1>7, ServerActs_Inv
<1>8. CASE \/ ScanRefused \/ OverrideFailed \/ SaleFailed
           \/ \E i \in At("lookup", "sent") : ScanFound(i)
           \/ \E i \in At("override", "ok") : OverrideCreated(i)
           \/ \E i \in At("sales", "ok") : SaleCompleted(i)
  BY <1>8, Answer_Inv
<1> QED  BY <1>1, <1>2, <1>3, <1>4, <1>5, <1>6, <1>7, <1>8 DEF SaleNext

(* A line of the counter shows an override that was asked for that line,    *)
(* and a sale cites one the server approved: however late the answers are,  *)
(* and whatever dialog is open or line scanned when they come.              *)
THEOREM OverrideOfItsLine == SaleSpec => []OverridePricesItsLine
<1>1. SaleInv => OverridePricesItsLine
  BY DEF SaleInv, CartHeard, SalesHeard, Heard, OverridePricesItsLine, Sent
<1>2. SaleSpec => []SaleInv
  BY SaleInit_Inv, SaleNext_Inv, PTL DEF SaleSpec
<1> QED  BY <1>1, <1>2, PTL

(***************************************************************************)
(* Giving out stock                                                        *)
(***************************************************************************)
PullStates == {"PENDING", "SHORT", "FULFILLED", "CANCELLED"}

\* Pieces for every line of a pull, never more than it asks for.
Shares(p) == {g \in [Lines(p) -> Nat] : \A k \in Lines(p) : g[k] <= Asks[p][k]}

\* What a request to give out says.
Allots(body) == \E p \in Pulls : \E lines \in Shares(p) : body = [pull |-> p, lines |-> lines]

PullFields == {"mode", "selected", "page", "draft", "lookup", "fulfil", "cancel", "lines", "adding", "create"}

\* The draft names the lines of the pull that was selected, on screen or not.
DraftFits ==
    /\ DOMAIN form = PullFields
    /\ form.selected \in Pulls \cup {NoKey}
    /\ form.selected \in Pulls => form.draft \in Shares(form.selected)

\* What was given out is what a request said, less what was no longer there.
GivenAsAsked ==
    /\ DOMAIN db = {"state", "given", "gone", "stock", "drafted"}
    /\ db.state \in [Pulls -> PullStates]
    /\ DOMAIN db.given = Pulls /\ \A p \in Pulls : db.given[p] \in Shares(p)
    /\ DOMAIN db.gone = Pulls /\ DOMAIN db.drafted = Pulls
    /\ \A p \in Pulls : \A lines \in db.drafted[p] :
          db.given[p] = [k \in Lines(p) |-> IF k \in db.gone[p] THEN 0 ELSE lines[k]]

\* a request to give out that the server has not answered
FulfilAsked(i) == wire[i].to = "fulfil" /\ wire[i].st = "sent"

AllotsFit == \A i \in 1..Len(wire) : FulfilAsked(i) => Allots(wire[i].body)

PullInv == screen = "pulls" /\ WireOK /\ DraftFits /\ AllotsFit /\ GivenAsAsked

\* Requests to give out stay what they are, and new ones fit a pull.
AllotsStay ==
    \A i \in 1..Len(wire') : FulfilAsked(i)' =>
        Allots(wire'[i].body) \/ (i \in 1..Len(wire) /\ FulfilAsked(i) /\ wire'[i].body = wire[i].body)
-----------------------------------------------------------------------------
LEMMA AsksFit ==
    ASSUME NEW p \in Pulls
    PROVE  /\ p # NoKey /\ Asks[p] \in [Lines(p) -> Nat]
           /\ \A k \in Lines(p) \cap Units : Asks[p][k] = 1
BY PullAssumption, TabAssumption

LEMMA Nothing == ASSUME NEW p \in Pulls PROVE [k \in Lines(p) |-> 0] \in Shares(p)
BY AsksFit DEF Shares

(* What the server gives out is what it was asked for, within the pull and  *)
(* what is in stock.                                                        *)
LEMMA AllottedIs ==
    ASSUME NEW p \in Pulls, NEW lines \in [Lines(p) -> Nat]
    PROVE  /\ Allotted(p, lines) \in Shares(p)
           /\ lines \in Shares(p) =>
                 Allotted(p, lines) = [k \in Lines(p) |->
                     IF k \in Lines(p) \cap (Units \ db.stock) THEN 0 ELSE lines[k]]
<1> DEFINE g == Allotted(p, lines)
<1>1. g = [k \in Lines(p) |-> CASE k \in Units \ db.stock -> 0
                                [] k \in Units \cap db.stock -> Least(lines[k], 1)
                                [] OTHER -> Least(lines[k], Asks[p][k])]
  BY DEF Allotted, Wanted
<1>2. ASSUME NEW k \in Lines(p)
      PROVE  /\ g[k] \in Nat /\ g[k] <= Asks[p][k]
             /\ lines[k] <= Asks[p][k] =>
                   g[k] = IF k \in Lines(p) \cap (Units \ db.stock) THEN 0 ELSE lines[k]
  <2> HIDE DEF g
  <2>0. lines[k] \in Nat /\ Asks[p][k] \in Nat /\ (k \in Units => Asks[p][k] = 1)
    BY AsksFit
  <2>1. CASE k \in Units \ db.stock
    BY <1>1, <2>0, <2>1
  <2>2. CASE k \in Units \cap db.stock
    <3>1. g[k] = Least(lines[k], 1)
      BY <1>1, <2>2
    <3> QED  BY <2>0, <2>2, <3>1 DEF Least
  <2>3. CASE k \notin Units
    <3>1. g[k] = Least(lines[k], Asks[p][k])
      BY <1>1, <2>3
    <3> QED  BY <2>0, <2>3, <3>1 DEF Least
  <2> QED  BY <2>1, <2>2, <2>3
<1>3. g \in [Lines(p) -> Nat] /\ g = [k \in Lines(p) |-> g[k]]
  <2>1. DOMAIN g = Lines(p) /\ g = [k \in Lines(p) |-> g[k]]
    BY <1>1
  <2> HIDE DEF g
  <2> QED  BY <1>2, <2>1
<1> HIDE DEF g
<1>4. g \in Shares(p)
  BY <1>2, <1>3 DEF Shares
<1>5. ASSUME lines \in Shares(p)
      PROVE  g = [k \in Lines(p) |-> IF k \in Lines(p) \cap (Units \ db.stock) THEN 0 ELSE lines[k]]
  BY <1>2, <1>3, <1>5 DEF Shares
<1> QED  BY <1>4, <1>5 DEF g

LEMMA PullInit_Inv == PullInit => PullInv
<1> SUFFICES ASSUME PullInit PROVE PullInv
  OBVIOUS
<1>1. WireOK /\ Len(wire) = 0
  BY WireEmpty DEF PullInit
<1>2. DraftFits
  BY AsksFit DEF PullInit, PullForm, DraftFits, PullFields
<1>3. GivenAsAsked
  BY Nothing DEF PullInit, GivenAsAsked, PullStates
<1> QED  BY <1>1, <1>2, <1>3 DEF PullInv, AllotsFit, PullInit

LEMMA PullKept ==
    ASSUME PullInv, UNCHANGED screen, WireOK', AllotsStay, DraftFits', db' = db \/ GivenAsAsked'
    PROVE  PullInv'
<1>1. AllotsFit'
  BY DEF PullInv, AllotsStay, AllotsFit
<1>2. GivenAsAsked'
  <2>1. CASE db' = db
    BY <2>1 DEF PullInv, GivenAsAsked
  <2> QED  BY <2>1
<1> QED  BY <1>1, <1>2 DEF PullInv

(* The wire, as far as giving out is concerned.                             *)
LEMMA PullSends ==
    ASSUME PullInv, NEW to, NEW body, Send(to, body), to = "fulfil" => Allots(body)
    PROVE  WireOK' /\ AllotsStay
<1>1. /\ WireOK' /\ Len(wire') = Len(wire) + 1 /\ Len(wire) \in Nat
      /\ \A i \in 1..Len(wire) : wire'[i] = wire[i]
      /\ wire'[Len(wire) + 1] = [to |-> to, body |-> body, st |-> "sent", live |-> TRUE]
  <2>1. SendAs(to, body, "sent") /\ WireOK
    BY DEF Send, PullInv
  <2> QED  BY <2>1, Requested, WireLen DEF Fresh
<1>2. wire'[Len(wire) + 1].to = to /\ wire'[Len(wire) + 1].body = body
  BY <1>1
<1>3. \A i \in 1..Len(wire') : i \in 1..Len(wire) \/ i = Len(wire) + 1
  BY <1>1
<1> QED  BY <1>1, <1>2, <1>3 DEF AllotsStay, FulfilAsked

LEMMA PullMoves ==
    ASSUME PullInv, NEW i \in 1..Len(wire), Settle(i, "ok") \/ Drop(i)
    PROVE  WireOK' /\ AllotsStay
<1>1. /\ WireOK' /\ Len(wire') = Len(wire)
      /\ \A j \in 1..Len(wire) : j # i => wire'[j] = wire[j]
      /\ wire'[i].st \in {"ok", "over"}
  <2>1. CASE Settle(i, "ok")
    BY <2>1, SettledRequest DEF PullInv
  <2>2. CASE Drop(i)
    BY <2>2, DroppedRequest DEF PullInv
  <2> QED  BY <2>1, <2>2
<1> QED  BY <1>1 DEF AllotsStay, FulfilAsked

(* Steps of the form that keep the draft and its pull.                      *)
LEMMA SameDraft ==
    ASSUME PullInv, DOMAIN form' = DOMAIN form,
           form'.selected = form.selected, form'.draft = form.draft
    PROVE  DraftFits'
BY DEF PullInv, DraftFits

LEMMA DraftLetGo ==
    ASSUME PullInv, DOMAIN form' = DOMAIN form, form'.selected = NoKey
    PROVE  DraftFits'
BY AsksFit DEF PullInv, DraftFits

LEMMA IdlePull ==
    ASSUME PullInv, NEW hook \in {"lookup", "fulfil", "cancel", "adding", "create"}, NEW i
    PROVE  /\ DOMAIN Idle(form, hook, i) = DOMAIN form
           /\ Idle(form, hook, i).selected = form.selected /\ Idle(form, hook, i).draft = form.draft
BY DEF Idle, PullInv, DraftFits, PullFields

(* Looking at the queue, choosing a pull, and the lines of a new one.       *)
LEMMA BrowsePulls_Inv ==
    ASSUME PullInv,
           \/ \E all \in BOOLEAN : PollQueue(all)
           \/ \E p \in Pulls : Select(p)
           \/ BackToQueue \/ NewRequest
           \/ \E k \in Parts : AddPart(k)
           \/ \E k \in Units \cup Parts : RemoveRequestLine(k)
    PROVE  PullInv'
<1>1. UNCHANGED <<screen, wire, db>> /\ DOMAIN form = PullFields
  BY DEF PollQueue, Select, BackToQueue, NewRequest, AddPart, RemoveRequestLine, PullInv, DraftFits
<1>2. WireOK' /\ AllotsStay
  BY <1>1 DEF PullInv, WireOK, AllotsStay, FulfilAsked
<1>3. CASE (\E all \in BOOLEAN : PollQueue(all)) \/ NewRequest \/ (\E k \in Parts : AddPart(k))
           \/ (\E k \in Units \cup Parts : RemoveRequestLine(k))
  <2>1. PICK v : \/ form' = [form EXCEPT !.page = v]
                 \/ form' = [form EXCEPT !.mode = "create", !.lines = v]
                 \/ form' = [form EXCEPT !.lines = v]
    BY <1>3 DEF PollQueue, NewRequest, AddPart, RemoveRequestLine
  <2>2. DOMAIN form' = DOMAIN form /\ form'.selected = form.selected /\ form'.draft = form.draft
    BY <1>1, <2>1 DEF PullFields
  <2> QED  BY <1>1, <1>2, <2>2, SameDraft, PullKept
<1>4. CASE BackToQueue
  <2>1. DOMAIN form' = DOMAIN form /\ form'.selected = NoKey
    BY <1>1, <1>4 DEF BackToQueue, PullFields
  <2> QED  BY <1>1, <1>2, <2>1, DraftLetGo, PullKept
<1>5. CASE \E p \in Pulls : Select(p)
  <2>1. PICK p \in Pulls : form' = [form EXCEPT !.selected = p, !.draft = SeedDraft(p)]
    BY <1>5 DEF Select
  <2>2. SeedDraft(p) \in Shares(p)
    BY Nothing DEF SeedDraft, PullInv, GivenAsAsked
  <2>3. DOMAIN form' = DOMAIN form /\ form'.selected = p /\ form'.draft = SeedDraft(p)
    BY <1>1, <2>1 DEF PullFields
  <2>4. DraftFits'
    BY <1>1, <2>2, <2>3 DEF DraftFits
  <2> QED  BY <1>1, <1>2, <2>4, PullKept
<1> QED  BY <1>3, <1>4, <1>5

(* Something is asked of the server.                                        *)
LEMMA AskStore_Inv ==
    ASSUME PullInv,
           \/ \E p \in Pulls : CancelPull(p)
           \/ \E k \in Asked : ScanLine(k)
           \/ Fulfil \/ AskUnits \/ CreatePull
    PROVE  PullInv'
<1>1. PICK to, body :
         /\ Send(to, body)
         /\ to = "fulfil" => CanFulfil /\ body = BuildFulfillPayload
  BY DEF CancelPull, ScanLine, Fulfil, AskUnits, CreatePull
<1>2. to = "fulfil" => Allots(body)
  <2> SUFFICES ASSUME to = "fulfil" PROVE Allots(body)
    OBVIOUS
  <2>1. form.selected \in Pulls
    BY <1>1 DEF CanFulfil, ShowsPanel, SelectedPull, Shown
  <2>2. form.draft \in Shares(form.selected)
    BY <2>1 DEF PullInv, DraftFits
  <2> QED  BY <1>1, <2>1, <2>2 DEF BuildFulfillPayload, Allots
<1>3. WireOK' /\ AllotsStay
  BY <1>1, <1>2, PullSends
<1>4. /\ UNCHANGED <<screen, db>> /\ DOMAIN form = PullFields
      /\ \E v : \/ form' = [form EXCEPT !.cancel = v]
                \/ form' = [form EXCEPT !.lookup = v]
                \/ form' = [form EXCEPT !.fulfil = v]
                \/ form' = [form EXCEPT !.adding = v]
                \/ form' = [form EXCEPT !.create = v]
  BY DEF CancelPull, ScanLine, Fulfil, AskUnits, CreatePull, PullInv, DraftFits
<1>5. DOMAIN form' = DOMAIN form /\ form'.selected = form.selected /\ form'.draft = form.draft
  BY <1>4 DEF PullFields
<1> QED  BY <1>3, <1>4, <1>5, SameDraft, PullKept

(* A scan or the user changes what a line of the draft gives.               *)
LEMMA CountLine_Inv ==
    ASSUME PullInv,
           \/ \E k \in Asked, q \in 0..MaxQty : SetFulfilled(k, q)
           \/ \E i \in At("line", "sent") : LineFound(i)
    PROVE  PullInv'
<1>0. DOMAIN form = PullFields
  BY DEF PullInv, DraftFits
<1>1. CASE \E k \in Asked, q \in 0..MaxQty : SetFulfilled(k, q)
  <2>1. PICK k \in Asked, q \in 0..MaxQty :
           /\ form.selected \in Pulls /\ UNCHANGED <<screen, wire, db>>
           /\ form' = [form EXCEPT !.draft[k] = q]
           /\ q \in 0..Asks[form.selected][k] /\ k \in Lines(form.selected)
    BY <1>1 DEF SetFulfilled, CanFulfil, ShowsPanel, SelectedPull, Shown
  <2>2. PICK new : new = [form.draft EXCEPT ![k] = q]
    OBVIOUS
  <2>3. /\ form.draft \in Shares(form.selected)
        /\ q \in Nat /\ q <= Asks[form.selected][k]
    BY <2>1, AsksFit DEF PullInv, DraftFits
  <2>4. new \in Shares(form.selected)
    <3>1. new \in [Lines(form.selected) -> Nat]
      BY <2>2, <2>3 DEF Shares
    <3>2. ASSUME NEW n \in Lines(form.selected) PROVE new[n] <= Asks[form.selected][n]
      BY <2>2, <2>3 DEF Shares
    <3> QED  BY <3>1, <3>2 DEF Shares
  <2>5. DOMAIN form' = DOMAIN form /\ form'.selected = form.selected /\ form'.draft = new
    BY <1>0, <2>1, <2>2 DEF PullFields
  <2>6. DraftFits'
    BY <1>0, <2>1, <2>4, <2>5 DEF DraftFits
  <2>7. WireOK' /\ AllotsStay
    BY <2>1 DEF PullInv, WireOK, AllotsStay, FulfilAsked
  <2> QED  BY <2>1, <2>6, <2>7, PullKept
<1>2. CASE \E i \in At("line", "sent") : LineFound(i)
  <2>1. PICK i \in 1..Len(wire) : wire[i].to = "line" /\ Drop(i) /\ LineFound(i)
    BY <1>2 DEF LineFound, At, Sent
  <2>2. WireOK' /\ AllotsStay
    BY <2>1, PullMoves
  <2>3. UNCHANGED <<screen, db>>
    BY <2>1 DEF LineFound
  <2>4. PICK new : new = ApplyScan(form.draft, wire[i].body)
    OBVIOUS
  <2>5. form' = form \/ form' = [form EXCEPT !.draft = new, !.lookup = 0]
    BY <2>1, <2>4 DEF LineFound
  <2>6. CASE form' = form
    BY <2>2, <2>3, <2>6, SameDraft, PullKept
  <2>7. CASE form' = [form EXCEPT !.draft = new, !.lookup = 0]
    <3>1. DOMAIN form' = DOMAIN form /\ form'.selected = form.selected /\ form'.draft = new
      BY <1>0, <2>7 DEF PullFields
    <3>2. form.selected \in Pulls => new \in Shares(form.selected)
      <4> SUFFICES ASSUME form.selected \in Pulls PROVE new \in Shares(form.selected)
        OBVIOUS
      <4>1. form.draft \in Shares(form.selected)
        BY DEF PullInv, DraftFits
      <4>2. CASE new = form.draft
        BY <4>1, <4>2
      <4>3. CASE new # form.draft
        <5>1. PICK k \in Lines(form.selected) :
                 new = [form.draft EXCEPT ![k] = IF @ < Asks[form.selected][k] THEN @ + 1 ELSE @]
          BY <2>4, <4>3 DEF ApplyScan
        <5>2. PICK q : q = IF form.draft[k] < Asks[form.selected][k] THEN form.draft[k] + 1 ELSE form.draft[k]
          OBVIOUS
        <5>3. q \in Nat /\ q <= Asks[form.selected][k]
          <6>1. /\ form.draft[k] \in Nat /\ form.draft[k] <= Asks[form.selected][k]
                /\ Asks[form.selected][k] \in Nat
            BY <4>1, AsksFit DEF Shares
          <6> QED  BY <5>2, <6>1
        <5>4. new = [form.draft EXCEPT ![k] = q]
          BY <5>1, <5>2
        <5>5. new \in [Lines(form.selected) -> Nat]
          BY <4>1, <5>3, <5>4 DEF Shares
        <5>6. ASSUME NEW n \in Lines(form.selected) PROVE new[n] <= Asks[form.selected][n]
          BY <4>1, <5>3, <5>4 DEF Shares
        <5> QED  BY <5>5, <5>6 DEF Shares
      <4> QED  BY <4>2, <4>3
    <3>3. DraftFits'
      BY <1>0, <3>1, <3>2 DEF PullInv, DraftFits
    <3> QED  BY <2>2, <2>3, <3>3, PullKept
  <2> QED  BY <2>5, <2>6, <2>7
<1> QED  BY <1>1, <1>2

(* The store acts: it gives out, here or at another terminal, or a pull is  *)
(* cancelled.                                                               *)
LEMMA PullSettles ==
    ASSUME PullInv, NEW p \in Pulls, NEW given \in Shares(p), NEW drafted, SettlePull(p, given, drafted),
           \A lines \in drafted : given = [k \in Lines(p) |->
               IF k \in Lines(p) \cap (Units \ db.stock) THEN 0 ELSE lines[k]]
    PROVE  GivenAsAsked'
<1>0. /\ DOMAIN db = {"state", "given", "gone", "stock", "drafted"}
      /\ db.state \in [Pulls -> PullStates]
      /\ DOMAIN db.given = Pulls /\ DOMAIN db.gone = Pulls /\ DOMAIN db.drafted = Pulls
  BY DEF PullInv, GivenAsAsked
<1>1. PICK st, gone :
         /\ st = IF given = Asks[p] THEN "FULFILLED" ELSE "SHORT"
         /\ gone = Lines(p) \cap (Units \ db.stock)
  OBVIOUS
<1>2. /\ DOMAIN db' = DOMAIN db
      /\ db'.state = [db.state EXCEPT ![p] = st]
      /\ db'.given = [db.given EXCEPT ![p] = given]
      /\ db'.gone = [db.gone EXCEPT ![p] = gone]
      /\ db'.drafted = [db.drafted EXCEPT ![p] = drafted]
  BY <1>0, <1>1 DEF SettlePull
<1>3. /\ db'.state \in [Pulls -> PullStates]
      /\ DOMAIN db'.given = Pulls /\ DOMAIN db'.gone = Pulls /\ DOMAIN db'.drafted = Pulls
      /\ db'.given[p] = given /\ db'.gone[p] = gone /\ db'.drafted[p] = drafted
      /\ \A q \in Pulls : q # p => /\ db'.given[q] = db.given[q]
                                   /\ db'.gone[q] = db.gone[q]
                                   /\ db'.drafted[q] = db.drafted[q]
  <2>1. db'.state \in [Pulls -> PullStates]
    BY <1>0, <1>1, <1>2 DEF PullStates
  <2>2. /\ DOMAIN db'.given = Pulls /\ db'.given[p] = given
        /\ \A q \in Pulls : q # p => db'.given[q] = db.given[q]
    BY <1>0, <1>2
  <2>3. /\ DOMAIN db'.gone = Pulls /\ db'.gone[p] = gone
        /\ \A q \in Pulls : q # p => db'.gone[q] = db.gone[q]
    BY <1>0, <1>2
  <2>4. /\ DOMAIN db'.drafted = Pulls /\ db'.drafted[p] = drafted
        /\ \A q \in Pulls : q # p => db'.drafted[q] = db.drafted[q]
    BY <1>0, <1>2
  <2> QED  BY <2>1, <2>2, <2>3, <2>4
<1>4. \A q \in Pulls : db'.given[q] \in Shares(q)
  BY <1>3 DEF PullInv, GivenAsAsked
<1>5. ASSUME NEW q \in Pulls, NEW lines \in db'.drafted[q]
      PROVE  db'.given[q] = [k \in Lines(q) |-> IF k \in db'.gone[q] THEN 0 ELSE lines[k]]
  <2>1. CASE q = p
    BY <1>1, <1>3, <1>5, <2>1
  <2>2. CASE q # p
    BY <1>3, <1>5, <2>2 DEF PullInv, GivenAsAsked
  <2> QED  BY <2>1, <2>2
<1> QED  BY <1>0, <1>2, <1>3, <1>4, <1>5 DEF GivenAsAsked

LEMMA StoreActs_Inv ==
    ASSUME PullInv,
           \/ \E p \in Pulls : SettledElsewhere(p)
           \/ \E k \in Asked \cap Units : UnitMoves(k)
           \/ \E i \in At("cancel", "sent") : Cancel(i)
           \/ \E i \in At("fulfil", "sent") : GiveOut(i) \/ GaveOutBefore(i)
    PROVE  PullInv'
<1>0. /\ DOMAIN db = {"state", "given", "gone", "stock", "drafted"}
      /\ db.state \in [Pulls -> PullStates]
  BY DEF PullInv, GivenAsAsked
<1>1. CASE \E p \in Pulls : SettledElsewhere(p)
  <2>1. PICK p \in Pulls : SettledElsewhere(p)
    BY <1>1
  <2>2. PICK lines \in [Lines(p) -> 0..MaxQty] : SettlePull(p, Allotted(p, lines), {})
    BY <2>1 DEF SettledElsewhere
  <2>3. UNCHANGED <<screen, form, wire>>
    BY <2>1 DEF SettledElsewhere
  <2>4. lines \in [Lines(p) -> Nat]
    BY TabAssumption
  <2>5. PICK given \in Shares(p) : SettlePull(p, given, {})
    BY <2>2, <2>4, AllottedIs
  <2>6. GivenAsAsked'
    BY <2>5, PullSettles
  <2>7. WireOK' /\ AllotsStay /\ DraftFits'
    BY <2>3 DEF PullInv, WireOK, AllotsStay, FulfilAsked, DraftFits
  <2> QED  BY <2>3, <2>6, <2>7, PullKept
<1>2. CASE \E k \in Asked \cap Units : UnitMoves(k)
  <2>1. PICK rest : db' = [db EXCEPT !.stock = rest] /\ UNCHANGED <<screen, form, wire>>
    BY <1>2 DEF UnitMoves
  <2>2. /\ DOMAIN db' = DOMAIN db /\ db'.state = db.state /\ db'.given = db.given
        /\ db'.gone = db.gone /\ db'.drafted = db.drafted
    BY <1>0, <2>1
  <2>3. GivenAsAsked'
    BY <2>2 DEF PullInv, GivenAsAsked
  <2>4. WireOK' /\ AllotsStay /\ DraftFits'
    BY <2>1 DEF PullInv, WireOK, AllotsStay, FulfilAsked, DraftFits
  <2> QED  BY <2>1, <2>3, <2>4, PullKept
<1>3. CASE \E i \in At("cancel", "sent") : Cancel(i)
  <2>1. PICK i, p :
           /\ i \in 1..Len(wire)
           /\ Settle(i, "ok") /\ db' = [db EXCEPT !.state[p] = "CANCELLED"]
           /\ UNCHANGED <<screen, form>>
    BY <1>3 DEF Cancel, At, Sent
  <2>2. WireOK' /\ AllotsStay
    BY <2>1, PullMoves
  <2>3. /\ DOMAIN db' = DOMAIN db /\ db'.given = db.given
        /\ db'.gone = db.gone /\ db'.drafted = db.drafted
        /\ db'.state = [db.state EXCEPT ![p] = "CANCELLED"]
    BY <1>0, <2>1
  <2>4. db'.state \in [Pulls -> PullStates]
    BY <1>0, <2>3 DEF PullStates
  <2>5. GivenAsAsked'
    BY <2>3, <2>4 DEF PullInv, GivenAsAsked
  <2>6. DraftFits'
    BY <2>1 DEF PullInv, DraftFits
  <2> QED  BY <2>1, <2>2, <2>5, <2>6, PullKept
<1>4. CASE \E i \in At("fulfil", "sent") : GiveOut(i)
  <2>1. PICK i \in 1..Len(wire) : FulfilAsked(i) /\ GiveOut(i)
    BY <1>4 DEF At, Sent, FulfilAsked
  <2>2. Settle(i, "ok") /\ UNCHANGED <<screen, form>>
    BY <2>1 DEF GiveOut
  <2>3. WireOK' /\ AllotsStay
    BY <2>2, PullMoves
  <2>0. PICK p \in Pulls : \E lines \in Shares(p) : wire[i].body = [pull |-> p, lines |-> lines]
    BY <2>1 DEF PullInv, AllotsFit, Allots
  <2>4. PICK lines \in Shares(p) : wire[i].body = [pull |-> p, lines |-> lines]
    BY <2>0
  <2>5. SettlePull(p, Allotted(p, lines), {lines})
    <3>1. wire[i].body.pull = p /\ wire[i].body.lines = lines
      BY <2>4
    <3> QED  BY <2>1, <3>1 DEF GiveOut
  <2>6. lines \in [Lines(p) -> Nat]
    BY DEF Shares
  <2>7. PICK given \in Shares(p) :
           /\ SettlePull(p, given, {lines})
           /\ given = [k \in Lines(p) |-> IF k \in Lines(p) \cap (Units \ db.stock) THEN 0 ELSE lines[k]]
    BY <2>5, <2>6, AllottedIs
  <2>8. GivenAsAsked'
    BY <2>7, PullSettles
  <2>9. DraftFits'
    BY <2>2 DEF PullInv, DraftFits
  <2> QED  BY <2>2, <2>3, <2>8, <2>9, PullKept
<1>5. CASE \E i \in At("fulfil", "sent") : GaveOutBefore(i)
  <2>1. PICK i \in 1..Len(wire) : Settle(i, "ok") /\ UNCHANGED <<screen, form, db>>
    BY <1>5 DEF GaveOutBefore, At, Sent
  <2>2. WireOK' /\ AllotsStay
    BY <2>1, PullMoves
  <2>3. DraftFits'
    BY <2>1 DEF PullInv, DraftFits
  <2> QED  BY <2>1, <2>2, <2>3, PullKept
<1> QED  BY <1>1, <1>2, <1>3, <1>4, <1>5

(* The tab hears of a request, or of its failure, or leaves.                *)
LEMMA StoreAnswers_Inv ==
    ASSUME PullInv,
           \/ \E i \in At("fulfil", "ok") : GivenOut(i)
           \/ \E i \in At("units", "sent"), take \in SUBSET Units : UnitsArrive(i, take)
           \/ \E i \in At("create", "sent") : RecordPull(i)
           \/ \E i \in At("create", "ok") : PullCreated(i)
           \/ \E i \in At("cancel", "ok") : Cancelled(i)
           \/ AskFailed("fulfil", "fulfil") \/ AskFailed("line", "lookup") \/ AskFailed("cancel", "cancel")
           \/ AskFailed("units", "adding") \/ AskFailed("create", "create")
    PROVE  PullInv'
<1>0. UNCHANGED <<screen, db>> /\ DOMAIN form = PullFields
  BY DEF GivenOut, UnitsArrive, RecordPull, PullCreated, Cancelled, AskFailed, DropUnanswered,
         PullInv, DraftFits
<1>1. CASE \E i \in At("fulfil", "ok") : GivenOut(i)
  <2>1. PICK i \in 1..Len(wire) : Drop(i) /\ GivenOut(i)
    BY <1>1 DEF GivenOut, At, Sent
  <2>2. WireOK' /\ AllotsStay
    BY <2>1, PullMoves
  <2>3. PICK f : f = Idle(form, "fulfil", i)
    OBVIOUS
  <2>4. DOMAIN f = DOMAIN form
    BY <2>3, IdlePull
  <2>5. form' = form \/ form' = [f EXCEPT !.selected = NoKey, !.draft = EmptyDraft]
    BY <2>1, <2>3 DEF GivenOut, CloseAnyPull
  <2>6. CASE form' = form
    BY <1>0, <2>2, <2>6, SameDraft, PullKept
  <2>7. CASE form' = [f EXCEPT !.selected = NoKey, !.draft = EmptyDraft]
    <3>1. DOMAIN form' = DOMAIN form /\ form'.selected = NoKey
      BY <1>0, <2>4, <2>7 DEF PullFields
    <3> QED  BY <1>0, <2>2, <3>1, DraftLetGo, PullKept
  <2> QED  BY <2>5, <2>6, <2>7
<1>2. ASSUME NEW i \in 1..Len(wire), Settle(i, "ok") \/ Drop(i),
             DOMAIN form' = DOMAIN form, form'.selected = form.selected, form'.draft = form.draft
      PROVE  PullInv'
  <2>1. WireOK' /\ AllotsStay
    BY <1>2, PullMoves
  <2> QED  BY <1>0, <1>2, <2>1, SameDraft, PullKept
<1>3. CASE \E i \in At("create", "sent") : RecordPull(i)
  <2>1. PICK i \in 1..Len(wire) : Settle(i, "ok") /\ form' = form
    BY <1>3 DEF RecordPull, At, Sent
  <2> QED  BY <1>2, <2>1
<1>4. CASE \/ \E i \in At("units", "sent"), take \in SUBSET Units : UnitsArrive(i, take)
           \/ \E i \in At("create", "ok") : PullCreated(i)
  <2>1. PICK i \in 1..Len(wire) :
           /\ Drop(i)
           /\ (\E take \in SUBSET Units : UnitsArrive(i, take)) \/ PullCreated(i)
    BY <1>4 DEF UnitsArrive, PullCreated, At, Sent
  <2>2. PICK hook \in {"adding", "create"} : \E lines :
           \/ form' = form \/ form' = Idle(form, hook, i)
           \/ form' = [Idle(form, hook, i) EXCEPT !.lines = lines]
           \/ form' = [Idle(form, hook, i) EXCEPT !.mode = "queue", !.lines = lines]
    <3>1. CASE \E take \in SUBSET Units : UnitsArrive(i, take)
      BY <3>1 DEF UnitsArrive
    <3>2. CASE PullCreated(i)
      BY <3>2 DEF PullCreated
    <3> QED  BY <2>1, <3>1, <3>2
  <2>3. PICK f : f = Idle(form, hook, i)
    OBVIOUS
  <2>4. DOMAIN f = DOMAIN form /\ f.selected = form.selected /\ f.draft = form.draft
    BY <2>3, IdlePull
  <2>5. PICK lines :
           \/ form' = form \/ form' = f
           \/ form' = [f EXCEPT !.lines = lines]
           \/ form' = [f EXCEPT !.mode = "queue", !.lines = lines]
    BY <2>2, <2>3
  <2>6. DOMAIN form' = DOMAIN form /\ form'.selected = form.selected /\ form'.draft = form.draft
    BY <1>0, <2>4, <2>5 DEF PullFields
  <2> QED  BY <1>2, <2>1, <2>6
<1>5. CASE \E i \in At("cancel", "ok") : Cancelled(i)
  <2>1. PICK i \in 1..Len(wire) : Drop(i) /\ form' = Idle(form, "cancel", i)
    BY <1>5 DEF Cancelled, At, Sent
  <2> QED  BY <1>2, <2>1, IdlePull
<1>6. CASE \/ AskFailed("fulfil", "fulfil") \/ AskFailed("line", "lookup") \/ AskFailed("cancel", "cancel")
           \/ AskFailed("units", "adding") \/ AskFailed("create", "create")
  <2>1. PICK hook \in {"fulfil", "lookup", "cancel", "adding", "create"}, i \in 1..Len(wire) :
           Drop(i) /\ form' = Idle(form, hook, i)
    BY <1>6 DEF AskFailed, DropUnanswered, Sent
  <2> QED  BY <1>2, <2>1, IdlePull
<1> QED  BY <1>1, <1>3, <1>4, <1>5, <1>6

LEMMA LeavePulls_Inv == ASSUME PullInv, LeavePulls PROVE PullInv'
<1>1. /\ form' = [PullForm EXCEPT !.page = form.page] /\ UNCHANGED <<screen, db>>
      /\ wire' = [i \in DOMAIN wire |-> [wire[i] EXCEPT !.live = FALSE]]
  BY DEF LeavePulls, Remount
<1>2. WireOK' /\ AllotsStay
  BY <1>1, Unmounted DEF PullInv, AllotsStay, FulfilAsked
<1>3. DOMAIN form' = PullFields /\ form'.selected = NoKey
  BY <1>1 DEF PullForm, PullFields
<1>4. DraftFits'
  BY <1>3, AsksFit DEF DraftFits
<1> QED  BY <1>1, <1>2, <1>4, PullKept

LEMMA PullNext_Inv == ASSUME PullInv, [PullNext]_tabVars PROVE PullInv'
<1>1. CASE UNCHANGED tabVars
  BY <1>1 DEF tabVars, PullInv, WireOK, DraftFits, AllotsFit, FulfilAsked, GivenAsAsked
<1>2. CASE PullNext
  <2>1. CASE \/ \E all \in BOOLEAN : PollQueue(all)
             \/ \E p \in Pulls : Select(p)
             \/ BackToQueue \/ NewRequest
             \/ \E k \in Parts : AddPart(k)
             \/ \E k \in Units \cup Parts : RemoveRequestLine(k)
    BY <2>1, BrowsePulls_Inv
  <2>2. CASE \/ \E p \in Pulls : CancelPull(p)
             \/ \E k \in Asked : ScanLine(k)
             \/ Fulfil \/ AskUnits \/ CreatePull
    BY <2>2, AskStore_Inv
  <2>3. CASE \/ \E k \in Asked, q \in 0..MaxQty : SetFulfilled(k, q)
             \/ \E i \in At("line", "sent") : LineFound(i)
    BY <2>3, CountLine_Inv
  <2>4. CASE \/ \E p \in Pulls : SettledElsewhere(p)
             \/ \E k \in Asked \cap Units : UnitMoves(k)
             \/ \E i \in At("cancel", "sent") : Cancel(i)
             \/ \E i \in At("fulfil", "sent") : GiveOut(i) \/ GaveOutBefore(i)
    BY <2>4, StoreActs_Inv
  <2>5. CASE \/ \E i \in At("fulfil", "ok") : GivenOut(i)
             \/ \E i \in At("units", "sent"), take \in SUBSET Units : UnitsArrive(i, take)
             \/ \E i \in At("create", "sent") : RecordPull(i)
             \/ \E i \in At("create", "ok") : PullCreated(i)
             \/ \E i \in At("cancel", "ok") : Cancelled(i)
             \/ AskFailed("fulfil", "fulfil") \/ AskFailed("line", "lookup") \/ AskFailed("cancel", "cancel")
             \/ AskFailed("units", "adding") \/ AskFailed("create", "create")
    BY <2>5, StoreAnswers_Inv
  <2>6. CASE LeavePulls
    BY <2>6, LeavePulls_Inv
  <2> QED  BY <1>2, <2>1, <2>2, <2>3, <2>4, <2>5, <2>6 DEF PullNext
<1> QED  BY <1>1, <1>2

(* A pull is given out as its picker confirmed it, less the units that were *)
(* gone by then: the draft names every line of the pull it stands for,      *)
(* whatever was selected, polled, scanned, sold or answered in between, so  *)
(* the server fills in none of its own.                                     *)
THEOREM GivenOutAsDrafted == PullSpec => []GivesOutWhatWasDrafted
<1>1. PullInv => GivesOutWhatWasDrafted
  <2> SUFFICES ASSUME PullInv PROVE GivesOutWhatWasDrafted
    OBVIOUS
  <2>1. ShowsPanel => DOMAIN form.draft = Lines(form.selected)
    BY DEF ShowsPanel, SelectedPull, Shown, PullInv, DraftFits, Shares
  <2>2. \A i \in At("fulfil", "sent") : DOMAIN wire[i].body.lines = Lines(wire[i].body.pull)
    <3> SUFFICES ASSUME NEW i \in 1..Len(wire), FulfilAsked(i)
                 PROVE  DOMAIN wire[i].body.lines = Lines(wire[i].body.pull)
      BY DEF At, Sent, FulfilAsked
    <3>0. PICK p \in Pulls : \E lines \in Shares(p) : wire[i].body = [pull |-> p, lines |-> lines]
      BY DEF PullInv, AllotsFit, Allots
    <3>1. PICK lines \in Shares(p) : wire[i].body = [pull |-> p, lines |-> lines]
      BY <3>0
    <3>2. wire[i].body.pull = p /\ wire[i].body.lines = lines
      BY <3>1
    <3> QED  BY <3>2 DEF Shares
  <2>3. \A p \in Pulls : \A lines \in db.drafted[p] :
           db.given[p] = [k \in Lines(p) |-> IF k \in db.gone[p] THEN 0 ELSE lines[k]]
    BY DEF PullInv, GivenAsAsked
  <2> QED  BY <2>1, <2>2, <2>3 DEF GivesOutWhatWasDrafted
<1>2. PullSpec => []PullInv
  BY PullInit_Inv, PullNext_Inv, PTL DEF PullSpec
<1> QED  BY <1>1, <1>2, PTL

(***************************************************************************)
(* The shared device                                                       *)
(***************************************************************************)
DeviceFields == {"token", "path", "page", "nav", "login", "asking", "me", "drill"}

DeviceForm ==
    /\ DOMAIN form = DeviceFields
    /\ form.path \in {"login", "app", "leaving"}
    /\ form.path = "app" <=> form.token # "none"
    /\ DOMAIN form.drill = People

\* A request of which the answer will act, in w.
Awaited(w, i, to) == i \in 1..Len(w) /\ w[i].to = to /\ w[i].st = "sent" /\ w[i].live

\* One login is out, while the login page shows.
OneLogin ==
    /\ form.login # 0 => form.login \in 1..Len(wire) /\ wire[form.login].to = "login"
    /\ \A i \in 1..Len(wire) : Awaited(wire, i, "login") =>
          form.path = "login" /\ i = form.login /\ wire[i].body # "none"

\* The login page inherits nothing from the person before.
CleanLogin ==
    form.path = "login" =>
        /\ \A r \in People : form.drill[r] = "none"
        /\ form.page = "home"
        /\ \A i \in 1..Len(wire) : ~Awaited(wire, i, "drill") /\ ~Awaited(wire, i, "guard")

\* In the app every answer that will act was asked for with the token at hand.
OwnAnswers ==
    form.path = "app" =>
        /\ \A r \in People : form.drill[r] \in {"none", form.token}
        /\ form.page = "admin" => form.token = "admin"
        /\ \A i \in 1..Len(wire) : /\ Awaited(wire, i, "drill") => wire[i].body.as = form.token
                                   /\ Awaited(wire, i, "guard") => wire[i].body = form.token

DeviceInv == OnDevice /\ WireOK /\ DeviceForm /\ OneLogin /\ CleanLogin /\ OwnAnswers

\* A request of the moment.
AsksAsOneself(r) ==
    /\ form.path = "app" /\ r.to # "login"
    /\ r.to = "drill" => r.body.as = form.token
    /\ r.to = "guard" => r.body = form.token

\* Requests stay to whom they went; those awaited were, or are of the moment.
DeviceWire ==
    /\ WireOK'
    /\ \A i \in 1..Len(wire) : i \in 1..Len(wire') /\ wire'[i].to = wire[i].to
    /\ \A i \in 1..Len(wire') : wire'[i].live /\ wire'[i].st = "sent" =>
          \/ i \in 1..Len(wire) /\ wire'[i] = wire[i]
          \/ AsksAsOneself(wire'[i])
-----------------------------------------------------------------------------
LEMMA DeviceInit_Inv == DeviceInit => DeviceInv
<1> SUFFICES ASSUME DeviceInit PROVE DeviceInv
  OBVIOUS
<1>1. WireOK /\ Len(wire) = 0
  BY WireEmpty DEF DeviceInit
<1>2. PICK token \in People \cup {"none"}, disk \in People \cup {"none"} :
         form = [token |-> token, path |-> IF token = "none" THEN "login" ELSE "app",
                 page |-> "home", nav |-> 0, login |-> 0, asking |-> 0,
                 me |-> disk, drill |-> [r \in People |-> "none"]]
  BY DEF DeviceInit
<1>3. /\ DOMAIN form = DeviceFields /\ form.token = token /\ form.login = 0 /\ form.page = "home"
      /\ form.path = IF token = "none" THEN "login" ELSE "app"
      /\ form.drill = [r \in People |-> "none"]
  BY <1>2 DEF DeviceFields
<1>4. DeviceForm
  BY <1>3 DEF DeviceForm
<1> QED  BY <1>1, <1>3, <1>4 DEF DeviceInv, OnDevice, DeviceInit, OneLogin, CleanLogin, OwnAnswers, Awaited

(* A step in which nobody comes or goes.                                    *)
LEMMA DeviceKept ==
    ASSUME DeviceInv, UNCHANGED screen, DeviceWire, DOMAIN form' = DOMAIN form,
           form'.path = form.path, form'.token = form.token, form'.login = form.login,
           DOMAIN form'.drill = People,
           \A r \in People : \/ form'.drill[r] = form.drill[r]
                             \/ form.path = "app" /\ form'.drill[r] = form.token
                             \/ form.path = "leaving",
           \/ form'.page \in {form.page, "home"}
           \/ form.path = "app" /\ form.token = "admin"
           \/ form.path = "leaving"
    PROVE  DeviceInv'
<1>1. \A i \in 1..Len(wire'), to \in {"login", "drill", "guard"} : Awaited(wire', i, to) =>
         \/ i \in 1..Len(wire) /\ Awaited(wire, i, to) /\ wire'[i] = wire[i]
         \/ to # "login" /\ AsksAsOneself(wire'[i])
  BY DEF DeviceWire, Awaited, AsksAsOneself
<1>2. OneLogin'
  BY <1>1 DEF DeviceInv, OneLogin, DeviceWire
<1>3. CleanLogin'
  BY <1>1 DEF DeviceInv, CleanLogin, AsksAsOneself
<1>4. OwnAnswers'
  <2> SUFFICES ASSUME form.path = "app" PROVE OwnAnswers'
    BY DEF OwnAnswers
  <2>1. \A r \in People : form'.drill[r] \in {"none", form.token}
    BY DEF DeviceInv, OwnAnswers
  <2>2. form'.page = "admin" => form.token = "admin"
    BY DEF DeviceInv, OwnAnswers
  <2>3. ASSUME NEW i \in 1..Len(wire')
        PROVE  /\ Awaited(wire', i, "drill") => wire'[i].body.as = form.token
               /\ Awaited(wire', i, "guard") => wire'[i].body = form.token
    BY <1>1 DEF DeviceInv, OwnAnswers, AsksAsOneself, Awaited
  <2> QED  BY <2>1, <2>2, <2>3 DEF OwnAnswers
<1>5. DeviceForm'
  BY DEF DeviceInv, DeviceForm
<1> QED  BY <1>2, <1>3, <1>4, <1>5 DEF DeviceInv, OnDevice, DeviceWire

(* The requests of a person in the app, the answers, the failures.          *)
LEMMA DeviceSends ==
    ASSUME DeviceInv, NEW to, NEW body, Send(to, body), InApp, to # "login",
           to = "drill" => body.as = form.token, to = "guard" => body = form.token
    PROVE  DeviceWire
<1>1. /\ WireOK' /\ Len(wire') = Len(wire) + 1 /\ Len(wire) \in Nat
      /\ \A i \in 1..Len(wire) : wire'[i] = wire[i]
      /\ wire'[Len(wire) + 1] = [to |-> to, body |-> body, st |-> "sent", live |-> TRUE]
  <2>1. SendAs(to, body, "sent") /\ WireOK
    BY DEF Send, DeviceInv
  <2> QED  BY <2>1, Requested, WireLen DEF Fresh
<1>2. wire'[Len(wire) + 1].to = to /\ wire'[Len(wire) + 1].body = body
  BY <1>1
<1>3. \A i \in 1..Len(wire') : i \in 1..Len(wire) \/ i = Len(wire) + 1
  BY <1>1
<1>4. AsksAsOneself(wire'[Len(wire) + 1])
  BY <1>2 DEF AsksAsOneself, InApp
<1> QED  BY <1>1, <1>3, <1>4 DEF DeviceWire

LEMMA DeviceDrops ==
    ASSUME DeviceInv, NEW i \in 1..Len(wire), Drop(i)
    PROVE  DeviceWire
<1>1. /\ WireOK' /\ Len(wire') = Len(wire)
      /\ \A j \in 1..Len(wire) : j # i => wire'[j] = wire[j]
      /\ wire'[i].to = wire[i].to /\ wire'[i].live = FALSE /\ wire'[i].st = "over"
  BY DroppedRequest DEF DeviceInv
<1> QED  BY <1>1 DEF DeviceWire

(* Someone comes: one answer lets him in, on a page that shows nothing yet. *)
LEMMA LogIn_Inv ==
    ASSUME DeviceInv, (\E who \in People : LogIn(who)) \/ (\E i \in At("login", "sent") : LoggedIn(i))
    PROVE  DeviceInv'
<1>0. DOMAIN form = DeviceFields /\ DOMAIN form.drill = People /\ WireOK
  BY DEF DeviceInv, DeviceForm
<1>1. CASE \E who \in People : LogIn(who)
  <2>1. PICK who \in People : /\ form.path = "login" /\ ~InFlight(form.login) /\ UNCHANGED screen
                              /\ SendAs("login", who, "sent") /\ form' = [form EXCEPT !.login = Fresh]
    BY <1>1 DEF LogIn, Send
  <2>2. /\ WireOK' /\ Len(wire') = Len(wire) + 1 /\ Len(wire) \in Nat
        /\ \A i \in 1..Len(wire) : wire'[i] = wire[i]
        /\ wire'[Len(wire) + 1] = [to |-> "login", body |-> who, st |-> "sent", live |-> TRUE]
    BY <1>0, <2>1, Requested, WireLen DEF Fresh
  <2>3. wire'[Len(wire) + 1].to = "login" /\ wire'[Len(wire) + 1].body = who /\ who # "none"
    BY <2>2 DEF People
  <2>4. \A i \in 1..Len(wire') : i \in 1..Len(wire) \/ i = Len(wire) + 1
    BY <2>2
  <2>5. /\ DOMAIN form' = DeviceFields /\ form'.login = Len(wire) + 1
        /\ form'.path = form.path /\ form'.token = form.token /\ form'.drill = form.drill /\ form'.page = form.page
    BY <1>0, <2>1 DEF DeviceFields, Fresh
  <2>6. \A i \in 1..Len(wire) : ~Awaited(wire, i, "login")
    BY <2>1 DEF DeviceInv, OneLogin, InFlight, Awaited, Open
  <2>7. \A i \in 1..Len(wire'), to \in {"login", "drill", "guard"} : Awaited(wire', i, to) =>
           \/ i \in 1..Len(wire) /\ Awaited(wire, i, to)
           \/ i = Len(wire) + 1 /\ to = "login"
    BY <2>2, <2>3, <2>4 DEF Awaited
  <2>8. OneLogin'
    BY <2>1, <2>2, <2>3, <2>5, <2>6, <2>7 DEF OneLogin
  <2>9. CleanLogin' /\ OwnAnswers'
    BY <2>1, <2>5, <2>7 DEF DeviceInv, CleanLogin, OwnAnswers
  <2>10. DeviceForm'
    BY <2>5 DEF DeviceInv, DeviceForm
  <2> QED  BY <2>1, <2>2, <2>8, <2>9, <2>10 DEF DeviceInv, OnDevice
<1>2. CASE \E i \in At("login", "sent") : LoggedIn(i)
  <2>1. PICK i \in 1..Len(wire) :
           /\ Awaited(wire, i, "login") /\ Drop(i) /\ UNCHANGED screen
           /\ form' = [form EXCEPT !.token = wire[i].body, !.path = "app", !.login = 0]
    BY <1>2 DEF LoggedIn, At, Sent, Awaited
  <2>2. /\ WireOK' /\ Len(wire') = Len(wire)
        /\ \A j \in 1..Len(wire) : j # i => wire'[j] = wire[j]
        /\ wire'[i].to = wire[i].to /\ wire'[i].live = FALSE
    BY <1>0, <2>1, DroppedRequest
  <2>3. form.path = "login" /\ i = form.login /\ wire[i].body # "none"
    BY <2>1 DEF DeviceInv, OneLogin
  <2>4. /\ DOMAIN form' = DeviceFields /\ form'.login = 0 /\ form'.path = "app"
        /\ form'.token = wire[i].body /\ form'.drill = form.drill /\ form'.page = form.page
    BY <1>0, <2>1 DEF DeviceFields
  <2>5. \A j \in 1..Len(wire), to \in {"login", "drill", "guard"} :
           Awaited(wire', j, to) => j # i /\ Awaited(wire, j, to)
    BY <2>2 DEF Awaited
  <2>6. \A j \in 1..Len(wire') : ~Awaited(wire', j, "login") /\ ~Awaited(wire', j, "drill") /\ ~Awaited(wire', j, "guard")
    BY <2>2, <2>3, <2>5 DEF DeviceInv, OneLogin, CleanLogin
  <2>7. OneLogin' /\ CleanLogin' /\ OwnAnswers'
    BY <2>3, <2>4, <2>6 DEF DeviceInv, OneLogin, CleanLogin, OwnAnswers
  <2>8. DeviceForm'
    BY <2>3, <2>4 DEF DeviceInv, DeviceForm
  <2> QED  BY <2>1, <2>2, <2>7, <2>8 DEF DeviceInv, OnDevice
<1> QED  BY <1>1, <1>2

(* Whoever is there when the page loads: it starts from nothing.            *)
LEMMA LoadPage_Inv == ASSUME DeviceInv, LoadPage \/ LoadAdminPage PROVE DeviceInv'
<1>0. DOMAIN form = DeviceFields /\ DOMAIN form.drill = People /\ WireOK
  BY DEF DeviceInv, DeviceForm
<1>1. PICK f : f = Loaded(form, db.disk)
  OBVIOUS
<1>2. /\ DOMAIN f = DeviceFields /\ f.login = 0 /\ f.token = form.token
      /\ f.drill = [r \in People |-> "none"] /\ f.page = "home"
      /\ f.path = IF form.token = "none" THEN "login" ELSE "app"
  BY <1>0, <1>1 DEF Loaded, DeviceFields
<1>3. /\ \E S : Dead \in Seq(S)
      /\ Len(Dead) = Len(wire)
      /\ \A i \in 1..Len(wire) : Dead[i] = Fields4(Dead[i]) /\ Dead[i].live = FALSE
  BY <1>0, Silenced DEF Dead
<1>4. CASE LoadPage
  <2>1. wire' = Dead /\ form' = f /\ UNCHANGED screen
    BY <1>1, <1>4 DEF LoadPage
  <2>2. WireOK' /\ \A i \in 1..Len(wire') : ~wire'[i].live
    BY <1>3, <2>1 DEF WireOK
  <2>3. DeviceForm' /\ OneLogin' /\ CleanLogin' /\ OwnAnswers'
    BY <1>2, <2>1, <2>2 DEF DeviceForm, OneLogin, CleanLogin, OwnAnswers, Awaited
  <2> QED  BY <2>1, <2>2, <2>3 DEF DeviceInv, OnDevice
<1>5. CASE LoadAdminPage
  <2>1. PICK r : r = [to |-> "guard", body |-> form.token, st |-> "sent", live |-> TRUE]
    OBVIOUS
  <2>2. /\ wire' = Append(Dead, r) /\ form' = [f EXCEPT !.nav = Fresh] /\ UNCHANGED screen
        /\ form.token # "none"
    BY <1>1, <1>5, <2>1 DEF LoadAdminPage
  <2>3. r = Fields4(r) /\ r.to = "guard" /\ r.body = form.token
    BY <2>1 DEF Fields4
  <2>4. PICK S : Dead \in Seq(S)
    BY <1>3
  <2>5. Dead \in Seq(S \cup {r})
    BY <2>4
  <2>6. PICK w : w = Dead
    OBVIOUS
  <2>7. /\ wire' \in Seq(S \cup {r}) /\ Len(wire') = Len(w) + 1 /\ Len(w) \in Nat
        /\ \A i \in 1..Len(w) : wire'[i] = w[i]
        /\ wire'[Len(w) + 1] = r
    BY <2>2, <2>5, <2>6
  <2>8. \A i \in 1..Len(wire') : i \in 1..Len(w) \/ i = Len(w) + 1
    BY <2>7
  <2>9. \A i \in 1..Len(w) : w[i] = Fields4(w[i]) /\ w[i].live = FALSE
    BY <1>3, <2>6
  <2>10. WireOK'
    <3>1. ASSUME NEW i \in 1..Len(wire') PROVE wire'[i] = Fields4(wire'[i])
      BY <2>3, <2>7, <2>8, <2>9
    <3> QED  BY <2>7, <3>1 DEF WireOK
  <2>11. \A i \in 1..Len(wire') : wire'[i].live => wire'[i].to = "guard" /\ wire'[i].body = form.token
    BY <2>3, <2>7, <2>8, <2>9
  <2>12. /\ DOMAIN form' = DeviceFields /\ form'.login = 0 /\ form'.token = form.token
         /\ form'.drill = [p \in People |-> "none"] /\ form'.page = "home" /\ form'.path = "app"
    BY <1>2, <2>2 DEF DeviceFields
  <2>13. DeviceForm' /\ OneLogin' /\ CleanLogin'
    BY <2>2, <2>11, <2>12 DEF DeviceForm, OneLogin, CleanLogin, Awaited
  <2>14. OwnAnswers'
    BY <2>11, <2>12 DEF OwnAnswers, Awaited
  <2> QED  BY <2>2, <2>10, <2>13, <2>14 DEF DeviceInv, OnDevice
<1> QED  BY <1>4, <1>5

(* Someone goes: what is still awaited acts on a page nobody looks at.      *)
LEMMA LogOut_Inv == ASSUME DeviceInv, LogOut PROVE DeviceInv'
<1>0. DOMAIN form = DeviceFields /\ DOMAIN form.drill = People /\ WireOK
  BY DEF DeviceInv, DeviceForm
<1>1. /\ form.path = "app" /\ form' = [form EXCEPT !.token = "none", !.path = "leaving"]
      /\ UNCHANGED <<screen, wire>>
  BY DEF LogOut, InApp, EndSession
<1>2. /\ DOMAIN form' = DeviceFields /\ form'.login = form.login /\ form'.token = "none"
      /\ form'.path = "leaving" /\ form'.drill = form.drill
  BY <1>0, <1>1 DEF DeviceFields
<1>3. DeviceForm' /\ OneLogin' /\ CleanLogin' /\ OwnAnswers'
  BY <1>0, <1>1, <1>2 DEF DeviceInv, DeviceForm, OneLogin, CleanLogin, OwnAnswers
<1>4. WireOK'
  BY <1>0, <1>1 DEF WireOK
<1> QED  BY <1>1, <1>3, <1>4 DEF DeviceInv, OnDevice

(* Pages and queries, while nobody comes or goes.                           *)
LEMMA BrowseApp_Inv ==
    ASSUME DeviceInv, OpenHome \/ Persist \/ OpenAdminPage \/ FetchMe \/ FetchDrill
    PROVE  DeviceInv'
<1>0. DOMAIN form = DeviceFields /\ DOMAIN form.drill = People /\ WireOK
  BY DEF DeviceInv, DeviceForm
<1>1. /\ UNCHANGED screen
      /\ \/ form' = form
         \/ form' = [form EXCEPT !.page = "home", !.nav = 0]
         \/ form' = [form EXCEPT !.nav = Fresh]
         \/ form' = [form EXCEPT !.asking = Fresh]
  BY DEF OpenHome, Persist, OpenAdminPage, FetchMe, FetchDrill
<1>2. /\ DOMAIN form' = DOMAIN form /\ form'.path = form.path /\ form'.token = form.token
      /\ form'.login = form.login /\ form'.drill = form.drill /\ form'.page \in {form.page, "home"}
  BY <1>0, <1>1 DEF DeviceFields
<1>3. DeviceWire
  <2>1. CASE OpenHome \/ Persist
    <3>1. UNCHANGED wire
      BY <2>1 DEF OpenHome, Persist
    <3> QED  BY <1>0, <3>1 DEF DeviceWire, WireOK
  <2>2. CASE OpenAdminPage
    BY <2>2, DeviceSends DEF OpenAdminPage
  <2>3. CASE FetchMe
    BY <2>3, DeviceSends DEF FetchMe
  <2>4. CASE FetchDrill
    <3>1. PICK body : body = [role |-> RoleOf(form.me), as |-> form.token]
      OBVIOUS
    <3>2. Send("drill", body) /\ InApp /\ body.as = form.token
      BY <2>4, <3>1 DEF FetchDrill
    <3> QED  BY <3>2, DeviceSends
  <2> QED  BY <2>1, <2>2, <2>3, <2>4
<1> QED  BY <1>0, <1>1, <1>2, <1>3, DeviceKept

LEMMA AnswersArrive_Inv ==
    ASSUME DeviceInv,
           \/ RequestFails
           \/ \E i \in At("guard", "sent") : GuardAnswers(i)
           \/ \E i \in At("me", "sent") : MeArrives(i)
           \/ \E i \in At("drill", "sent") : DrillArrives(i)
    PROVE  DeviceInv'
<1>0. DOMAIN form = DeviceFields /\ DOMAIN form.drill = People /\ WireOK /\ Len(wire) \in Nat
  BY WireLen DEF DeviceInv, DeviceForm
<1>1. UNCHANGED screen
  BY DEF RequestFails, GuardAnswers, MeArrives, DrillArrives, DropUnanswered
<1>2. CASE RequestFails
  <2>1. PICK to \in {"login", "drill", "me", "guard"}, hook \in {"login", "asking", "nav"} :
           DropUnanswered(to, hook)
    BY <1>2 DEF RequestFails
  <2>2. PICK i \in 1..Len(wire) : Drop(i) /\ form' = Idle(form, hook, i)
    BY <2>1 DEF DropUnanswered, Sent
  <2>3. DeviceWire
    BY <2>2, DeviceDrops
  <2>4. /\ DOMAIN form' = DOMAIN form /\ form'.path = form.path /\ form'.token = form.token
        /\ form'.drill = form.drill /\ form'.page = form.page
        /\ form'.login = form.login \/ (form'.login = 0 /\ form.login = i)
    BY <1>0, <2>2 DEF DeviceFields, Idle
  <2>5. CASE form'.login = form.login
    BY <1>0, <1>1, <2>3, <2>4, <2>5, DeviceKept
  <2>6. CASE form'.login = 0 /\ form.login = i
    <3>1. /\ Len(wire') = Len(wire) /\ wire'[i].live = FALSE
          /\ \A j \in 1..Len(wire) : j # i => wire'[j] = wire[j]
      BY <1>0, <2>2, DroppedRequest
    <3>2. \A j \in 1..Len(wire'), t \in {"login", "drill", "guard"} :
             Awaited(wire', j, t) => j # i /\ Awaited(wire, j, t) /\ wire'[j] = wire[j]
      BY <3>1 DEF Awaited
    <3>3. OneLogin'
      BY <2>6, <3>2 DEF DeviceInv, OneLogin, Awaited
    <3>4. CleanLogin' /\ OwnAnswers' /\ DeviceForm'
      BY <2>4, <3>1, <3>2 DEF DeviceInv, CleanLogin, OwnAnswers, DeviceForm
    <3> QED  BY <1>1, <2>3, <3>3, <3>4 DEF DeviceInv, OnDevice, DeviceWire
  <2> QED  BY <2>4, <2>5, <2>6
<1>3. CASE \E i \in At("guard", "sent") : GuardAnswers(i)
  <2>1. PICK i \in 1..Len(wire) : wire[i].to = "guard" /\ wire[i].st = "sent" /\ Drop(i) /\ GuardAnswers(i)
    BY <1>3 DEF GuardAnswers, At, Sent
  <2>2. DeviceWire
    BY <2>1, DeviceDrops
  <2>3. CASE form' = form
    BY <1>0, <1>1, <2>2, <2>3, DeviceKept
  <2>4. CASE form' # form
    <3>1. wire[i].live /\ form' = [form EXCEPT !.page = GuardedPage(i), !.nav = 0]
      BY <2>1, <2>4 DEF GuardAnswers
    <3>2. Awaited(wire, i, "guard")
      BY <2>1, <3>1 DEF Awaited
    <3>3. /\ DOMAIN form' = DOMAIN form /\ form'.path = form.path /\ form'.token = form.token
          /\ form'.login = form.login /\ form'.drill = form.drill /\ form'.page = GuardedPage(i)
      BY <1>0, <3>1 DEF DeviceFields
    <3>4. form.path # "login"
      BY <3>2 DEF DeviceInv, CleanLogin
    <3>5. form.path = "app" => form'.page = "home" \/ form.token = "admin"
      BY <3>2, <3>3 DEF DeviceInv, OwnAnswers, GuardedPage
    <3>6. form.path \in {"login", "app", "leaving"}
      BY DEF DeviceInv, DeviceForm
    <3> QED  BY <1>0, <1>1, <2>2, <3>3, <3>4, <3>5, <3>6, DeviceKept
  <2> QED  BY <2>3, <2>4
<1>4. CASE \E i \in At("me", "sent") : MeArrives(i)
  <2>1. PICK i \in 1..Len(wire) : Drop(i) /\ (form' = form \/ form' = [form EXCEPT !.me = wire[i].body])
    BY <1>4 DEF MeArrives, At, Sent
  <2>2. DeviceWire
    BY <2>1, DeviceDrops
  <2>3. /\ DOMAIN form' = DOMAIN form /\ form'.path = form.path /\ form'.token = form.token
        /\ form'.login = form.login /\ form'.drill = form.drill /\ form'.page = form.page
    BY <1>0, <2>1 DEF DeviceFields
  <2> QED  BY <1>0, <1>1, <2>2, <2>3, DeviceKept
<1>5. CASE \E i \in At("drill", "sent") : DrillArrives(i)
  <2>1. PICK i \in 1..Len(wire) : wire[i].to = "drill" /\ wire[i].st = "sent" /\ Drop(i) /\ DrillArrives(i)
    BY <1>5 DEF DrillArrives, At, Sent
  <2>2. DeviceWire
    BY <2>1, DeviceDrops
  <2>3. CASE form' = form
    BY <1>0, <1>1, <2>2, <2>3, DeviceKept
  <2>4. CASE form' # form
    <3>1. PICK role, as, asking :
             /\ as = wire[i].body.as /\ wire[i].live
             /\ form' = [form EXCEPT !.drill[role] = as, !.asking = asking]
      BY <2>1, <2>4 DEF DrillArrives
    <3>2. Awaited(wire, i, "drill")
      BY <2>1, <3>1 DEF Awaited
    <3>3. /\ DOMAIN form' = DOMAIN form /\ form'.path = form.path /\ form'.token = form.token
          /\ form'.login = form.login /\ form'.page = form.page
          /\ form'.drill = [form.drill EXCEPT ![role] = as]
      BY <1>0, <3>1 DEF DeviceFields
    <3>4. /\ DOMAIN form'.drill = People
          /\ \A r \in People : form'.drill[r] = form.drill[r] \/ form'.drill[r] = as
      BY <1>0, <3>3
    <3>5. form.path # "login" /\ (form.path = "app" => as = form.token)
      BY <3>1, <3>2 DEF DeviceInv, CleanLogin, OwnAnswers
    <3>6. form.path \in {"login", "app", "leaving"}
      BY DEF DeviceInv, DeviceForm
    <3> QED  BY <1>1, <2>2, <3>3, <3>4, <3>5, <3>6, DeviceKept
  <2> QED  BY <2>3, <2>4
<1> QED  BY <1>2, <1>3, <1>4, <1>5

LEMMA DeviceNext_Inv == ASSUME DeviceInv, [DeviceNext]_tabVars PROVE DeviceInv'
<1>1. CASE UNCHANGED tabVars
  BY <1>1 DEF tabVars, DeviceInv, OnDevice, WireOK, DeviceForm, OneLogin, CleanLogin, OwnAnswers
<1>2. CASE DeviceNext
  BY <1>2, LogIn_Inv, LoadPage_Inv, LogOut_Inv, BrowseApp_Inv, AnswersArrive_Inv DEF DeviceNext
<1> QED  BY <1>1, <1>2

(* Whoever looks at the shared device sees rows he fetched himself, and the *)
(* pages of the administrator only if he is one: a session ends in a load   *)
(* of the page, so nothing the person before asked for acts on his.         *)
THEOREM NobodySeesAnothers == DeviceSpec => []EverybodySeesHisOwn
<1>1. DeviceInv => EverybodySeesHisOwn
  <2>1. RoleOf(form.me) \in People
    BY DEF RoleOf, People
  <2> QED  BY <2>1 DEF DeviceInv, OwnAnswers, EverybodySeesHisOwn, InApp, DrillRows
<1>2. DeviceSpec => []DeviceInv
  BY DeviceInit_Inv, DeviceNext_Inv, PTL DEF DeviceSpec
<1> QED  BY <1>1, <1>2, PTL

(***************************************************************************)
(* Lists                                                                   *)
(***************************************************************************)
ListState == {"filter", "settled", "page", "rows", "total", "asked", "fetching", "open", "act"}

\* The rows answer a request that was made as its key says.
AskedAsKeyed ==
    /\ DOMAIN form = ListState
    /\ \A q \in form.asked : q.params = q.key

ListInv == OnList /\ AskedAsKeyed

LEMMA RowsGo ==
    ASSUME AskedAsKeyed, DOMAIN form' = ListState, form'.asked \in {form.asked, {}}
    PROVE  AskedAsKeyed'
BY DEF AskedAsKeyed

(* A new filter or page keeps the rows as a placeholder, or drops them.     *)
LEMMA RenderKeepsKeys ==
    ASSUME NEW f, DOMAIN f = ListState
    PROVE  DOMAIN Render(f) = ListState /\ Render(f).asked \in {f.asked, {}}
<1>1. PICK g : g = Render(f)
  OBVIOUS
<1>2. \/ g = f
      \/ g = [f EXCEPT !.fetching = Enabled(f)]
      \/ g = [f EXCEPT !.fetching = Enabled(f), !.rows = {}, !.total = 0, !.asked = {}]
  BY <1>1 DEF Render
<1>3. DOMAIN g = ListState /\ g.asked \in {f.asked, {}}
  BY <1>2 DEF ListState
<1> QED  BY <1>1, <1>3

LEMMA ListNext_Inv == ASSUME ListInv, [ListNext]_tabVars PROVE ListInv'
<1>0. DOMAIN form = ListState /\ AskedAsKeyed
  BY DEF ListInv, AskedAsKeyed
<1>1. UNCHANGED screen
  BY DEF tabVars, ListNext, Answer, FetchFails, Refetch, ClearFilters, CloseRow, DecisionFails, Lose,
         TypeFilter, PickFilter, ChangeFilter, DebounceFires, TurnPage, OpenRow, DecideRow, OthersChange,
         ServeDecision, DecisionHeard
<1>2. ASSUME DOMAIN form' = ListState, form'.asked \in {form.asked, {}} PROVE ListInv'
  BY <1>0, <1>1, <1>2, RowsGo DEF ListInv, OnList
<1>3. CASE \/ UNCHANGED tabVars
           \/ \E r \in Rows : OthersChange(r)
           \/ \E i \in At("decide", "sent") : ServeDecision(i)
  <2>1. form' = form
    BY <1>3 DEF tabVars, OthersChange, ServeDecision
  <2> QED  BY <1>0, <1>2, <2>1
<1>4. CASE Answer
  <2>1. PICK q : q = Asking(form)
    OBVIOUS
  <2>2. q.params = q.key
    BY <2>1 DEF Asking, QueryParams, QueryKey
  <2>3. PICK rows, total : form' = [form EXCEPT !.rows = rows, !.total = total, !.asked = {q}, !.fetching = FALSE]
    BY <1>4, <2>1 DEF Answer
  <2>4. DOMAIN form' = ListState /\ form'.asked = {q}
    BY <1>0, <2>3 DEF ListState
  <2> QED  BY <1>1, <2>2, <2>4 DEF ListInv, OnList, AskedAsKeyed
<1>5. CASE FetchFails
  <2>1. \/ form' = [form EXCEPT !.fetching = FALSE]
        \/ form' = [form EXCEPT !.fetching = FALSE, !.rows = {}, !.total = 0, !.asked = {}]
    BY <1>5 DEF FetchFails
  <2>2. DOMAIN form' = ListState /\ form'.asked \in {form.asked, {}}
    BY <1>0, <2>1 DEF ListState
  <2> QED  BY <1>2, <2>2
<1>6. CASE \/ Refetch \/ CloseRow \/ DecisionFails \/ \E r \in Rows : OpenRow(r) \/ DecideRow(r)
           \/ \E i \in At("decide", "ok") : DecisionHeard(i)
  <2>1. PICK v : \/ form' = [form EXCEPT !.fetching = TRUE]
                 \/ form' = [form EXCEPT !.open = v]
                 \/ form' = [form EXCEPT !.act = v]
                 \/ form' = Idle(form, "act", v)
                 \/ form' = [Idle(form, "act", v) EXCEPT !.fetching = TRUE]
    BY <1>6 DEF Refetch, CloseRow, DecisionFails, Lose, OpenRow, DecideRow, DecisionHeard
  <2>2. PICK f : f = Idle(form, "act", v)
    OBVIOUS
  <2>3. DOMAIN f = ListState /\ f.asked = form.asked
    BY <1>0, <2>2 DEF Idle, ListState
  <2>4. DOMAIN form' = ListState /\ form'.asked = form.asked
    BY <1>0, <2>1, <2>2, <2>3 DEF ListState
  <2> QED  BY <1>2, <2>4
<1>7. CASE \/ ClearFilters \/ \E p \in 1..Cardinality(Rows) : TurnPage(p)
           \/ \E f \in ListFields : TypeFilter(f) \/ PickFilter(f) \/ DebounceFires(f)
  <2>1. PICK v, f : \/ f = ResetPage([form EXCEPT !.filter = v]) /\ form' = Render(f)
                    \/ f = [ResetPage(form) EXCEPT !.page = v] /\ form' = Render(f)
                    \/ f = [form EXCEPT !.settled = v] /\ form' = Render(f)
    BY <1>7 DEF ClearFilters, TurnPage, TypeFilter, PickFilter, ChangeFilter, DebounceFires
  <2>2. DOMAIN f = ListState /\ f.asked = form.asked
    BY <1>0, <2>1 DEF ResetPage, ListState
  <2>3. form' = Render(f)
    BY <2>1
  <2>4. DOMAIN form' = ListState /\ form'.asked \in {form.asked, {}}
    BY <2>2, <2>3, RenderKeepsKeys
  <2> QED  BY <1>2, <2>4
<1> QED  BY <1>3, <1>4, <1>5, <1>6, <1>7 DEF ListNext

(* Rows that can be read, opened or decided answer the page and the filter  *)
(* on screen, on every list, however answers, keys and clicks interleave.   *)
THEOREM RowsAreForTheFilter == ListSpec => []RowsAnswerTheFilter
<1>1. ListInit => ListInv
  BY DEF ListInit, ListForm, ListInv, OnList, AskedAsKeyed, ListState
<1>2. ListInv => RowsAnswerTheFilter
  BY DEF ListInv, AskedAsKeyed, RowsAnswerTheFilter, ListLoading, IsPlaceholder, QueryKey
<1>3. ListSpec => []ListInv
  BY <1>1, ListNext_Inv, PTL DEF ListSpec
<1> QED  BY <1>2, <1>3, PTL

(***************************************************************************)
(* Forms                                                                   *)
(***************************************************************************)
FormFields == {"open", "draft", "base", "touched", "scan", "req"}
BodyFields == {"pay", "meant", "base", "touched", "waited"}

\* A value for every field.
Filled(d) == d = [f \in Fields |-> d[f]]

RecordKept == DOMAIN db = {"online", "record"} /\ db.online \in BOOLEAN /\ Filled(db.record)

\* An untouched field shows the record, a form for something new starts blank.
DraftFitsForm(t, f) ==
    /\ DOMAIN f = FormFields
    /\ Filled(f.draft) /\ Filled(f.base) /\ f.touched \subseteq Fields
    /\ t.follows => \A g \in Fields : g \notin f.touched => f.draft[g] = f.base[g]
    /\ t.kind \in {"create", "entry"} => f.base = Blank

\* What a request writes is what the form showed, and only what was edited.
SaveFits(t, r) ==
    /\ DOMAIN r.body = BodyFields
    /\ \/ Applied(r.body.pay, r.body.base) = r.body.meant
       \/ t.omits /\ t.kind \in {"edit", "page", "profile"}
       \/ ~t.vars /\ r.body.waited
    /\ t.follows => DOMAIN r.body.pay \subseteq r.body.touched
    /\ r.st = "paused" => r.body.waited

\* One save is out at a time.
OneSaveOut(w, f) ==
    /\ f.req = 0 \/ f.req \in 1..Len(w)
    /\ \A i \in 1..Len(w) : w[i].live /\ w[i].st \in Open => i = f.req

\* What success is going to clear was sent.
SentAsShown(t, f, pay) ==
    \A g \in (IF t.follows THEN f.touched ELSE Fields) : g \in DOMAIN pay /\ pay[g] = f.draft[g]

LockKept(t, w, f) ==
    t.locked /\ f.req # 0 /\ w[f.req].st \in Open => SentAsShown(t, f, w[f.req].body.pay)

FormInv ==
    /\ OnForm /\ WireOK /\ RecordKept
    /\ DraftFitsForm(ThisForm, form)
    /\ \A i \in 1..Len(wire) : SaveFits(ThisForm, wire[i])
    /\ OneSaveOut(wire, form)
    /\ LockKept(ThisForm, wire, form)
-----------------------------------------------------------------------------
(* What the forms have in common.                                           *)
TraitsFit(t) ==
    /\ t.kind \in {"create", "edit", "entry", "page", "profile"}
    /\ t.follows => t.kind = "page" /\ t.vars /\ (t.diff \/ t.edits)
    /\ t.edits => t.follows
    /\ t.scans => t.kind = "entry" /\ ~t.follows
    /\ t.locked => /\ t.kind \in {"entry", "page"} /\ t.vars /\ ~t.omits /\ ~t.diff
                   /\ t.follows <=> t.edits
                   /\ t.kind = "page" => t.follows

LEMMA TheForms == ASSUME OnForm PROVE TraitsFit(ThisForm)
<1>1. TraitsFit(CustomerCreate) /\ TraitsFit(CustomerQuickCreate) /\ TraitsFit(CustomerEdit)
  BY DEF TraitsFit, FormTraits, CustomerCreate, CustomerQuickCreate, CustomerEdit, BuildCustomerPayload,
     CustomerControls, QuickCustomerControls
<1>2. TraitsFit(ProductCreate) /\ TraitsFit(ProductEdit)
  BY DEF TraitsFit, FormTraits, ProductCreate, ProductEdit, BuildProductPayload, BuildProductUpdate,
     ProductControls, ProductEditControls
<1>3. TraitsFit(ProjectCreate) /\ TraitsFit(ProjectEdit)
  BY DEF TraitsFit, FormTraits, ProjectCreate, ProjectEdit, BuildProjectPayload, BuildProjectUpdate,
     ProjectControls, ProjectEditControls
<1>4. TraitsFit(SupplierCreate) /\ TraitsFit(SupplierEdit)
  BY DEF TraitsFit, FormTraits, SupplierCreate, SupplierEdit, BuildSupplierPayload,
     SupplierControls, SupplierEditControls
<1>5. TraitsFit(AddUser) /\ TraitsFit(EditUser)
  BY DEF TraitsFit, FormTraits, AddUser, EditUser
<1>6. TraitsFit(ReceiveSerialized) /\ TraitsFit(ReceiveQuantity)
  BY DEF TraitsFit, FormTraits, ReceiveSerialized, ReceiveQuantity, BuildReceipt,
     PieceControls, QuantityControls
<1>7. TraitsFit(Adjustment) /\ TraitsFit(SaleReturn)
  BY DEF TraitsFit, FormTraits, Adjustment, SaleReturn, BuildAdjustmentPayload, BuildReturnPayload
<1>8. TraitsFit(LowStock) /\ TraitsFit(Notifications) /\ TraitsFit(UserInformation)
  BY DEF TraitsFit, FormTraits, LowStock, Notifications, UserInformation, BuildBulkMinStockUpdate,
     LevelControls, PreferenceControls, ProfileControls
<1>9. TraitsFit(ChangePassword) /\ TraitsFit(RecoverPassword) /\ TraitsFit(ResetPassword)
  BY DEF TraitsFit, FormTraits, ChangePassword, RecoverPassword, ResetPassword
<1>10. ThisForm \in {CustomerCreate, CustomerQuickCreate, CustomerEdit, ProductCreate, ProductEdit,
             ProjectCreate, ProjectEdit, SupplierCreate, SupplierEdit, AddUser, EditUser,
             ReceiveSerialized, ReceiveQuantity, Adjustment, SaleReturn, LowStock, Notifications,
             UserInformation, ChangePassword, RecoverPassword, ResetPassword}
  BY DEF ThisForm, OnForm, Forms
<1> QED  BY <1>1, <1>2, <1>3, <1>4, <1>5, <1>6, <1>7, <1>8, <1>9, <1>10

LEMMA FormInit_Inv == ASSUME FormInit PROVE FormInv
<1>1. WireOK /\ Len(wire) = 0
  BY WireEmpty DEF FormInit
<1>2. OnForm
  BY DEF FormInit, OnForm
<1>3. RecordKept
  BY DEF FormInit, RecordKept, Filled, Original
<1>4. PICK d : d = Start(ThisForm.kind)
  OBVIOUS
<1>5. Filled(d) /\ (ThisForm.kind \in {"create", "entry"} => d = Blank)
  BY <1>4 DEF Filled, Start, Original, Blank
<1>6. /\ DOMAIN form = FormFields /\ form.draft = d /\ form.base = d /\ form.touched = {} /\ form.req = 0
  BY <1>4 DEF FormInit, FormFields, ThisForm
<1>7. DraftFitsForm(ThisForm, form)
  BY <1>5, <1>6 DEF DraftFitsForm
<1> QED  BY <1>1, <1>2, <1>3, <1>6, <1>7 DEF FormInv, OneSaveOut, LockKept

(* A step that sends nothing.                                               *)
LEMMA FormKept ==
    ASSUME FormInv, UNCHANGED screen, RecordKept', WireOK', Len(wire') = Len(wire),
           DraftFitsForm(ThisForm, form'),
           \A i \in 1..Len(wire) :
              /\ SaveFits(ThisForm, wire'[i])
              /\ wire'[i].live => wire[i].live
              /\ wire'[i].st \in Open => wire[i].st \in Open,
           \/ form'.req = form.req
           \/ /\ form'.req = 0
              /\ \A i \in 1..Len(wire) : i = form.req => ~(wire'[i].live /\ wire'[i].st \in Open),
           LockKept(ThisForm, wire', form')
    PROVE  FormInv'
<1>1. ThisForm' = ThisForm /\ OnForm'
  BY DEF FormInv, OnForm, ThisForm
<1>2. OneSaveOut(wire', form')
  BY DEF FormInv, OneSaveOut
<1> QED  BY <1>1, <1>2 DEF FormInv

(* A draft that was not read when its button was pressed follows the form.  *)
LEMMA FollowDraft_Fits ==
    ASSUME FormInv, NEW f, f.req = form.req, wire' = FollowDraft(wire, f)
    PROVE  /\ WireOK' /\ Len(wire') = Len(wire)
           /\ ThisForm.vars => wire' = wire
           /\ \A i \in 1..Len(wire) :
                 /\ SaveFits(ThisForm, wire'[i])
                 /\ wire'[i].live = wire[i].live /\ wire'[i].st = wire[i].st
<1>0. WireOK /\ \A i \in 1..Len(wire) : SaveFits(ThisForm, wire[i])
  BY DEF FormInv
<1>1. CASE wire' = wire
  BY <1>0, <1>1 DEF WireOK
<1>2. CASE wire' # wire
  <2>1. /\ ~ThisForm.vars /\ form.req # 0 /\ wire[form.req].st = "paused"
        /\ wire' = [wire EXCEPT ![form.req].body.pay = Payload(f)]
    BY <1>2 DEF FollowDraft
  <2>2. PICK q \in 1..Len(wire) : q = form.req
    BY <2>1 DEF FormInv, OneSaveOut
  <2>3. PICK pay : pay = Payload(f)
    OBVIOUS
  <2>4. PICK b : b = [wire[q].body EXCEPT !.pay = pay]
    OBVIOUS
  <2> DEFINE r == [to |-> wire[q].to, body |-> b, st |-> wire[q].st, live |-> wire[q].live]
  <2>5. wire[q] = Fields4(wire[q])
    BY <1>0 DEF WireOK
  <2>6. [wire[q] EXCEPT !.body = b] = r
    BY <2>5 DEF Fields4
  <2>7. wire' = [wire EXCEPT ![q] = r]
    BY <2>1, <2>2, <2>3, <2>4, <2>6
  <2>8. r = Fields4(r)
    BY DEF Fields4
  <2>9. /\ WireOK' /\ Len(wire') = Len(wire)
        /\ \A j \in 1..Len(wire) : wire'[j] = IF j = q THEN r ELSE wire[j]
    <3> HIDE DEF r
    <3> QED  BY <1>0, <2>7, <2>8, Moved
  <2>10. DOMAIN b = BodyFields /\ b.waited = wire[q].body.waited
    BY <1>0, <2>4 DEF SaveFits, BodyFields
  <2>11. ~ThisForm.follows
    BY <2>1, TheForms DEF FormInv, TraitsFit
  <2>12. b.waited
    BY <1>0, <2>1, <2>2, <2>10 DEF SaveFits
  <2>13. SaveFits(ThisForm, r)
    BY <2>1, <2>10, <2>11, <2>12 DEF SaveFits
  <2> HIDE DEF r
  <2>14. r.live = wire[q].live /\ r.st = wire[q].st
    BY DEF r
  <2> QED  BY <1>0, <2>1, <2>9, <2>13, <2>14
<1> QED  BY <1>1, <1>2

LEMMA OpenForm_Inv == ASSUME FormInv, OpenForm PROVE FormInv'
<1>1. UNCHANGED <<screen, wire, db>>
  BY DEF OpenForm
<1>2. WireOK' /\ RecordKept' /\ wire' = wire
  BY <1>1 DEF FormInv, WireOK, RecordKept
<1>3. DOMAIN form = FormFields
  BY DEF FormInv, DraftFitsForm
<1>4. CASE ThisForm.kind = "edit"
  <2>1. form' = [form EXCEPT !.open = TRUE, !.draft = db.record, !.base = db.record]
    BY <1>4 DEF OpenForm
  <2>2. /\ DOMAIN form' = FormFields /\ form'.req = form.req /\ form'.touched = form.touched
        /\ form'.draft = db.record /\ form'.base = db.record
    BY <1>3, <2>1 DEF FormFields
  <2>3. Filled(db.record)
    BY DEF FormInv, RecordKept
  <2>4. ~ThisForm.locked /\ ~ThisForm.follows
    BY <1>4, TheForms DEF FormInv, TraitsFit
  <2>5. DraftFitsForm(ThisForm, form') /\ LockKept(ThisForm, wire', form')
    BY <1>4, <2>2, <2>3, <2>4 DEF DraftFitsForm, LockKept, FormInv
  <2> QED  BY <1>1, <1>2, <2>2, <2>5, FormKept DEF FormInv
<1>5. CASE ThisForm.kind # "edit"
  <2>1. form' = [form EXCEPT !.open = TRUE]
    BY <1>5 DEF OpenForm
  <2>2. /\ DOMAIN form' = FormFields /\ form'.req = form.req /\ form'.touched = form.touched
        /\ form'.draft = form.draft /\ form'.base = form.base
    BY <1>3, <2>1 DEF FormFields
  <2>3. DraftFitsForm(ThisForm, form') /\ LockKept(ThisForm, wire', form')
    BY <1>2, <2>2 DEF DraftFitsForm, LockKept, SentAsShown, FormInv
  <2> QED  BY <1>1, <1>2, <2>2, <2>3, FormKept DEF FormInv
<1> QED  BY <1>4, <1>5

LEMMA DismissForm_Inv == ASSUME FormInv, DismissForm PROVE FormInv'
<1>1. UNCHANGED <<screen, db>>
  BY DEF DismissForm
<1>2. RecordKept'
  BY <1>1 DEF FormInv, RecordKept
<1>3. DOMAIN form = FormFields
  BY DEF FormInv, DraftFitsForm
<1>4. ThisForm.kind \in {"edit", "create", "profile"}
  BY DEF DismissForm
<1>5. ~ThisForm.locked /\ ~ThisForm.follows
  BY <1>4, TheForms DEF FormInv, TraitsFit
<1>6. LockKept(ThisForm, wire', form')
  BY <1>5 DEF LockKept
<1>7. CASE ThisForm.kind = "edit"
  <2>1. /\ form' = [form EXCEPT !.open = FALSE, !.req = 0]
        /\ wire' = [i \in DOMAIN wire |-> [wire[i] EXCEPT !.live = FALSE]]
    BY <1>7 DEF DismissForm
  <2>2. /\ WireOK' /\ Len(wire') = Len(wire)
        /\ \A i \in 1..Len(wire) :
              /\ wire'[i].to = wire[i].to /\ wire'[i].body = wire[i].body
              /\ wire'[i].st = wire[i].st /\ wire'[i].live = FALSE
    BY <2>1, Unmounted DEF FormInv
  <2>3. \A i \in 1..Len(wire) : SaveFits(ThisForm, wire'[i])
    BY <2>2 DEF FormInv, SaveFits
  <2>4. /\ DOMAIN form' = FormFields /\ form'.req = 0 /\ form'.touched = form.touched
        /\ form'.draft = form.draft /\ form'.base = form.base
    BY <1>3, <2>1 DEF FormFields
  <2>5. DraftFitsForm(ThisForm, form')
    BY <2>4 DEF DraftFitsForm, FormInv
  <2> QED  BY <1>1, <1>2, <1>6, <2>2, <2>3, <2>4, <2>5, FormKept
<1>8. CASE ThisForm.kind # "edit"
  <2>1. PICK d, f : /\ d = (IF ThisForm.forgets THEN Start(ThisForm.kind) ELSE form.draft)
                    /\ f = [form EXCEPT !.open = FALSE, !.draft = d]
    OBVIOUS
  <2>2. form' = f /\ wire' = FollowDraft(wire, f)
    BY <1>8, <2>1 DEF DismissForm
  <2>3. /\ DOMAIN f = FormFields /\ f.req = form.req /\ f.touched = form.touched
        /\ f.draft = d /\ f.base = form.base
    BY <1>3, <2>1 DEF FormFields
  <2>4. Filled(d)
    BY <2>1 DEF Filled, Start, Original, Blank, FormInv, DraftFitsForm
  <2>5. DraftFitsForm(ThisForm, form')
    BY <1>5, <2>2, <2>3, <2>4 DEF DraftFitsForm, FormInv
  <2>6. /\ WireOK' /\ Len(wire') = Len(wire)
        /\ \A i \in 1..Len(wire) :
              /\ SaveFits(ThisForm, wire'[i])
              /\ wire'[i].live = wire[i].live /\ wire'[i].st = wire[i].st
    BY <2>2, <2>3, FollowDraft_Fits
  <2> QED  BY <1>1, <1>2, <1>6, <2>2, <2>3, <2>5, <2>6, FormKept
<1> QED  BY <1>7, <1>8

LEMMA TypeField_Inv == ASSUME FormInv, NEW f \in Fields, NEW v, TypeField(f, v) PROVE FormInv'
<1>1. UNCHANGED <<screen, db>> /\ Editable
  BY DEF TypeField
<1>2. RecordKept'
  BY <1>1 DEF FormInv, RecordKept
<1>3. DOMAIN form = FormFields /\ Filled(form.draft) /\ Filled(form.base) /\ form.touched \subseteq Fields
  BY DEF FormInv, DraftFitsForm
<1>4. PICK d, touched, g :
         /\ d = [form.draft EXCEPT ![f] = v]
         /\ touched = (IF ~ThisForm.follows THEN {}
                       ELSE IF ThisForm.edits /\ v = form.base[f] THEN form.touched \ {f}
                       ELSE form.touched \cup {f})
         /\ g = [form EXCEPT !.draft = d, !.touched = touched]
  OBVIOUS
<1>5. form' = g /\ wire' = FollowDraft(wire, g)
  <2>1. form' = [form EXCEPT !.draft[f] = v, !.touched = touched]
    BY <1>4 DEF TypeField
  <2>2. [form EXCEPT !.draft[f] = v, !.touched = touched] = g
    BY <1>4
  <2> QED  BY <2>1, <2>2 DEF TypeField
<1>6. /\ DOMAIN g = FormFields /\ g.req = form.req /\ g.touched = touched
      /\ g.draft = d /\ g.base = form.base
  BY <1>3, <1>4 DEF FormFields
<1>7. Filled(d) /\ d[f] = v /\ \A h \in Fields : h # f => d[h] = form.draft[h]
  BY <1>3, <1>4 DEF Filled
<1>8. DraftFitsForm(ThisForm, form')
  <2>1. touched \subseteq Fields
    BY <1>3, <1>4
  <2>2. ASSUME ThisForm.follows, NEW h \in Fields, h \notin touched PROVE d[h] = form.base[h]
    BY <1>4, <1>7, <2>2 DEF FormInv, DraftFitsForm
  <2>3. ThisForm.kind \in {"create", "entry"} => form.base = Blank
    BY DEF FormInv, DraftFitsForm
  <2> QED  BY <1>3, <1>5, <1>6, <1>7, <2>1, <2>2, <2>3 DEF DraftFitsForm
<1>9. /\ WireOK' /\ Len(wire') = Len(wire)
      /\ ThisForm.vars => wire' = wire
      /\ \A i \in 1..Len(wire) :
            /\ SaveFits(ThisForm, wire'[i])
            /\ wire'[i].live = wire[i].live /\ wire'[i].st = wire[i].st
  BY <1>5, <1>6, FollowDraft_Fits
<1>10. LockKept(ThisForm, wire', form')
  <2> SUFFICES ASSUME ThisForm.locked, form.req # 0, wire'[form.req].st \in Open PROVE FALSE
    BY <1>5, <1>6 DEF LockKept
  <2>1. wire' = wire
    BY <1>9, TheForms DEF FormInv, TraitsFit
  <2> QED  BY <1>1, <2>1 DEF Editable, InFlight
<1> QED  BY <1>1, <1>2, <1>5, <1>6, <1>8, <1>9, <1>10, FormKept

LEMMA ScanSerial_Inv == ASSUME FormInv, NEW v, ScanSerial(v) PROVE FormInv'
<1>1. UNCHANGED <<screen, wire, db>> /\ form' = [form EXCEPT !.scan = v]
  BY DEF ScanSerial
<1>2. WireOK' /\ RecordKept' /\ DOMAIN form = FormFields
  BY <1>1 DEF FormInv, WireOK, RecordKept, DraftFitsForm
<1>3. /\ DOMAIN form' = FormFields /\ form'.req = form.req /\ form'.touched = form.touched
      /\ form'.draft = form.draft /\ form'.base = form.base
  BY <1>1, <1>2 DEF FormFields
<1>4. DraftFitsForm(ThisForm, form') /\ LockKept(ThisForm, wire', form')
  BY <1>1, <1>3 DEF DraftFitsForm, LockKept, SentAsShown, FormInv
<1> QED  BY <1>1, <1>2, <1>3, <1>4, FormKept DEF FormInv

LEMMA AddPiece_Inv == ASSUME FormInv, AddPiece PROVE FormInv'
<1>1. UNCHANGED <<screen, wire, db>> /\ Editable /\ ThisForm.scans
  BY DEF AddPiece
<1>2. /\ WireOK' /\ RecordKept' /\ DOMAIN form = FormFields
      /\ ThisForm.kind = "entry" /\ ~ThisForm.follows
  BY <1>1, TheForms DEF FormInv, WireOK, RecordKept, DraftFitsForm, TraitsFit
<1>3. PICK d : d = [form.draft EXCEPT !["name"] = form.scan]
  OBVIOUS
<1>4. form' = [form EXCEPT !.draft = d, !.scan = 0]
  BY <1>3 DEF AddPiece
<1>5. /\ DOMAIN form' = FormFields /\ form'.req = form.req /\ form'.touched = form.touched
      /\ form'.draft = d /\ form'.base = form.base
  BY <1>2, <1>4 DEF FormFields
<1>6. Filled(d)
  BY <1>3 DEF FormInv, DraftFitsForm, Filled
<1>7. DraftFitsForm(ThisForm, form')
  BY <1>2, <1>5, <1>6 DEF FormInv, DraftFitsForm
<1>8. LockKept(ThisForm, wire', form')
  BY <1>1, <1>5 DEF LockKept, Editable, InFlight
<1> QED  BY <1>1, <1>2, <1>5, <1>7, <1>8, FormKept DEF FormInv

LEMMA Reload_Inv == ASSUME FormInv, Reload PROVE FormInv'
<1>1. /\ UNCHANGED <<screen, wire, db>> /\ ThisForm.kind \in {"page", "profile"}
      /\ form' = Refreshed(form, db.record)
  BY DEF Reload
<1>2. WireOK' /\ RecordKept' /\ wire' = wire
  BY <1>1 DEF FormInv, WireOK, RecordKept
<1>3. DOMAIN form = FormFields /\ Filled(db.record) /\ Filled(form.draft)
  BY DEF FormInv, DraftFitsForm, RecordKept
<1>4. PICK d : d = [g \in Fields |-> IF ThisForm.follows /\ g \notin form.touched
                                     THEN db.record[g] ELSE form.draft[g]]
  OBVIOUS
<1>5. form' = [form EXCEPT !.base = db.record, !.draft = d]
  BY <1>1, <1>4 DEF Refreshed
<1>6. /\ DOMAIN form' = FormFields /\ form'.req = form.req /\ form'.touched = form.touched
      /\ form'.draft = d /\ form'.base = db.record
  BY <1>3, <1>5 DEF FormFields
<1>7. Filled(d)
  BY <1>4 DEF Filled
<1>8. DraftFitsForm(ThisForm, form')
  BY <1>1, <1>3, <1>4, <1>6, <1>7 DEF DraftFitsForm, FormInv
<1>9. LockKept(ThisForm, wire', form')
  <2> SUFFICES ASSUME ThisForm.locked, form.req # 0, wire[form.req].st \in Open
               PROVE  SentAsShown(ThisForm, form', wire[form.req].body.pay)
    BY <1>2, <1>6 DEF LockKept
  <2>1. SentAsShown(ThisForm, form, wire[form.req].body.pay)
    BY DEF FormInv, LockKept
  <2>2. ThisForm.follows
    BY <1>1, TheForms DEF FormInv, TraitsFit
  <2>3. form.touched \subseteq Fields
    BY DEF FormInv, DraftFitsForm
  <2> QED  BY <1>4, <1>6, <2>1, <2>2, <2>3 DEF SentAsShown
<1> QED  BY <1>1, <1>2, <1>6, <1>8, <1>9, FormKept DEF FormInv

(* What is sent is what the form shows, but for what its kind leaves out.   *)
LEMMA PayloadTells ==
    ASSUME FormInv, NEW pay, pay = Payload(form)
    PROVE  /\ Applied(pay, form.base) = form.draft
              \/ (ThisForm.omits /\ ThisForm.kind \in {"edit", "page", "profile"})
           /\ ThisForm.follows => DOMAIN pay \subseteq form.touched
           /\ ThisForm.locked => SentAsShown(ThisForm, form, pay)
<1>0. TraitsFit(ThisForm) /\ DraftFitsForm(ThisForm, form)
  BY TheForms DEF FormInv
<1>1. \A g \in DOMAIN pay : g \in Fields /\ pay[g] = form.draft[g]
  BY DEF Payload
<1>2. \A g \in Fields : g \notin DOMAIN pay => \/ ThisForm.omits /\ form.draft[g] = 0
                                               \/ ThisForm.diff /\ form.draft[g] = form.base[g]
                                               \/ ThisForm.edits /\ g \notin form.touched
  BY DEF Payload
<1>3. ASSUME ~(ThisForm.omits /\ ThisForm.kind \in {"edit", "page", "profile"})
      PROVE  Applied(pay, form.base) = form.draft
  <2>1. ASSUME NEW g \in Fields, g \notin DOMAIN pay PROVE form.base[g] = form.draft[g]
    <3>1. CASE ThisForm.omits /\ form.draft[g] = 0
      BY <1>0, <1>3, <3>1 DEF TraitsFit, DraftFitsForm, Blank
    <3>2. CASE ThisForm.edits /\ g \notin form.touched
      BY <1>0, <3>2 DEF TraitsFit, DraftFitsForm
    <3> QED  BY <1>2, <2>1, <3>1, <3>2
  <2>2. Applied(pay, form.base) = [g \in Fields |-> form.draft[g]]
    BY <1>1, <2>1 DEF Applied
  <2> QED  BY <1>0, <2>2 DEF DraftFitsForm, Filled
<1>4. ASSUME ThisForm.follows PROVE DOMAIN pay \subseteq form.touched
  <2> SUFFICES ASSUME NEW g \in DOMAIN pay, g \notin form.touched PROVE FALSE
    OBVIOUS
  <2>1. form.draft[g] = form.base[g] /\ g \in Fields
    BY <1>0, <1>1, <1>4 DEF DraftFitsForm
  <2>2. ~ThisForm.diff /\ ~ThisForm.edits
    BY <2>1 DEF Payload
  <2> QED  BY <1>0, <1>4, <2>2 DEF TraitsFit
<1>5. ASSUME ThisForm.locked PROVE SentAsShown(ThisForm, form, pay)
  <2>1. form.touched \subseteq Fields
    BY <1>0 DEF DraftFitsForm
  <2> QED  BY <1>0, <1>1, <1>2, <1>5, <2>1 DEF TraitsFit, SentAsShown
<1> QED  BY <1>3, <1>4, <1>5

LEMMA Press_Inv == ASSUME FormInv, Press PROVE FormInv'
<1>1. PICK pay, b, st :
         /\ pay = Payload(form)
         /\ b = [pay |-> pay, meant |-> form.draft, base |-> form.base,
                 touched |-> form.touched, waited |-> ~db.online]
         /\ st = (IF db.online THEN "sent" ELSE "paused")
  OBVIOUS
<1>2. /\ SendAs("save", b, st) /\ form' = [form EXCEPT !.req = Fresh] /\ ~InFlight(form.req)
      /\ UNCHANGED <<screen, db>>
  BY <1>1 DEF Press
<1>3. ThisForm' = ThisForm /\ OnForm' /\ RecordKept' /\ DOMAIN form = FormFields
  BY <1>2 DEF FormInv, OnForm, ThisForm, RecordKept, DraftFitsForm
<1>4. /\ WireOK' /\ Len(wire') = Len(wire) + 1 /\ Len(wire) \in Nat
      /\ \A i \in 1..Len(wire) : wire'[i] = wire[i]
      /\ wire'[Len(wire) + 1] = [to |-> "save", body |-> b, st |-> st, live |-> TRUE]
  BY <1>2, Requested, WireLen DEF FormInv, Fresh
<1>5. PICK r : r = wire'[Len(wire) + 1]
  OBVIOUS
<1>6. r.body = b /\ r.st = st /\ st \in {"sent", "paused"}
  BY <1>1, <1>4, <1>5
<1>7. /\ DOMAIN form' = FormFields /\ form'.req = Len(wire) + 1 /\ form'.touched = form.touched
      /\ form'.draft = form.draft /\ form'.base = form.base
  BY <1>2, <1>3 DEF FormFields, Fresh
<1>8. /\ DOMAIN b = BodyFields /\ b.pay = pay /\ b.meant = form.draft /\ b.base = form.base
      /\ b.touched = form.touched /\ b.waited = ~db.online
  BY <1>1 DEF BodyFields
<1>9. /\ \/ Applied(pay, form.base) = form.draft
         \/ ThisForm.omits /\ ThisForm.kind \in {"edit", "page", "profile"}
      /\ ThisForm.follows => DOMAIN pay \subseteq form.touched
      /\ ThisForm.locked => SentAsShown(ThisForm, form, pay)
  BY <1>1, PayloadTells
<1>10. SaveFits(ThisForm, r)
  BY <1>1, <1>6, <1>8, <1>9 DEF SaveFits
<1>11. \A i \in 1..Len(wire') : i \in 1..Len(wire) \/ i = Len(wire) + 1
  BY <1>4
<1>12. \A i \in 1..Len(wire') : SaveFits(ThisForm, wire'[i])
  BY <1>4, <1>5, <1>10, <1>11 DEF FormInv
<1>13. \A i \in 1..Len(wire) : ~(wire[i].live /\ wire[i].st \in Open)
  BY <1>2, <1>4 DEF FormInv, OneSaveOut, InFlight
<1>14. OneSaveOut(wire', form')
  BY <1>4, <1>7, <1>11, <1>13 DEF OneSaveOut
<1>15. DraftFitsForm(ThisForm, form')
  BY <1>7 DEF DraftFitsForm, FormInv
<1>16. LockKept(ThisForm, wire', form')
  <2>1. wire'[form'.req].body.pay = pay
    BY <1>5, <1>6, <1>7, <1>8
  <2>2. ThisForm.locked => SentAsShown(ThisForm, form', pay)
    BY <1>7, <1>9 DEF SentAsShown
  <2> QED  BY <2>1, <2>2 DEF LockKept
<1> QED  BY <1>3, <1>4, <1>12, <1>14, <1>15, <1>16 DEF FormInv

(* A request moves on, the form stays as it is or has one request less.     *)
LEMMA SaveMoves ==
    ASSUME FormInv, NEW i \in 1..Len(wire), wire[i].st \in Open, NEW st, Settle(i, st), st # "paused",
           UNCHANGED screen, RecordKept', DraftFitsForm(ThisForm, form'),
           \/ form'.req = form.req /\ form'.draft = form.draft /\ form'.touched = form.touched
           \/ st \notin Open /\ form.req = i /\ form'.req = 0
    PROVE  FormInv'
<1>1. /\ WireOK' /\ Len(wire') = Len(wire)
      /\ \A j \in 1..Len(wire) : j # i => wire'[j] = wire[j]
      /\ wire'[i].body = wire[i].body /\ wire'[i].live = wire[i].live /\ wire'[i].st = st
  BY SettledRequest DEF FormInv
<1>2. \A j \in 1..Len(wire) :
        /\ SaveFits(ThisForm, wire'[j])
        /\ wire'[j].live => wire[j].live
        /\ wire'[j].st \in Open => wire[j].st \in Open
  BY <1>1 DEF FormInv, SaveFits
<1>3. /\ \/ form'.req = form.req
         \/ /\ form'.req = 0
            /\ \A j \in 1..Len(wire) : j = form.req => ~(wire'[j].live /\ wire'[j].st \in Open)
  BY <1>1
<1>4. LockKept(ThisForm, wire', form')
  <2>1. CASE form'.req = form.req /\ form'.draft = form.draft /\ form'.touched = form.touched
    BY <1>1, <2>1 DEF FormInv, LockKept, SentAsShown, OneSaveOut
  <2>2. CASE form'.req = 0
    BY <2>2 DEF LockKept
  <2> QED  BY <2>1, <2>2
<1> QED  BY <1>1, <1>2, <1>3, <1>4, FormKept

LEMMA Resume_Inv == ASSUME FormInv, NEW i \in At("save", "paused"), Resume(i) PROVE FormInv'
<1>1. i \in 1..Len(wire) /\ wire[i].st = "paused"
  BY DEF At, Sent
<1>2. Settle(i, "sent") /\ UNCHANGED <<screen, form, db>>
  BY DEF Resume
<1>3. RecordKept' /\ DraftFitsForm(ThisForm, form')
  BY <1>2 DEF FormInv, RecordKept
<1> QED  BY <1>1, <1>2, <1>3, SaveMoves DEF Open

LEMMA ServeForm_Inv == ASSUME FormInv, NEW i \in At("save", "sent"), ServeForm(i) PROVE FormInv'
<1>1. i \in 1..Len(wire) /\ wire[i].st = "sent"
  BY DEF At, Sent
<1>2. Settle(i, "ok") /\ UNCHANGED <<screen, form>>
  BY DEF ServeForm
<1>3. PICK record : record = Applied(wire[i].body.pay, db.record)
  OBVIOUS
<1>4. db' = db \/ db' = [db EXCEPT !.record = record]
  BY <1>3 DEF ServeForm
<1>5. Filled(record)
  BY <1>3 DEF Filled, Applied
<1>6. RecordKept'
  BY <1>4, <1>5 DEF FormInv, RecordKept
<1>7. DraftFitsForm(ThisForm, form')
  BY <1>2 DEF FormInv
<1> QED  BY <1>1, <1>2, <1>6, <1>7, SaveMoves DEF Open

(* What success makes of a form fits it again.                              *)
LEMMA SucceedFits ==
    ASSUME FormInv, NEW f, DraftFitsForm(ThisForm, f), NEW g, g = Succeed(f)
    PROVE  DraftFitsForm(ThisForm, g) /\ g.req = f.req
<1>0. TraitsFit(ThisForm)
  BY TheForms DEF FormInv
<1>1. Filled(Blank)
  BY DEF Filled, Blank
<1>2. CASE ThisForm.kind \in {"create", "edit"}
  <2>1. g = [f EXCEPT !.open = FALSE, !.draft = Blank]
    BY <1>2 DEF Succeed
  <2>2. DOMAIN g = FormFields /\ g.draft = Blank /\ g.base = f.base /\ g.touched = f.touched /\ g.req = f.req
    BY <2>1 DEF DraftFitsForm, FormFields
  <2> QED  BY <1>0, <1>1, <1>2, <2>2 DEF DraftFitsForm, TraitsFit
<1>3. CASE ThisForm.kind = "entry"
  <2>1. g = [f EXCEPT !.draft = Blank, !.scan = 0]
    BY <1>3 DEF Succeed
  <2>2. DOMAIN g = FormFields /\ g.draft = Blank /\ g.base = f.base /\ g.touched = f.touched /\ g.req = f.req
    BY <2>1 DEF DraftFitsForm, FormFields
  <2> QED  BY <1>0, <1>1, <1>3, <2>2 DEF DraftFitsForm, TraitsFit
<1>4. CASE ThisForm.kind = "page"
  <2>1. g = [f EXCEPT !.draft = f.base, !.touched = {}]
    BY <1>4 DEF Succeed
  <2>2. DOMAIN g = FormFields /\ g.draft = f.base /\ g.base = f.base /\ g.touched = {} /\ g.req = f.req
    BY <2>1 DEF DraftFitsForm, FormFields
  <2> QED  BY <1>4, <2>2 DEF DraftFitsForm
<1>5. CASE ThisForm.kind = "profile"
  <2>1. g = [f EXCEPT !.open = FALSE]
    BY <1>5 DEF Succeed
  <2>2. DOMAIN g = FormFields /\ g.draft = f.draft /\ g.base = f.base /\ g.touched = f.touched /\ g.req = f.req
    BY <2>1 DEF DraftFitsForm, FormFields
  <2> QED  BY <2>2 DEF DraftFitsForm
<1> QED  BY <1>0, <1>2, <1>3, <1>4, <1>5 DEF TraitsFit

LEMMA IdleFits ==
    ASSUME FormInv, NEW i, NEW f, f = Idle(form, "req", i)
    PROVE  /\ DraftFitsForm(ThisForm, f) /\ f.req = (IF form.req = i THEN 0 ELSE form.req)
           /\ f.draft = form.draft /\ f.touched = form.touched
<1>1. DraftFitsForm(ThisForm, form)
  BY DEF FormInv
<1>2. /\ DOMAIN f = FormFields /\ f.draft = form.draft /\ f.base = form.base
      /\ f.touched = form.touched /\ f.req = (IF form.req = i THEN 0 ELSE form.req)
  BY <1>1 DEF Idle, DraftFitsForm, FormFields
<1> QED  BY <1>1, <1>2 DEF DraftFitsForm

LEMMA FormHeard_Inv == ASSUME FormInv, NEW i \in At("save", "ok"), FormHeard(i) PROVE FormInv'
<1>1. i \in 1..Len(wire) /\ wire[i].st = "ok"
  BY DEF At, Sent
<1>2. Settle(i, "over") /\ UNCHANGED <<screen, db>>
  BY DEF FormHeard
<1>3. RecordKept'
  BY <1>2 DEF FormInv, RecordKept
<1>4. PICK f, g : f = Idle(form, "req", i) /\ g = Succeed(f)
  OBVIOUS
<1>5. /\ DraftFitsForm(ThisForm, f) /\ f.req = (IF form.req = i THEN 0 ELSE form.req)
  BY <1>4, IdleFits
<1>6. DraftFitsForm(ThisForm, g) /\ g.req = f.req
  BY <1>4, <1>5, SucceedFits
<1>7. form' = IF wire[i].live THEN g ELSE form
  BY <1>4 DEF FormHeard
<1>8. DraftFitsForm(ThisForm, form')
  BY <1>6, <1>7 DEF FormInv
<1>9. wire[i].live => form.req = i
  BY <1>1 DEF FormInv, OneSaveOut, Open
<1>10. \/ form'.req = form.req /\ form'.draft = form.draft /\ form'.touched = form.touched
       \/ form.req = i /\ form'.req = 0
  BY <1>5, <1>6, <1>7, <1>9
<1> QED  BY <1>1, <1>2, <1>3, <1>8, <1>10, SaveMoves DEF Open

LEMMA FormFails_Inv == ASSUME FormInv, FormFails PROVE FormInv'
<1>1. PICK i \in 1..Len(wire) : /\ wire[i].st \in {"sent", "ok"}
                                /\ Settle(i, "lost") /\ form' = Idle(form, "req", i)
  BY DEF FormFails, Lose, Sent
<1>2. UNCHANGED <<screen, db>>
  BY DEF FormFails, Lose
<1>3. RecordKept'
  BY <1>2 DEF FormInv, RecordKept
<1>4. PICK f : f = Idle(form, "req", i)
  OBVIOUS
<1>5. /\ DraftFitsForm(ThisForm, f) /\ f.req = (IF form.req = i THEN 0 ELSE form.req)
      /\ f.draft = form.draft /\ f.touched = form.touched
  BY <1>4, IdleFits
<1> QED  BY <1>1, <1>2, <1>3, <1>4, <1>5, SaveMoves DEF Open

LEMMA FormNext_Inv == ASSUME FormInv, [FormNext]_tabVars PROVE FormInv'
<1>1. ASSUME UNCHANGED <<screen, form, wire>>, RecordKept' PROVE FormInv'
  BY <1>1 DEF FormInv, OnForm, ThisForm, WireOK
<1>2. CASE UNCHANGED tabVars
  BY <1>1, <1>2 DEF tabVars, FormInv, RecordKept
<1>3. CASE Connection
  <2>1. db' = [db EXCEPT !.online = ~db.online]
    BY <1>3 DEF Connection
  <2>2. RecordKept'
    BY <2>1 DEF FormInv, RecordKept
  <2> QED  BY <1>1, <1>3, <2>2 DEF Connection
<1>4. CASE OthersEdit("note")
  <2>1. PICK record : record = [db.record EXCEPT !["note"] = 2]
    OBVIOUS
  <2>2. db' = [db EXCEPT !.record = record]
    BY <1>4, <2>1 DEF OthersEdit
  <2>3. Filled(record)
    BY <2>1 DEF FormInv, RecordKept, Filled
  <2>4. RecordKept'
    BY <2>2, <2>3 DEF FormInv, RecordKept
  <2> QED  BY <1>1, <1>4, <2>4 DEF OthersEdit
<1> QED  BY <1>2, <1>3, <1>4, OpenForm_Inv, DismissForm_Inv, Reload_Inv, Press_Inv, FormFails_Inv,
            TypeField_Inv, ScanSerial_Inv, AddPiece_Inv, Resume_Inv, ServeForm_Inv, FormHeard_Inv DEF FormNext

LEMMA FormSpec_Inv == FormSpec => []FormInv
BY FormInit_Inv, FormNext_Inv, PTL DEF FormSpec

(* What a save writes is what the form showed when its button was pressed,  *)
(* on every form but those that leave out blanks of a record or read a      *)
(* draft that had to wait, whatever is typed, dismissed, opened or fetched. *)
THEOREM WritesWhatWasShown == FormSpec => []SavesWhatWasShown
<1>1. FormInv => SavesWhatWasShown
  BY DEF FormInv, SaveFits, SavesWhatWasShown, Shared, OnForm, Sent
<1> QED  BY <1>1, FormSpec_Inv, PTL

(* A page that follows its record saves the edits made on it and nothing    *)
(* that others changed meanwhile.                                           *)
THEOREM WritesEditsAlone == FormSpec => []SavesOnlyWhatWasEdited
<1>1. FormInv => SavesOnlyWhatWasEdited
  BY DEF FormInv, SaveFits, SavesOnlyWhatWasEdited, Sent
<1> QED  BY <1>1, FormSpec_Inv, PTL

(* What the success of a locked form clears is what it sent.                *)
THEOREM LockedDraftIsSent == FormSpec => []LockedFormKeepsItsDraft
<1>1. FormInv => LockedFormKeepsItsDraft
  BY DEF FormInv, LockKept, SentAsShown, LockedFormKeepsItsDraft, InFlight
<1> QED  BY <1>1, FormSpec_Inv, PTL

(***************************************************************************)
(* Date fields                                                             *)
(***************************************************************************)
PickerFields == {"value", "max", "today", "open", "view", "month", "focus"}
Dates == Nat \X Nat

\* A day that has come.
HasCome(day, d) == \E k \in 1..day : d = Midnights[k]

\* A bounded field holds, and its popover rests on, days within its bound.
WithinBound(f, day) ==
    /\ HasCome(day, f.max)
    /\ f.value \in Dates /\ ~Before(f.max, f.value)
    /\ f.open => ~OutOfBounds(f.focus, f.max)

PickerInv ==
    /\ OnPicker
    /\ DOMAIN db = {"day"} /\ db.day \in 1..Len(Midnights)
    /\ DOMAIN form = PickerFields
    /\ HasCome(db.day, form.today)
    /\ ThisField.bounded => WithinBound(form, db.day)
-----------------------------------------------------------------------------
LEMMA Transitive ==
    ASSUME NEW a \in Dates, NEW b \in Dates, NEW c \in Dates, ~Before(b, a), ~Before(c, b)
    PROVE  ~Before(c, a)
BY DEF Dates, Before

LEMMA TheMidnights ==
    /\ Midnights \in Seq(Dates) /\ Len(Midnights) \in Nat \ {0}
    /\ \A i, j \in 1..Len(Midnights) : i < j => Before(Midnights[i], Midnights[j])
<1>1. Midnights \in Seq(Dates) /\ Midnights # <<>>
  BY PickerAssumption DEF Dates
<1>2. Len(Midnights) \in Nat \ {0} /\ DOMAIN Midnights = 1..Len(Midnights)
  BY <1>1
<1>3. \A i, j \in DOMAIN Midnights : i < j => Before(Midnights[i], Midnights[j])
  BY PickerAssumption
<1> QED  BY <1>1, <1>2, <1>3

LEMMA ItIsToday ==
    ASSUME NEW day \in 1..Len(Midnights), NEW d, HasCome(day, d)
    PROVE  d \in Dates /\ ~Before(Midnights[day], d)
<1>1. Midnights \in Seq(Dates) /\ Len(Midnights) \in Nat
  BY TheMidnights
<1>2. \A i, j \in 1..Len(Midnights) : i < j => Before(Midnights[i], Midnights[j])
  BY TheMidnights
<1>3. PICK k \in 1..day : d = Midnights[k]
  BY DEF HasCome
<1>4. k \in 1..Len(Midnights)
  BY <1>1
<1>5. Midnights[k] \in Dates /\ Midnights[day] \in Dates
  BY <1>1, <1>4
<1>6. CASE k = day
  <2>1. PICK a \in Dates : a = Midnights[day] /\ a = d
    BY <1>3, <1>5, <1>6
  <2>2. ~Before(a, a)
    BY DEF Before, Dates
  <2> QED  BY <2>1, <2>2
<1>7. CASE k # day
  <2>1. Before(Midnights[k], Midnights[day])
    BY <1>1, <1>2, <1>4, <1>7
  <2> QED  BY <1>3, <1>5, <2>1 DEF Before, Dates
<1> QED  BY <1>6, <1>7

LEMMA TodayHasCome ==
    ASSUME db.day \in 1..Len(Midnights)
    PROVE  HasCome(db.day, Today) /\ Today \in Dates /\ ~Before(Today, Today)
<1>1. PICK n \in 1..Len(Midnights) : n = db.day
  OBVIOUS
<1>2. n \in 1..n
  BY <1>1
<1>3. HasCome(db.day, Today)
  BY <1>1, <1>2 DEF HasCome, Today
<1> QED  BY <1>3, ItIsToday DEF Today

(* The bounded field is one of days and holds one always.                   *)
LEMMA BoundedField ==
    ASSUME OnPicker, ThisField.bounded
    PROVE  ByDay /\ ~ThisField.clears /\ ThisField.seeded
<1>1. PICK t : t = ThisField
  OBVIOUS
<1>2. t \in {DateFields.receiveDate, DateFields.auditDate, DateFields.reportMonth}
  BY <1>1 DEF OnPicker, ThisField, DateFields
<1>3. ~DateFields.auditDate.bounded /\ ~DateFields.reportMonth.bounded
  BY DEF DateFields, DateField
<1>4. /\ DateFields.receiveDate.by = "day" /\ ~DateFields.receiveDate.clears
      /\ DateFields.receiveDate.seeded
  BY DEF DateFields, DateField
<1> QED  BY <1>1, <1>2, <1>3, <1>4 DEF ByDay

LEMMA OpenedFits ==
    ASSUME OnPicker, ThisField.bounded, NEW day \in 1..Len(Midnights), NEW f,
           DOMAIN f = PickerFields, HasCome(day, f.max), f.value \in Dates, ~Before(f.max, f.value)
    PROVE  DOMAIN Opened(f) = PickerFields /\ WithinBound(Opened(f), day)
<1>1. PICK g, d : g = Opened(f) /\ d = StartOf(f)
  OBVIOUS
<1>2. DOMAIN g = PickerFields /\ g.max = f.max /\ g.value = f.value /\ g.focus = d
  BY <1>1 DEF Opened, PickerFields
<1>3. f.max \in Dates
  BY ItIsToday
<1>4. ~OutOfBounds(d, f.max)
  BY <1>1, <1>3, BoundedField DEF StartOf, ClampDate, OutOfBounds, Before, Dates
<1> QED  BY <1>1, <1>2, <1>4 DEF WithinBound

LEMMA ClosedFits ==
    ASSUME NEW f, DOMAIN f = PickerFields
    PROVE  /\ DOMAIN Closed(f) = PickerFields /\ Closed(f).max = f.max /\ Closed(f).today = f.today
           /\ Closed(f).value = f.value /\ Closed(f).open = FALSE
<1>1. PICK g : g = Closed(f)
  OBVIOUS
<1>2. /\ DOMAIN g = PickerFields /\ g.max = f.max /\ g.today = f.today
      /\ g.value = f.value /\ g.open = FALSE
  BY <1>1 DEF Closed, PickerFields
<1> QED  BY <1>1, <1>2

LEMMA PickerInit_Inv == ASSUME PickerInit PROVE PickerInv
<1>1. OnPicker /\ db = [day |-> 1]
  BY DEF PickerInit, OnPicker
<1>2. Len(Midnights) \in Nat \ {0}
  BY TheMidnights
<1>3. Len(Midnights) \in Nat /\ db.day \in 1..Len(Midnights) /\ db.day = 1
  BY <1>1, <1>2
<1>4. HasCome(db.day, Today)
  BY <1>3, TodayHasCome
<1>5. PICK f : /\ f = [value |-> IF ~ThisField.seeded THEN NoKey
                                 ELSE IF ByDay THEN Today ELSE MonthOf(Today),
                       max |-> Bound, today |-> Today,
                       open |-> FALSE, view |-> "days", month |-> 0, focus |-> NoKey]
               /\ form = Closed(f)
  BY DEF PickerInit
<1>6. DOMAIN f = PickerFields /\ f.max = Bound /\ f.today = Today
  BY <1>5 DEF PickerFields
<1>7. ThisField.bounded => f.value = Today /\ f.max = Today
  BY <1>1, <1>5, BoundedField DEF Bound
<1>8. Today \in Dates /\ ~Before(Today, Today)
  BY <1>3, TodayHasCome
<1>9. /\ DOMAIN form = PickerFields /\ form.max = f.max /\ form.today = f.today
      /\ form.value = f.value /\ form.open = FALSE
  BY <1>5, <1>6, ClosedFits
<1>10. DOMAIN db = {"day"}
  BY <1>1
<1> QED  BY <1>1, <1>3, <1>4, <1>6, <1>7, <1>8, <1>9, <1>10 DEF PickerInv, WithinBound

(* A step of the field or of its form.                                      *)
LEMMA PickerShows ==
    ASSUME PickerInv, NEW f, Shows(f), DOMAIN f = PickerFields,
           ThisField.bounded => WithinBound(f, db.day)
    PROVE  PickerInv'
<1>1. UNCHANGED <<screen, db>> /\ form' = [f EXCEPT !.today = Today]
  BY DEF Shows
<1>2. /\ DOMAIN form' = PickerFields /\ form'.today = Today /\ form'.max = f.max
      /\ form'.value = f.value /\ form'.open = f.open /\ form'.focus = f.focus
  BY <1>1 DEF PickerFields
<1>3. db.day \in 1..Len(Midnights)
  BY DEF PickerInv
<1>4. HasCome(db.day, Today)
  BY <1>3, TodayHasCome
<1>5. ThisField' = ThisField
  BY <1>1 DEF ThisField
<1> QED  BY <1>1, <1>2, <1>4, <1>5 DEF PickerInv, OnPicker, WithinBound

(* What is picked has come.                                                 *)
LEMMA Picked ==
    ASSUME PickerInv, NEW v, Picks(v),
           ThisField.bounded => v \in Dates /\ ~Before(Today, v)
    PROVE  PickerInv'
<1>1. PICK c, f : c = Closed(form) /\ f = [c EXCEPT !.value = v, !.max = Bound]
  OBVIOUS
<1>2. Shows(f)
  BY <1>1 DEF Picks
<1>3. DOMAIN c = PickerFields /\ c.open = FALSE
  BY <1>1, ClosedFits DEF PickerInv
<1>4. DOMAIN f = PickerFields /\ f.value = v /\ f.max = Bound /\ f.open = FALSE
  BY <1>1, <1>3 DEF PickerFields
<1>5. HasCome(db.day, Today)
  BY TodayHasCome DEF PickerInv
<1>6. ThisField.bounded => WithinBound(f, db.day)
  BY <1>4, <1>5 DEF WithinBound, Bound
<1> QED  BY <1>2, <1>4, <1>6, PickerShows

(* The form renders: a bound that moved starts the popover over.            *)
LEMMA FormRenders_Inv == ASSUME PickerInv, FormRenders \/ FormStartsOver PROVE PickerInv'
<1>0. /\ HasCome(db.day, Today) /\ Today \in Dates /\ db.day \in 1..Len(Midnights) /\ OnPicker
      /\ DOMAIN form = PickerFields
  <2>1. HasCome(db.day, Today)
    BY TodayHasCome DEF PickerInv
  <2> QED  BY <2>1, ItIsToday DEF PickerInv
<1>1. CASE FormRenders
  <2>1. PICK f, g : /\ f = [form EXCEPT !.today = Today, !.max = Bound]
                    /\ g = (IF form.open /\ form.max # Bound THEN Opened(f) ELSE f)
    OBVIOUS
  <2>2. Shows(g)
    BY <1>1, <2>1 DEF FormRenders
  <2>3. /\ DOMAIN f = PickerFields /\ f.max = Bound /\ f.value = form.value
        /\ f.open = form.open /\ f.focus = form.focus
    BY <1>0, <2>1 DEF PickerFields
  <2>4. DOMAIN Opened(f) = PickerFields
    BY <2>3 DEF Opened, PickerFields
  <2>5. ASSUME ThisField.bounded PROVE WithinBound(g, db.day)
    <3>1. Bound = Today
      BY <2>5 DEF Bound
    <3>2. form.max \in Dates /\ ~Before(Today, form.max) /\ WithinBound(form, db.day)
      BY <1>0, <2>5, ItIsToday DEF PickerInv, WithinBound, Today
    <3>3. f.value \in Dates /\ ~Before(f.max, f.value)
      BY <1>0, <2>3, <3>1, <3>2, Transitive DEF WithinBound
    <3>4. WithinBound(Opened(f), db.day)
      BY <1>0, <2>3, <2>5, <3>1, <3>3, OpenedFits
    <3>5. form.open /\ form.max = Bound => ~OutOfBounds(f.focus, f.max)
      BY <2>3, <3>2 DEF WithinBound
    <3>6. ~(form.open /\ form.max # Bound) => WithinBound(f, db.day)
      BY <1>0, <2>3, <3>1, <3>3, <3>5 DEF WithinBound
    <3> QED  BY <2>1, <3>4, <3>6
  <2> QED  BY <2>1, <2>2, <2>3, <2>4, <2>5, PickerShows
<1>2. CASE FormStartsOver
  <2>1. PICK f, g : /\ f = [form EXCEPT !.value = Today, !.max = Bound]
                    /\ g = (IF form.open THEN Opened(f) ELSE f)
    OBVIOUS
  <2>2. Shows(g) /\ ThisField.bounded
    BY <1>2, <2>1 DEF FormStartsOver
  <2>3. DOMAIN f = PickerFields /\ f.max = Today /\ f.value = Today /\ f.open = form.open
    BY <1>0, <2>1, <2>2 DEF PickerFields, Bound
  <2>4. ~Before(Today, Today)
    BY <1>0 DEF Before, Dates
  <2>5. DOMAIN Opened(f) = PickerFields /\ WithinBound(Opened(f), db.day)
    BY <1>0, <2>2, <2>3, <2>4, OpenedFits
  <2>6. ~form.open => WithinBound(f, db.day)
    BY <1>0, <2>3, <2>4 DEF WithinBound
  <2> QED  BY <2>1, <2>2, <2>3, <2>5, <2>6, PickerShows
<1> QED  BY <1>1, <1>2

LEMMA OpenClose_Inv == ASSUME PickerInv, OpenPicker \/ ClosePicker PROVE PickerInv'
<1>1. CASE OpenPicker
  <2>1. PICK f : f = [form EXCEPT !.today = Today]
    OBVIOUS
  <2>2. Shows(Opened(f))
    BY <1>1, <2>1 DEF OpenPicker
  <2>3. DOMAIN f = PickerFields /\ f.max = form.max /\ f.value = form.value
    BY <2>1 DEF PickerInv, PickerFields
  <2>4. DOMAIN Opened(f) = PickerFields
    BY <2>3 DEF Opened, PickerFields
  <2>5. ThisField.bounded => WithinBound(Opened(f), db.day)
    BY <2>3, OpenedFits DEF PickerInv, WithinBound
  <2> QED  BY <2>2, <2>4, <2>5, PickerShows
<1>2. CASE ClosePicker
  <2>1. Shows(Closed(form))
    BY <1>2 DEF ClosePicker
  <2>2. /\ DOMAIN Closed(form) = PickerFields /\ Closed(form).max = form.max
        /\ Closed(form).value = form.value /\ Closed(form).open = FALSE
    BY ClosedFits DEF PickerInv
  <2>3. ThisField.bounded => WithinBound(Closed(form), db.day)
    BY <2>2 DEF PickerInv, WithinBound
  <2> QED  BY <2>1, <2>2, <2>3, PickerShows
<1> QED  BY <1>1, <1>2

(* What is browsed, and where the focus goes.                               *)
LEMMA Browsed ==
    ASSUME PickerInv, NEW f, Shows(f), DOMAIN f = PickerFields,
           f.max = form.max, f.value = form.value, f.open = form.open,
           ThisField.bounded => f.focus = form.focus \/ ~OutOfBounds(f.focus, form.max)
    PROVE  PickerInv'
<1>1. ThisField.bounded => WithinBound(f, db.day)
  BY DEF PickerInv, WithinBound
<1> QED  BY <1>1, PickerShows

LEMMA BrowseGrids_Inv ==
    ASSUME PickerInv,
           \/ ShowMonths
           \/ \E way \in {-1, 1} : StepCaption(way)
           \/ \E key \in NavKeys : MonthKey(key) \/ \E shift \in BOOLEAN : DayKey(key, shift)
    PROVE  PickerInv'
<1>0. DOMAIN form = PickerFields /\ OnPicker
  BY DEF PickerInv
<1>1. CASE ShowMonths \/ \E way \in {-1, 1} : StepCaption(way)
  <2>1. PICK v, f : /\ f \in {[form EXCEPT !.month = v], [form EXCEPT !.view = v]}
                    /\ Shows(f)
    BY <1>1 DEF ShowMonths, StepCaption
  <2>2. /\ DOMAIN f = PickerFields /\ f.max = form.max /\ f.value = form.value
        /\ f.open = form.open /\ f.focus = form.focus
    BY <1>0, <2>1 DEF PickerFields
  <2> QED  BY <2>1, <2>2, Browsed
<1>2. CASE \E key \in NavKeys : MonthKey(key)
  <2>1. PICK key \in NavKeys : MonthKey(key)
    BY <1>2
  <2>2. CASE ByDay
    <3>1. PICK v, f : f = [form EXCEPT !.month = v] /\ Shows(f)
      BY <2>1, <2>2 DEF MonthKey
    <3>2. /\ DOMAIN f = PickerFields /\ f.max = form.max /\ f.value = form.value
          /\ f.open = form.open /\ f.focus = form.focus
      BY <1>0, <3>1 DEF PickerFields
    <3> QED  BY <3>1, <3>2, Browsed
  <2>3. CASE ~ByDay
    <3>1. PICK v, ym, f : f = [form EXCEPT !.focus = ym, !.month = v] /\ Shows(f)
      BY <2>1, <2>3 DEF MonthKey
    <3>2. /\ DOMAIN f = PickerFields /\ f.max = form.max /\ f.value = form.value
          /\ f.open = form.open
      BY <1>0, <3>1 DEF PickerFields
    <3>3. ~ThisField.bounded
      BY <1>0, <2>3, BoundedField
    <3> QED  BY <3>1, <3>2, <3>3, Browsed
  <2> QED  BY <2>2, <2>3
<1>3. CASE \E key \in NavKeys, shift \in BOOLEAN : DayKey(key, shift)
  <2>1. PICK key \in NavKeys, shift \in BOOLEAN : DayKey(key, shift)
    BY <1>3
  <2>2. PICK d, f : /\ d = NextFocusDate(form.focus, key, form.max, shift)
                    /\ f = [form EXCEPT !.focus = d, !.month = MonthOf(d)]
    OBVIOUS
  <2>3. Shows(f)
    BY <2>1, <2>2 DEF DayKey
  <2>4. /\ DOMAIN f = PickerFields /\ f.max = form.max /\ f.value = form.value
        /\ f.open = form.open /\ f.focus = d
    BY <1>0, <2>2 DEF PickerFields
  <2>5. d = form.focus \/ ~OutOfBounds(d, form.max)
    BY <2>2 DEF NextFocusDate
  <2> QED  BY <2>3, <2>4, <2>5, Browsed
<1> QED  BY <1>1, <1>2, <1>3

LEMMA PickFromGrids_Inv ==
    ASSUME PickerInv, PickDay \/ PickMonth \/ PickToday \/ ClearDate
    PROVE  PickerInv'
<1>0. DOMAIN form = PickerFields /\ OnPicker /\ db.day \in 1..Len(Midnights)
  BY DEF PickerInv
<1>1. /\ HasCome(db.day, Today) /\ Today \in Dates
      /\ ThisField.bounded => form.max \in Dates /\ ~Before(Today, form.max)
  <2>1. HasCome(db.day, Today)
    BY TodayHasCome DEF PickerInv
  <2> QED  BY <1>0, <2>1, ItIsToday DEF PickerInv, WithinBound, Today
<1>2. CASE PickDay
  <2>1. PICK d \in Choices : ~OutOfBounds(d, form.max) /\ Picks(d)
    BY <1>2 DEF PickDay
  <2>2. d \in Dates
    BY PickerAssumption DEF Dates
  <2>3. ASSUME ThisField.bounded PROVE ~Before(Today, d)
    <3>1. form.max # NoKey
      BY <1>1, <2>3, PickerAssumption DEF Dates
    <3>2. ~Before(form.max, d)
      BY <2>1, <3>1 DEF OutOfBounds
    <3> QED  BY <1>1, <2>2, <2>3, <3>2, Transitive
  <2> QED  BY <2>1, <2>2, <2>3, Picked
<1>3. CASE PickMonth
  <2>1. PICK ym : IF ByDay THEN Shows([form EXCEPT !.view = "days", !.month = ym,
                                                   !.focus = ClampDate(<<ym, 1>>, form.max)])
                  ELSE Picks(ym)
    BY <1>3 DEF PickMonth
  <2>2. CASE ~ByDay
    BY <1>0, <2>1, <2>2, BoundedField, Picked
  <2>3. CASE ByDay
    <3>1. PICK d, f : /\ d = ClampDate(<<ym, 1>>, form.max)
                      /\ f = [form EXCEPT !.view = "days", !.month = ym, !.focus = d]
      OBVIOUS
    <3>2. Shows(f)
      BY <2>1, <2>3, <3>1
    <3>3. /\ DOMAIN f = PickerFields /\ f.max = form.max /\ f.value = form.value
          /\ f.open = form.open /\ f.focus = d
      BY <1>0, <3>1 DEF PickerFields
    <3>4. ThisField.bounded => ~OutOfBounds(d, form.max)
      BY <1>1, <3>1 DEF ClampDate, OutOfBounds, Before, Dates
    <3> QED  BY <3>2, <3>3, <3>4, Browsed
  <2> QED  BY <2>2, <2>3
<1>4. CASE PickToday
  <2>1. Picks(form.today)
    BY <1>4 DEF PickToday
  <2>2. form.today \in Dates /\ ~Before(Today, form.today)
    BY <1>0, ItIsToday DEF PickerInv, Today
  <2> QED  BY <2>1, <2>2, Picked
<1>5. CASE ClearDate
  BY <1>0, <1>5, BoundedField, Picked DEF ClearDate
<1> QED  BY <1>2, <1>3, <1>4, <1>5

LEMMA Midnight_Inv == ASSUME PickerInv, Midnight PROVE PickerInv'
<1>1. /\ UNCHANGED <<screen, form>> /\ db' = [db EXCEPT !.day = db.day + 1]
      /\ db.day < Len(Midnights)
  BY DEF Midnight
<1>2. Len(Midnights) \in Nat /\ db.day \in 1..Len(Midnights)
  BY TheMidnights DEF PickerInv
<1>3. DOMAIN db' = {"day"} /\ db'.day = db.day + 1 /\ db'.day \in 1..Len(Midnights)
  BY <1>1, <1>2 DEF PickerInv
<1>4. \A d : HasCome(db.day, d) => HasCome(db'.day, d)
  BY <1>2, <1>3 DEF HasCome
<1> QED  BY <1>1, <1>3, <1>4 DEF PickerInv, WithinBound, OnPicker, ThisField

LEMMA PickerNext_Inv == ASSUME PickerInv, [PickerNext]_tabVars PROVE PickerInv'
<1>1. CASE UNCHANGED tabVars
  BY <1>1 DEF tabVars, PickerInv, WithinBound, OnPicker, ThisField, HasCome
<1>2. CASE PickerNext
  BY <1>2, FormRenders_Inv, OpenClose_Inv, BrowseGrids_Inv, PickFromGrids_Inv, Midnight_Inv DEF PickerNext
<1> QED  BY <1>1, <1>2

(* The date of a receipt has come, and the keyboard rests on one that has,  *)
(* at every midnight, in every year, for any days picked or browsed.        *)
THEOREM ReceiptsAreNotOfTheFuture == PickerSpec => []NothingInTheFuture
<1>1. PickerInv => NothingInTheFuture
  <2> SUFFICES ASSUME PickerInv, ThisField.bounded PROVE NothingInTheFuture
    BY DEF NothingInTheFuture
  <2>1. form.max \in Dates /\ ~Before(Today, form.max) /\ Today \in Dates
    <3>1. HasCome(db.day, Today)
      BY TodayHasCome DEF PickerInv
    <3> QED  BY <3>1, ItIsToday DEF PickerInv, WithinBound, Today
  <2>2. ~Before(Today, form.value)
    BY <2>1, Transitive DEF PickerInv, WithinBound
  <2> QED  BY <2>2 DEF PickerInv, WithinBound, NothingInTheFuture, OnDays
<1>2. PickerSpec => []PickerInv
  BY PickerInit_Inv, PickerNext_Inv, PTL DEF PickerSpec
<1> QED  BY <1>1, <1>2, PTL
===============================================================================
