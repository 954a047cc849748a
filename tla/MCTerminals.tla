---------------------------- MODULE MCTerminals ----------------------------
(* The screens on a small instance: one list or form of each kind.          *)
EXTENDS Terminals, TLC

CONSTANTS u1, u2, p1, r1, r2, r3, a1, a2, d1, d2

MCUnits == {u1, u2}
MCParts == {p1}
MCAsks == [A |-> (p1 :> 1), B |-> (u1 :> 1)]
MCElsewhere == {"B"}
MCSymmetry == Permutations({a1, a2}) \cup Permutations({d1, d2})

MCRows == {r1, r2, r3}
MCHits == (r1 :> ListFields) @@ (r2 :> {"q", "month"}) @@ (r3 :> {})

(* The last of February and the first of March 2024; a user who looks at    *)
(* these months and at the February before, or at the months of two years.  *)
MCMidnights == <<<<24289, 29>>, <<24290, 1>>>>
MCChoices == {<<24277, 28>>, <<24289, 29>>, <<24290, 1>>, <<24290, 2>>}
MCHorizon == [day |-> {24277, 24289, 24290}, month |-> 24276..24299]

MCMaxRequests ==
    [sale |-> 3, ticket |-> 4, pulls |-> 2,
     suppliers |-> 1, stock |-> 1, audit |-> 1, users |-> 1, overrides |-> 1,
     review |-> 1, holding |-> 1, serial |-> 1,
     customerCreate |-> 2, customerEdit |-> 1, productCreate |-> 2, productEdit |-> 1,
     supplierEdit |-> 1, projectCreate |-> 2, addUser |-> 2, editUser |-> 1, receive |-> 2, receiveQuantity |-> 2,
     adjust |-> 2, saleReturn |-> 2, lowStock |-> 2, notifications |-> 2, profile |-> 2,
     telegram |-> 4, accounts |-> 3, batches |-> 3, device |-> 3, receiveDate |-> 1, auditDate |-> 1, reportMonth |-> 1]

(* The screens under check stand for the others: every form has its twin    *)
(* among them, and every list one that differs from it in field names only. *)
Kind(list) == [list EXCEPT !.typed = @ # {}, !.picked = @ # {}]
ASSUME Representatives ==
    /\ \A s \in DOMAIN Forms : \E t \in DOMAIN Forms \cap Mounted : Forms[t] = Forms[s]
    /\ \A s \in DOMAIN Lists :
          \E t \in DOMAIN Lists \cap Mounted : Kind(Lists[t]) = Kind(Lists[s])
=============================================================================
