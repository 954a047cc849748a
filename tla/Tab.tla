-------------------------------- MODULE Tab --------------------------------
(***************************************************************************)
(* One browser tab showing one screen of the application.                  *)
(*                                                                         *)
(* Every screen keeps its state in React component state, sends requests   *)
(* through TanStack mutations and applies what comes back in callbacks.    *)
(* This module holds what they share; a screen module EXTENDS it and adds  *)
(* its own fields, requests and handlers.                                  *)
(*                                                                         *)
(*   screen  which screen is mounted                                       *)
(*   form    the component state of that screen, a record of its own shape *)
(*   wire    every request the tab has made, in order; its index names it  *)
(*   db      what the server has recorded of them                          *)
(*                                                                         *)
(* A request is "paused" while the browser is offline, "sent" once it is   *)
(* out, "ok" once the server has done it, "over" once the tab has heard so *)
(* and "lost" when it hears an error instead: refused, never arrived, or   *)
(* done with the answer lost.  Its callbacks act while the component that  *)
(* sent it is mounted (live).                                              *)
(***************************************************************************)
EXTENDS Naturals, Sequences

CONSTANTS Units,         \* barcodes of serialized pieces, all of one product
          Parts,         \* SKUs of counted stock
          NoKey,         \* nothing selected
          MaxQty,        \* bound: pieces on one line
          MaxRequests    \* bound: requests a tab makes on each screen under check

ASSUME TabAssumption == /\ Units \cap Parts = {}
                        /\ NoKey \notin Units \cup Parts
                        /\ MaxQty \in Nat \ {0}
                        /\ \A s \in DOMAIN MaxRequests : MaxRequests[s] \in Nat \ {0}

VARIABLES screen, form, wire, db

tabVars == <<screen, form, wire, db>>

Mounted == DOMAIN MaxRequests

Open == {"paused", "sent", "ok"}

\* isPending: a mutation hook observes one request, 0 when it is idle.
InFlight(id) == id # 0 /\ wire[id].st \in Open

Fresh == Len(wire) + 1

\* mutation.mutate(body): one more request.
SendAs(to, body, st) ==
    /\ Len(wire) < MaxRequests[screen]
    /\ wire' = Append(wire, [to |-> to, body |-> body, st |-> st, live |-> TRUE])

Send(to, body) == SendAs(to, body, "sent")

\* The requests to one endpoint, and those of them in one state.
Sent(to) == {i \in 1..Len(wire) : wire[i].to = to}
At(to, st) == {i \in Sent(to) : wire[i].st = st}

Settle(i, st) == wire' = [wire EXCEPT ![i].st = st]

\* The hook that observed the request is idle again.
Idle(f, hook, i) == [f EXCEPT ![hook] = IF @ = i THEN 0 ELSE @]

\* Refused, never arrived, or done and its answer lost: onError in each case.
Lose(to, hook) ==
    /\ \E i \in Sent(to) :
          /\ wire[i].st \in {"sent", "ok"}
          /\ Settle(i, "lost")
          /\ form' = Idle(form, hook, i)
    /\ UNCHANGED <<screen, db>>

\* A request that nothing refers to once it is settled, a lookup: it leaves
\* only its place behind, however it ended.
Drop(i) == wire' = [wire EXCEPT ![i] = [to |-> @.to, body |-> NoKey, st |-> "over", live |-> FALSE]]

DropUnanswered(to, hook) ==
    /\ \E i \in Sent(to) :
          /\ wire[i].st \in {"sent", "ok"}
          /\ Drop(i)
          /\ form' = Idle(form, hook, i)
    /\ UNCHANGED <<screen, db>>

\* The user leaves the screen and comes back: component state starts over, the
\* requests still in flight run on with nobody to act on their answers.
Remount(fresh) ==
    /\ \E i \in 1..Len(wire) : wire[i].st \in Open /\ wire[i].live
    /\ form' = fresh
    /\ wire' = [i \in DOMAIN wire |-> [wire[i] EXCEPT !.live = FALSE]]
    /\ UNCHANGED <<screen, db>>
============================================================================
