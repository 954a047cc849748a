----------------------------- MODULE ListScreen -----------------------------
(***************************************************************************)
(* The list screens: a filtered, paged query, its rows and what is open on *)
(* one of them.  They differ in what "Lists" says of each, the handlers    *)
(* are the same.  Desktop layout.                                          *)
(*                                                                         *)
(*   form.filter   the fields that narrow the list, as typed or picked     *)
(*   form.settled  the typed ones, once their 250 ms without a key passed  *)
(*   form.rows     the rows on screen, the answer to the request asked     *)
(*   form.fetching a fetch for the present query key is under way          *)
(***************************************************************************)
EXTENDS Tab, FiniteSets

CONSTANTS Rows,        \* records of whatever the list shows
          Hits,        \* row -> the filter fields whose value it matches
          PageSize,    \* rows of one page (25 in the program)
          MaxNarrow    \* bound: fields that narrow at once

ASSUME ListAssumption == /\ PageSize \in Nat \ {0}
                         /\ DOMAIN Hits = Rows
                         /\ IsFiniteSet(Rows)

\* typed fields are debounced, picked ones apply at once; needs: a field without
\* which the query is disabled; keeps: keepPreviousData; sheds: what is open
\* closes with every change of filter or page; acts: rows are decided here.
List(typed, picked, traits) ==
    [typed |-> typed, picked |-> picked, paged |-> "paged" \in traits,
     keeps |-> "keeps" \in traits, needs |-> "needs" \in traits,
     sheds |-> "sheds" \in traits, acts |-> "acts" \in traits,
     clears |-> "clears" \in traits, opens |-> "opens" \in traits]

Customers == List({"q"}, {"country", "type"}, {"paged", "keeps", "clears", "opens"})
Products == List({"q", "brand", "category"}, {"tracking", "status"}, {"paged", "keeps", "clears", "opens"})
Projects == List({"q"}, {"customer", "status"}, {"paged", "keeps", "clears", "opens"})
Suppliers == List({"q"}, {"country"}, {"paged", "keeps", "clears", "opens"})
StockOnHand == List({"q", "brand", "category"}, {"supplier"}, {"paged", "keeps", "sheds", "opens"})
Audit == List({}, {"event", "user", "from", "to", "sku"}, {"paged", "keeps", "clears", "opens"})
UsersTable == List({}, {}, {"paged", "keeps", "opens"})
PricingOverrides == List({}, {"decided"}, {"paged", "keeps", "acts"})
SyncReview == List({}, {"decided"}, {"keeps", "acts"})
HoldingPeriod == List({}, {"over"}, {"keeps"})
ChannelMargin == List({}, {"month", "group", "channel"}, {"keeps"})
OverrideExceptions == List({}, {"month"}, {"keeps"})
SerialSearch == List({}, {"term"}, {"needs"})
SkuSearch == List({}, {"sku"}, {"needs"})
PriceHistory == List({}, {"shown"}, {"needs"})
StockDrillDown == List({}, {"expanded"}, {"needs"})
CustomerDetail == List({}, {"id"}, {"needs"})
ProjectDetail == List({}, {"id"}, {"needs"})

Lists == [customers |-> Customers, products |-> Products, projects |-> Projects,
          suppliers |-> Suppliers, stock |-> StockOnHand, audit |-> Audit,
          users |-> UsersTable, overrides |-> PricingOverrides, review |-> SyncReview,
          holding |-> HoldingPeriod, margin |-> ChannelMargin, exceptions |-> OverrideExceptions,
          serial |-> SerialSearch, sku |-> SkuSearch, history |-> PriceHistory,
          drill |-> StockDrillDown, customer |-> CustomerDetail, project |-> ProjectDetail]

OnList == screen \in DOMAIN Lists
ThisList == Lists[screen]

ListForm == [filter |-> {}, settled |-> {}, page |-> 1, rows |-> {}, total |-> 0,
             asked |-> {}, fetching |-> TRUE, open |-> NoKey, act |-> 0]

ListInit ==
    /\ screen \in DOMAIN Lists \cap Mounted
    /\ form = [ListForm EXCEPT !.fetching = ~Lists[screen].needs]
    /\ wire = <<>>
    /\ db = [rows |-> Rows, decided |-> {}]

-----------------------------------------------------------------------------
(* The query.                                                               *)

\* What narrows the list now: typing counts once it has settled.
Narrowing(f) == f.settled \cup (f.filter \cap ThisList.picked)

(* Mutant: the page is left out of the key.                                 *)
QueryKey_AnyPage(f) == [page |-> 1, filter |-> Narrowing(f)]

\* queryKey names the query, queryFn sends its parameters.
QueryKey(f) == [page |-> f.page, filter |-> Narrowing(f)]

QueryParams(f) == [page |-> f.page, filter |-> Narrowing(f)]
Asking(f) == [key |-> QueryKey(f), params |-> QueryParams(f)]

Enabled(f) == ThisList.needs => Narrowing(f) # {}

Matching(filter) ==
    {r \in db.rows : /\ filter \ {"decided"} \subseteq Hits[r]
                     /\ ThisList.acts => (r \in db.decided <=> "decided" \in filter)}

\* One page of the matching rows; their order is any.
PageOf(all, page, rows) ==
    /\ rows \subseteq all
    /\ IF ThisList.paged
       THEN LET left == Cardinality(all) - (page - 1) * PageSize IN
            Cardinality(rows) = IF left < 0 THEN 0 ELSE IF left < PageSize THEN left ELSE PageSize
       ELSE rows = all

\* The component renders with a new query key: the observer drops what it had,
\* or keeps it as a placeholder, and fetches.
Render(f) ==
    IF QueryKey(f) = QueryKey(form) THEN f
    ELSE IF ThisList.keeps THEN [f EXCEPT !.fetching = Enabled(f)]
    ELSE [f EXCEPT !.fetching = Enabled(f), !.rows = {}, !.total = 0, !.asked = {}]

IsPlaceholder(f) == \E q \in f.asked : q.key # QueryKey(f)

\* The overlay: rows under it are greyed and take no clicks.
ListLoading == form.fetching \/ IsPlaceholder(form)

Answer ==
    /\ OnList /\ form.fetching
    /\ \E rows \in SUBSET db.rows :
          LET all == Matching(Narrowing(form)) IN
          /\ PageOf(all, form.page, rows)
          /\ form' = [form EXCEPT !.rows = rows, !.total = Cardinality(all),
                                  !.asked = {Asking(form)}, !.fetching = FALSE]
    /\ UNCHANGED <<screen, wire, db>>

\* Retries are over: rows of another query are gone, those of this one stay.
FetchFails ==
    /\ OnList /\ form.fetching
    /\ form' = IF form.asked # {} /\ ~IsPlaceholder(form) THEN [form EXCEPT !.fetching = FALSE]
               ELSE [form EXCEPT !.fetching = FALSE, !.rows = {}, !.total = 0, !.asked = {}]
    /\ UNCHANGED <<screen, wire, db>>

\* Window focus, reconnect, or a mutation's invalidation.
Refetch ==
    /\ OnList /\ Enabled(form) /\ ~form.fetching
    /\ form' = [form EXCEPT !.fetching = TRUE]
    /\ UNCHANGED <<screen, wire, db>>

-----------------------------------------------------------------------------
(* Filters and pages.                                                       *)

\* pagination.reset, and on the stock screen the expanded row with it
ResetPage(f) == [f EXCEPT !.page = 1, !.open = IF ThisList.sheds THEN NoKey ELSE @]

Toggle(set, x) == IF x \in set THEN set \ {x} ELSE set \cup {x}

\* A field is set or emptied, and the list starts from its first page.
ChangeFilter(field) ==
    /\ Cardinality(Toggle(form.filter, field)) <= MaxNarrow
    /\ form' = Render(ResetPage([form EXCEPT !.filter = Toggle(@, field)]))
    /\ UNCHANGED <<screen, wire, db>>

TypeFilter(field) == OnList /\ field \in ThisList.typed /\ ChangeFilter(field)

PickFilter(field) == OnList /\ field \in ThisList.picked /\ ChangeFilter(field)

DebounceFires(field) ==
    /\ OnList /\ field \in ThisList.typed
    /\ (field \in form.filter) # (field \in form.settled)
    /\ form' = Render([form EXCEPT !.settled = Toggle(@, field)])
    /\ UNCHANGED <<screen, wire, db>>

ClearFilters ==
    /\ OnList /\ ThisList.clears
    /\ Narrowing(form) # {}
    /\ form' = Render(ResetPage([form EXCEPT !.filter = {}]))
    /\ UNCHANGED <<screen, wire, db>>

PageCount == IF form.total <= PageSize THEN 1 ELSE (form.total + PageSize - 1) \div PageSize

\* First, previous, next and last; the controls are there from two pages on.
TurnPage(p) ==
    /\ OnList /\ ThisList.paged
    /\ PageCount > 1
    /\ \/ p \in {1, form.page - 1} /\ form.page > 1
       \/ p \in {form.page + 1, PageCount} /\ form.page < PageCount
    /\ form' = Render([ResetPage(form) EXCEPT !.page = p])
    /\ UNCHANGED <<screen, wire, db>>

-----------------------------------------------------------------------------
(* Rows.                                                                    *)

\* An edit dialog, a detail sheet, an expanded row: the row as it is now.
OpenRow(r) ==
    /\ OnList /\ ThisList.opens /\ ~ListLoading
    /\ r \in form.rows /\ form.open = NoKey
    /\ form' = [form EXCEPT !.open = r]
    /\ UNCHANGED <<screen, wire, db>>

CloseRow ==
    /\ OnList /\ form.open # NoKey
    /\ form' = [form EXCEPT !.open = NoKey]
    /\ UNCHANGED <<screen, wire, db>>

\* One decision at a time, on rows of the undecided slice.
DecideRow(r) ==
    /\ OnList /\ ThisList.acts /\ ~ListLoading
    /\ r \in form.rows
    /\ form.asked # {} /\ \A q \in form.asked : "decided" \notin q.params.filter
    /\ ~InFlight(form.act)
    /\ Send("decide", r)
    /\ form' = [form EXCEPT !.act = Fresh]
    /\ UNCHANGED <<screen, db>>

ServeDecision(i) ==
    /\ OnList
    /\ wire[i].body \in db.rows \ db.decided
    /\ Settle(i, "ok")
    /\ db' = [db EXCEPT !.decided = @ \cup {wire[i].body}]
    /\ UNCHANGED <<screen, form>>

DecisionHeard(i) ==
    /\ OnList
    /\ Settle(i, "over")
    /\ form' = [Idle(form, "act", i) EXCEPT !.fetching = TRUE]
    /\ UNCHANGED <<screen, db>>

DecisionFails == OnList /\ Lose("decide", "act")

\* Other terminals add, remove and decide.
OthersChange(r) ==
    /\ OnList
    /\ \/ db' = [db EXCEPT !.rows = Toggle(@, r), !.decided = @ \ {r}]
       \/ ThisList.acts /\ r \in db.rows /\ db' = [db EXCEPT !.decided = @ \cup {r}]
    /\ UNCHANGED <<screen, form, wire>>

ListFields == UNION {Lists[s].typed \cup Lists[s].picked : s \in DOMAIN Lists}

ListNext ==
    \/ Answer \/ FetchFails \/ Refetch \/ ClearFilters \/ CloseRow \/ DecisionFails
    \/ \E f \in ListFields : TypeFilter(f) \/ PickFilter(f) \/ DebounceFires(f)
    \/ \E p \in 1..Cardinality(Rows) : TurnPage(p)
    \/ \E r \in Rows : OpenRow(r) \/ DecideRow(r) \/ OthersChange(r)
    \/ \E i \in At("decide", "sent") : ServeDecision(i)
    \/ \E i \in At("decide", "ok") : DecisionHeard(i)

ListSpec == ListInit /\ [][ListNext]_tabVars

-----------------------------------------------------------------------------
(* Rows that are not greyed out answer the filter and the page on screen:   *)
(* no answer to an earlier filter or page passes for the present one, and   *)
(* nothing can be opened or decided from one.                               *)
RowsAnswerTheFilter ==
    OnList /\ ~ListLoading /\ form.rows # {} =>
        \A q \in form.asked : q.params = [page |-> form.page, filter |-> Narrowing(form)]
=============================================================================
