------------------------------- MODULE UnitTx --------------------------------
(***************************************************************************)
(* Concurrent requests on serialized units, one READ COMMITTED transaction *)
(* each: create_sale (UNIT lines, with pricing overrides),                 *)
(* record_service_ticket (its overrides), create_sale_return (UNIT lines), *)
(* fulfill_project_pull (UNIT lines), cancel_project_pull,                 *)
(* create_stock_adjustment of a unit and decide_pricing_override.          *)
(*                                                                         *)
(* A handler reads the rows it will change one by one FOR UPDATE, in the   *)
(* order its code and its ORDER BY give, decides on what it read, and      *)
(* writes at COMMIT.  The UNIQUE idempotency key is one more row: the      *)
(* INSERT of the header claims it and a second INSERT waits for the first. *)
(***************************************************************************)
EXTENDS Integers, FiniteSets, Sequences

CONSTANTS
  Unit,        \* unit rows, all received, as their rank in id order
  Override,    \* pricing_override_request rows, as their rank in id order
  Pull,        \* project_pull rows
  Product,
  ProductOf,   \* product_id of a unit
  PullUnits,   \* units the UNIT lines of a pull name
  OverrideOf,  \* target_kind and product_id of an override
  AutoApproved,\* overrides within the deviation threshold at creation
  Tx,          \* request handlers; a handler's id also names the sale,
               \* return, ticket or adjustment it creates
  Key,         \* idempotency keys
  Workload,    \* the ways the handlers may be given their requests
  Crashable,   \* handlers whose process may die
  None

Keyed == {"sale", "ticket", "return", "adjust"}
Kinds == Keyed \cup {"fulfil", "cancel", "approve", "reject"}

(* cites maps an override to the product of the line that cites it.  A     *)
(* pull is fulfilled for the units the staff confirm (fulfilled_qty >= 1). *)
Request == [kind : Kinds, key : Key \cup {None}, units : SUBSET Unit,
            cites : [Override -> Product \cup {None}],
            sale : Tx \cup {None}, pull : Pull \cup {None}]

UnitStates == {"IN_STOCK", "SOLD", "PROJECT_OUT", "ADJUSTED_OUT"}
PullStates == {"PENDING", "FULFILLED", "SHORT", "CANCELLED"}
OverrideStates == {"PENDING", "AUTO_APPROVED", "APPROVED", "REJECTED"}

Outcomes == {"done", "replayed", "conflict", "refused", "notFound",
             "deadlock", "lost"}

ASSUME OrderAssumption ==
  /\ Unit \subseteq Nat /\ IsFiniteSet(Unit)
  /\ Override \subseteq Nat /\ IsFiniteSet(Override)
ASSUME RowAssumption ==
  /\ ProductOf \in [Unit -> Product]
  /\ PullUnits \in [Pull -> SUBSET Unit]
  /\ OverrideOf \in [Override -> [kind : {"sale", "ticket"}, product : Product]]
  /\ AutoApproved \subseteq Override
ASSUME TxAssumption ==
  /\ IsFiniteSet(Tx) /\ None \notin Tx /\ None \notin Pull /\ None \notin Product
  /\ Workload \subseteq [Tx -> Request]
  /\ \A load \in Workload, t \in Tx :
       /\ load[t].kind = "return" => load[t].sale \in Tx
       /\ load[t].kind \in {"fulfil", "cancel"} => load[t].pull \in Pull
       /\ load[t].kind \in Keyed => load[t].key \in Key
       /\ load[t].kind \in {"ticket", "cancel", "approve", "reject"} =>
            load[t].units = {}
       /\ load[t].kind \in {"return", "fulfil", "cancel", "adjust"} =>
            \A o \in Override : load[t].cites[o] = None
       /\ load[t].kind \notin {"fulfil", "cancel"} => load[t].pull = None

(* Rows a transaction may lock, by table.                                  *)
UnitRow(u) == <<"unit", u>>
OverrideRow(o) == <<"override", o>>
PullRow(p) == <<"pull", p>>
LineRow(s, u) == <<"line", s, u>>
KeyRow(r) == <<"key", r.kind, r.key>>

Rows == ({"unit"} \X Unit) \cup ({"override"} \X Override)
        \cup ({"pull"} \X Pull) \cup ({"line"} \X Tx \X Unit)
        \cup ({"key"} \X Keyed \X Key)

VARIABLES
  unitState,      \* unit.current_state, committed
  moves,          \* unit_movement rows of a unit in commit order
  overrideState,  \* pricing_override_request.state, committed
  pullState,      \* project_pull.state, committed
  pullLine,       \* project_pull_line.line_state, committed
  lineId,         \* order of a sale's lines by their random sale_line.id
  lock,           \* transaction that holds a row FOR UPDATE; for a key, the
                  \* handler whose header has it, committed or not
  req,            \* the request
  pc,             \* where the handler stands, or its outcome
  seen,           \* state of the rows the session has read under lock
  checked         \* sale lines that passed the over-return check

rows == <<unitState, moves, overrideState, pullState, pullLine, lineId>>
vars == <<unitState, moves, overrideState, pullState, pullLine, lineId,
          lock, req, pc, seen, checked>>
-----------------------------------------------------------------------------
Unread == [r \in Rows |-> "unread"]

Active(t) == pc[t] \in {"lock", "built"}
Answered(t) == pc[t] \in Outcomes
Done(t) == pc[t] = "done"
Is(t, kind) == req[t].kind = kind

IsSale(s) == Done(s) /\ Is(s, "sale")
IsReturnOf(t, s) == Done(t) /\ Is(t, "return") /\ req[t].sale = s

(* Mutant: a return does not look at the returns before it.                *)
ReturnedBefore_Never(s, u) == FALSE

(* _returned_so_far of a UNIT line, whose quantity is 1.                   *)
ReturnedBefore(s, u) == \E t \in Tx : IsReturnOf(t, s) /\ u \in req[t].units

Cited(t) == {o \in Override : req[t].cites[o] # None}

RowState(r) ==
  CASE r[1] = "unit" -> unitState[r[2]]
    [] r[1] = "pull" -> pullState[r[2]]
    [] r[1] = "override" -> overrideState[r[2]]
    [] OTHER -> "read"

Read(t, r) == seen[t][r] # "unread"

(* Units whose rows a request locks: a pull's are known once it is read.   *)
UnitsOf(t) ==
  CASE Is(t, "fulfil") -> IF Read(t, PullRow(req[t].pull))
                          THEN PullUnits[req[t].pull] ELSE {}
    [] Is(t, "return") -> req[t].units \cap req[req[t].sale].units
    [] OTHER -> req[t].units

Needs(t) ==
  {UnitRow(u) : u \in UnitsOf(t)} \cup {OverrideRow(o) : o \in Cited(t)}
  \cup {PullRow(p) : p \in Pull \cap {req[t].pull}}
  \cup {LineRow(req[t].sale, u) : u \in IF Is(t, "return") THEN UnitsOf(t)
                                                         ELSE {}}
  \cup {KeyRow(r) : r \in IF req[t].kind \in Keyed THEN {req[t]} ELSE {}}

AllRead(t) == \A r \in Needs(t) : Read(t, r)

(* The tables in the order each handler gets to them.                      *)
TableOrder(kind) ==
  CASE kind = "sale" -> <<"override", "unit", "key">>
    [] kind = "ticket" -> <<"override", "key">>
    [] kind = "return" -> <<"line", "key", "unit">>
    [] kind = "fulfil" -> <<"pull", "unit">>
    [] kind = "adjust" -> <<"unit", "key">>
    [] kind = "cancel" -> <<"pull">>
    [] OTHER -> <<"override">>

Stage(t, r) ==
  CHOOSE i \in DOMAIN TableOrder(req[t].kind) : TableOrder(req[t].kind)[i] = r[1]

(* Mutant: a pull locks its units in the order of its own lines.           *)
RowOrder_PullLines(t, r) ==
  CASE r[1] = "unit" /\ Is(t, "fulfil") -> -r[2]
    [] r[1] \in {"unit", "override"} -> r[2]
    [] OTHER -> 0

(* ORDER BY within a table; a return goes through its units line by line.  *)
RowOrder(t, r) ==
  CASE r[1] = "unit" /\ Is(t, "return") -> lineId[req[t].sale][r[2]]
    [] r[1] \in {"unit", "override"} -> r[2]
    [] r[1] = "line" -> lineId[r[2]][r[3]]
    [] OTHER -> 0

NextRow(t, r) ==
  /\ r \in Needs(t) /\ ~Read(t, r)
  /\ \A q \in Needs(t) : ~Read(t, q) =>
       \/ Stage(t, r) < Stage(t, q)
       \/ Stage(t, r) = Stage(t, q) /\ RowOrder(t, r) <= RowOrder(t, q)

WaitsFor(t, u) ==
  /\ u # t /\ pc[t] = "lock"
  /\ \E r \in Needs(t) :
       /\ NextRow(t, r) /\ lock[r] = u
       /\ r[1] = "key" => Active(u)
       /\ r[1] = "unit" /\ Is(t, "return") => r[2] \in checked[t]

(* A transaction waits for at most one other, so a set of transactions     *)
(* that is exactly what its members wait for is a union of wait cycles.    *)
WaitCycle(C) ==
  /\ C # {}
  /\ \A t \in C : \E u \in C : WaitsFor(t, u)
  /\ \A u \in C : \E t \in C : WaitsFor(t, u)
-----------------------------------------------------------------------------
Init ==
  /\ unitState = [u \in Unit |-> "IN_STOCK"]
  /\ moves = [u \in Unit |-> <<>>]
  /\ overrideState = [o \in Override |->
                        IF o \in AutoApproved THEN "AUTO_APPROVED"
                                              ELSE "PENDING"]
  /\ pullState = [p \in Pull |-> "PENDING"]
  /\ pullLine = [p \in Pull |-> [u \in PullUnits[p] |-> "PENDING"]]
  /\ lineId = [s \in Tx |-> [u \in Unit |-> 0]]
  /\ lock = [r \in Rows |-> None]
  /\ req \in Workload
  /\ pc = [t \in Tx |-> "idle"]
  /\ seen = [t \in Tx |-> Unread]
  /\ checked = [t \in Tx |-> {}]

(* Mutant: the sale lines of a return stay locked after COMMIT.            *)
Releases_NotLines(r) == r[1] # "line"

(* Locks end with the transaction.                                         *)
Releases(r) == TRUE

EndSession(t) ==
  /\ seen' = [seen EXCEPT ![t] = Unread]
  /\ checked' = [checked EXCEPT ![t] = {}]

(* An exception leaves the handler and its session is rolled back.         *)
Abort(t, outcome) ==
  /\ pc' = [pc EXCEPT ![t] = outcome]
  /\ lock' = [r \in Rows |-> IF lock[r] = t THEN None ELSE lock[r]]
  /\ EndSession(t)
  /\ UNCHANGED <<rows, req>>

(* The handler ends at a read: nothing was written, locked or claimed.     *)
AnswerAtOnce(t, outcome) ==
  /\ pc' = [pc EXCEPT ![t] = outcome]
  /\ UNCHANGED <<rows, lock, req, seen, checked>>

KeyCommitted(t) ==
  req[t].kind \in Keyed /\ \E u \in Tx : lock[KeyRow(req[t])] = u /\ Done(u)

(* The replay lookup by idempotency key.                                   *)
Replay(t) ==
  /\ pc[t] = "idle"
  /\ KeyCommitted(t)
  /\ AnswerAtOnce(t, IF req[lock[KeyRow(req[t])]].sale = req[t].sale
                     THEN "replayed" ELSE "conflict")

NoSuchSale(t) ==
  /\ pc[t] = "idle"
  /\ ~KeyCommitted(t)
  /\ Is(t, "return") /\ ~IsSale(req[t].sale)
  /\ AnswerAtOnce(t, "notFound")

Begin(t) ==
  /\ pc[t] = "idle"
  /\ ~KeyCommitted(t)
  /\ Is(t, "return") => IsSale(req[t].sale)
  /\ pc' = [pc EXCEPT ![t] = "lock"]
  /\ UNCHANGED <<rows, lock, req, seen, checked>>
-----------------------------------------------------------------------------
SeenUnit(t, u) == seen[t][UnitRow(u)]

Consumes(t) == Done(t) /\ req[t].kind \in {"sale", "ticket"}

(* Mutant: the target kind is not compared.                                *)
OnTarget_AnyKind(t, o) == OverrideOf[o].product = req[t].cites[o]

OnTarget(t, o) == OverrideOf[o] = [kind |-> req[t].kind,
                                   product |-> req[t].cites[o]]

(* Mutant: only a rejected override is turned down.                        *)
Approved_NotRejected(t, o) == seen[t][OverrideRow(o)] # "REJECTED"

Approved(t, o) == seen[t][OverrideRow(o)] \in {"AUTO_APPROVED", "APPROVED"}

(* Mutant: the single use is not looked up.                                *)
AlreadyConsumed_Never(o) == FALSE

AlreadyConsumed(o) == \E u \in Tx : Consumes(u) /\ o \in Cited(u)

(* Mutant: a settled pull is settled again.                                *)
PullOpen_UnlessCancelled(t) == seen[t][PullRow(req[t].pull)] # "CANCELLED"

(* fulfill_project_pull is one-shot and PENDING-only.                      *)
PullOpen(t) == seen[t][PullRow(req[t].pull)] = "PENDING"

(***************************************************************************)
(* The outcome when what the handler has read so far ends it, "go" if not. *)
(***************************************************************************)
Verdict(t) ==
  CASE Is(t, "sale") /\ AllRead(t)
         /\ \E u \in req[t].units : SeenUnit(t, u) # "IN_STOCK" -> "conflict"
    [] req[t].kind \in {"sale", "ticket"} /\ AllRead(t)
         /\ \E o \in Cited(t) : ~OnTarget(t, o) \/ ~Approved(t, o) -> "refused"
    [] req[t].kind \in {"sale", "ticket"} /\ AllRead(t)
         /\ \E o \in Cited(t) : AlreadyConsumed(o) -> "conflict"
    [] Is(t, "return")
         /\ (\A u \in UnitsOf(t) : Read(t, LineRow(req[t].sale, u)))
         /\ UnitsOf(t) # req[t].units -> "notFound"
    [] Is(t, "return")
         /\ \E u \in UnitsOf(t) : SeenUnit(t, u) \notin {"unread", "SOLD"}
       -> "conflict"
    [] Is(t, "adjust")
         /\ \E u \in req[t].units : SeenUnit(t, u) \notin {"unread", "IN_STOCK"}
       -> "conflict"
    [] Is(t, "fulfil") /\ Read(t, PullRow(req[t].pull)) /\ ~PullOpen(t)
       -> IF seen[t][PullRow(req[t].pull)] = "CANCELLED" THEN "conflict"
                                                         ELSE "replayed"
    [] Is(t, "cancel") /\ seen[t][PullRow(req[t].pull)] = "FULFILLED"
       -> "conflict"
    [] Is(t, "cancel") /\ seen[t][PullRow(req[t].pull)] = "CANCELLED"
       -> "replayed"
    [] req[t].kind \in {"approve", "reject"} /\ AllRead(t)
         /\ \E o \in Cited(t) : seen[t][OverrideRow(o)] # "PENDING"
       -> "conflict"
    [] OTHER -> "go"

Stop(t) ==
  /\ pc[t] = "lock" /\ Verdict(t) # "go"
  /\ Abort(t, Verdict(t))

(* The header's INSERT finds the key committed since the lookup, outside   *)
(* the handler's try: the IntegrityError reaches the application.          *)
DuplicateKey(t) ==
  /\ pc[t] = "lock" /\ Verdict(t) = "go"
  /\ KeyCommitted(t) /\ NextRow(t, KeyRow(req[t]))
  /\ Abort(t, "conflict")

NextUnitLine(t, u) ==
  /\ pc[t] = "lock" /\ Verdict(t) = "go" /\ Is(t, "return")
  /\ NextRow(t, UnitRow(u)) /\ u \notin checked[t]

(* A return counts the earlier returns of a line before it locks its unit. *)
CheckLine(t, u) ==
  /\ NextUnitLine(t, u)
  /\ ~ReturnedBefore(req[t].sale, u)
  /\ checked' = [checked EXCEPT ![t] = @ \cup {u}]
  /\ UNCHANGED <<rows, lock, req, pc, seen>>

OverReturn(t, u) ==
  /\ NextUnitLine(t, u)
  /\ ReturnedBefore(req[t].sale, u)
  /\ Abort(t, "conflict")

(* Mutant: the unit query has no FOR UPDATE.                               *)
Free_UnitsUnlocked(r) == r[1] = "unit" \/ lock[r] = None

Free(r) == lock[r] = None

LockRow(t, r) ==
  /\ pc[t] = "lock" /\ Verdict(t) = "go"
  /\ NextRow(t, r) /\ Free(r)
  /\ r[1] = "unit" /\ Is(t, "return") => r[2] \in checked[t]
  /\ lock' = [lock EXCEPT ![r] = t]
  /\ seen' = [seen EXCEPT ![t][r] = RowState(r)]
  /\ UNCHANGED <<rows, req, pc, checked>>

(* Every row is read and nothing stands against it: the writes are built.  *)
Build(t) ==
  /\ pc[t] = "lock" /\ AllRead(t) /\ Verdict(t) = "go"
  /\ pc' = [pc EXCEPT ![t] = "built"]
  /\ UNCHANGED <<rows, lock, req, seen, checked>>
-----------------------------------------------------------------------------
(* Mutant: a line whose unit is gone is fulfilled all the same.            *)
Moved_WholePull(t) ==
  IF Is(t, "fulfil") THEN UnitsOf(t) \cap req[t].units ELSE UnitsOf(t)

(* Units whose row the commit changes.  A pull leaves alone a unit that is *)
(* not in stock or that the staff did not confirm: its line is SHORT.      *)
Moved(t) ==
  IF Is(t, "fulfil")
  THEN {u \in UnitsOf(t) \cap req[t].units : SeenUnit(t, u) = "IN_STOCK"}
  ELSE UnitsOf(t)

(* The event of the movement a request appends and the state it leads to.  *)
Event(t) ==
  CASE Is(t, "sale") -> "SOLD"
    [] Is(t, "return") -> "RETURNED"
    [] Is(t, "fulfil") -> "PROJECT_OUT"
    [] OTHER -> "ADJUSTED_OUT"

(* Mutant: a returned unit goes to a quarantine the code does not have.    *)
StateAfter_Quarantine(event) == event

StateAfter(event) == IF event = "RETURNED" THEN "IN_STOCK" ELSE event

(* The document a movement belongs to.                                     *)
Document(t) ==
  CASE Is(t, "return") -> <<"sale", req[t].sale>>
    [] Is(t, "fulfil") -> <<"pull", req[t].pull>>
    [] OTHER -> <<req[t].kind, t>>

WriteUnits(t) ==
  /\ unitState' = [u \in Unit |-> IF u \in Moved(t) THEN StateAfter(Event(t))
                                                    ELSE unitState[u]]
  /\ moves' = [u \in Unit |->
                 IF u \in Moved(t)
                 THEN Append(moves[u], [event |-> Event(t), doc |-> Document(t)])
                 ELSE moves[u]]

FulfilLines(t) ==
  [u \in PullUnits[req[t].pull] |-> IF u \in Moved(t) THEN "FULFILLED"
                                                      ELSE "SHORT"]

(* Mutant: one line that was filled settles the pull.                      *)
AllFulfilled_Some(t) == Moved(t) # {}

AllFulfilled(t) == Moved(t) = PullUnits[req[t].pull]

CancelLines(p) ==
  [u \in PullUnits[p] |-> IF pullLine[p][u] = "PENDING" THEN "CANCELLED"
                                                        ELSE pullLine[p][u]]

WritePull(t) ==
  LET p == req[t].pull
  IN  CASE Is(t, "fulfil") ->
             /\ pullLine' = [pullLine EXCEPT ![p] = FulfilLines(t)]
             /\ pullState' = [pullState EXCEPT ![p] =
                                IF AllFulfilled(t) THEN "FULFILLED" ELSE "SHORT"]
        [] Is(t, "cancel") ->
             /\ pullLine' = [pullLine EXCEPT ![p] = CancelLines(p)]
             /\ pullState' = [pullState EXCEPT ![p] = "CANCELLED"]
        [] OTHER -> UNCHANGED <<pullLine, pullState>>

WriteOverrides(t) ==
  overrideState' =
    [o \in Override |->
       CASE o \in Cited(t) /\ Is(t, "approve") -> "APPROVED"
         [] o \in Cited(t) /\ Is(t, "reject") -> "REJECTED"
         [] OTHER -> overrideState[o]]

LineOrders ==
  {f \in [Unit -> 1 .. Cardinality(Unit)] :
     \A u, v \in Unit : f[u] = f[v] => u = v}

Commit(t) ==
  /\ pc[t] = "built"
  /\ WriteUnits(t) /\ WritePull(t) /\ WriteOverrides(t)
  /\ IF Is(t, "sale") /\ Cardinality(req[t].units) > 1
     THEN \E f \in LineOrders : lineId' = [lineId EXCEPT ![t] = f]
     ELSE lineId' = lineId
  /\ pc' = [pc EXCEPT ![t] = "done"]
  /\ lock' = [r \in Rows |-> IF lock[r] = t /\ r[1] # "key" /\ Releases(r)
                             THEN None ELSE lock[r]]
  /\ EndSession(t)
  /\ UNCHANGED req
-----------------------------------------------------------------------------
(* deadlock_timeout expires in a waiter of a cycle and it is aborted.      *)
DeadlockVictim(t) ==
  /\ \E u \in Tx : WaitsFor(t, u)
  /\ \E C \in SUBSET Tx : t \in C /\ WaitCycle(C)
  /\ Abort(t, "deadlock")

(* The backend process dies and the server rolls its session back.         *)
Crash(t) ==
  /\ t \in Crashable /\ Active(t)
  /\ Abort(t, "lost")

Handle(t) ==
  \/ Stop(t) \/ DuplicateKey(t) \/ Build(t) \/ Commit(t) \/ DeadlockVictim(t)
  \/ \E u \in Unit : CheckLine(t, u) \/ OverReturn(t, u)
  \/ \E r \in Needs(t) : LockRow(t, r)

Next ==
  \E t \in Tx : Replay(t) \/ NoSuchSale(t) \/ Begin(t) \/ Handle(t) \/ Crash(t)

Spec == Init /\ [][Next]_vars
FairSpec == Spec /\ \A t \in Tx : WF_vars(Handle(t))
-----------------------------------------------------------------------------
Movement == [event : (UnitStates \ {"IN_STOCK"}) \cup {"RETURNED"},
             doc : ({"sale", "adjust"} \X Tx) \cup ({"pull"} \X Pull)]

TypeOK ==
  /\ unitState \in [Unit -> UnitStates]
  /\ moves \in [Unit -> Seq(Movement)]
  /\ overrideState \in [Override -> OverrideStates]
  /\ pullState \in [Pull -> PullStates]
  /\ \A p \in Pull :
       pullLine[p] \in [PullUnits[p] ->
                          {"PENDING", "FULFILLED", "SHORT", "CANCELLED"}]
  /\ lineId \in [Tx -> [Unit -> Nat]]
  /\ lock \in [Rows -> Tx \cup {None}]
  /\ req \in [Tx -> Request]
  /\ pc \in [Tx -> {"idle", "lock", "built"} \cup Outcomes]
  /\ seen \in [Tx -> [Rows -> {"unread", "read"} \cup UnitStates
                               \cup PullStates \cup OverrideStates]]
  /\ checked \in [Tx -> SUBSET Unit]

(* The documents a unit is out on: sales that were not returned, pulls     *)
(* that have it on a fulfilled line, write-offs.                           *)
Holders(u) ==
  {<<"sale", s>> : s \in {x \in Tx : IsSale(x) /\ u \in req[x].units
                                     /\ \A t \in Tx : IsReturnOf(t, x) =>
                                          u \notin req[t].units}}
  \cup {<<"adjust", t>> : t \in {x \in Tx : Done(x) /\ Is(x, "adjust")
                                            /\ u \in req[x].units}}
  \cup {<<"pull", p>> : p \in {x \in Pull : u \in PullUnits[x]
                                            /\ pullLine[x][u] = "FULFILLED"}}

(* A unit is never out on two documents, and its row says whether it is    *)
(* out: tills, pulls, write-offs and returns that race for it leave one    *)
(* winner.                                                                 *)
UnitHasOneHolder ==
  \A u \in Unit :
    /\ \A d, e \in Holders(u) : d = e
    /\ (Holders(u) = {}) <=> (unitState[u] = "IN_STOCK")

(* A unit's movements read as one history: it leaves stock, and comes back *)
(* only by a return on the sale it left with; its row has the state of the *)
(* last one.                                                               *)
MovementsTellTheState ==
  \A u \in Unit :
    LET m == moves[u]
    IN  /\ \A i \in DOMAIN m :
             IF m[i].event = "RETURNED"
             THEN i > 1 /\ m[i - 1] = [event |-> "SOLD", doc |-> m[i].doc]
             ELSE i = 1 \/ m[i - 1].event = "RETURNED"
        /\ unitState[u] = IF m = <<>> THEN "IN_STOCK"
                                      ELSE StateAfter(m[Len(m)].event)

(* An override prices one committed line, of the kind and product it was   *)
(* asked for, and never one an admin has not approved, however decisions   *)
(* and sales race.                                                         *)
OverridePricesOneLine ==
  \A o \in Override, t \in Tx :
    Consumes(t) /\ o \in Cited(t) =>
      /\ \A u \in Tx : Consumes(u) /\ o \in Cited(u) => u = t
      /\ overrideState[o] \in {"AUTO_APPROVED", "APPROVED"}
      /\ OverrideOf[o].kind = req[t].kind

(* A pull's state, its lines and the movements it wrote agree: it settles  *)
(* or is cancelled once, whatever else holds its units.                    *)
PullAgreesWithMovements ==
  \A p \in Pull :
    LET Out(u) == {i \in DOMAIN moves[u] : moves[u][i].doc = <<"pull", p>>}
        Lines == {pullLine[p][u] : u \in PullUnits[p]}
    IN  /\ \A u \in Unit :
             Cardinality(Out(u)) =
               IF u \in PullUnits[p] /\ pullLine[p][u] = "FULFILLED" THEN 1
                                                                    ELSE 0
        /\ pullState[p] = "PENDING" => Lines \subseteq {"PENDING"}
        /\ pullState[p] = "FULFILLED" => Lines \subseteq {"FULFILLED"}
        /\ pullState[p] = "SHORT" => "SHORT" \in Lines /\ "PENDING" \notin Lines
        /\ pullState[p] = "CANCELLED" => "PENDING" \notin Lines

(* No two transactions wait for one another.                               *)
NoDeadlock == \A C \in SUBSET Tx : ~WaitCycle(C)

(* Every request a handler takes up is answered.                           *)
EveryRequestAnswered == \A t \in Tx : Active(t) ~> Answered(t)

(* The custody of the units, seen from outside.                            *)
Custody == INSTANCE UnitCustody WITH
  Doc    <- ({"sale", "adjust"} \X Tx) \cup ({"pull"} \X Pull),
  holder <- [u \in Unit |-> IF Holders(u) = {} THEN None
                            ELSE CHOOSE d \in Holders(u) : TRUE],
  closed <- {<<"sale", s>> : s \in {x \in Tx : IsSale(x)}}
            \cup {<<"adjust", t>> : t \in {x \in Tx : Done(x) /\ Is(x, "adjust")}}
            \cup {<<"pull", p>> : p \in {x \in Pull : pullState[x] # "PENDING"}}

(* Every interleaving of the statements above amounts to documents taking  *)
(* free units all at once, each document once, and giving units back.      *)
ImplementsCustody == Custody!Spec
=============================================================================
