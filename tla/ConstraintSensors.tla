-------------------------- MODULE ConstraintSensors --------------------------
(***************************************************************************)
(* What is read of a pre-dispatch run (predispatch_client.py) and what the *)
(* sensors of binding constraints and of an interconnector show of it and  *)
(* of the dispatch interval (predispatch_sensor.py, constraint_sensor.py). *)
(*                                                                         *)
(* A row of CONSTRAINT_SOLUTION is [end, id, intervention, mv, violation,  *)
(* rhs], of INTERCONNECTOR_SOLN [end, ic, intervention, flow, export,      *)
(* import, exportBy, importBy], the last two the equations that set the    *)
(* limits; a field that is absent or no number is None.  Ids are numbers,  *)
(* and Info says what an id says of itself.                                *)
(***************************************************************************)
EXTENDS Integers, Sequences, SequencesExt, FiniteSets, FiniteSetsExt

CONSTANTS
  None,
  Info,             \* describe_constraint(): id -> [regions, category]
  MaxAge,           \* MAX_AGE of a pre-dispatch run
  DispatchMaxAge,   \* DISPATCH_RHS_MAX_AGE, and the MAX_AGE of the dispatch sensor
  TopPerPeriod,
  Artefact,         \* ARTEFACT_MARGINAL_VALUE
  BoundMw,          \* _BOUND_MW
  BoundShare        \* one over _BOUND_FRACTION

-----------------------------------------------------------------------------
(* Reading a run *)

OrZero(v) == IF v = None THEN 0 ELSE v
Size(n) == IF n < 0 THEN -n ELSE n

\* Of the pricing run, as is a row of a table without the column.
Pricing(row) == row.intervention \in {None, 0}

\* A row that costs and violates nothing, and the one row that stands for the others of its period.
NotBinding(row) == Pricing(row) /\ OrZero(row.mv) = 0 /\ OrZero(row.violation) = 0
Stub(end) == [end |-> end, id |-> None, intervention |-> None, mv |-> None, violation |-> None, rhs |-> None]

\* As if a row that does not bind were only counted.
PricingRowsDropping(rows) ==
  LET bind == SelectSeq(rows, LAMBDA row : Pricing(row) /\ ~NotBinding(row))
  IN [rows |-> bind, evaluated |-> Len(SelectSeq(rows, Pricing))]

\* _pricing_rows() of the constraints: read one by one (#364).
PricingRows(rows) ==
  LET read(acc, row) ==
        IF ~NotBinding(row) THEN IF Pricing(row) THEN [acc EXCEPT !.rows = Append(@, row)] ELSE acc
        ELSE IF row.end \in acc.periods THEN [acc EXCEPT !.repeats = @ + 1]
        ELSE [acc EXCEPT !.periods = @ \union {row.end}, !.rows = Append(@, Stub(row.end))]
      done == FoldLeft(read, [rows |-> <<>>, periods |-> {}, repeats |-> 0], rows)
  IN [rows |-> done.rows, evaluated |-> Len(done.rows) + done.repeats]

Costlier(a, b) == Size(a.mv) > Size(b.mv) \/ (Size(a.mv) = Size(b.mv) /\ a.id < b.id)

\* _constraints(): what binds in each period, the costliest first.
Constraints(rows) ==
  LET binds(row) == OrZero(row.mv) # 0 \/ OrZero(row.violation) # 0
      bound(row) == [id |-> row.id, mv |-> OrZero(row.mv), rhs |-> row.rhs]
      of(end) == SelectSeq(rows, LAMBDA row : row.end = end /\ binds(row))
  IN [end \in {row.end : row \in ToSet(rows)} \ {None} |->
        SetToSortSeq({bound(row) : row \in ToSet(of(end))}, Costlier)]

\* _interconnectors(): the periods of each link, in order.
Interconnectors(rows) ==
  LET read == {row \in ToSet(rows) : Pricing(row) /\ row.end # None /\ row.flow # None}
  IN [ic \in {row.ic : row \in read} |->
        SetToSortSeq({row \in read : row.ic = ic}, LAMBDA p, q : p.end < q.end)]

\* parse_predispatch(): nothing without a link or a time it was solved at.
ParsePredispatch(file) ==
  LET constraints == PricingRows(file.constraints)
      links == Interconnectors(file.links)
  IN IF links = <<>> \/ file.at = None THEN None
     ELSE [at |-> file.at, links |-> links, prices |-> file.prices,
           constraints |-> Constraints(constraints.rows), evaluated |-> constraints.evaluated]

PeriodEnds(run) ==
  SetToSortSeq(DOMAIN run.constraints
               \union {p.end : p \in UNION {ToSet(run.links[ic]) : ic \in DOMAIN run.links}}, <)

\* As if the tolerance were a share of a limit with its sign.
SignedTolerance(limit) == Max({BoundMw, limit \div BoundShare})

Tolerance(limit) == Max({BoundMw, Size(limit) \div BoundShare})

\* InterconnectorPeriod.bound: at which limit the flow is, where the two do not meet.
Bound(p) ==
  IF /\ p.export # None /\ p.import # None
     /\ p.export - p.import <= Tolerance(p.export)
  THEN IF Size(p.export) <= BoundMw /\ Size(p.import) <= BoundMw THEN "closed" ELSE "pinned"
  ELSE IF p.export # None /\ p.flow >= p.export - Tolerance(p.export) THEN "export"
  ELSE IF p.import # None /\ p.flow <= p.import + Tolerance(p.import) THEN "import"
  ELSE None

\* InterconnectorPeriod.limit_constraint
LimitConstraint(p) ==
  IF Bound(p) = None THEN None ELSE IF Bound(p) = "import" THEN p.importBy ELSE p.exportBy

-----------------------------------------------------------------------------
(* Whose a constraint is *)

Category(c) == Info[c.id].category
Names(c) == Info[c.id].regions

\* _region_constraints() and _unassigned_constraints() of the pre-dispatch sensor.
RegionConstraints(constraints, region) ==
  SelectSeq(constraints, LAMBDA c : Category(c) \notin {"fcas", "data_snapshot"} /\ region \in Names(c))

\* As if FCAS constraints were left out here too.
UnassignedNetwork(constraints) ==
  SelectSeq(constraints, LAMBDA c : Category(c) \notin {"fcas", "data_snapshot"} /\ Names(c) = {})

UnassignedConstraints(constraints) ==
  SelectSeq(constraints, LAMBDA c : Category(c) # "data_snapshot" /\ Names(c) = {})

\* _split() and _nem_network() of the dispatch sensor, one constraint at a time.
Split(constraints, region) ==
  LET put(lists, c) ==
        IF Category(c) = "data_snapshot" THEN lists
        ELSE IF Names(c) = {} THEN [lists EXCEPT !.unassigned = Append(@, c)]
        ELSE IF region \notin Names(c) THEN lists
        ELSE IF Category(c) = "fcas" THEN [lists EXCEPT !.fcas = Append(@, c)]
        ELSE [lists EXCEPT !.constraints = Append(@, c)]
  IN FoldLeft(put, [constraints |-> <<>>, fcas |-> <<>>, unassigned |-> <<>>], constraints)
NemNetwork(constraints) ==
  {c.id : c \in {d \in ToSet(constraints) : Category(d) \notin {"fcas", "data_snapshot"}}}

-----------------------------------------------------------------------------
(* What is shown at a write: w is [now, run, latest], the run held and the  *)
(* last dispatch interval [end, bound].                                     *)

Held(w) == IF w.run = None \/ w.now - w.run.at > MaxAge THEN None ELSE w.run
Ahead(run, now) == SelectSeq(PeriodEnds(run), LAMBDA end : end > now)

\* _current(): the run and the period it is in.
Current(w) == IF Held(w) = None \/ Ahead(w.run, w.now) = <<>> THEN None ELSE Head(Ahead(w.run, w.now))

\* _periods() of the interconnector sensor; its state is the first's flow.
LinkPeriods(w, ic) ==
  IF Held(w) = None \/ ic \notin DOMAIN w.run.links THEN <<>>
  ELSE SelectSeq(w.run.links[ic], LAMBDA p : p.end > w.now)

\* _dispatch_rhs(): by id, while the dispatch interval is recent.
DispatchRhs(w) ==
  IF w.latest = None \/ w.now - w.latest.end > DispatchMaxAge THEN <<>>
  ELSE LET priced == {c \in ToSet(w.latest.bound) : OrZero(c.rhs) # 0}
       IN [id \in {c.id : c \in priced} |-> (CHOOSE c \in priced : c.id = id).rhs]

\* The two right hand sides of rhs_vs_dispatch.
RhsVsDispatch(c, rhs) == IF c.rhs = None \/ c.id \notin DOMAIN rhs THEN None ELSE <<c.rhs, rhs[c.id]>>

Priced(constraints) == SelectSeq(constraints, LAMBDA c : Size(c.mv) < Artefact)
Top(constraints) == SubSeq(constraints, 1, Min({TopPerPeriod, Len(constraints)}))
MaxMarginal(constraints) == Max({0} \union {Size(c.mv) : c \in ToSet(Priced(constraints))})

BoundIn(run, end) == IF end \in DOMAIN run.constraints THEN run.constraints[end] ELSE <<>>

\* _period_row()
PeriodRow(run, region, end, rhs) ==
  LET found == RegionConstraints(BoundIn(run, end), region)
      unassigned == UnassignedConstraints(BoundIn(run, end))
  IN [end |-> end, count |-> Len(found), max |-> MaxMarginal(found), top |-> Top(Priced(found)),
      maxUnassigned |-> MaxMarginal(unassigned),
      unassigned |-> [i \in DOMAIN Top(unassigned) |-> <<unassigned[i].id, RhsVsDispatch(unassigned[i], rhs)>>],
      rrp |-> IF region \in DOMAIN run.prices /\ end \in DOMAIN run.prices[region]
              THEN run.prices[region][end] ELSE None]

\* As if the dispatch interval it looked at were known to be the one it used.
RowsIdentityOfLatest(w) == <<w.run, w.latest, Current(w)>>

\* What the rows are kept on in the hub: the run, the dispatch interval compared with
\* and the current period.
RowsIdentity(w) == <<w.run, IF DispatchRhs(w) = <<>> THEN None ELSE w.latest, Current(w)>>

FreshRows(w, region) ==
  [i \in DOMAIN Ahead(w.run, w.now) |-> PeriodRow(w.run, region, Ahead(w.run, w.now)[i], DispatchRhs(w))]

\* extra_state_attributes of the pre-dispatch sensor: [memo, shown] after a write.
WriteRows(held, w, region) ==
  LET memo == IF held.memo # None /\ held.memo.of = RowsIdentity(w) THEN held.memo
              ELSE [of |-> RowsIdentity(w), rows |-> FreshRows(w, region)]
  IN IF Current(w) = None THEN [memo |-> held.memo, shown |-> <<>>]
     ELSE [memo |-> memo, shown |-> memo.rows]

-----------------------------------------------------------------------------
(* Properties *)

\* Reading a run without a record for each row of it loses nothing: the periods, what
\* binds in them and how many equations were evaluated are those of the whole table,
\* whatever the order of the rows and the rows of an intervention run among them (#364).
LeanParseIsExact(rows) ==
  LET read == PricingRows(rows)
      priced == {i \in DOMAIN rows : rows[i].intervention \notin {1}}
      in(end) == {i \in priced : rows[i].end = end /\ {rows[i].mv, rows[i].violation} \ {None, 0} # {}}
      constraints == Constraints(read.rows)
  IN /\ read.evaluated = Cardinality(priced)
     /\ DOMAIN constraints = {rows[i].end : i \in priced} \ {None}
     /\ \A end \in DOMAIN constraints :
          {c.id : c \in ToSet(constraints[end])} = {rows[i].id : i \in in(end)}

\* Of a flow between its limits, the equation said to hold it sets a limit the flow is
\* at, and none is said only of a flow clear of both (#243).
LimitIsItsOwn(p) ==
  LET near(gap, limit) == gap <= BoundMw \/ gap * BoundShare <= Size(limit)
      atExport == p.export # None /\ near(p.export - p.flow, p.export)
      atImport == p.import # None /\ near(p.flow - p.import, p.import)
  IN (p.export # None => p.flow <= p.export) /\ (p.import # None => p.import <= p.flow) =>
       /\ LimitConstraint(p) \in {None, p.exportBy, p.importBy}
       /\ LimitConstraint(p) = None <=> ~atExport /\ ~atImport
       /\ LimitConstraint(p) = p.exportBy => atExport
       /\ LimitConstraint(p) = p.importBy => atImport

\* The pre-dispatch sensor lists what the dispatch sensor would of the same
\* constraints, and every one that is not FCAS or a data snapshot shows somewhere: in
\* each region it names or, if it names none, beside every region (#255, #318).
ListsAgree(constraints, regions) ==
  LET shownIn(region) == ToSet(RegionConstraints(constraints, region)) \union ToSet(UnassignedConstraints(constraints))
  IN /\ \A region \in regions :
          /\ Split(constraints, region).constraints = RegionConstraints(constraints, region)
          /\ Split(constraints, region).unassigned = UnassignedConstraints(constraints)
     /\ \A c \in ToSet(constraints) :
          c.id \in NemNetwork(constraints) =>
            {region \in regions : c \in shownIn(region)} = IF Names(c) = {} THEN regions ELSE Names(c)

\* However writes, runs and dispatch polls fall, the rows shown are those of the run
\* held, of its periods still ahead, compared with a dispatch interval that is recent;
\* the count is the current period's, and an old run or one that is over shows nothing.
RowsAreOfTheMoment(writes, region) ==
  LET last == writes[Len(writes)]
      shown == FoldLeft(LAMBDA held, w : WriteRows(held, w, region), [memo |-> None, shown |-> <<>>], writes).shown
      old == last.run = None \/ last.now - last.run.at > MaxAge
      rhs == IF last.latest # None /\ last.now - last.latest.end <= DispatchMaxAge THEN DispatchRhs(last) ELSE <<>>
  IN /\ old => shown = <<>>
     /\ ~old => /\ [i \in DOMAIN shown |-> shown[i].end] = SelectSeq(PeriodEnds(last.run), LAMBDA e : e > last.now)
                /\ \A i \in DOMAIN shown : shown[i] = PeriodRow(last.run, region, shown[i].end, rhs)
     \* The two kinds of sensor come and go together.
     /\ (\E ic \in (IF last.run = None THEN {} ELSE DOMAIN last.run.links) : LinkPeriods(last, ic) # <<>>)
          => shown # <<>>
=============================================================================
