---------------------------- MODULE DispatchFeed ----------------------------
(***************************************************************************)
(* What one dispatch poll makes of the files AEMO has published: the       *)
(* prices of every region (dispatch_client.py and the polling of           *)
(* coordinator.py) and the binding constraints and their runs              *)
(* (constraint_client.py, constraint_coordinator.py).                      *)
(*                                                                         *)
(* Times are ticks; an interval is named by its end.  The summary is None  *)
(* where the request fails, or its rows [region, firm, end].  A DispatchIS *)
(* file is its constraint rows [end, id, intervention, mv], mv 0 where the *)
(* constraint neither binds nor is violated.                               *)
(***************************************************************************)
EXTENDS Integers, Sequences, SequencesExt, FiniteSets, FiniteSetsExt

CONSTANTS
  None,
  Interval,        \* ticks in five minutes
  RetryDelay,      \* _DISPATCH_RETRY_DELAY_S
  Retries,         \* _DISPATCH_RETRIES
  MaxAge,          \* ten minutes
  Day              \* ticks in a day

-----------------------------------------------------------------------------
(* Prices *)

\* _fetch_nem_summary(), and the file's rows in _fetch_dispatchis(): the last firm
\* row of each region.  No firm row is a failure.
Firm(rows) ==
  LET firm == {i \in DOMAIN rows : rows[i].firm}
  IN [r \in {rows[i].region : i \in firm} |-> rows[Max({i \in firm : rows[i].region = r})].end]

\* The row the checks look at: the region of the first firm row.
Sample(rows) == Firm(rows)[rows[Min({i \in DOMAIN rows : rows[i].firm})].region]

HasPrices(rows) == rows # None /\ \E row \in ToSet(rows) : row.firm

\* fetch_dispatch_prices(): the prices, by region the end of their interval; it
\* fails, or asks for a retry where the summary is behind what is expected.
FetchDispatchPrices(summary, file, at, expected) ==
  LET current == HasPrices(summary) /\ at - Sample(summary) <= MaxAge
      stale == current /\ expected # None /\ Sample(summary) < expected
  IN [stale |-> stale,
      ok |-> ~stale /\ (current \/ HasPrices(file)),
      prices |-> IF current THEN Firm(summary) ELSE IF HasPrices(file) THEN Firm(file) ELSE <<>>]

\* As if the interval that ends at the boundary were the fresh one (#219).
ExpectedBoundary(at) == (at \div Interval) * Interval

\* The interval a poll at this time waits for.
Expected(at) == (at \div Interval) * Interval + Interval

\* _async_update_data() and _retry_until_fresh(): the summary and the file are what
\* is published at each tick.
PollPrices(summary, file, at) ==
  LET try(i) == at + i * RetryDelay
      fetch(i) == FetchDispatchPrices(summary[try(i)], file[try(i)], try(i), Expected(at))
      settled == {i \in 0..Retries : ~fetch(i).stale}
  IN IF settled # {} THEN fetch(Min(settled))
     ELSE FetchDispatchPrices(summary[try(Retries)], file[try(Retries)], try(Retries), None)

-----------------------------------------------------------------------------
(* Constraints *)

\* parse_constraints(): the pricing run's rows that bind, None for a file without one.
ParseConstraints(rows) ==
  LET priced == SelectSeq(rows, LAMBDA row : row.intervention = 0)
  IN IF priced = <<>> THEN None
     ELSE [end |-> priced[1].end, bound |-> SelectSeq(priced, LAMBDA row : row.mv # 0)]

\* fetch_latest() over the listing: the newest file, unless it was the last read.
\* A listing or a zip that fails, or a file that says nothing, leaves the name.
FetchLatest(lastFile, listing, zip) ==
  LET name == IF listing = None \/ listing = {} THEN None ELSE Max(listing)
      snapshot == IF name = None \/ name = lastFile \/ zip = None THEN None ELSE ParseConstraints(zip[name])
  IN [last |-> IF snapshot = None THEN lastFile ELSE name, snapshot |-> snapshot]

\* As if the day of an interval were that of its end.
DayOfEnd(end) == end \div Day

\* _nem_day(): the day of its start.
NemDay(end) == (end - Interval) \div Day

\* As if a run went on from one file read to the next.
ContinuesFromLatest(tracker, id, end) ==
  id \in DOMAIN tracker.runs /\ tracker.runs[id].last = tracker.latest.end

\* Whether a run goes on: the constraint bound in the interval before.
Continues(tracker, id, end) ==
  id \in DOMAIN tracker.runs /\ tracker.runs[id].last = end - Interval

EmptyTracker == [runs |-> <<>>, latest |-> None]

\* ConstraintTracker.add(): a repeat or an older interval changes nothing, and a
\* constraint that stopped binding keeps its count until the day ends.
Add(tracker, snapshot) ==
  LET end == snapshot.end
      old(id) == tracker.runs[id]
      Run(row) ==
        LET on == Continues(tracker, row.id, end)
            counted == row.id \in DOMAIN tracker.runs /\ old(row.id).day = NemDay(end)
        IN [first |-> IF on THEN old(row.id).first ELSE end - Interval, last |-> end,
            mv |-> row.mv, previous |-> IF on THEN old(row.id).mv ELSE None,
            day |-> NemDay(end), today |-> 1 + IF counted THEN old(row.id).today ELSE 0]
      bound == ToSet(snapshot.bound)
      new == [id \in {row.id : row \in bound} |-> Run(CHOOSE row \in bound : row.id = id)]
      kept == {id \in DOMAIN tracker.runs : old(id).day = NemDay(end)} \union DOMAIN new
  IN IF tracker.latest # None /\ end <= tracker.latest.end THEN tracker
     ELSE [latest |-> snapshot,
           runs |-> [id \in kept |-> IF id \in DOMAIN new THEN new[id] ELSE old(id)]]

\* _async_update_data() after one poll: what was new is folded in.
ReadConstraints(held, poll) ==
  LET r == FetchLatest(held.lastFile, poll.listing, poll.zip)
  IN [lastFile |-> r.last,
      tracker |-> IF r.snapshot = None THEN held.tracker ELSE Add(held.tracker, r.snapshot)]

-----------------------------------------------------------------------------
(* Properties *)

\* While the summary answers and is fresh, a poll serves the interval that has begun
\* if any of its attempts showed it, and never an older one than it was shown first.
PublishedIsServed(summary, file, at) ==
  LET attempts == {at + i * RetryDelay : i \in 0..Retries}
      shown == {Sample(summary[u]) : u \in attempts}
      served == PollPrices(summary, file, at)
      begun == {e \in shown : e > at}
  IN (\A u \in attempts : HasPrices(summary[u]) /\ u - Sample(summary[u]) <= MaxAge) =>
       /\ served.ok
       /\ \E region \in DOMAIN served.prices :
            /\ served.prices[region] >= Sample(summary[at])
            /\ begun # {} => served.prices[region] >= Min(begun)

\* However intervals were missed, repeated or read out of order, a run says what the
\* intervals read say: how long the constraint has bound without a break, its value
\* one interval earlier, and in how many intervals of the day it bound.
RunsAreHonest(polls) ==
  LET held == FoldLeft(ReadConstraints, [lastFile |-> None, tracker |-> EmptyTracker], polls)
      runs == held.tracker.runs
      readable == SelectSeq(polls, LAMBDA p : p.listing \notin {None, {}} /\ p.zip # None)
      files == FoldLeft(LAMBDA acc, p :
                 LET s == ParseConstraints(p.zip[Max(p.listing)])
                 IN IF s = None \/ \E e \in acc : e.end >= s.end THEN acc ELSE acc \union {s}, {}, readable)
      bound(id) == {s.end : s \in {s \in files : \E row \in ToSet(s.bound) : row.id = id}}
      mv(id, end) == (CHOOSE row \in ToSet((CHOOSE s \in files : s.end = end).bound) : row.id = id).mv
      today == (Max({s.end : s \in files}) - 1) \div Day
  IN files # {} =>
       /\ DOMAIN runs = {id \in {row.id : row \in UNION {ToSet(s.bound) : s \in files}} :
                           \E e \in bound(id) : (e - 1) \div Day = today}
       /\ \A id \in DOMAIN runs :
            /\ runs[id].last = Max(bound(id))
            /\ runs[id].first = Min({e \in bound(id) : \A i \in 0..((Max(bound(id)) - e) \div Interval) :
                                                          e + i * Interval \in bound(id)}) - Interval
            /\ runs[id].previous = IF runs[id].last - Interval \in bound(id)
                                   THEN mv(id, runs[id].last - Interval) ELSE None
            /\ runs[id].today = Cardinality({e \in bound(id) : (e - 1) \div Day = today})
=============================================================================
