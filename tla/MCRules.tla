------------------------------ MODULE MCRules ------------------------------
(* The pure rules of the system on enumerated inputs: a behaviour chooses  *)
(* a rule and builds an input for it, and each invariant is what one rule  *)
(* promises of every such input.                                           *)
EXTENDS MCPrices

VARIABLES tick, quote, added, samples, saved, due, base, wanted, warming, premium, stalled, ended

premiumVars == <<tick, quote, added, samples, saved, due, base, wanted, warming, premium, stalled, ended>>

-----------------------------------------------------------------------------
(* CalibrationFit: observations are added one by one, of a run that took    *)
(* its forecasts at noon on day 0, and the fit is made two days later.      *)

Spike == 3
Edges == <<0, 6, 24>>
SolarMin == 25
Elevation(at) == IF at % 24 \in 9..15 THEN 40 ELSE IF at % 24 \in 6..17 THEN 10 ELSE -5
Window == 48
MinObs == 2
MaxObs == 2
Now == 74
QuantileLines(rows) == << <<2, -Unit>>, <<-1, 0>>, <<1, Unit>> >>
LeastSquares(rows) == <<0, 1, 0, 0>>
HighLeverage(rows) == {i \in DOMAIN rows : rows[i].f[3] > 2 * Unit}
LooScale(rows, i) == 1 + (i % 2)
Fitting == INSTANCE CalibrationFit

Obs(at, h, x, y, s) ==
  [at |-> at, hour |-> (IF at = None THEN 7 ELSE at % 24), h |-> h, x |-> x, y |-> y,
   run |-> 1, stpasa |-> s, intervention |-> FALSE]
FirstSeen == {Obs(33, 21, 2, 1, None), Obs(30, 5, 1, 2, None)}
Observed ==
  {Obs(at, 24, x, y, 0) : at \in {36, 58}, x \in {-1, 1}, y \in {0, 2}}
  \union {Obs(31, 24, x, 0, 0) : x \in {0, 1}} \union {Obs(36, 24, 1, 2, 3 * Unit)}
  \union {Obs(None, 24, 1, 1, 0), Obs(34, 24, 4, 1, 0), Obs(20, 24, -2, 0, 0),
          [Obs(36, 24, 1, 0, 0) EXCEPT !.intervention = TRUE]}

Stats == INSTANCE TimeOfDayStats WITH Ticks <- 2
PricedRuns == {Obs(at, 24, x, 1, 0) : at \in {31, 34, 55, 58}, x \in {0, 2, None}}
              \union {Obs(at, 24, 2, None, 0) : at \in {34, 58}}
              \union {Obs(57, h, x, 3, 0) : h \in {5, 24}, x \in {0, 2}}
\* The fit of what was seen before them.
StatsFit == Fitting!Fit(<<Obs(34, 24, 2, 1, 0), Obs(34, 24, 0, 2, 0), Obs(55, 24, 1, 0, 0), Obs(31, 24, 2, 0, 0)>>, Now)

Average ==
  \/ Start /\ \E o \in PricedRuns : Ask("average", <<o>>)
  \/ probe.rule = "average" /\ Len(probe.in) < 3 /\ \E o \in PricedRuns : Ask("average", Append(probe.in, o))
FitObservations ==
  /\ \/ Start /\ \E o \in FirstSeen : Ask("observe", <<o>>)
     \/ probe.rule = "observe" /\ Len(probe.in) < 4 /\
        \E o \in Observed : Ask("observe", Append(probe.in, o))

-----------------------------------------------------------------------------
(* CovariateInputs: an STPASA result is built row by row and joined with runs *)
(* of four intervals; the network is two regions and a run of three points.   *)

Inputs == INSTANCE CovariateInputs WITH Interval <- 2, Day <- 8, Match <- 2, MinHorizon <- 3,
            MaxHorizon <- 7, ObsHorizon <- 8, DemandFloor <- 1, Share <- 2,
            Sign <- [a |-> [k |-> 1, l |-> -1], b |-> [k |-> -1, l |-> 1]]

StpasaRows == {[end |-> e, demand |-> v[1], mw |-> v[2]] :
                 e \in {6, 8, 10, 12}, v \in {<<3, 1>>, <<3, 2>>, <<0, 1>>, <<3, None>>}}
Summary == <<[end |-> 0, tj |-> 1], [end |-> 8, tj |-> 2], [end |-> 9, tj |-> 3]>>
Ingested(run, stp) ==
  [run |-> run, region |-> "a", stp |-> stp, summary |-> SubSeq(Summary, 1, 2),
   periods |-> [i \in 1..4 |-> [at |-> 2 * i + 2, value |-> run]]]
Forecast == {[at |-> at, flow |-> f, export |-> l[1], import |-> l[2]] :
               at \in {2, 4}, f \in {-1, 1, None}, l \in {<<4, -4>>, <<1, -4>>, <<4, 0>>, <<0, 0>>, <<None, -4>>}}

\* A run that begins later: the stamp tells two runs apart by their first time.
LaterRun(series) == [k \in DOMAIN series |-> [series[k] EXCEPT ![1].at = @ + 1, ![1].export = 3]]

FetchWeather ==
  \/ Start /\ \E row \in StpasaRows : Ask("weather", <<row>>)
  \/ probe.rule = "weather" /\ Len(probe.in) < 3 /\ \E row \in StpasaRows : Ask("weather", Append(probe.in, row))
FetchNetwork ==
  /\ Start
  /\ \E p, q \in {f \in Forecast : f.at = 2}, r \in {<<>>} \union {<<f>> : f \in {g \in Forecast : g.at = 4}} :
       Ask("network", [k |-> <<p>> \o r, l |-> <<q>>])

-----------------------------------------------------------------------------
(* SharedPrices: a run of three periods on which STPASA, the network and the *)
(* gas know everything or little, fitted or not; the near term reaches a cut *)
(* anywhere in it.                                                           *)

ServedThere == INSTANCE ServedPrice WITH MinHorizon <- 3, MaxHorizon <- 7
SharedFit ==
  [bucket |-> [iso |-> Fits!Fit(Rows(<< <<0, -1, 1>>, <<1, 2, 1>>, <<1, 2, 2>> >>)),
               lines |-> <<<<1, -Unit>>, <<1, 0>>, <<1, 2 * Unit>>>>],
   ols |-> [coef |-> <<0, 1, 0, 1>>, min |-> <<>>, max |-> <<>>, resid |-> Resid(-1, 0, 1, 2)]]
\* What ServedPrice makes of every interval that can occur here with SharedFit.
Occurring == {1, 3, 4} \X (0..8) \X {None, 0, 1, 3, 4} \X {None, Unit}
AppliedTable ==
  [v \in Occurring |->
     LET r == ServedThere!Apply(SharedFit.bucket, SharedFit.ols,
                [x |-> v[1], horizon |-> v[2], run |-> v[3], stpasa |-> v[4]])
     IN [price |-> r.price, band |-> r.band, source |-> r.source]]
MCApplied(fit, v) ==
  AppliedTable[<<v.x, v.h, IF v.features = None THEN None ELSE v.features.high,
                 IF v.stpasa = None THEN None ELSE Unit * v.stpasa[2]>>]
Shared == INSTANCE SharedPrices WITH Interval <- 2, Day <- 8, Match <- 2, MinHorizon <- 3,
            MaxHorizon <- 7, ObsHorizon <- 8, DemandFloor <- 1, Share <- 2,
            Sign <- [a |-> [k |-> 1, l |-> -1], b |-> [k |-> -1, l |-> 1]],
            Applied <- MCApplied, SpikeAt <- 3, SpikeGas <- 0, SpikeMinHorizon <- 4,
            CalloutAt <- 4, CalloutHorizon <- 6, NearHours <- 3, DayHours <- 5

Link(flow, limits) ==
  [i \in 1..3 |-> [at |-> 2 * i, flow |-> flow, export |-> limits[i], import |-> -limits[i]]]
Worlds == [stp : {None, <<>>} \union {<<[end |-> e, demand |-> d, mw |-> 1]>> : e \in {6, 8, 10}, d \in {0, 3}},
           series : {[k |-> Link(1, e), l |-> Link(f, <<4, 4, 4>>)] :
                       e \in {<<1, 8, 8>>, <<8, 8, 1>>}, f \in {-1, None}},
           summary : {<<>>, Summary}, region : {"a"}]
RunOf(at, values) ==
  [run |-> at, periods |-> [i \in DOMAIN values |-> [start |-> 2 * i, end |-> 2 * i + 2, value |-> values[i]]]]
PointsFrom(d, cut) ==
  <<[start |-> 1, end |-> cut, source |-> "p5min", price |-> 2, band |-> <<None, None, None>>]>> \o
  [i \in 1..Len(SelectSeq(d.periods, LAMBDA p : p.end > cut)) |->
     LET p == SelectSeq(d.periods, LAMBDA q : q.end > cut)[i]
     IN [start |-> Max({p.start, cut}), end |-> p.end, source |-> "pd7day", price |-> p.value, band |-> <<None, None, None>>]]

PublishRun ==
  /\ Start
  /\ \E at \in {0, 1}, w \in Worlds, fit \in {None, SharedFit},
        values \in {<<1, 3, 4>>, <<4, 1, 3>>, <<3, 4, 1>>, <<4, 4, 1>>, <<1, 1, 4>>, <<4, 3, 4>>} :
       Ask("share", [d |-> RunOf(at, values), w |-> w, store |-> [fit |-> fit]])

\* The rows a stage 2 fit may have, from OLS_MIN_OBS on.
Stage2Sizes == 50..150

\* TrainedWhereServed, Stage2LearnsWhatItServes and BandCoversTheNext of CalibrationFit,
\* IntervalsCountOnce of TimeOfDayStats, LearnedAsServed, FloorKeepsMatches, EachRunCountsOnce and
\* OneEndIsTight of CovariateInputs and FeaturesAsTrained of SharedPrices: what is learned of an interval, in which bucket and from which inputs, is what it is served with.
LearnedAsServed ==
  /\ probe.rule = "none" => \A n \in Stage2Sizes : Fitting!BandCoversTheNext(n)
  /\ probe.rule = "observe" => /\ Fitting!TrainedWhereServed(probe.in, Now)
                               /\ Fitting!Stage2LearnsWhatItServes(probe.in, Now)
  /\ probe.rule = "average" => \A fit \in {None, StatsFit} : Stats!IntervalsCountOnce(probe.in, fit)
  /\ probe.rule = "weather" =>
       /\ \A run \in 0..3 : Inputs!LearnedAsServed(Ingested(run, probe.in), "a")
       /\ \A t \in 0..12, run \in 0..3 \union {None} : Inputs!FloorKeepsMatches(probe.in, t, run)
       /\ Inputs!EachRunCountsOnce(<<Ingested(1, Tail(probe.in)), Ingested(2, probe.in), Ingested(1, probe.in)>>, "a")
  /\ probe.rule = "network" => \A t \in {2, 4} : Inputs!OneEndIsTight(probe.in, "a", "b", t)
  /\ probe.rule = "share" => Shared!FeaturesAsTrained(probe.in.d, "a")

-----------------------------------------------------------------------------
(* ScarcityPremium: two ticks an interval; the window is the second half hour *)
(* of the day.                                                               *)

BaseRow(at, value) == [at |-> at, value |-> value]
Premium == INSTANCE ScarcityPremium WITH HalfHour <- 4, Day <- 16, Window <- 6,
             Freshness <- 4, Open <- 4, Close <- 8, Trigger <- 18, FloorCap <- 36, PremiumCap <- 24,
             Price <- [e \in {0, 2, 4, 6, 8, 10, 12} |-> IF e \in {2, 4} THEN 60 ELSE IF e = 6 THEN 0 ELSE e],
             Bases <- {[fresh |-> TRUE, rows |-> {BaseRow(4, 12), BaseRow(8, 0), BaseRow(20, 0)}],
                       [fresh |-> TRUE, rows |-> {BaseRow(8, 0)}],
                       [fresh |-> TRUE, rows |-> {BaseRow(4, 12), BaseRow(4, 0)}],
                       [fresh |-> FALSE, rows |-> {BaseRow(4, -12)}]},
             Ahead <- 6, MaxNow <- 10, up <- added
ASSUME Premium!PremiumAssumption

SamplePrices ==
  /\ probe.rule = "premium"
  /\ Premium!Next
  /\ UNCHANGED <<probe, clock>>

-----------------------------------------------------------------------------
(* LocalPrice: the dispatch file of the interval ending at 2, a P5MIN run    *)
(* and a pre-dispatch run, with up to two local rows each, and zone votes.   *)

MaxAge == 3
PdFallbackAge == 7
MinMedianStations == 3
Local == INSTANCE LocalPrice WITH PdMaxAge <- PdFallbackAge

Solved(region, end, rop) == [region |-> region, end |-> end, rop |-> rop, intervention |-> 0]
LocalRow(duid, end, adj) == [duid |-> duid, end |-> end, adj |-> adj]
Pairs(S) == {<<>>} \union {<<a>> : a \in S} \union {<<a, b>> : a, b \in S}
DispatchFiles ==
  {[solution |-> <<>>, rows |-> None]}
  \union {[solution |-> <<[Solved("r", 2, 9) EXCEPT !.intervention = 1], Solved("r", 2, 3)>>, rows |-> r] :
             r \in {None, <<>>, <<LocalRow("a", 2, 1)>>, <<LocalRow("a", 0, 1), LocalRow("b", 2, 2)>>,
                    <<LocalRow("a", 2, 1), LocalRow("a", 2, 2)>>, <<LocalRow("a", 2, 1), LocalRow("b", 2, 2)>>}}
P5Files ==
  {[run |-> 2, solution |-> s, rows |-> r] :
     s \in {<<>>, <<Solved("r", 2, 3), Solved("r", 4, 5), Solved("r", 6, 7), Solved("s", 8, 1)>>},
     r \in {None} \union Pairs({LocalRow(d, e, v) : d \in {"a", "b"}, e \in {4, 6}, v \in {1, 2}})}
PdFiles ==
  {[run |-> 1, solution |-> s, rows |-> r] :
     s \in {<<>>, <<Solved("r", 4, 4), Solved("r", 8, 6)>>},
     r \in {<<>>, <<LocalRow("a", 4, 1)>>, <<LocalRow("a", 8, 1), LocalRow("b", 8, 2)>>,
            <<LocalRow("c", 4, 2), LocalRow("a", 8, 2)>>}}
Node == [region |-> "r", mlf |-> 2, duids |-> {"a", "b"}]
Sites == {[tni |-> 1, km |-> 40, station |-> 1, duids |-> {"a"}],
          [tni |-> 2, km |-> 40, station |-> 2, duids |-> {"a", "b"}],
          [tni |-> 3, km |-> 5, station |-> 1, duids |-> {"c"}],
          [tni |-> 4, km |-> 20, station |-> 3, duids |-> {"b"}]}
Zone == Local!Members(Sites, 100, {4})
MemberVotes == {[station |-> s, value |-> v] : s \in 1..3, v \in {None, 0, 4, 16}}

ReadFiles ==
  /\ Start
  /\ \E d \in DispatchFiles, p \in P5Files, q \in PdFiles :
       Ask("local", [dispatch |-> d, p5 |-> p, pd |-> q])
Vote ==
  \/ Start /\ \E m \in MemberVotes : Ask("vote", <<m>>)
  \/ probe.rule = "vote" /\ Len(probe.in) < 4 /\ \E m \in MemberVotes : Ask("vote", Append(probe.in, m))

-----------------------------------------------------------------------------
(* DispatchFeed: a poll five ticks into an interval of twenty, its summary   *)
(* overtaken by the next while it retries; and DispatchIS files of a day of  *)
(* three intervals, of which the last is of the physical run alone.          *)

Feed == INSTANCE DispatchFeed WITH Interval <- 20, RetryDelay <- 1, Retries <- 3, MaxAge <- 40, Day <- 60
Tracker == INSTANCE DispatchFeed WITH Interval <- 2, RetryDelay <- 1, Retries <- 3, MaxAge <- 40, Day <- 6

Asked == 25..28
Shown(since, u) == IF u < since THEN 20 ELSE 40
Quoted(region, firm, end) == [region |-> region, firm |-> firm, end |-> end]
SummaryOf(r, q, down) ==
  [u \in Asked |-> IF u \in down THEN None
     ELSE <<Quoted("q", FALSE, 0), Quoted("r", TRUE, Shown(r, u)), Quoted("q", TRUE, Shown(q, u))>>]
FileOf(r) == [u \in Asked |-> IF r = None THEN None ELSE <<Quoted("r", TRUE, Shown(r, u))>>]
Equation(end, id, i, mv) == [end |-> end, id |-> id, intervention |-> i, mv |-> mv]
IsFiles ==
  [e \in {2, 4, 6, 8} |-> <<Equation(e, "x", 1, 9), Equation(e, "x", 0, IF e = 8 THEN 0 ELSE e),
                            Equation(e, "y", 0, IF e = 4 THEN 0 ELSE e)>>]
  @@ [e \in {10} |-> <<Equation(10, "x", 1, 9)>>]
Reads == {[listing |-> {e, 2}, zip |-> IsFiles] : e \in DOMAIN IsFiles}
         \union {[listing |-> None, zip |-> IsFiles], [listing |-> {8}, zip |-> None]}

PollDispatch ==
  Start /\ \E r \in 24..29, q \in {24, 27, 29}, down \in SUBSET {25, 26, 28}, f \in {None, 24, 27} :
             Ask("poll", [summary |-> SummaryOf(r, q, down), file |-> FileOf(f)])
ReadDispatchIS ==
  \/ Start /\ \E r \in Reads : Ask("constraints", <<r>>)
  \/ probe.rule = "constraints" /\ Len(probe.in) < 4 /\ \E r \in Reads : Ask("constraints", Append(probe.in, r))

-----------------------------------------------------------------------------
(* ConstraintSensors: the table of a run row by row, a flow between limits, *)
(* what binds at once, and writes while time passes, a run is replaced and  *)
(* dispatch intervals come in.                                              *)

Binding == INSTANCE ConstraintSensors WITH MaxAge <- 3, DispatchMaxAge <- 1, TopPerPeriod <- 1,
             Artefact <- 9, BoundMw <- 1, BoundShare <- 4,
             Info <- << [regions |-> {"r"}, category |-> "network"],
                        [regions |-> {"r", "s"}, category |-> "interconnector"],
                        [regions |-> {"s"}, category |-> "fcas"],
                        [regions |-> {}, category |-> "constraint_automation"],
                        [regions |-> {}, category |-> "data_snapshot"],
                        [regions |-> {}, category |-> "fcas"] >>

Solution(end, id, i, mv, violation) ==
  [end |-> end, id |-> id, intervention |-> i, mv |-> mv, violation |-> violation, rhs |-> id]
TableRows == {Solution(e, d, i, v[1], v[2]) :
                e \in {2, 4, None}, d \in {1, 2}, i \in {0, 1}, v \in {<<0, None>>, <<-9, 0>>, <<0, 1>>}}
             \union {Solution(2, 1, None, None, 0)}
Interconnector(end, flow, export, import) ==
  [end |-> end, ic |-> "k", intervention |-> 0, flow |-> flow, export |-> export, import |-> import,
   exportBy |-> "up", importBy |-> "down"]
Bind(ids) == [i \in DOMAIN ids |-> [id |-> ids[i], mv |-> IF ids[i] = 2 THEN 9 ELSE -ids[i], rhs |-> 1 + (ids[i] % 2)]]
RunFile(at, ends) ==
  [at |-> at, prices |-> [r |-> [e \in ends |-> e]],
   links |-> SetToSeq({Interconnector(e, 0, 4, -4) : e \in ends}),
   constraints |-> SetToSeq({Solution(e, id, 0, e - id, 0) : e \in ends, id \in {1, 4}})]
Runs == <<Binding!ParsePredispatch(RunFile(0, {2, 4, 5})), Binding!ParsePredispatch(RunFile(2, {4, 5})),
          Binding!ParsePredispatch(RunFile(2, {}))>>
DispatchAt(at) == [end |-> at, bound |-> <<[id |-> 4, rhs |-> at], [id |-> 1, rhs |-> 0]>>]
Writes == {<<[now |-> 0, run |-> r, latest |-> None]>> : r \in {None, Runs[1]}}
LaterWrites(w) ==
  {[w EXCEPT !.now = @ + d] : d \in {1, 2}} \union {[w EXCEPT !.run = Runs[i]] : i \in 1..3}
  \union {[w EXCEPT !.latest = DispatchAt(at)] : at \in {w.now, w.now - 1}}

ReadRun ==
  \/ Start /\ \E row \in TableRows : Ask("run", <<row>>)
  \/ probe.rule = "run" /\ Len(probe.in) < 3 /\ \E row \in TableRows : Ask("run", Append(probe.in, row))
ReadLink ==
  Start /\ \E flow \in -9..9, export, import \in {None, -8, -4, 0, 1, 4, 8} :
             Ask("link", Interconnector(2, flow, export, import))
BindAtOnce == Start /\ \E S \in SUBSET (1..6) : Ask("bind", Bind(SetToSeq(S)))
WriteConstraints ==
  \/ Start /\ \E w \in Writes : Ask("writes", w)
  \/ probe.rule = "writes" /\ Len(probe.in) < 5 /\
     \E w \in LaterWrites(Last(probe.in)) : Ask("writes", Append(probe.in, w))

\* KnownValueStands and StationsVoteOnce of LocalPrice, PublishedIsServed and
\* RunsAreHonest of DispatchFeed, LeanParseIsExact, LimitIsItsOwn and ListsAgree of
\* ConstraintSensors, PricesAgree and CalloutsAgree of SharedPrices: the
\* interval's price, the local price of a node or of a zone and how long a constraint
\* has bound are what the files read say, and a calibrated price, its band and the
\* spike called out of it are the same whoever publishes them.
PublishedIsTold ==
  /\ probe.rule = "local" => \A t \in 0..9 : Local!KnownValueStands(probe.in, Node, t)
  /\ probe.rule = "vote" => Local!StationsVoteOnce([i \in DOMAIN probe.in |-> probe.in[i].station],
                                                   [i \in DOMAIN probe.in |-> probe.in[i].value])
  /\ probe.rule = "poll" => Feed!PublishedIsServed(probe.in.summary, probe.in.file, Min(Asked))
  /\ probe.rule = "constraints" => Tracker!RunsAreHonest(probe.in)
  /\ probe.rule = "run" => Binding!LeanParseIsExact(probe.in)
  /\ probe.rule = "link" => Binding!LimitIsItsOwn(probe.in)
  /\ probe.rule = "bind" => Binding!ListsAgree(probe.in, {"r", "s", "t"})
  /\ probe.rule = "share" =>
       /\ Shared!PricesAgree(probe.in.store, probe.in.w, probe.in.d, {4})
       /\ \A cut \in 2..5 : Shared!CalloutsAgree(PointsFrom(probe.in.d, cut), probe.in.store, probe.in.w,
                                                probe.in.d, {4})

-----------------------------------------------------------------------------
(* The constants of MCPrices' catalogue and pricing. *)

KnownCodes == <<"a", "b">>
KnownPrograms == [c \in {"a"} |-> "e"]
KnownOverrides == [c \in {"b"} |-> "aX"]
CodesWithX == [c \in {"a"} |-> "aX"]
KnownExtensions == <<[code |-> "x", feedIn |-> TRUE]>>
DefaultLosses == <<2, 1, 3>>

-----------------------------------------------------------------------------
\* TimelineIsCurrent of PriceTimeline, SeriesIsKeptByItsKey of LocalPrice,
\* PricesAreCurrent of TariffPricing, ContextIsOfItsRun of CovariateInputs,
\* RowsAreOfTheMoment of ConstraintSensors, PremiumIsOfTheMoment, PremiumNeedsATrigger,
\* EndedIsSampled and SavedUnlessDue of ScarcityPremium: what is served from a memo, or
\* shown of samples once their refreshes are over, is what the inputs of that moment give.
MemosAreCurrent ==
  /\ probe.rule = "clock" => Clock!TimelineIsCurrent
  /\ probe.rule = "premium" =>
       /\ Premium!PremiumIsOfTheMoment /\ Premium!PremiumNeedsATrigger
       /\ Premium!EndedIsSampled /\ Premium!SavedUnlessDue
  /\ probe.rule = "local" /\ probe.in.dispatch.solution = <<>> =>
       Local!SeriesIsKeptByItsKey(probe.in, Node, Zone, 0..9)
  /\ probe.rule = "prices" => Prices!PricesAreCurrent(probe.in.sensor, probe.in.writes)
  /\ probe.rule = "writes" => Binding!RowsAreOfTheMoment(probe.in, "r")
  /\ probe.rule = "network" => Inputs!ContextIsOfItsRun(<<probe.in, LaterRun(probe.in), probe.in>>, "a")

-----------------------------------------------------------------------------
Init ==
  /\ Clock!Init /\ Premium!Init
  /\ probe \in {[rule |-> r, in |-> <<>>] : r \in {"none", "clock", "premium"}}
  /\ probe.rule # "clock" => latest = [p5 |-> None, pd |-> None]
  /\ probe.rule # "premium" => base.rows = {BaseRow(8, 0)}
Asks ==
  \/ FitRows \/ Serve \/ FitObservations \/ Average \/ FetchWeather \/ FetchNetwork \/ PublishRun \/ JoinAmber
  \/ ReadFiles \/ Vote \/ PollDispatch \/ ReadDispatchIS \/ ReadRun \/ ReadLink \/ BindAtOnce
  \/ WriteConstraints \/ Release \/ SetPrices
Next == (Asks /\ UNCHANGED <<clock, premiumVars>>) \/ (KeepTime /\ UNCHANGED premiumVars) \/ SamplePrices
Spec == Init /\ [][Next]_<<probe, clock, premiumVars>>
=============================================================================
