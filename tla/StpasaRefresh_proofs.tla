------------------------ MODULE StpasaRefresh_proofs ------------------------
(* What the shared STPASA download promises for any number of regions, of     *)
(* set-ups and unloads, and of results, however they age and whatever regions *)
(* each of them holds.                                                        *)
EXTENDS StpasaRefresh, TLAPS

UnderWay(r) == fetch[r].at # "none"

\* Nothing is kept or distributed that no download returned, and a fetch saves
\* what its own object downloaded.
ResultsArePublished ==
  /\ \A c \in 1..MaxShared : coord[c].last <= newest
  /\ \A r \in Regions :
       /\ fetch[r].result <= newest
       /\ fetch[r].now # {} => fetch[r].at = "saving"
       /\ fetch[r].at = "saving" =>
            fetch[r].result # 0 /\ got[fetch[r].result].by = mine[r].coord

\* Entries hold objects that exist; one still to be made has resolved nothing.
ObjectsWereMade ==
  /\ \A r \in Regions : mine[r].coord <= made.coord /\ mine[r].stores <= made.stores
  /\ \A c \in 1..MaxShared : c > made.coord => coord[c].outcome = "none"

\* Tasks start after the triggers, and end with their entry.
TasksAreOfEntries ==
  \A r \in Regions :
    /\ forced[r] \/ UnderWay(r) => entry[r] \in {"platforms", "loaded"}
    /\ refit[r] # "none" => entry[r] = "loaded"

\* A fetch under way holds the claim of its entry's object.
ClaimsAreHeld ==
  \A r \in Regions : UnderWay(r) => coord[mine[r].coord].inFlight /\ fetch[r].stores # 0

\* A region is registered where its entry knows it is, and nowhere else.
RegisteredOnce == \A k \in 1..MaxShared : \A s \in stores[k] : mine[s].stores = k

\* A distribution goes to the shared stores, and it has reached those whose turn
\* has passed or that registered since.
TurnsAreServed ==
  \A r \in Regions :
    UnderWay(r) /\ mine[r].coord = hass.coord =>
      /\ fetch[r].stores = hass.stores
      /\ fetch[r].at = "saving" =>
           /\ coord[hass.coord].last = fetch[r].result
           /\ Usable(fetch[r].result) =>
                \A s \in stores[hass.stores] \ fetch[r].todo : Reached(s, fetch[r].result)

IInv ==
  /\ TypeOK
  /\ ResultsArePublished /\ ObjectsWereMade /\ TasksAreOfEntries
  /\ ClaimsAreHeld /\ SingleDownload /\ RegisteredOnce
  /\ TurnsAreServed /\ FreshReachesEveryStore

-----------------------------------------------------------------------------
\* What the types say of the objects an entry holds and the results kept.
LEMMA TypesOfParts ==
  ASSUME SRAssumption, IInv
  PROVE  /\ MaxShared \in Nat \ {0} /\ MaxResult \in Nat \ {0}
         /\ \A r \in Regions :
              /\ entry[r] # "off" => mine[r].coord \in 1..MaxShared
              /\ entry[r] \notin {"off", "loading"} => mine[r].stores \in 1..MaxShared
              /\ UnderWay(r) => entry[r] # "off" /\ fetch[r].stores \in 1..MaxShared
              /\ fetch[r].result \in Results /\ fetch[r].todo \subseteq Regions
              /\ fetch[r].result # 0 => fetch[r].result \in 1..MaxResult
              /\ latest[r] # 0 => latest[r] \in 1..MaxResult
              /\ latest[r] \in 0..newest
              /\ latest[r] <= newest /\ joined[r] \in 0..newest /\ joined[r] <= newest
         /\ newest \in 1..MaxResult
         /\ \A c \in 1..MaxShared : coord[c].last \in Results
         /\ \A k \in 1..MaxShared : stores[k] \subseteq Regions
<1> USE DEF IInv
<1>1. MaxShared \in Nat \ {0} /\ MaxResult \in Nat \ {0}
  BY DEF SRAssumption
<1>2. \A r \in Regions : mine[r].coord \in 0..MaxShared /\ mine[r].stores \in 0..MaxShared
  BY DEF TypeOK, EntriesOK, Ids
<1>3. ASSUME NEW r \in Regions
      PROVE  /\ fetch[r].stores \in 0..MaxShared
             /\ fetch[r].result \in Results /\ fetch[r].todo \subseteq Regions
  <2>1. fetch[r] \in Fetches
    BY DEF TypeOK, FetchesOK
  <2> QED BY <2>1 DEF Fetches, Ids
<1>4. ASSUME NEW r \in Regions
      PROVE  /\ entry[r] # "off" => mine[r].coord \in 1..MaxShared
             /\ entry[r] \notin {"off", "loading"} => mine[r].stores \in 1..MaxShared
  BY <1>1, <1>2 DEF TypeOK, EntriesOK
<1>5. ASSUME NEW r \in Regions, UnderWay(r)
      PROVE  entry[r] # "off" /\ fetch[r].stores \in 1..MaxShared
  BY <1>1, <1>3, <1>5 DEF TasksAreOfEntries, ClaimsAreHeld
<1>6. \A c \in 1..MaxShared : coord[c].last \in Results
  BY DEF TypeOK, SharedOK, Coords
<1>7. \A k \in 1..MaxShared : stores[k] \subseteq Regions
  BY DEF TypeOK, SharedOK
<1>8. newest \in 1..MaxResult /\ \A r \in Regions : latest[r] \in 0..newest /\ joined[r] \in 0..newest
  BY DEF TypeOK, StoresOK
<1>9. ASSUME NEW r \in Regions
      PROVE  /\ fetch[r].result # 0 => fetch[r].result \in 1..MaxResult
             /\ latest[r] # 0 => latest[r] \in 1..MaxResult
             /\ latest[r] <= newest /\ joined[r] <= newest
  BY <1>1, <1>3, <1>8 DEF Results
<1> QED BY <1>1, <1>3, <1>4, <1>5, <1>6, <1>7, <1>8, <1>9

\* Results only get older, and claims only leave their window.
LEMMA TimeKeepsInv ==
  ASSUME SRAssumption, IInv,
         (\E n \in 1..MaxResult : Age(n)) \/ (\E c \in 1..MaxShared : WindowPasses(c))
  PROVE  IInv'
<1> USE DEF IInv, UnderWay
<1>1. UNCHANGED <<hass, made, stores, latest, disk, writing, forced, fetch, refit, entry, mine, joined,
                  newest, got>>
  BY DEF Age, WindowPasses, sharedVars, storeVars, taskVars, results
<1>2. /\ coord' \in [1..MaxShared -> Coords]
      /\ \A c \in 1..MaxShared : /\ coord'[c].inFlight = coord[c].inFlight
                                 /\ coord'[c].outcome = coord[c].outcome
                                 /\ coord'[c].last = coord[c].last
  <2>1. coord \in [1..MaxShared -> Coords]
    BY DEF TypeOK, SharedOK
  <2>2. UNCHANGED coord \/ \E c \in 1..MaxShared : coord' = [coord EXCEPT ![c].recent = FALSE]
    BY DEF Age, WindowPasses, sharedVars
  <2>3. ASSUME NEW c \in 1..MaxShared, coord' = [coord EXCEPT ![c].recent = FALSE] PROVE <1>2
    BY <2>1, <2>3 DEF Coords
  <2> QED BY <2>1, <2>2, <2>3
<1>3. stage' \in [1..MaxResult -> 0..2] /\ \A n \in 1..MaxResult : stage'[n] >= stage[n]
  <2>1. stage \in [1..MaxResult -> 0..2] /\ MaxStage \in 0..2
    BY DEF TypeOK, StoresOK, SRAssumption
  <2>2. UNCHANGED stage
        \/ \E n \in 1..MaxResult : stage[n] < MaxStage /\ stage' = [stage EXCEPT ![n] = @ + 1]
    BY DEF Age, WindowPasses
  <2>3. ASSUME NEW n \in 1..MaxResult, stage[n] < MaxStage, stage' = [stage EXCEPT ![n] = @ + 1]
        PROVE  <1>3
    <3>1. stage[n] + 1 \in 0..2
      BY <2>1, <2>3
    <3> QED BY <2>1, <2>3, <3>1
  <2> QED BY <2>1, <2>2, <2>3
<1>4. SharedOK' /\ EntriesOK' /\ FetchesOK'
  <2>1. SharedOK'
    BY <1>1, <1>2 DEF TypeOK, SharedOK
  <2>2. EntriesOK'
    BY <1>1 DEF TypeOK, EntriesOK
  <2>3. FetchesOK'
    BY <1>1 DEF TypeOK, FetchesOK
  <2> QED BY <2>1, <2>2, <2>3
<1>5. StoresOK'
  BY <1>1, <1>3 DEF TypeOK, StoresOK
<1>10. ResultsArePublished' 
  BY <1>1, <1>2 DEF ResultsArePublished
<1>11. ObjectsWereMade' /\ TasksAreOfEntries' /\ RegisteredOnce'
  BY <1>1, <1>2 DEF ObjectsWereMade, TasksAreOfEntries, RegisteredOnce
<1>12. ClaimsAreHeld' /\ SingleDownload'
  BY <1>1, <1>2 DEF ClaimsAreHeld, SingleDownload, TypeOK, EntriesOK, TasksAreOfEntries, Ids
<1>6. \A n \in Results \ {0} : stage'[n] < 2 => stage[n] < 2
  <2>1. stage \in [1..MaxResult -> 0..2] /\ MaxResult \in Nat
    BY DEF TypeOK, StoresOK, SRAssumption
  <2> SUFFICES ASSUME NEW n \in 1..MaxResult, stage'[n] < 2 PROVE stage[n] < 2
    BY <2>1 DEF Results
  <2> QED BY <1>3, <2>1
<1>7. \A s \in Regions, n \in Results : Reached(s, n)' <=> Reached(s, n)
  BY <1>1 DEF Reached
<1>8. TurnsAreServed'
  <2> SUFFICES ASSUME NEW r \in Regions, UnderWay(r), mine[r].coord = hass.coord
               PROVE  /\ fetch[r].stores = hass.stores
                      /\ fetch[r].at = "saving" =>
                           /\ coord'[hass.coord].last = fetch[r].result
                           /\ fetch[r].result # 0 /\ stage'[fetch[r].result] < 2 =>
                                \A s \in stores[hass.stores] \ fetch[r].todo :
                                  Reached(s, fetch[r].result)
    BY <1>1, <1>7, TypesOfParts DEF TurnsAreServed, Usable
  <2> QED BY <1>2, <1>6, TypesOfParts DEF TurnsAreServed, Usable
<1>9. FreshReachesEveryStore'
  <2>1. ASSUME hass.coord # 0, hass.stores # 0 PROVE hass.coord \in 1..MaxShared
    BY <2>1 DEF TypeOK, SharedOK, Ids, SRAssumption
  <2> SUFFICES ASSUME hass.coord # 0, hass.stores # 0, coord[hass.coord].outcome = "fresh",
                      ~coord[hass.coord].inFlight,
                      coord[hass.coord].last # 0, stage'[coord[hass.coord].last] < 2
               PROVE  \A r \in stores[hass.stores] : Reached(r, coord[hass.coord].last)
    BY <1>1, <1>2, <2>1 DEF FreshReachesEveryStore, Usable, Reached
  <2>2. Usable(coord[hass.coord].last)
    BY <1>2, <1>6, <2>1, TypesOfParts DEF Usable
  <2> QED BY <2>2 DEF FreshReachesEveryStore
<1> QED BY <1>4, <1>5, <1>10, <1>11, <1>12, <1>8, <1>9 DEF TypeOK

\* Set-up goes on, or a wait, a sleep or a write ends, and nothing shared moves.
LEMMA QuietKeepsInv ==
  ASSUME SRAssumption, IInv,
         UNCHANGED <<made, coord, stores, latest, fetch, mine, joined, newest, got, stage>>,
         hass' \in [coord : Ids, stores : Ids, client : BOOLEAN],
         hass'.coord = hass.coord, hass'.stores = hass.stores,
         EntriesOK', StoresOK', FetchesOK', TasksAreOfEntries'
  PROVE  IInv'
<1> USE DEF IInv
<1>1. SharedOK'
  BY DEF TypeOK, SharedOK
<1>3. ResultsArePublished' /\ ObjectsWereMade'
  BY DEF ResultsArePublished, ObjectsWereMade
<1>4. ClaimsAreHeld' /\ SingleDownload' /\ RegisteredOnce'
  BY DEF ClaimsAreHeld, SingleDownload, RegisteredOnce, UnderWay
<1>5. TurnsAreServed'
  BY DEF TurnsAreServed, UnderWay, Usable, Reached
<1>6. FreshReachesEveryStore'
  BY DEF FreshReachesEveryStore, Usable, Reached
<1> QED BY <1>1, <1>3, <1>4, <1>5, <1>6 DEF TypeOK

\* A region that claims found no claim held, so it is alone.
LEMMA ClaimKeepsInv ==
  ASSUME SRAssumption, IInv, NEW r \in Regions, entry[r] \in {"platforms", "loaded"}, Fetch(r),
         UNCHANGED <<hass, made, stores, latest, disk, writing, entry, mine, joined, newest, got, stage>>,
         forced' \in [Regions -> BOOLEAN],
         refit' \in [Regions -> {"none", "waiting", "running"}],
         \A o \in Regions : (forced'[o] => forced[o]) /\ (refit'[o] # "none" => refit[o] # "none")
  PROVE  IInv'
<1> USE DEF IInv
<1> DEFINE k == mine[r].coord
<1>1. CASE ~CanClaim(r)
  <2>1. UNCHANGED <<coord, fetch>>
    BY <1>1 DEF Fetch
  <2>2. EntriesOK' /\ StoresOK' /\ FetchesOK'
    BY <2>1 DEF TypeOK, EntriesOK, StoresOK, FetchesOK
  <2>3. TasksAreOfEntries'
    BY <2>1 DEF TasksAreOfEntries, UnderWay
  <2>4. hass' \in [coord : Ids, stores : Ids, client : BOOLEAN]
    BY DEF TypeOK, SharedOK
  <2> QED BY <2>1, <2>2, <2>3, <2>4, QuietKeepsInv
<1>2. CASE CanClaim(r)
  <2>1. /\ coord' = [coord EXCEPT ![k].inFlight = TRUE, ![k].recent = TRUE]
        /\ fetch' = [fetch EXCEPT ![r] = [NoFetch EXCEPT !.at = "download", !.stores = hass.stores]]
        /\ hass.stores # 0 /\ ~coord[k].inFlight
    BY <1>2 DEF Fetch, CanClaim, MyCoord
  <2>2. k \in 1..MaxShared /\ coord \in [1..MaxShared -> Coords] /\ fetch \in [Regions -> Fetches]
    BY TypesOfParts DEF TypeOK, SharedOK, FetchesOK
  <2>3. /\ coord' \in [1..MaxShared -> Coords]
        /\ \A c \in 1..MaxShared : /\ coord'[c].inFlight <=> coord[c].inFlight \/ c = k
                                   /\ coord'[c].outcome = coord[c].outcome
                                   /\ coord'[c].last = coord[c].last
    <3>1. /\ coord'[k] = [coord[k] EXCEPT !.inFlight = TRUE, !.recent = TRUE]
          /\ \A c \in 1..MaxShared \ {k} : coord'[c] = coord[c]
          /\ DOMAIN coord' = 1..MaxShared /\ coord' = [c \in 1..MaxShared |-> coord'[c]]
      BY <2>1, <2>2
    <3>2. coord[k] \in Coords
      BY <2>2
    <3>3. /\ coord'[k] \in Coords /\ coord'[k].inFlight
          /\ coord'[k].outcome = coord[k].outcome /\ coord'[k].last = coord[k].last
      BY <3>1, <3>2 DEF Coords
    <3>4. coord' \in [1..MaxShared -> Coords]
      BY <2>2, <3>1, <3>3
    <3>5. ASSUME NEW c \in 1..MaxShared
          PROVE  /\ coord'[c].inFlight <=> coord[c].inFlight \/ c = k
                 /\ coord'[c].outcome = coord[c].outcome
                 /\ coord'[c].last = coord[c].last
      BY <3>1, <3>3
    <3> QED BY <3>4, <3>5
  <2>4. /\ \A o \in Regions \ {r} : fetch'[o] = fetch[o]
        /\ fetch'[r] = [at |-> "download", stores |-> hass.stores, todo |-> {}, now |-> {}, result |-> 0]
    BY <2>1, <2>2 DEF NoFetch
  <2>5. fetch' \in [Regions -> Fetches]
    <3>1. hass.stores \in Ids /\ 0 \in Results
      BY DEF TypeOK, SharedOK, Results, SRAssumption
    <3>2. [at |-> "download", stores |-> hass.stores, todo |-> {}, now |-> {}, result |-> 0] \in Fetches
      BY <3>1 DEF Fetches
    <3> QED BY <2>1, <2>2, <2>4, <3>2
  <2>6. TypeOK'
    <3>1. SharedOK'
      BY <2>3 DEF TypeOK, SharedOK
    <3>2. EntriesOK' /\ FetchesOK'
      BY <2>5 DEF TypeOK, EntriesOK, FetchesOK
    <3>3. StoresOK'
      BY DEF TypeOK, StoresOK
    <3> QED BY <3>1, <3>2, <3>3 DEF TypeOK
  <2>7. ResultsArePublished' /\ ObjectsWereMade'
    <3>1. 0 <= newest
      BY DEF TypeOK, StoresOK, SRAssumption
    <3>2. ResultsArePublished'
      <4>1. fetch'[r].result <= newest /\ fetch'[r].at # "saving"
        BY <2>4, <3>1
      <4> QED BY <2>3, <2>4, <4>1 DEF ResultsArePublished
    <3> QED BY <2>3, <3>2 DEF ObjectsWereMade
  <2>8. TasksAreOfEntries' /\ RegisteredOnce'
    BY <2>4 DEF TasksAreOfEntries, RegisteredOnce, UnderWay
  <2>9. ClaimsAreHeld'
    <3>1. coord'[k].inFlight /\ fetch'[r].stores # 0
      <4>1. coord'[k].inFlight
        BY <2>2, <2>3
      <4>2. hass.stores # 0
        BY <2>1
      <4> QED BY <2>4, <4>1, <4>2
    <3>2. ASSUME NEW o \in Regions \ {r}, UnderWay(o)'
          PROVE  coord'[mine[o].coord].inFlight /\ fetch'[o].stores # 0
      <4>1. UnderWay(o) /\ fetch'[o] = fetch[o]
        BY <2>4, <3>2 DEF UnderWay
      <4>2. mine[o].coord \in 1..MaxShared
        BY <4>1, TypesOfParts
      <4> QED BY <2>3, <4>1, <4>2 DEF ClaimsAreHeld
    <3> QED BY <3>1, <3>2 DEF ClaimsAreHeld
  <2>10. SingleDownload'
    <3>1. \A o \in Regions \ {r} : UnderWay(o) => mine[o].coord # k
      BY <2>1 DEF ClaimsAreHeld
    <3> QED BY <2>4, <3>1 DEF SingleDownload, UnderWay
  <2>11. TurnsAreServed'
    BY <2>3, <2>4, TypesOfParts DEF TurnsAreServed, UnderWay, Usable, Reached
  <2>12. FreshReachesEveryStore'
    <3>1. hass.coord # 0 => hass.coord \in 1..MaxShared
      BY DEF TypeOK, SharedOK, Ids, SRAssumption
    <3> QED BY <2>3, <3>1 DEF FreshReachesEveryStore, Usable, Reached
  <2> QED BY <2>6, <2>7, <2>8, <2>9, <2>10, <2>11, <2>12
<1> QED BY <1>1, <1>2

\* A fetch that ends hands the claim back; if it says fresh, every turn passed.
LEMMA MarkKeepsInv ==
  ASSUME SRAssumption, IInv, NEW r \in Regions, UnderWay(r),
         NEW outcome \in {"fresh", "failed"}, NEW last \in Results, last <= newest,
         Mark(r, outcome, last),
         outcome = "fresh" =>
           fetch[r].at = "saving" /\ fetch[r].todo = {} /\ last = coord[mine[r].coord].last,
         UNCHANGED <<hass, made, stores, latest, disk, writing, forced, refit, entry, mine, joined,
                     newest, got, stage>>
  PROVE  IInv'
<1> USE DEF IInv
<1> DEFINE k == mine[r].coord
<1>1. k \in 1..MaxShared /\ coord \in [1..MaxShared -> Coords] /\ fetch \in [Regions -> Fetches]
  BY TypesOfParts DEF TypeOK, SharedOK, FetchesOK
<1>2. /\ coord' = [coord EXCEPT ![k].inFlight = FALSE, ![k].outcome = outcome, ![k].last = last]
      /\ fetch' = [fetch EXCEPT ![r] = NoFetch]
  BY DEF Mark
<1>3. /\ coord' \in [1..MaxShared -> Coords]
      /\ coord'[k].outcome = outcome /\ coord'[k].last = last
      /\ \A c \in 1..MaxShared \ {k} : coord'[c] = coord[c]
  <2>1. /\ coord'[k] = [coord[k] EXCEPT !.inFlight = FALSE, !.outcome = outcome, !.last = last]
        /\ \A c \in 1..MaxShared \ {k} : coord'[c] = coord[c]
        /\ DOMAIN coord' = 1..MaxShared /\ coord' = [c \in 1..MaxShared |-> coord'[c]]
    BY <1>1, <1>2
  <2>2. coord[k] \in Coords
    BY <1>1
  <2>3. coord'[k] \in Coords /\ coord'[k].outcome = outcome /\ coord'[k].last = last
    BY <2>1, <2>2 DEF Coords
  <2>4. coord' \in [1..MaxShared -> Coords]
    BY <1>1, <2>1, <2>3
  <2> QED BY <2>1, <2>3, <2>4
<1>4. /\ fetch' \in [Regions -> Fetches]
      /\ fetch'[r].at = "none" /\ fetch'[r].result = 0 /\ fetch'[r].now = {}
      /\ \A o \in Regions \ {r} : fetch'[o] = fetch[o]
  <2>1. NoFetch \in Fetches
    BY DEF NoFetch, Fetches, Ids, Results, SRAssumption
  <2> QED BY <1>1, <1>2, <2>1 DEF NoFetch
<1>5. TypeOK'
  <2>1. SharedOK'
    BY <1>3 DEF TypeOK, SharedOK
  <2>2. EntriesOK' /\ FetchesOK'
    BY <1>4 DEF TypeOK, EntriesOK, FetchesOK
  <2>3. StoresOK'
    BY DEF TypeOK, StoresOK
  <2> QED BY <2>1, <2>2, <2>3 DEF TypeOK
<1>6. ResultsArePublished' /\ TasksAreOfEntries' /\ RegisteredOnce'
  <2>1. 0 <= newest
    BY DEF TypeOK, StoresOK, SRAssumption
  <2>2. ResultsArePublished'
    BY <1>3, <1>4, <2>1 DEF ResultsArePublished
  <2> QED BY <1>4, <2>2 DEF TasksAreOfEntries, RegisteredOnce, UnderWay
<1>7. ObjectsWereMade'
  <2>1. k <= made.coord /\ made.coord \in Nat
    BY DEF ObjectsWereMade, TypeOK, SharedOK, Ids
  <2>2. \A c \in 1..MaxShared : c > made.coord => c # k
    BY <1>1, <2>1
  <2> QED BY <1>3, <2>2 DEF ObjectsWereMade
<1>8. \A o \in Regions \ {r} : UnderWay(o) => mine[o].coord # k
  BY DEF SingleDownload, UnderWay
<1>9. ClaimsAreHeld' /\ SingleDownload'
  <2>1. SingleDownload'
    BY <1>4 DEF SingleDownload
  <2>2. ASSUME NEW o \in Regions, UnderWay(o)'
        PROVE  coord'[mine[o].coord].inFlight /\ fetch'[o].stores # 0
    <3>1. o # r /\ UnderWay(o) /\ fetch'[o] = fetch[o]
      BY <1>4, <2>2 DEF UnderWay
    <3>2. mine[o].coord \in 1..MaxShared \ {k}
      BY <1>8, <3>1, TypesOfParts
    <3> QED BY <1>3, <3>1, <3>2 DEF ClaimsAreHeld
  <2> QED BY <2>1, <2>2 DEF ClaimsAreHeld
<1>11. TurnsAreServed'
  <2> SUFFICES ASSUME NEW o \in Regions, UnderWay(o)', mine[o].coord = hass.coord
               PROVE  /\ fetch'[o].stores = hass.stores
                      /\ fetch'[o].at = "saving" =>
                           /\ coord'[hass.coord].last = fetch'[o].result
                           /\ Usable(fetch'[o].result) =>
                                \A s \in stores[hass.stores] \ fetch'[o].todo :
                                  Reached(s, fetch'[o].result)
    BY DEF TurnsAreServed, Usable, Reached
  <2>1. o # r /\ UnderWay(o) /\ fetch'[o] = fetch[o]
    BY <1>4 DEF UnderWay
  <2>2. coord'[hass.coord] = coord[hass.coord]
    BY <1>3, <1>8, <2>1, TypesOfParts
  <2>3. fetch[o].stores = hass.stores /\ stores[hass.stores] \subseteq Regions
    BY <2>1, TypesOfParts DEF TurnsAreServed
  <2> QED BY <2>1, <2>2, <2>3 DEF TurnsAreServed
<1>12. FreshReachesEveryStore'
  <2> SUFFICES ASSUME hass.coord # 0, hass.stores # 0, coord'[hass.coord].outcome = "fresh",
                      ~coord'[hass.coord].inFlight, Usable(coord[hass.coord].last)',
                      NEW s \in stores[hass.stores]
               PROVE  Reached(s, coord'[hass.coord].last)
    BY DEF FreshReachesEveryStore, Usable, Reached
  <2>1. hass.coord \in 1..MaxShared /\ hass.stores \in 1..MaxShared
    BY DEF TypeOK, SharedOK, Ids, SRAssumption
  <2>2. s \in Regions
    BY <2>1, TypesOfParts
  <2>3. CASE hass.coord = k
    <3>1. outcome = "fresh" /\ Usable(last)
      BY <1>3, <2>3 DEF Usable
    <3>2. coord[hass.coord].last = fetch[r].result /\ last = fetch[r].result
      BY <2>3, <3>1 DEF TurnsAreServed
    <3>3. Reached(s, last)
      BY <2>3, <3>1, <3>2 DEF TurnsAreServed
    <3> QED BY <1>3, <2>3, <3>3
  <2>4. CASE hass.coord # k
    BY <1>3, <2>1, <2>2, <2>4 DEF FreshReachesEveryStore, Usable
  <2> QED BY <2>3, <2>4
<1> QED BY <1>5, <1>6, <1>7, <1>9, <1>11, <1>12

\* The result is kept as the last before the first turn, and nobody else can
\* be distributing from the same object.
LEMMA ReturnKeepsInv ==
  ASSUME SRAssumption, IInv, NEW r \in Regions, DownloadReturns(r)
  PROVE  IInv'
<1> USE DEF IInv
<1> DEFINE k == mine[r].coord
<1>1. UnderWay(r) /\ newest \in 1..MaxResult /\ newest < MaxResult /\ MaxResult \in Nat
  BY DEF DownloadReturns, UnderWay, TypeOK, StoresOK, SRAssumption
<1>2. UNCHANGED <<hass, made, stores, latest, disk, writing, forced, refit, entry, mine, joined, stage>>
  BY DEF DownloadReturns, storeVars
<1>3. PICK held \in SUBSET Regions :
        /\ newest' = newest + 1
        /\ coord' = [coord EXCEPT ![k].last = newest + 1]
        /\ got' = [got EXCEPT ![newest + 1] = [by |-> k, holds |-> held]]
        /\ fetch' = [fetch EXCEPT ![r].at = "saving", ![r].todo = held, ![r].result = newest + 1]
  BY DEF DownloadReturns
<1>4. newest' \in 1..MaxResult /\ newest + 1 \in Results /\ newest + 1 \in 1..MaxResult
  BY <1>1, <1>3 DEF Results
<1>5. k \in 1..MaxShared /\ coord \in [1..MaxShared -> Coords] /\ fetch \in [Regions -> Fetches]
  BY <1>1, TypesOfParts DEF TypeOK, SharedOK, FetchesOK
<1>6. /\ coord' \in [1..MaxShared -> Coords]
      /\ coord'[k].outcome = coord[k].outcome /\ (coord'[k].inFlight <=> coord[k].inFlight)
      /\ coord'[k].last = newest + 1
      /\ \A c \in 1..MaxShared \ {k} : coord'[c] = coord[c]
  <2>1. /\ coord'[k] = [coord[k] EXCEPT !.last = newest + 1]
        /\ \A c \in 1..MaxShared \ {k} : coord'[c] = coord[c]
        /\ DOMAIN coord' = 1..MaxShared /\ coord' = [c \in 1..MaxShared |-> coord'[c]]
    BY <1>3, <1>5
  <2>2. coord[k] \in Coords
    BY <1>5
  <2>3. /\ coord'[k] \in Coords /\ coord'[k].last = newest + 1
        /\ coord'[k].outcome = coord[k].outcome /\ (coord'[k].inFlight <=> coord[k].inFlight)
    BY <1>4, <2>1, <2>2 DEF Coords
  <2>4. coord' \in [1..MaxShared -> Coords]
    BY <1>5, <2>1, <2>3
  <2> QED BY <2>1, <2>3, <2>4
<1>7. /\ fetch' \in [Regions -> Fetches]
      /\ fetch'[r].at = "saving" /\ fetch'[r].result = newest + 1
      /\ fetch'[r].todo = held /\ fetch'[r].stores = fetch[r].stores
      /\ \A o \in Regions \ {r} : fetch'[o] = fetch[o]
  <2>1. /\ fetch'[r] = [fetch[r] EXCEPT !.at = "saving", !.todo = held, !.result = newest + 1]
        /\ \A o \in Regions \ {r} : fetch'[o] = fetch[o]
        /\ DOMAIN fetch' = Regions /\ fetch' = [o \in Regions |-> fetch'[o]]
    BY <1>3, <1>5
  <2>2. fetch[r] \in Fetches
    BY <1>5
  <2>3. /\ fetch'[r] \in Fetches /\ fetch'[r].at = "saving" /\ fetch'[r].result = newest + 1
        /\ fetch'[r].todo = held /\ fetch'[r].stores = fetch[r].stores
    BY <1>4, <2>1, <2>2 DEF Fetches
  <2>4. fetch' \in [Regions -> Fetches]
    BY <1>5, <2>1, <2>3
  <2> QED BY <2>1, <2>3, <2>4
<1>15. /\ got' \in [1..MaxResult -> [by : Ids, holds : SUBSET Regions]]
       /\ got'[newest + 1] = [by |-> k, holds |-> held]
       /\ \A n \in 1..newest : got'[n] = got[n]
  <2>1. got \in [1..MaxResult -> [by : Ids, holds : SUBSET Regions]]
    BY DEF TypeOK, StoresOK
  <2>2. k \in Ids
    BY <1>5 DEF Ids
  <2>3. [by |-> k, holds |-> held] \in [by : Ids, holds : SUBSET Regions]
    BY <2>2
  <2>4. \A n \in 1..newest : n # newest + 1 /\ n \in 1..MaxResult
    BY <1>1
  <2> QED BY <1>3, <1>4, <2>1, <2>3, <2>4
<1>16. \A o \in Regions, n \in 1..newest : Reached(o, n) => Reached(o, n)'
  <2> SUFFICES ASSUME NEW o \in Regions, NEW n \in 1..newest, Reached(o, n) PROVE Reached(o, n)'
    OBVIOUS
  <2>1. latest[o] # 0 => latest[o] \in 1..newest
    BY <1>1, TypesOfParts
  <2> QED BY <1>2, <1>15, <2>1 DEF Reached
<1>8. TypeOK'
  <2>1. SharedOK'
    BY <1>2, <1>6 DEF TypeOK, SharedOK
  <2>2. EntriesOK' /\ FetchesOK'
    BY <1>2, <1>7 DEF TypeOK, EntriesOK, FetchesOK
  <2>3. StoresOK'
    <3>1. \A n \in 0..newest : n \in 0..newest'
      BY <1>1, <1>3
    <3>2. /\ latest' \in [Regions -> 0..newest'] /\ disk' \in [Regions -> 0..newest']
          /\ joined' \in [Regions -> 0..newest']
      BY <1>2, <3>1 DEF TypeOK, StoresOK
    <3>3. writing' \in [Regions -> SUBSET (1..newest')]
      <4>1. \A n \in 1..newest : n \in 1..newest'
        BY <1>1, <1>3
      <4> QED BY <1>2, <4>1 DEF TypeOK, StoresOK
    <3> QED BY <1>2, <1>4, <1>15, <3>2, <3>3 DEF TypeOK, StoresOK
  <2> QED BY <2>1, <2>2, <2>3 DEF TypeOK
<1>9. ResultsArePublished'
  <2>1. \A n \in Results : n <= newest => n <= newest'
    BY <1>1, <1>3 DEF Results
  <2>2. \A c \in 1..MaxShared : coord'[c].last <= newest'
    BY <1>1, <1>3, <1>6, <2>1, TypesOfParts DEF ResultsArePublished
  <2>3. \A o \in Regions : fetch'[o].result <= newest'
    BY <1>1, <1>3, <1>7, <2>1, TypesOfParts DEF ResultsArePublished
  <2>4. ASSUME NEW o \in Regions, fetch'[o].at = "saving"
        PROVE  fetch'[o].result # 0 /\ got'[fetch'[o].result].by = mine'[o].coord
    <3>1. CASE o = r
      BY <1>1, <1>2, <1>7, <1>15, <3>1
    <3>2. CASE o # r
      <4>1. /\ fetch'[o] = fetch[o] /\ fetch[o].result # 0 /\ fetch[o].result <= newest
            /\ got[fetch[o].result].by = mine[o].coord
        BY <1>7, <2>4, <3>2 DEF ResultsArePublished
      <4>2. fetch[o].result \in 1..newest
        BY <1>1, <4>1, TypesOfParts
      <4> QED BY <1>2, <1>15, <4>1, <4>2
    <3> QED BY <3>1, <3>2
  <2>5. \A o \in Regions : fetch'[o].now # {} => fetch'[o].at = "saving"
    BY <1>7 DEF ResultsArePublished
  <2> QED BY <2>2, <2>3, <2>4, <2>5 DEF ResultsArePublished
<1>10. ObjectsWereMade' /\ TasksAreOfEntries' /\ RegisteredOnce'
  <2>1. ObjectsWereMade'
    BY <1>2, <1>6 DEF ObjectsWereMade
  <2> QED BY <1>1, <1>2, <1>7, <2>1 DEF TasksAreOfEntries, RegisteredOnce, UnderWay
<1>11. \A o \in Regions \ {r} : UnderWay(o) => mine[o].coord # k
  BY <1>1 DEF SingleDownload, UnderWay
<1>12. ClaimsAreHeld' /\ SingleDownload'
  <2>1. \A o \in Regions : /\ UnderWay(o)' => UnderWay(o)
                           /\ fetch'[o].stores = fetch[o].stores
    BY <1>1, <1>7 DEF UnderWay
  <2>2. SingleDownload'
    BY <1>2, <2>1 DEF SingleDownload, UnderWay
  <2>3. \A c \in 1..MaxShared : coord[c].inFlight => coord'[c].inFlight
    BY <1>6
  <2>4. ClaimsAreHeld'
    BY <1>2, <2>1, <2>3, TypesOfParts DEF ClaimsAreHeld
  <2> QED BY <2>2, <2>4
<1>13. TurnsAreServed'
  <2> SUFFICES ASSUME NEW o \in Regions, UnderWay(o)', mine[o].coord = hass.coord
               PROVE  /\ fetch'[o].stores = hass.stores
                      /\ fetch'[o].at = "saving" =>
                           /\ coord'[hass.coord].last = fetch'[o].result
                           /\ Usable(fetch'[o].result) =>
                                \A s \in stores[hass.stores] \ fetch'[o].todo :
                                  Reached(s, fetch[o].result)'
    BY <1>2 DEF TurnsAreServed, Usable, Reached
  <2>1. CASE o = r
    <3>1. fetch[r].stores = hass.stores /\ hass.coord = k
      BY <1>1, <2>1 DEF TurnsAreServed
    <3>2. \A s \in stores[hass.stores] \ held : Reached(s, fetch[r].result)'
      BY <1>7, <1>15 DEF Reached
    <3> QED BY <1>6, <1>7, <2>1, <3>1, <3>2
  <2>2. CASE o # r
    <3>1. fetch'[o] = fetch[o] /\ UnderWay(o) /\ hass.coord # k /\ hass.coord \in 1..MaxShared
      BY <1>7, <1>11, <2>2, TypesOfParts DEF UnderWay
    <3>2. /\ fetch[o].stores = hass.stores
          /\ fetch[o].at = "saving" =>
               /\ coord[hass.coord].last = fetch[o].result
               /\ Usable(fetch[o].result) =>
                    \A s \in stores[hass.stores] \ fetch[o].todo : Reached(s, fetch[o].result)
      BY <3>1 DEF TurnsAreServed
    <3>3. fetch[o].at = "saving" => fetch[o].result \in 1..newest
      BY <1>1, TypesOfParts DEF ResultsArePublished
    <3>4. stores[hass.stores] \subseteq Regions
      BY <3>1, <3>2, TypesOfParts
    <3>5. ASSUME fetch[o].at = "saving", Usable(fetch[o].result),
                 NEW s \in stores[hass.stores] \ fetch[o].todo
          PROVE  Reached(s, fetch[o].result)'
      <4>1. Reached(s, fetch[o].result) /\ s \in Regions /\ fetch[o].result \in 1..newest
        BY <3>2, <3>3, <3>4, <3>5
      <4>2. PICK n \in 1..newest : n = fetch[o].result
        BY <4>1
      <4>3. Reached(s, n)'
        BY <1>16, <4>1, <4>2
      <4>4. n = fetch'[o].result
        BY <3>1, <4>2
      <4> QED BY <4>3, <4>4 DEF Reached
    <3> QED BY <1>6, <3>1, <3>2, <3>5
  <2> QED BY <2>1, <2>2
<1>14. FreshReachesEveryStore'
  <2>1. hass.coord # 0 => hass.coord \in 1..MaxShared
    BY DEF TypeOK, SharedOK, Ids, SRAssumption
  <2>2. coord[k].inFlight
    BY <1>1 DEF ClaimsAreHeld
  <2> SUFFICES ASSUME hass.coord # 0, hass.stores # 0, coord'[hass.coord].outcome = "fresh",
                      ~coord'[hass.coord].inFlight, Usable(coord[hass.coord].last)',
                      NEW s \in stores[hass.stores]
               PROVE  Reached(s, coord[hass.coord].last)'
    BY <1>2 DEF FreshReachesEveryStore
  <2>3. hass.coord # k /\ coord'[hass.coord] = coord[hass.coord]
    BY <1>6, <2>1, <2>2
  <2>8. Usable(coord[hass.coord].last)
    BY <1>2, <2>3 DEF Usable
  <2>4. PICK n \in 1..newest : n = coord[hass.coord].last
    BY <1>1, <2>1, <2>8, TypesOfParts DEF ResultsArePublished, Usable, Results
  <2>5. hass.stores \in 1..MaxShared
    BY DEF TypeOK, SharedOK, Ids, SRAssumption
  <2>6. s \in Regions
    BY <2>5, TypesOfParts
  <2>7. Reached(s, coord[hass.coord].last)
    BY <2>3, <2>8 DEF FreshReachesEveryStore
  <2>9. Reached(s, n)'
    BY <1>16, <2>4, <2>6, <2>7
  <2> QED BY <1>2, <2>3, <2>4, <2>9 DEF Reached
<1> QED BY <1>8, <1>9, <1>10, <1>12, <1>13, <1>14

\* A turn of a distribution, or a part of it: who is registered when its turn
\* passes gets the result, and nobody gets another.
LEMMA TurnKeepsInv ==
  ASSUME SRAssumption, IInv, NEW r \in Regions, fetch[r].at = "saving",
         NEW todo \in SUBSET fetch[r].todo, NEW now \in SUBSET Regions,
         fetch' = [fetch EXCEPT ![r].todo = todo, ![r].now = now],
         UNCHANGED <<hass, made, coord, stores, disk, forced, refit, entry, mine, joined, newest, got, stage>>,
         StoresOK',
         \A s \in Regions : latest'[s] \in {latest[s], fetch[r].result},
         \A s \in fetch[r].todo \ todo : s \in stores[fetch[r].stores] => latest'[s] = fetch[r].result
  PROVE  IInv'
<1> USE DEF IInv
<1>1. UnderWay(r)
  BY DEF UnderWay
<1>3. fetch[r].result # 0 /\ got[fetch[r].result].by = mine[r].coord /\ mine[r].coord # 0
  BY <1>1, TypesOfParts DEF ResultsArePublished
<1>5. fetch \in [Regions -> Fetches]
  BY DEF TypeOK, FetchesOK
<1>6. /\ fetch' \in [Regions -> Fetches]
      /\ fetch'[r].at = fetch[r].at /\ fetch'[r].result = fetch[r].result
      /\ fetch'[r].todo = todo /\ fetch'[r].stores = fetch[r].stores
      /\ \A o \in Regions \ {r} : fetch'[o] = fetch[o]
  <2>1. /\ fetch'[r] = [fetch[r] EXCEPT !.todo = todo, !.now = now]
        /\ \A o \in Regions \ {r} : fetch'[o] = fetch[o]
        /\ DOMAIN fetch' = Regions /\ fetch' = [o \in Regions |-> fetch'[o]]
    BY <1>5
  <2>2. fetch[r] \in Fetches /\ todo \in SUBSET Regions
    BY <1>5, TypesOfParts
  <2>3. /\ fetch'[r] \in Fetches
        /\ fetch'[r].at = fetch[r].at /\ fetch'[r].result = fetch[r].result
        /\ fetch'[r].todo = todo /\ fetch'[r].stores = fetch[r].stores
    BY <2>1, <2>2 DEF Fetches
  <2>4. fetch' \in [Regions -> Fetches]
    BY <1>5, <2>1, <2>3
  <2> QED BY <2>1, <2>3, <2>4
<1>7. \A o \in Regions : /\ UnderWay(o)' <=> UnderWay(o)
                         /\ fetch'[o].at = fetch[o].at /\ fetch'[o].result = fetch[o].result
                         /\ fetch'[o].stores = fetch[o].stores
                         /\ fetch'[o].now # {} => fetch'[o].at = "saving"
  BY <1>6 DEF UnderWay, ResultsArePublished
<1>8. TypeOK'
  <2>1. SharedOK'
    BY DEF TypeOK, SharedOK
  <2>2. EntriesOK' /\ FetchesOK'
    BY <1>6 DEF TypeOK, EntriesOK, FetchesOK
  <2> QED BY <2>1, <2>2 DEF TypeOK
<1>9. ResultsArePublished' /\ ObjectsWereMade' /\ RegisteredOnce'
  <2>1. \A o \in Regions : /\ fetch'[o].result <= newest
                           /\ fetch'[o].now # {} => fetch'[o].at = "saving"
                           /\ fetch'[o].at = "saving" =>
                                fetch'[o].result # 0 /\ got[fetch'[o].result].by = mine[o].coord
    BY <1>7 DEF ResultsArePublished
  <2>2. ResultsArePublished'
    BY <2>1 DEF ResultsArePublished
  <2> QED BY <2>2 DEF ObjectsWereMade, RegisteredOnce
<1>10. TasksAreOfEntries' /\ ClaimsAreHeld' /\ SingleDownload'
  <2>1. TasksAreOfEntries'
    BY <1>7 DEF TasksAreOfEntries
  <2>2. ClaimsAreHeld'
    BY <1>7 DEF ClaimsAreHeld
  <2>3. \A o \in Regions : fetch'[o].at = fetch[o].at
    BY <1>7
  <2>4. SingleDownload'
    BY <2>3 DEF SingleDownload
  <2> QED BY <2>1, <2>2, <2>4
<1>12. TurnsAreServed'
  <2> SUFFICES ASSUME NEW o \in Regions, UnderWay(o), mine[o].coord = hass.coord
               PROVE  /\ fetch[o].stores = hass.stores
                      /\ fetch[o].at = "saving" =>
                           /\ coord[hass.coord].last = fetch[o].result
                           /\ Usable(fetch[o].result)' =>
                                \A t \in stores[hass.stores] \ fetch'[o].todo :
                                  Reached(t, fetch[o].result)'
    BY <1>7 DEF TurnsAreServed
  <2>1. fetch[o].stores = hass.stores /\ stores[hass.stores] \subseteq Regions
    BY TypesOfParts DEF TurnsAreServed
  <2>2. mine[r].coord = hass.coord => o = r
    BY <1>1 DEF SingleDownload, UnderWay
  <2>4. Usable(fetch[o].result)' <=> Usable(fetch[o].result)
    BY <1>7 DEF Usable
  <2>3. ASSUME fetch[o].at = "saving", Usable(fetch[o].result),
               NEW t \in stores[hass.stores] \ fetch'[o].todo
        PROVE  Reached(t, fetch[o].result)'
    <3>1. CASE o = r /\ t \in fetch[r].todo
      <4>1. latest'[t] = fetch[r].result
        BY <1>6, <2>1, <2>3, <3>1
      <4> QED BY <1>3, <1>7, <3>1, <4>1 DEF Reached
    <3>2. CASE ~(o = r /\ t \in fetch[r].todo)
      <4>1. t \notin fetch[o].todo
        BY <1>6, <2>3, <3>2
      <4>2. Reached(t, fetch[o].result) /\ t \in Regions
        BY <2>1, <2>3, <4>1 DEF TurnsAreServed
      <4>3. fetch'[o].result = fetch[o].result
        BY <1>7
      <4> QED BY <1>3, <2>2, <4>2, <4>3 DEF Reached
    <3> QED BY <3>1, <3>2
  <2> QED BY <2>1, <2>3, <2>4 DEF TurnsAreServed
<1>13. FreshReachesEveryStore'
  <2> SUFFICES ASSUME hass.coord # 0, hass.stores # 0, coord[hass.coord].outcome = "fresh",
                      ~coord[hass.coord].inFlight, Usable(coord[hass.coord].last),
                      NEW t \in stores[hass.stores]
               PROVE  Reached(t, coord[hass.coord].last)'
    BY DEF FreshReachesEveryStore, Usable, Reached
  <2>1. t \in Regions
    BY TypesOfParts DEF TypeOK, SharedOK, Ids, SRAssumption
  <2>2. hass.coord # mine[r].coord
    BY <1>1 DEF ClaimsAreHeld
  <2>3. Reached(t, coord[hass.coord].last)
    BY DEF FreshReachesEveryStore
  <2> QED BY <1>3, <2>1, <2>2, <2>3 DEF Reached
<1> QED BY <1>8, <1>9, <1>10, <1>12, <1>13

\* Set-up begins: whoever makes the shared object is the only one to hold it,
\* and a region that sets up is registered nowhere.
LEMMA StartKeepsInv ==
  ASSUME SRAssumption, IInv, NEW r \in Regions, SetupStart(r)
  PROVE  IInv'
<1> USE DEF IInv
<1> DEFINE c == IF hass.coord # 0 THEN hass.coord ELSE made.coord + 1
<1>1. /\ entry[r] = "off" /\ entry' = [entry EXCEPT ![r] = "loading"]
      /\ hass.coord # 0 \/ made.coord < MaxShared
      /\ hass' = [hass EXCEPT !.coord = c]
      /\ made' = [made EXCEPT !.coord = IF hass.coord # 0 THEN @ ELSE c]
      /\ mine' = [mine EXCEPT ![r].coord = c]
      /\ UNCHANGED <<coord, stores, latest, disk, writing, forced, fetch, refit, joined, newest, got, stage>>
  BY DEF SetupStart, storeVars, taskVars, results
<1>2. /\ hass \in [coord : Ids, stores : Ids, client : BOOLEAN] /\ made \in [coord : Ids, stores : Ids]
      /\ hass.coord <= made.coord /\ hass.stores <= made.stores /\ MaxShared \in Nat
      /\ entry \in [Regions -> SettingUp \cup {"off", "loaded"}]
      /\ mine \in [Regions -> [coord : Ids, stores : Ids]]
  BY DEF TypeOK, SharedOK, EntriesOK, SRAssumption
<1>3. hass.coord \in 0..MaxShared /\ made.coord \in 0..MaxShared
  BY <1>2 DEF Ids
<1>4. c \in 1..MaxShared /\ c \in Ids
  BY <1>1, <1>2, <1>3 DEF Ids
<1>5. /\ hass' \in [coord : Ids, stores : Ids, client : BOOLEAN]
      /\ hass'.coord = c /\ hass'.stores = hass.stores
  BY <1>1, <1>2, <1>4
<1>6. /\ made' \in [coord : Ids, stores : Ids] /\ made'.stores = made.stores
      /\ made'.coord = IF hass.coord # 0 THEN made.coord ELSE c
  BY <1>1, <1>2, <1>4
<1>7. /\ mine' \in [Regions -> [coord : Ids, stores : Ids]]
      /\ mine'[r].coord = c /\ mine'[r].stores = mine[r].stores
      /\ \A o \in Regions \ {r} : mine'[o] = mine[o]
  <2>1. /\ mine'[r] = [mine[r] EXCEPT !.coord = c]
        /\ \A o \in Regions \ {r} : mine'[o] = mine[o]
        /\ DOMAIN mine' = Regions /\ mine' = [o \in Regions |-> mine'[o]]
    BY <1>1, <1>2
  <2>2. mine[r] \in [coord : Ids, stores : Ids]
    BY <1>2
  <2>3. mine'[r] \in [coord : Ids, stores : Ids] /\ mine'[r].coord = c /\ mine'[r].stores = mine[r].stores
    BY <1>4, <2>1, <2>2
  <2>4. mine' \in [Regions -> [coord : Ids, stores : Ids]]
    BY <1>2, <2>1, <2>3
  <2> QED BY <2>1, <2>3, <2>4
<1>8. entry' \in [Regions -> SettingUp \cup {"off", "loaded"}]
  BY <1>1, <1>2 DEF SettingUp
<1>9. TypeOK'
  <2>1. SharedOK'
    <3>1. hass'.coord <= made'.coord
      BY <1>2, <1>3, <1>4, <1>5, <1>6
    <3> QED BY <1>1, <1>2, <1>5, <1>6, <3>1 DEF TypeOK, SharedOK
  <2>2. EntriesOK'
    <3>1. mine[r].stores = 0 /\ c # 0
      BY <1>1, <1>4 DEF TypeOK, EntriesOK
    <3> QED BY <1>1, <1>7, <1>8, <3>1 DEF TypeOK, EntriesOK
  <2>3. StoresOK'
    BY <1>1 DEF TypeOK, StoresOK
  <2>4. FetchesOK'
    BY <1>1 DEF TypeOK, FetchesOK
  <2> QED BY <2>1, <2>2, <2>3, <2>4 DEF TypeOK
<1>10. ~UnderWay(r) /\ ~forced[r] /\ refit[r] = "none"
  BY <1>1 DEF TasksAreOfEntries
<1>11. ResultsArePublished' /\ TasksAreOfEntries'
  BY <1>1, <1>7, <1>10 DEF ResultsArePublished, TasksAreOfEntries, UnderWay
<1>12. ObjectsWereMade'
  <2>1. made.coord <= made'.coord /\ c <= made'.coord /\ made'.coord \in Nat
    BY <1>2, <1>3, <1>4, <1>6
  <2>2. \A o \in Regions : mine[o].coord \in Nat
    BY <1>2 DEF Ids
  <2>3. \A o \in Regions : mine'[o].coord <= made'.coord
    BY <1>3, <1>7, <2>1, <2>2 DEF ObjectsWereMade
  <2>4. \A o \in Regions : mine'[o].stores <= made'.stores
    BY <1>6, <1>7 DEF ObjectsWereMade
  <2>5. \A d \in 1..MaxShared : d > made'.coord => d > made.coord
    BY <1>2, <1>3, <2>1
  <2>6. \A d \in 1..MaxShared : d > made'.coord => coord'[d].outcome = "none"
    BY <1>1, <2>5 DEF ObjectsWereMade
  <2> QED BY <2>3, <2>4, <2>6 DEF ObjectsWereMade
<1>13. ClaimsAreHeld' /\ SingleDownload'
  <2>1. SingleDownload'
    BY <1>1, <1>7, <1>10 DEF SingleDownload, UnderWay
  <2> QED BY <1>1, <1>7, <1>10, <2>1 DEF ClaimsAreHeld, UnderWay
<1>14. RegisteredOnce'
  <2>1. \A o \in Regions : mine'[o].stores = mine[o].stores
    BY <1>7
  <2> QED BY <1>1, <2>1, TypesOfParts DEF RegisteredOnce
<1>15. \A k \in 1..MaxShared : r \notin stores[k] /\ stores[k] \subseteq Regions
  <2>1. mine[r].stores = 0
    BY <1>1 DEF TypeOK, EntriesOK
  <2> QED BY <2>1, TypesOfParts DEF RegisteredOnce
<1>16. CASE hass.coord # 0
  <2>1. c = hass.coord
    BY <1>16
  <2>3. TurnsAreServed'
    <3> SUFFICES ASSUME NEW o \in Regions, UnderWay(o), mine[o].coord = hass.coord
                 PROVE  /\ fetch[o].stores = hass.stores
                        /\ fetch[o].at = "saving" =>
                             /\ coord[hass.coord].last = fetch[o].result
                             /\ Usable(fetch[o].result)' =>
                                  \A s \in stores[hass.stores] \ fetch[o].todo :
                                    Reached(s, fetch[o].result)'
      BY <1>1, <1>5, <1>7, <1>10, <2>1 DEF TurnsAreServed, UnderWay
    <3>2. Usable(fetch[o].result)' <=> Usable(fetch[o].result)
      BY <1>1 DEF Usable
    <3>3. \A s \in Regions \ {r} : Reached(s, fetch[o].result) => Reached(s, fetch[o].result)'
      BY <1>1, <1>5, <1>7, <2>1 DEF Reached
    <3>1. fetch[o].stores = hass.stores /\ hass.stores \in 1..MaxShared
      BY TypesOfParts DEF TurnsAreServed
    <3> QED BY <1>15, <3>1, <3>2, <3>3 DEF TurnsAreServed
  <2>4. FreshReachesEveryStore'
    <3>1. hass.stores # 0 => hass.stores \in 1..MaxShared
      BY <1>2 DEF Ids
    <3> QED BY <1>1, <1>5, <1>7, <1>15, <2>1, <3>1 DEF FreshReachesEveryStore, Usable, Reached
  <2> QED BY <1>9, <1>11, <1>12, <1>13, <1>14, <2>3, <2>4
<1>17. CASE hass.coord = 0
  <2>1. c = made.coord + 1 /\ c > made.coord
    BY <1>3, <1>17
  <2>2. \A o \in Regions : UnderWay(o)' => mine'[o].coord # c
    <3>1. \A o \in Regions : mine[o].coord \in Nat
      BY <1>2 DEF Ids
    <3>2. \A o \in Regions : mine[o].coord # c
      BY <1>3, <2>1, <3>1 DEF ObjectsWereMade
    <3> QED BY <1>1, <1>7, <1>10, <3>2 DEF UnderWay
  <2>3. TurnsAreServed'
    BY <1>5, <2>2 DEF TurnsAreServed
  <2>4. FreshReachesEveryStore'
    <3>1. coord[c].outcome = "none"
      BY <1>4, <2>1 DEF ObjectsWereMade
    <3> QED BY <1>1, <1>5, <3>1 DEF FreshReachesEveryStore
  <2> QED BY <1>9, <1>11, <1>12, <1>13, <1>14, <2>3, <2>4
<1> QED BY <1>16, <1>17

\* A region registers with something to serve, if its object's last result is
\* of use; the stores it makes hold nobody else.
LEMMA RegisterKeepsInv ==
  ASSUME SRAssumption, IInv, NEW r \in Regions, entry[r] = "loading",
         NEW loaded \in 0..newest, Register(r, loaded),
         coord' \in [1..MaxShared -> Coords],
         \A c \in 1..MaxShared : /\ coord'[c].inFlight = coord[c].inFlight
                                 /\ coord'[c].outcome = coord[c].outcome
                                 /\ coord'[c].last = coord[c].last
  PROVE  IInv'
<1> USE DEF IInv
<1> DEFINE n == IF hass.stores # 0 THEN hass.stores ELSE made.stores + 1
           last == coord[mine[r].coord].last
           held == IF Seeds(r, loaded) THEN last ELSE loaded
<1>1. /\ entry' = [entry EXCEPT ![r] = IF Seeds(r, loaded) THEN "seeding" ELSE "seeded"]
      /\ hass.stores # 0 \/ made.stores < MaxShared
      /\ hass' = [hass EXCEPT !.stores = n]
      /\ made' = [made EXCEPT !.stores = IF hass.stores # 0 THEN @ ELSE n]
      /\ mine' = [mine EXCEPT ![r].stores = n]
      /\ stores' = [stores EXCEPT ![n] = @ \cup {r}]
      /\ latest' = [latest EXCEPT ![r] = held]
      /\ writing' = [writing EXCEPT ![r] = IF Seeds(r, loaded) THEN @ \cup {last} ELSE @]
      /\ joined' = [joined EXCEPT ![r] = newest]
      /\ UNCHANGED <<disk, forced, fetch, refit, newest, got, stage>>
  BY DEF Register, taskVars, results, MyCoord
<1>2. /\ hass \in [coord : Ids, stores : Ids, client : BOOLEAN] /\ made \in [coord : Ids, stores : Ids]
      /\ hass.coord <= made.coord /\ hass.stores <= made.stores /\ MaxShared \in Nat
      /\ entry \in [Regions -> SettingUp \cup {"off", "loaded"}]
      /\ mine \in [Regions -> [coord : Ids, stores : Ids]]
      /\ stores \in [1..MaxShared -> SUBSET Regions]
  BY DEF TypeOK, SharedOK, EntriesOK, SRAssumption
<1>3. hass.stores \in 0..MaxShared /\ made.stores \in 0..MaxShared /\ hass.coord \in 0..MaxShared
  BY <1>2 DEF Ids
<1>4. n \in 1..MaxShared /\ n \in Ids
  BY <1>1, <1>2, <1>3 DEF Ids
<1>5. /\ hass' \in [coord : Ids, stores : Ids, client : BOOLEAN]
      /\ hass'.stores = n /\ hass'.coord = hass.coord
  BY <1>1, <1>2, <1>4
<1>6. /\ made' \in [coord : Ids, stores : Ids] /\ made'.coord = made.coord
      /\ made'.stores = IF hass.stores # 0 THEN made.stores ELSE n
  BY <1>1, <1>2, <1>4
<1>7. /\ mine' \in [Regions -> [coord : Ids, stores : Ids]]
      /\ mine'[r].stores = n /\ mine'[r].coord = mine[r].coord
      /\ \A o \in Regions \ {r} : mine'[o] = mine[o]
  <2>1. /\ mine'[r] = [mine[r] EXCEPT !.stores = n]
        /\ \A o \in Regions \ {r} : mine'[o] = mine[o]
        /\ DOMAIN mine' = Regions /\ mine' = [o \in Regions |-> mine'[o]]
    BY <1>1, <1>2
  <2>2. mine[r] \in [coord : Ids, stores : Ids]
    BY <1>2
  <2>3. mine'[r] \in [coord : Ids, stores : Ids] /\ mine'[r].stores = n /\ mine'[r].coord = mine[r].coord
    BY <1>4, <2>1, <2>2
  <2>4. mine' \in [Regions -> [coord : Ids, stores : Ids]]
    BY <1>2, <2>1, <2>3
  <2> QED BY <2>1, <2>3, <2>4
<1>8. \A o \in Regions : mine'[o].coord = mine[o].coord
  BY <1>7
<1>9. mine[r].stores = 0 /\ mine[r].coord \in 1..MaxShared /\ last \in 0..newest
  <2>1. mine[r].stores = 0 /\ mine[r].coord \in 1..MaxShared
    BY TypesOfParts DEF TypeOK, EntriesOK
  <2>2. last \in Results /\ last <= newest /\ newest \in Nat
    BY <2>1, TypesOfParts DEF ResultsArePublished, TypeOK, StoresOK
  <2> QED BY <2>1, <2>2 DEF Results
<1>10. /\ stores' \in [1..MaxShared -> SUBSET Regions]
       /\ stores'[n] = stores[n] \cup {r} /\ \A k \in 1..MaxShared \ {n} : stores'[k] = stores[k]
  BY <1>1, <1>2, <1>4
<1>11. hass.stores = 0 => stores[n] = {}
  <2> SUFFICES ASSUME hass.stores = 0, NEW o \in stores[n] PROVE FALSE
    OBVIOUS
  <2>1. o \in Regions /\ mine[o].stores = n
    BY <1>2, <1>4 DEF RegisteredOnce
  <2>2. n \in Nat /\ made.stores \in Nat /\ n > made.stores
    BY <1>3
  <2>3. mine[o].stores <= made.stores
    BY <2>1 DEF ObjectsWereMade
  <2> QED BY <2>1, <2>2, <2>3
<1>12. /\ latest'[r] = held /\ \A o \in Regions \ {r} : latest'[o] = latest[o]
       /\ latest' \in [Regions -> 0..newest]
       /\ joined'[r] = newest /\ \A o \in Regions \ {r} : joined'[o] = joined[o]
       /\ joined' \in [Regions -> 0..newest]
  <2>1. newest \in 0..newest
    BY TypesOfParts
  <2> QED BY <1>1, <1>9, <2>1 DEF TypeOK, StoresOK
<1>22. writing' \in [Regions -> SUBSET (1..newest)]
  <2>1. Seeds(r, loaded) => last \in 1..newest
    BY <1>9, TypesOfParts DEF Seeds, Offers, Usable, MyCoord
  <2> QED BY <1>1, <2>1 DEF TypeOK, StoresOK
<1>13. Usable(last) /\ r \in got[last].holds => latest'[r] # 0
  BY <1>12 DEF Seeds, Offers, MyCoord, Usable
<1>14. TypeOK'
  <2>1. SharedOK'
    <3>1. hass'.stores <= made'.stores
      BY <1>2, <1>3, <1>4, <1>5, <1>6
    <3> QED BY <1>2, <1>5, <1>6, <1>10, <3>1 DEF SharedOK
  <2>2. EntriesOK'
    <3>1. /\ entry' \in [Regions -> SettingUp \cup {"off", "loaded"}]
          /\ entry'[r] \in {"seeding", "seeded"}
      BY <1>1, <1>2 DEF SettingUp
    <3>2. n # 0 /\ mine[r].coord # 0
      BY <1>4, <1>9
    <3> QED BY <1>1, <1>7, <3>1, <3>2 DEF TypeOK, EntriesOK
  <2>3. StoresOK'
    BY <1>1, <1>12, <1>22 DEF TypeOK, StoresOK
  <2>4. FetchesOK'
    BY <1>1 DEF TypeOK, FetchesOK
  <2> QED BY <2>1, <2>2, <2>3, <2>4 DEF TypeOK
<1>15. ResultsArePublished' /\ TasksAreOfEntries'
  <2>1. ResultsArePublished'
    BY <1>1, <1>8 DEF ResultsArePublished
  <2>2. ~UnderWay(r) /\ ~forced[r] /\ refit[r] = "none"
    BY DEF TasksAreOfEntries
  <2> QED BY <1>1, <2>1, <2>2 DEF TasksAreOfEntries, UnderWay
<1>16. ObjectsWereMade'
  <2>1. made.stores <= made'.stores /\ n <= made'.stores /\ made'.stores \in Nat
    BY <1>2, <1>3, <1>4, <1>6
  <2>2. \A o \in Regions : mine[o].stores \in Nat
    BY <1>2 DEF Ids
  <2>3. \A o \in Regions : mine'[o].stores <= made'.stores
    BY <1>3, <1>7, <2>1, <2>2 DEF ObjectsWereMade
  <2>4. \A o \in Regions : mine'[o].coord <= made'.coord
    BY <1>6, <1>8 DEF ObjectsWereMade
  <2> QED BY <1>6, <2>3, <2>4 DEF ObjectsWereMade
<1>17. ClaimsAreHeld' /\ SingleDownload'
  <2>1. SingleDownload'
    BY <1>1, <1>8 DEF SingleDownload
  <2>2. ClaimsAreHeld'
    BY <1>1, <1>8, TypesOfParts DEF ClaimsAreHeld, UnderWay
  <2> QED BY <2>1, <2>2
<1>18. RegisteredOnce'
  <2>1. \A k \in 1..MaxShared : r \notin stores[k]
    BY <1>9 DEF RegisteredOnce
  <2>2. \A k \in 1..MaxShared : \A o \in stores[k] : o \in Regions \ {r} /\ mine'[o] = mine[o]
    BY <1>2, <1>7, <2>1
  <2> QED BY <1>4, <1>7, <1>10, <2>2 DEF RegisteredOnce
<1>19. \A o \in Regions \ {r} : \A m : Reached(o, m) => Reached(o, m)'
  BY <1>1, <1>5, <1>8, <1>12 DEF Reached
<1>23. ASSUME mine[r].coord = hass.coord => Usable(last)
       PROVE  Reached(r, coord[hass.coord].last)'
  <2>1. ASSUME mine[r].coord = hass.coord, r \in got[last].holds
        PROVE  latest'[r] # 0 /\ ~(joined'[r] < last)
    BY <1>9, <1>12, <1>13, <1>23, <2>1, TypesOfParts
  <2> SUFFICES ASSUME mine'[r].coord = hass'.coord, r \in got'[coord'[hass.coord].last].holds
               PROVE  latest'[r] # 0 /\ ~(joined'[r] < coord'[hass.coord].last)
    BY <1>5 DEF Reached
  <2>2. mine[r].coord = hass.coord /\ coord'[hass.coord].last = last
    BY <1>5, <1>8, <1>9
  <2> QED BY <1>1, <2>1, <2>2
<1>20. TurnsAreServed'
  <2> SUFFICES ASSUME NEW o \in Regions, UnderWay(o), mine[o].coord = hass.coord
               PROVE  /\ fetch[o].stores = n
                      /\ fetch[o].at = "saving" =>
                           /\ coord'[hass.coord].last = fetch[o].result
                           /\ Usable(fetch[o].result) =>
                                \A t \in stores'[n] \ fetch[o].todo : Reached(t, fetch[o].result)'
    BY <1>1, <1>5, <1>8 DEF TurnsAreServed, Usable, UnderWay
  <2>1. fetch[o].stores = hass.stores /\ hass.stores \in 1..MaxShared /\ hass.coord \in 1..MaxShared
    BY TypesOfParts DEF TurnsAreServed
  <2>2. n = hass.stores
    BY <2>1
  <2>3. ASSUME fetch[o].at = "saving", Usable(fetch[o].result),
               NEW t \in stores'[n] \ fetch[o].todo
        PROVE  Reached(t, fetch[o].result)'
    <3>1. CASE t = r
      <4>1. coord[hass.coord].last = fetch[o].result /\ fetch'[o] = fetch[o]
        BY <1>1, <2>3 DEF TurnsAreServed
      <4>2. mine[r].coord = hass.coord => Usable(last)
        BY <2>3, <4>1 DEF Usable
      <4>3. Reached(r, coord[hass.coord].last)'
        BY <1>23, <4>2
      <4>4. coord'[hass.coord].last = fetch'[o].result /\ hass'.coord = hass.coord
        BY <1>5, <2>1, <4>1
      <4> QED BY <3>1, <4>3, <4>4 DEF Reached
    <3>2. CASE t # r
      <4>1. t \in stores[hass.stores] \ fetch[o].todo /\ t \in Regions \ {r}
        BY <1>2, <1>10, <2>1, <2>2, <3>2
      <4>2. Reached(t, fetch[o].result)
        BY <2>3, <4>1 DEF TurnsAreServed
      <4>3. fetch'[o] = fetch[o]
        BY <1>1
      <4> QED BY <1>1, <1>5, <1>8, <1>12, <4>1, <4>2, <4>3 DEF Reached
    <3> QED BY <3>1, <3>2
  <2>4. fetch[o].at = "saving" => coord'[hass.coord].last = fetch[o].result
    BY <2>1 DEF TurnsAreServed
  <2> QED BY <2>1, <2>2, <2>3, <2>4
<1>21. FreshReachesEveryStore'
  <2> SUFFICES ASSUME hass.coord # 0, coord'[hass.coord].outcome = "fresh",
                      ~coord'[hass.coord].inFlight, Usable(coord[hass.coord].last)',
                      NEW t \in stores'[n]
               PROVE  Reached(t, coord[hass.coord].last)'
    BY <1>5 DEF FreshReachesEveryStore, Usable, Reached
  <2>1. hass.coord \in 1..MaxShared
    BY <1>3
  <2>2. coord[hass.coord].outcome = "fresh" /\ ~coord[hass.coord].inFlight /\ Usable(coord[hass.coord].last)
    BY <1>1, <2>1 DEF Usable
  <2>3. CASE t = r
    BY <1>23, <2>2, <2>3
  <2>4. CASE t # r
    <3>1. t \in stores[n] /\ t \in Regions \ {r}
      BY <1>2, <1>4, <1>10, <2>4
    <3>2. hass.stores # 0 /\ n = hass.stores
      BY <1>11, <3>1
    <3>3. Reached(t, coord[hass.coord].last)
      BY <2>2, <3>1, <3>2 DEF FreshReachesEveryStore
    <3>4. coord'[hass.coord].last = coord[hass.coord].last /\ hass'.coord = hass.coord
      BY <1>5, <2>1
    <3> QED BY <1>1, <1>8, <1>12, <3>1, <3>3, <3>4 DEF Reached
  <2> QED BY <2>3, <2>4
<1> QED BY <1>14, <1>15, <1>16, <1>17, <1>18, <1>20, <1>21

\* An entry goes with its store and its tasks, and the last one with what was
\* shared; nobody is left who could reach either.
LEMMA TearDownKeepsInv ==
  ASSUME SRAssumption, IInv, NEW r \in Regions, entry[r] \in {"refreshing", "loaded"}, TearDown(r),
         hass' = hass \/ hass' = [coord |-> 0, stores |-> 0, client |-> FALSE]
  PROVE  IInv'
<1> USE DEF IInv
<1> DEFINE k == mine[r].stores
<1>1. /\ entry' = [entry EXCEPT ![r] = "off"] /\ latest' = [latest EXCEPT ![r] = 0]
      /\ joined' = [joined EXCEPT ![r] = 0] /\ forced' = [forced EXCEPT ![r] = FALSE]
      /\ fetch' = [fetch EXCEPT ![r] = NoFetch] /\ refit' = [refit EXCEPT ![r] = "none"]
      /\ mine' = [mine EXCEPT ![r] = [coord |-> 0, stores |-> 0]]
      /\ stores' = [stores EXCEPT ![k] = @ \ {r}]
      /\ UNCHANGED <<made, coord, disk, writing, newest, got, stage>>
  BY DEF TearDown, CancelTasks, results
<1>2. /\ hass \in [coord : Ids, stores : Ids, client : BOOLEAN]
      /\ made \in [coord : Ids, stores : Ids] /\ 0 \in Ids /\ 0 \in Results
      /\ mine \in [Regions -> [coord : Ids, stores : Ids]]
      /\ stores \in [1..MaxShared -> SUBSET Regions] /\ k \in 1..MaxShared
      /\ newest \in Nat
  <2>1. 0 \in Ids /\ 0 \in Results
    BY DEF SRAssumption, Ids, Results
  <2>3. newest \in Nat
    BY DEF TypeOK, StoresOK
  <2>2. newest \in Nat /\ k \in 1..MaxShared
    BY <2>3, TypesOfParts
  <2> QED BY <2>1, <2>2 DEF TypeOK, SharedOK, EntriesOK
<1>3. /\ mine' \in [Regions -> [coord : Ids, stores : Ids]]
      /\ mine'[r].coord = 0 /\ mine'[r].stores = 0
      /\ \A o \in Regions \ {r} : mine'[o] = mine[o]
  BY <1>1, <1>2
<1>4. /\ stores' \in [1..MaxShared -> SUBSET Regions]
      /\ \A j \in 1..MaxShared : stores'[j] \subseteq stores[j] \ {r}
  <2>1. stores' \in [1..MaxShared -> SUBSET Regions]
    BY <1>1, <1>2
  <2>2. ASSUME NEW j \in 1..MaxShared PROVE stores'[j] \subseteq stores[j] \ {r}
    <3>1. CASE j = k
      BY <1>1, <1>2, <3>1
    <3>2. CASE j # k
      BY <1>1, <1>2, <3>2 DEF RegisteredOnce
    <3> QED BY <3>1, <3>2
  <2> QED BY <2>1, <2>2
<1>5. /\ fetch' \in [Regions -> Fetches] /\ fetch'[r] = NoFetch
      /\ \A o \in Regions \ {r} : fetch'[o] = fetch[o]
  <2>1. NoFetch \in Fetches
    BY <1>2 DEF NoFetch, Fetches
  <2> QED BY <1>1, <2>1 DEF TypeOK, FetchesOK
<1>6. fetch'[r].at = "none" /\ fetch'[r].result = 0
  BY <1>5 DEF NoFetch
<1>7. \A o \in Regions : UnderWay(o)' => o # r /\ UnderWay(o) /\ fetch'[o] = fetch[o] /\ mine'[o] = mine[o]
  BY <1>3, <1>5, <1>6 DEF UnderWay
<1>8. TypeOK'
  <2>1. SharedOK'
    <3>1. made.coord \in Nat /\ made.stores \in Nat
      BY <1>2 DEF Ids
    <3>2. /\ hass' \in [coord : Ids, stores : Ids, client : BOOLEAN]
          /\ hass'.coord <= made.coord /\ hass'.stores <= made.stores
      <4>1. CASE hass' = hass
        BY <1>2, <4>1 DEF TypeOK, SharedOK
      <4>2. CASE hass' = [coord |-> 0, stores |-> 0, client |-> FALSE]
        BY <1>2, <3>1, <4>2
      <4> QED BY <4>1, <4>2
    <3> QED BY <1>1, <1>4, <3>2 DEF TypeOK, SharedOK
  <2>2. EntriesOK'
    BY <1>1, <1>3 DEF TypeOK, EntriesOK
  <2>3. StoresOK'
    BY <1>1, <1>2 DEF TypeOK, StoresOK
  <2>4. FetchesOK'
    BY <1>1, <1>5 DEF TypeOK, FetchesOK
  <2> QED BY <2>1, <2>2, <2>3, <2>4 DEF TypeOK
<1>9. ResultsArePublished'
  <2>1. fetch'[r].now = {}
    BY <1>5 DEF NoFetch
  <2>2. \A c \in 1..MaxShared : coord'[c].last <= newest'
    BY <1>1 DEF ResultsArePublished
  <2>3. \A o \in Regions : fetch'[o].result <= newest'
    BY <1>1, <1>2, <1>5, <1>6 DEF ResultsArePublished
  <2> QED BY <1>1, <1>3, <1>5, <1>6, <2>1, <2>2, <2>3 DEF ResultsArePublished
<1>10. ObjectsWereMade'
  <2>1. made.coord \in Nat /\ made.stores \in Nat
    BY <1>2 DEF Ids
  <2>2. mine'[r].coord <= made'.coord /\ mine'[r].stores <= made'.stores
    BY <1>1, <1>3, <2>1
  <2>3. \A o \in Regions \ {r} : mine'[o].coord <= made'.coord /\ mine'[o].stores <= made'.stores
    BY <1>1, <1>3 DEF ObjectsWereMade
  <2>4. \A c \in 1..MaxShared : c > made'.coord => coord'[c].outcome = "none"
    BY <1>1 DEF ObjectsWereMade
  <2> QED BY <2>2, <2>3, <2>4 DEF ObjectsWereMade
<1>11. TasksAreOfEntries'
  BY <1>1, <1>7 DEF TasksAreOfEntries, TypeOK, EntriesOK, FetchesOK
<1>12. ClaimsAreHeld' /\ SingleDownload'
  <2>1. SingleDownload'
    BY <1>7 DEF SingleDownload, UnderWay
  <2> QED BY <1>1, <1>7, <2>1 DEF ClaimsAreHeld
<1>13. RegisteredOnce'
  BY <1>2, <1>3, <1>4 DEF RegisteredOnce
<1>14. \A o \in Regions \ {r} : mine'[o] = mine[o] /\ latest'[o] = latest[o] /\ joined'[o] = joined[o]
  BY <1>1, <1>3 DEF TypeOK, StoresOK
<1>15. CASE hass'.coord = 0
  <2>1. \A o \in Regions : UnderWay(o)' => mine'[o].coord # 0
    BY <1>7, TypesOfParts
  <2> QED BY <1>8, <1>9, <1>10, <1>11, <1>12, <1>13, <1>15, <2>1
          DEF TurnsAreServed, FreshReachesEveryStore
<1>16. CASE hass'.coord # 0
  <2>1. hass' = hass
    BY <1>16
  <2>2. TurnsAreServed'
    <3> SUFFICES ASSUME NEW o \in Regions, UnderWay(o)', mine'[o].coord = hass.coord
                 PROVE  /\ fetch'[o].stores = hass.stores
                        /\ fetch'[o].at = "saving" =>
                             /\ coord'[hass.coord].last = fetch'[o].result
                             /\ Usable(fetch[o].result)' =>
                                  \A t \in stores'[hass.stores] \ fetch'[o].todo :
                                    Reached(t, fetch[o].result)'
      BY <2>1 DEF TurnsAreServed, Usable, Reached
    <3>1. UnderWay(o) /\ fetch'[o] = fetch[o] /\ mine[o].coord = hass.coord
      BY <1>7
    <3>2. fetch[o].stores = hass.stores /\ hass.stores \in 1..MaxShared
      BY <3>1, TypesOfParts DEF TurnsAreServed
    <3>3. \A t \in stores'[hass.stores] : t \in stores[hass.stores] /\ t \in Regions \ {r}
      BY <1>2, <1>4, <3>2
    <3>4. \A t \in Regions \ {r} : Reached(t, fetch[o].result) => Reached(t, fetch[o].result)'
      BY <1>1, <1>14, <2>1, <3>1 DEF Reached
    <3>5. Usable(fetch[o].result)' <=> Usable(fetch[o].result)
      BY <1>1, <3>1 DEF Usable
    <3> QED BY <1>1, <3>1, <3>2, <3>3, <3>4, <3>5 DEF TurnsAreServed
  <2>3. FreshReachesEveryStore'
    <3>1. hass.stores # 0 =>
            \A t \in stores'[hass.stores] : t \in stores[hass.stores] /\ t \in Regions \ {r}
      BY <1>2, <1>4 DEF Ids
    <3> QED BY <1>1, <1>14, <2>1, <3>1 DEF FreshReachesEveryStore, Usable, Reached
  <2> QED BY <1>8, <1>9, <1>10, <1>11, <1>12, <1>13, <2>2, <2>3
<1> QED BY <1>15, <1>16

-----------------------------------------------------------------------------
\* The remaining steps of a region, each by the lemma of its kind.
LEMMA SetupKeepsInv ==
  ASSUME SRAssumption, IInv, NEW r \in Regions, Setup(r) \/ Unload(r)
  PROVE  IInv'
<1>1. CASE SetupStart(r)
  BY <1>1, StartKeepsInv
<1>2. CASE StoreLoaded(r)
  <2> DEFINE n == disk[r]
             c == mine[r].coord
             asked == coord[c].requested \/ ~Usable(n) \/ stage[n] = 1
  <2>1. /\ entry[r] = "loading"
        /\ coord' = [coord EXCEPT ![c].requested = @ \/ ~Usable(n) \/ stage[n] = 1]
        /\ Register(r, IF Usable(n) THEN n ELSE 0)
    BY <1>2 DEF StoreLoaded
  <2>2. /\ coord \in [1..MaxShared -> Coords] /\ c \in 1..MaxShared
        /\ n \in 0..newest /\ newest \in Nat
    BY <2>1, TypesOfParts DEF IInv, TypeOK, SharedOK, StoresOK, SRAssumption
  <2>3. /\ coord' \in [1..MaxShared -> Coords]
        /\ \A d \in 1..MaxShared : /\ coord'[d].inFlight = coord[d].inFlight
                                   /\ coord'[d].outcome = coord[d].outcome
                                   /\ coord'[d].last = coord[d].last
    <3>1. /\ coord'[c] = [coord[c] EXCEPT !.requested = asked]
          /\ \A d \in 1..MaxShared \ {c} : coord'[d] = coord[d]
          /\ DOMAIN coord' = 1..MaxShared /\ coord' = [d \in 1..MaxShared |-> coord'[d]]
      BY <2>1, <2>2
    <3>2. coord[c] \in Coords /\ asked \in BOOLEAN
      BY <2>2
    <3> HIDE DEF asked
    <3>3. /\ coord'[c] \in Coords /\ coord'[c].inFlight = coord[c].inFlight
          /\ coord'[c].outcome = coord[c].outcome /\ coord'[c].last = coord[c].last
      BY <3>1, <3>2 DEF Coords
    <3>4. coord' \in [1..MaxShared -> Coords]
      BY <2>2, <3>1, <3>3
    <3> QED BY <3>1, <3>3, <3>4
  <2>5. (IF Usable(n) THEN n ELSE 0) \in 0..newest
    BY <2>2
  <2> QED BY <2>1, <2>3, <2>5, RegisterKeepsInv
<1>3. CASE StoreLoadRaised(r)
  <2>1. entry[r] = "loading" /\ UNCHANGED coord /\ Register(r, 0)
    BY <1>3 DEF StoreLoadRaised
  <2>2. coord' \in [1..MaxShared -> Coords] /\ 0 \in 0..newest
    BY <2>1 DEF IInv, TypeOK, SharedOK, StoresOK
  <2> QED BY <2>1, <2>2, RegisterKeepsInv
<1>4. CASE SeedSaved(r) \/ ShareClient(r) \/ StartTriggers(r) \/ FinishSetup(r)
  <2>1. /\ entry[r] \in {"seeding", "seeded", "refreshing", "platforms"}
        /\ UNCHANGED <<made, coord, stores, latest, disk, writing, fetch, mine, joined, newest, got, stage>>
        /\ \E at \in {"seeded", "refreshing", "platforms", "loaded"} : entry' = [entry EXCEPT ![r] = at]
    BY <1>4 DEF SeedSaved, ShareClient, StartTriggers, FinishSetup, sharedVars, storeVars, taskVars, results
  <2>2. /\ hass' \in [coord : Ids, stores : Ids, client : BOOLEAN]
        /\ hass'.coord = hass.coord /\ hass'.stores = hass.stores
    <3>1. hass \in [coord : Ids, stores : Ids, client : BOOLEAN]
      BY DEF IInv, TypeOK, SharedOK
    <3>2. UNCHANGED hass \/ hass' = [hass EXCEPT !.client = TRUE]
      BY <1>4 DEF SeedSaved, ShareClient, StartTriggers, FinishSetup, sharedVars
    <3> QED BY <3>1, <3>2
  <2>3. EntriesOK' /\ StoresOK'
    BY <2>1 DEF IInv, TypeOK, EntriesOK, StoresOK, SettingUp
  <2>4. FetchesOK' /\ TasksAreOfEntries'
    <3>1. CASE SeedSaved(r) \/ ShareClient(r)
      BY <2>1, <3>1 DEF SeedSaved, ShareClient, taskVars, IInv, TypeOK, FetchesOK, EntriesOK, TasksAreOfEntries, UnderWay
    <3>2. CASE StartTriggers(r)
      <4>1. /\ forced' = [forced EXCEPT ![r] = Pending(MyCoord(r)) \/ ~Serves(r)]
            /\ entry' = [entry EXCEPT ![r] = "platforms"] /\ UNCHANGED refit /\ entry[r] = "refreshing"
        BY <3>2 DEF StartTriggers
      <4> QED BY <2>1, <4>1 DEF IInv, TypeOK, FetchesOK, EntriesOK, TasksAreOfEntries, UnderWay
    <3>3. CASE FinishSetup(r)
      <4>1. /\ \E v \in {"none", "waiting", "running"} : refit' = [refit EXCEPT ![r] = v]
            /\ entry' = [entry EXCEPT ![r] = "loaded"] /\ UNCHANGED forced /\ entry[r] = "platforms"
        BY <3>3 DEF FinishSetup
      <4> QED BY <2>1, <4>1 DEF IInv, TypeOK, FetchesOK, EntriesOK, TasksAreOfEntries, UnderWay
    <3> QED BY <1>4, <3>1, <3>2, <3>3
  <2> QED BY <2>1, <2>2, <2>3, <2>4, QuietKeepsInv
<1>5. CASE SetupFails(r) \/ Unload(r)
  BY <1>5, TearDownKeepsInv DEF SetupFails, Unload
<1> QED BY <1>1, <1>2, <1>3, <1>4, <1>5 DEF Setup

LEMMA TasksKeepInv ==
  ASSUME SRAssumption, IInv, NEW r \in Regions,
         Update(r) \/ ForcedFetch(r) \/ Fetching(r) \/ Refitting(r)
  PROVE  IInv'
<1> USE DEF IInv
<1>1. CASE Update(r) \/ ForcedFetch(r) \/ RefitDone(r)
  <2>1. /\ Fetch(r)
        /\ UNCHANGED <<hass, made, stores, latest, disk, writing, entry, mine, joined, newest, got, stage>>
    BY <1>1 DEF Update, ForcedFetch, RefitDone, storeVars, results
  <2>2. entry[r] \in {"platforms", "loaded"}
    BY <1>1 DEF Update, ForcedFetch, RefitDone, TasksAreOfEntries
  <2>3. /\ forced' \in [Regions -> BOOLEAN]
        /\ refit' \in [Regions -> {"none", "waiting", "running"}]
        /\ \A o \in Regions : (forced'[o] => forced[o]) /\ (refit'[o] # "none" => refit[o] # "none")
    BY <1>1 DEF Update, ForcedFetch, RefitDone, TypeOK, FetchesOK
  <2> QED BY <2>1, <2>2, <2>3, ClaimKeepsInv
<1>2. CASE GateOpens(r) \/ GateTimesOut(r)
  <2>1. /\ refit[r] = "waiting" /\ refit' = [refit EXCEPT ![r] = "running"]
        /\ UNCHANGED <<hass, made, coord, stores, latest, disk, writing, forced, fetch, entry, mine,
                       joined, newest, got, stage>>
    BY <1>2 DEF GateOpens, GateTimesOut, sharedVars, storeVars, results
  <2>2. hass' \in [coord : Ids, stores : Ids, client : BOOLEAN]
    BY <2>1 DEF TypeOK, SharedOK
  <2>3. EntriesOK' /\ StoresOK' /\ FetchesOK'
    BY <2>1 DEF TypeOK, EntriesOK, StoresOK, FetchesOK
  <2>4. TasksAreOfEntries'
    BY <2>1 DEF TypeOK, FetchesOK, TasksAreOfEntries, UnderWay
  <2> QED BY <2>1, <2>2, <2>3, <2>4, QuietKeepsInv
<1>3. CASE DownloadFails(r) \/ Distributed(r)
  <2>1. /\ UnderWay(r)
        /\ UNCHANGED <<hass, made, stores, latest, disk, writing, forced, refit, entry, mine,
                       joined, newest, got, stage>>
    BY <1>3 DEF DownloadFails, Distributed, UnderWay, storeVars, results
  <2>2. PICK outcome \in {"fresh", "failed"}, last \in {coord[mine[r].coord].last, 0} :
           /\ Mark(r, outcome, last)
           /\ outcome = "fresh" => fetch[r].at = "saving" /\ fetch[r].todo = {}
                                   /\ last = coord[mine[r].coord].last
    BY <1>3 DEF DownloadFails, Distributed, MyCoord
  <2>3. last \in Results /\ last <= newest
    <3>1. mine[r].coord \in 1..MaxShared
      BY <2>1, TypesOfParts
    <3>2. 0 \in Results /\ 0 <= newest
      BY DEF Results, TypeOK, StoresOK, SRAssumption
    <3> QED BY <2>2, <3>1, <3>2, TypesOfParts DEF ResultsArePublished
  <2> QED BY <2>1, <2>2, <2>3, MarkKeepsInv
<1>4. ASSUME NEW s \in Regions, BeginSave(r, s) PROVE IInv'
  <2> DEFINE n == fetch[r].result
  <2>1. /\ fetch[r].at = "saving" /\ s \in fetch[r].todo \cap stores[fetch[r].stores]
        /\ latest' = [latest EXCEPT ![s] = n] /\ writing' = [writing EXCEPT ![s] = @ \cup {n}]
        /\ fetch' = [fetch EXCEPT ![r].todo = @ \ {s}, ![r].now = {s}]
        /\ UNCHANGED <<hass, made, coord, stores, disk, forced, refit, entry, mine, joined, newest, got, stage>>
    BY <1>4 DEF BeginSave, sharedVars, results
  <2>2. n \in 1..newest /\ n \in 0..newest
    <3>1. n # 0 /\ n <= newest /\ n \in Nat /\ newest \in Nat
      BY <2>1, TypesOfParts DEF ResultsArePublished, Results
    <3> QED BY <3>1
  <2>3. StoresOK'
    BY <2>1, <2>2 DEF TypeOK, StoresOK
  <2>4. /\ \A o \in Regions : latest'[o] \in {latest[o], n}
        /\ latest'[s] = n
    BY <2>1 DEF TypeOK, StoresOK
  <2>5. fetch' = [fetch EXCEPT ![r].todo = fetch[r].todo \ {s}, ![r].now = {s}]
    BY <2>1 DEF TypeOK, FetchesOK
  <2> DEFINE left == fetch[r].todo \ {s}
  <2>6. /\ left \in SUBSET fetch[r].todo /\ {s} \in SUBSET Regions
        /\ \A t \in fetch[r].todo \ left : latest'[t] = n
    BY <2>4
  <2> HIDE DEF left
  <2>7. fetch' = [fetch EXCEPT ![r].todo = left, ![r].now = {s}]
    BY <2>5 DEF left
  <2> QED BY <2>1, <2>3, <2>4, <2>6, <2>7, TurnKeepsInv
<1>5. ASSUME NEW s \in Regions, PassOver(r, s) PROVE IInv'
  <2>1. /\ fetch[r].at = "saving" /\ s \notin stores[fetch[r].stores]
        /\ fetch' = [fetch EXCEPT ![r].todo = @ \ {s}]
        /\ UNCHANGED <<hass, made, coord, stores, latest, disk, writing, forced, refit, entry, mine, joined,
                       newest, got, stage>>
    BY <1>5 DEF PassOver, sharedVars, storeVars, results
  <2>2. StoresOK'
    BY <2>1 DEF TypeOK, StoresOK
  <2>3. fetch[r] \in Fetches /\ fetch \in [Regions -> Fetches]
    BY DEF TypeOK, FetchesOK
  <2>4. fetch' = [fetch EXCEPT ![r].todo = fetch[r].todo \ {s}, ![r].now = fetch[r].now]
    BY <2>1, <2>3 DEF Fetches
  <2>5. fetch[r].now \in SUBSET Regions
    BY <2>3 DEF Fetches
  <2> DEFINE left == fetch[r].todo \ {s}
             now == fetch[r].now
  <2>6. /\ left \in SUBSET fetch[r].todo
        /\ \A t \in fetch[r].todo \ left : t \notin stores[fetch[r].stores]
    BY <2>1
  <2>7. \A t \in Regions : latest'[t] \in {latest[t], fetch[r].result}
    BY <2>1
  <2> HIDE DEF left, now
  <2>8. fetch' = [fetch EXCEPT ![r].todo = left, ![r].now = now] /\ now \in SUBSET Regions
    BY <2>4, <2>5 DEF left, now
  <2> QED BY <2>1, <2>2, <2>6, <2>7, <2>8, TurnKeepsInv
<1>6. CASE SaveReturns(r)
  <2>1. /\ fetch' = [fetch EXCEPT ![r].now = {}] /\ fetch[r].now # {}
        /\ UNCHANGED <<hass, made, coord, stores, latest, disk, writing, forced, refit, entry, mine, joined,
                       newest, got, stage>>
    BY <1>6 DEF SaveReturns, Written, sharedVars, storeVars, results
  <2>2. StoresOK' /\ fetch[r].at = "saving"
    BY <2>1 DEF TypeOK, StoresOK, ResultsArePublished
  <2>3. fetch[r] \in Fetches /\ fetch \in [Regions -> Fetches]
    BY DEF TypeOK, FetchesOK
  <2>4. fetch' = [fetch EXCEPT ![r].todo = fetch[r].todo, ![r].now = {}]
    BY <2>1, <2>3 DEF Fetches
  <2> DEFINE left == fetch[r].todo
  <2>5. left \in SUBSET fetch[r].todo /\ fetch[r].todo \ left = {} /\ {} \in SUBSET Regions
    OBVIOUS
  <2>6. \A t \in Regions : latest'[t] \in {latest[t], fetch[r].result}
    BY <2>1
  <2> HIDE DEF left
  <2>7. fetch' = [fetch EXCEPT ![r].todo = left, ![r].now = {}]
    BY <2>4 DEF left
  <2> QED BY <2>1, <2>2, <2>5, <2>6, <2>7, TurnKeepsInv
<1>7. CASE SaveRaises(r)
  <2> DEFINE last == coord[mine[r].coord].last
  <2>1. /\ UnderWay(r) /\ Mark(r, "failed", last)
        /\ UNCHANGED <<hass, made, stores, latest, disk, writing, forced, refit, entry, mine, joined,
                       newest, got, stage>>
    BY <1>7 DEF SaveRaises, Written, MyCoord, ResultsArePublished, UnderWay, storeVars, results
  <2>2. last \in Results /\ last <= newest
    BY <2>1, TypesOfParts DEF ResultsArePublished
  <2> QED BY <2>1, <2>2, MarkKeepsInv
<1> QED BY <1>1, <1>2, <1>3, <1>4, <1>5, <1>6, <1>7, ReturnKeepsInv DEF Fetching, Refitting

\* A thread that ends its write, or fails to, moves only what is on disk.
LEMMA WriteKeepsInv ==
  ASSUME SRAssumption, IInv, NEW s \in Regions, NEW n \in 1..MaxResult,
         WriteEnds(s, n) \/ WriteFails(s, n)
  PROVE  IInv'
<1> USE DEF IInv
<1>1. /\ n \in writing[s] /\ writing' = [writing EXCEPT ![s] = @ \ {n}]
      /\ disk' = disk \/ disk' = [disk EXCEPT ![s] = n]
      /\ UNCHANGED <<hass, made, coord, stores, latest, forced, fetch, refit, entry, mine, joined,
                     newest, got, stage>>
  BY DEF WriteEnds, WriteFails, sharedVars, taskVars, results
<1>2. StoresOK'
  <2>1. writing \in [Regions -> SUBSET (1..newest)] /\ disk \in [Regions -> 0..newest]
    BY DEF TypeOK, StoresOK
  <2>2. n \in 0..newest
    BY <1>1, <2>1 DEF TypeOK, StoresOK
  <2>3. disk' \in [Regions -> 0..newest]
    BY <1>1, <2>1, <2>2
  <2>4. writing' \in [Regions -> SUBSET (1..newest)]
    BY <1>1, <2>1
  <2> QED BY <1>1, <2>3, <2>4 DEF TypeOK, StoresOK
<1>3. hass' \in [coord : Ids, stores : Ids, client : BOOLEAN]
  BY <1>1 DEF TypeOK, SharedOK
<1>4. EntriesOK' /\ FetchesOK' /\ TasksAreOfEntries'
  BY <1>1 DEF TypeOK, EntriesOK, FetchesOK, TasksAreOfEntries, UnderWay
<1> QED BY <1>1, <1>2, <1>3, <1>4, QuietKeepsInv

LEMMA InvHolds == ASSUME SRAssumption PROVE Spec => []IInv
<1>1. Init => IInv
  <2> SUFFICES ASSUME Init PROVE IInv
    OBVIOUS
  <2> USE DEF Init
  <2>1. 0 \in Ids /\ 0 \in Results /\ MaxShared \in Nat \ {0} /\ MaxResult \in Nat \ {0} /\ MaxStage \in 0..2
    BY DEF SRAssumption, Ids, Results
  <2>2. NewCoord \in Coords /\ NoFetch \in Fetches
    BY <2>1 DEF NewCoord, NoFetch, Coords, Fetches
  <2>3. SharedOK
    BY <2>1, <2>2 DEF SharedOK
  <2>4. EntriesOK
    BY <2>1 DEF EntriesOK, SettingUp
  <2>5. StoresOK
    <3>1. stage \in [1..MaxResult -> 0..2]
      BY <2>1
    <3>2. got \in [1..MaxResult -> [by : Ids, holds : SUBSET Regions]]
      BY <2>1
    <3> QED BY <2>1, <3>1, <3>2 DEF StoresOK
  <2>6. FetchesOK
    BY <2>2 DEF FetchesOK
  <2>7. ResultsArePublished /\ ObjectsWereMade
    BY <2>1 DEF ResultsArePublished, ObjectsWereMade, NewCoord, NoFetch
  <2>8. TasksAreOfEntries /\ ClaimsAreHeld /\ SingleDownload /\ TurnsAreServed
    BY DEF TasksAreOfEntries, ClaimsAreHeld, SingleDownload, TurnsAreServed, UnderWay, NoFetch
  <2>9. RegisteredOnce /\ FreshReachesEveryStore
    BY DEF RegisteredOnce, FreshReachesEveryStore
  <2> QED BY <2>3, <2>4, <2>5, <2>6, <2>7, <2>8, <2>9 DEF IInv, TypeOK
<1>2. IInv /\ [Next]_vars => IInv'
  <2> SUFFICES ASSUME IInv, [Next]_vars PROVE IInv'
    OBVIOUS
  <2>1. CASE UNCHANGED vars
    <3>1. UNCHANGED <<hass, made, coord, stores, latest, disk, writing, forced, fetch, refit,
                      entry, mine, joined, newest, got, stage>>
      BY <2>1 DEF vars, sharedVars, storeVars, taskVars, results
    <3>2. hass' \in [coord : Ids, stores : Ids, client : BOOLEAN]
      BY <3>1 DEF IInv, TypeOK, SharedOK
    <3>3. EntriesOK' /\ StoresOK' /\ FetchesOK'
      BY <3>1 DEF IInv, TypeOK, EntriesOK, StoresOK, FetchesOK
    <3>4. TasksAreOfEntries'
      BY <3>1 DEF IInv, TasksAreOfEntries, UnderWay
    <3> QED BY <3>1, <3>2, <3>3, <3>4, QuietKeepsInv
  <2>2. CASE (\E n \in 1..MaxResult : Age(n)) \/ (\E c \in 1..MaxShared : WindowPasses(c))
    BY <2>2, TimeKeepsInv
  <2>3. ASSUME NEW r \in Regions, Setup(r) \/ Unload(r) PROVE IInv'
    BY <2>3, SetupKeepsInv
  <2>4. ASSUME NEW r \in Regions, Update(r) \/ ForcedFetch(r) \/ Fetching(r) \/ Refitting(r) PROVE IInv'
    BY <2>4, TasksKeepInv
  <2>5. ASSUME NEW s \in Regions, NEW n \in 1..MaxResult, WriteEnds(s, n) \/ WriteFails(s, n) PROVE IInv'
    BY <2>5, WriteKeepsInv
  <2> QED BY <2>1, <2>2, <2>3, <2>4, <2>5 DEF Next
<1> QED BY <1>1, <1>2, PTL DEF Spec

-----------------------------------------------------------------------------
\* The objects, stores, entries and fetches of the STPASA refresh have their
\* types, whatever sets up, unloads, fails or ages.
THEOREM StpasaTypeCorrect == ASSUME SRAssumption PROVE Spec => []TypeOK
<1>1. IInv => TypeOK
  BY DEF IInv
<1> QED BY <1>1, InvHolds, PTL

\* claim_fetch (#37): however many regions fire in one cycle and however long a
\* download takes, two regions of one coordination object never fetch at once.
THEOREM DownloadIsSingle == ASSUME SRAssumption PROVE Spec => []SingleDownload
<1>1. IInv => SingleDownload
  BY DEF IInv
<1> QED BY <1>1, InvHolds, PTL

\* #346: once a fetch has resolved fresh, and while that download is usable, it
\* has reached every store registered with the shared objects for a region in
\* it, however stale what the store had: whoever was registered before serves
\* it, whoever came later has something to serve.
THEOREM FreshIsDelivered == ASSUME SRAssumption PROVE Spec => []FreshReachesEveryStore
<1>1. IInv => FreshReachesEveryStore
  BY DEF IInv
<1> QED BY <1>1, InvHolds, PTL

\* #106: no write of a .storage file is begun for a region whose entry is
\* unloaded, even one unloaded in the middle of a distribution or of its own
\* save; only what a thread was already writing can still land.
THEOREM UnloadedAreLeftAlone == ASSUME SRAssumption PROVE Spec => UnloadedNotSaved
<1> DEFINE Left(r) == /\ ~(writing'[r] \subseteq writing[r]) => entry[r] # "off"
                      /\ disk'[r] # disk[r] => disk'[r] \in writing[r]
<1>1. IInv /\ [Next]_vars => [\A r \in Regions : Left(r)]_vars
  <2> SUFFICES ASSUME IInv, Next, NEW o \in Regions PROVE Left(o)
    OBVIOUS
  <2> USE DEF IInv
  <2>1. /\ disk \in [Regions -> 0..newest]
        /\ writing \in [Regions -> SUBSET (1..newest)]
    BY DEF TypeOK, StoresOK
  <2>2. \/ UNCHANGED <<disk, writing>>
        \/ \E r \in Regions : StoreLoaded(r) \/ StoreLoadRaised(r)
        \/ \E r, s \in Regions : BeginSave(r, s)
        \/ \E s \in Regions, n \in 1..MaxResult : WriteEnds(s, n) \/ WriteFails(s, n)
    BY DEF Next, Age, WindowPasses, Setup, SetupStart, SeedSaved, ShareClient, StartTriggers,
           FinishSetup, SetupFails, Unload, TearDown, CancelTasks, Update, ForcedFetch, Fetching,
           DownloadFails, DownloadReturns, PassOver, SaveReturns, SaveRaises, Distributed, Refitting,
           GateOpens, GateTimesOut, RefitDone, storeVars
  <2>3. ASSUME NEW r \in Regions, StoreLoaded(r) \/ StoreLoadRaised(r) PROVE Left(o)
    <3>1. /\ entry[r] = "loading" /\ UNCHANGED disk
          /\ \E v : writing' = [writing EXCEPT ![r] = v]
      BY <2>3 DEF StoreLoaded, StoreLoadRaised, Register
    <3> QED BY <2>1, <3>1
  <2>4. ASSUME NEW r \in Regions, NEW s \in Regions, BeginSave(r, s) PROVE Left(o)
    <3>1. /\ UnderWay(r) /\ s \in stores[fetch[r].stores] /\ UNCHANGED disk
          /\ \E v : writing' = [writing EXCEPT ![s] = v]
      BY <2>4 DEF BeginSave, UnderWay
    <3>2. mine[s].stores = fetch[r].stores /\ fetch[r].stores # 0
      BY <3>1, TypesOfParts DEF RegisteredOnce
    <3>3. entry[s] # "off"
      BY <3>2 DEF TypeOK, EntriesOK
    <3> QED BY <2>1, <3>1, <3>3
  <2>5. ASSUME NEW s \in Regions, NEW n \in 1..MaxResult, WriteEnds(s, n) \/ WriteFails(s, n)
        PROVE  Left(o)
    <3>1. /\ n \in writing[s] /\ writing' = [writing EXCEPT ![s] = @ \ {n}]
          /\ disk' = disk \/ disk' = [disk EXCEPT ![s] = n]
      BY <2>5 DEF WriteEnds, WriteFails
    <3> QED BY <2>1, <3>1
  <2>6. CASE UNCHANGED <<disk, writing>>
    BY <2>6
  <2> QED BY <2>2, <2>3, <2>4, <2>5, <2>6
<1> QED BY <1>1, InvHolds, PTL DEF Spec, UnloadedNotSaved
=============================================================================
